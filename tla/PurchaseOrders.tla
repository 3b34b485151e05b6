---------------------------- MODULE PurchaseOrders ----------------------------
(***************************************************************************)
(* Purchase orders and the approval workflow that decides them:            *)
(* ProcurementService, WorkflowService and their repositories.             *)
(*                                                                         *)
(* Submitting an order starts a workflow instance for the version of the   *)
(* order that the submission made (its operation key is the order and that *)
(* version), with a task for every approver of every level of the          *)
(* definition in force.  Levels run in parallel.  A decision locks the     *)
(* instance, and a decision that settles it also moves the order, by an    *)
(* UPDATE that checks the version the instance was started for; when the   *)
(* order has moved on, the whole decision is rolled back.                  *)
(*                                                                         *)
(* Submitting and cancelling read the order without a lock and write       *)
(* later.  A repeated decision key throws and changes nothing; delegation  *)
(* and activation of a definition always fail in SQL; an escalation only   *)
(* marks that it happened.                                                 *)
(***************************************************************************)
EXTENDS Integers, Sequences, FiniteSets

CONSTANTS Pos,          \* purchase order identifiers
          Users,        \* approvers
          Definitions,  \* workflow definitions that may be in force
          NoDefinition, \* no definition is in force for the branch
          NoRow,        \* "no such row"
          Clients,      \* concurrent submissions and cancellations
          MaxVersion    \* bound on the version of a purchase order

VARIABLES po,      \* procurement_purchase_orders
          inst,    \* workflow_instances with levels and tasks, by order and version
          active,  \* the definition getActiveDefinition finds
          call     \* what each client's call has read so far

vars == <<po, inst, active, call>>

\* A level may have no approver: nothing asks for one.
Level == [policy : {"ALL", "ANY"}, approvers : SUBSET Users]
Definition == [required : BOOLEAN, levels : Seq(Level)]

\* createDefinition refuses a definition that requires approval by no level.
ASSUME DefinitionsAssumption ==
    /\ \A d \in Definitions : d \in Definition /\ (d.required => d.levels # <<>>)
    /\ NoDefinition \notin Definitions

ASSUME MaxVersionAssumption == MaxVersion \in Nat \ {0}

Versions == 1 .. MaxVersion

OrderStatus == {"DRAFT", "SUBMITTED", "APPROVED", "REJECTED", "CANCELLED"}
InstanceStatus == {"RUNNING", "COMPLETED", "REJECTED", "CORRECTION_REQUESTED"}
TaskStatus == {"PENDING", "APPROVED", "REJECTED", "CORRECTION_REQUESTED"}

\* A row of each table; the tasks of an instance by level and approver.
Order == [status : OrderStatus, version : Versions]
Instance == [status : InstanceStatus, def : Definitions, done : SUBSET Nat,
             task : Seq(UNION {[approvers -> TaskStatus] : approvers \in SUBSET Users})]

ASSUME NoRowAssumption == NoRow \notin Order /\ NoRow \notin Instance

\* The transition table for orders, as far as routes reach it; what the workflow does
\* is not looked up in it.
Transitions == [s \in OrderStatus |->
                  CASE s = "DRAFT"     -> {"SUBMITTED", "CANCELLED"}
                    [] s = "SUBMITTED" -> {"CANCELLED"}
                    [] OTHER           -> {}]

Idle == [op |-> "idle"]

Init ==
    /\ po = [p \in Pos |-> NoRow]
    /\ inst = [i \in Pos \X Versions |-> NoRow]
    /\ active = NoDefinition
    /\ call = [c \in Clients |-> Idle]

-----------------------------------------------------------------------------
(* Purchase orders                                                         *)

\* The repository's createPurchaseOrder, for a supplier that is there.
InsertPurchaseOrder(p) ==
    /\ po[p] = NoRow
    /\ po' = [po EXCEPT ![p] = [status |-> "DRAFT", version |-> 1]]

CreatePurchaseOrder(p) ==
    /\ InsertPurchaseOrder(p)
    /\ UNCHANGED <<inst, active, call>>

\* The repository's update: one guarded UPDATE.
WriteDraft(p) ==
    /\ po[p] # NoRow /\ po[p].status = "DRAFT"
    /\ po' = [po EXCEPT ![p].version = @ + 1]

\* updatePurchaseOrder, by the caller that has the current version.
UpdatePurchaseOrder(p) ==
    /\ po[p] # NoRow => po[p].version < MaxVersion
    /\ WriteDraft(p)
    /\ UNCHANGED <<inst, active, call>>

\* transition: the unlocked read and the look at the table.  The caller names the
\* version it last saw.
BeginTransition(c, p, to) ==
    /\ call[c] = Idle
    /\ po[p] # NoRow /\ po[p].version + 2 <= MaxVersion
    /\ to \in Transitions[po[p].status]
    /\ \E v \in 1 .. po[p].version :
          call' = [call EXCEPT ![c] = [op |-> to, order |-> p, expected |-> v]]
    /\ UNCHANGED <<po, inst, active>>

VersionIgnored(p, v) == TRUE  \* mutant: UPDATE without the version guard

\* The guard of the UPDATE in the repository's transition.
VersionMatches(p, v) == po[p].version = v

\* UPDATE ... SET status, version = version + 1, and what a further UPDATE adds.
Moved(p, to, steps) == [po EXCEPT ![p] = [status |-> to, version |-> po[p].version + steps]]

Answer(c) == call' = [call EXCEPT ![c] = Idle]

\* createInstance: a task for each approver of each level.
NewInstance(d) ==
    [status |-> "RUNNING", def |-> d, done |-> {},
     task   |-> [n \in DOMAIN d.levels |->
                   [u \in d.levels[n].approvers |-> "PENDING"]]]

\* onDocumentSubmitted, in the transaction of the submission of p as version v.
StartWorkflow(p, v) ==
    IF active # NoDefinition /\ active.required
    THEN /\ po' = Moved(p, "SUBMITTED", 1)
         /\ inst' = IF inst[<<p, v>>] # NoRow THEN inst
                    ELSE [inst EXCEPT ![<<p, v>>] = NewInstance(active)]
    ELSE /\ po' = IF active = NoDefinition THEN Moved(p, "SUBMITTED", 1)
                                           ELSE Moved(p, "APPROVED", 2)
         /\ UNCHANGED inst

EndSubmit(c) ==
    /\ call[c].op = "SUBMITTED"
    /\ LET p == call[c].order IN
       IF VersionMatches(p, call[c].expected)
       THEN StartWorkflow(p, po[p].version + 1)
       ELSE UNCHANGED <<po, inst>>
    /\ Answer(c)
    /\ UNCHANGED active

\* cancelPurchaseOrder: the workflow is not told.
EndCancel(c) ==
    /\ call[c].op = "CANCELLED"
    /\ LET p == call[c].order IN
       po' = IF VersionMatches(p, call[c].expected) THEN Moved(p, "CANCELLED", 1) ELSE po
    /\ Answer(c)
    /\ UNCHANGED <<inst, active>>

\* A crash, a lost connection or a timeout: the transaction is rolled back.
Fail(c) ==
    /\ call[c] # Idle
    /\ Answer(c)
    /\ UNCHANGED <<po, inst, active>>

-----------------------------------------------------------------------------
(* Decisions.  i is the instance's <<order, order version>>, n a level.    *)
(* The instance has a version too: a decider who does not name the current *)
(* one is refused, so the decisions modelled are by those who do.          *)

\* The decider has a task of the instance, and it has not been decided.  That the
\* instance is still RUNNING is not asked.
HasTask(i, n, u) ==
    /\ inst[i] # NoRow
    /\ n \in DOMAIN inst[i].task /\ u \in DOMAIN inst[i].task[n]
    /\ inst[i].task[n][u] = "PENDING"

OrderForgotten(i, to) == UNCHANGED po  \* mutant: the order is not moved with its instance

\* transitionPurchaseOrderFromWorkflow, or the conflict that rolls everything back.
MoveOrder(i, to) ==
    /\ VersionMatches(i[1], i[2])
    /\ po' = Moved(i[1], to, 1)

\* The task of u on level n is decided, and the instance stands accordingly.
Decided(x, n, u, decision, done, status) ==
    [status |-> status, def |-> x.def, done |-> done,
     task   |-> [x.task EXCEPT ![n][u] = decision]]

Adverse(i, n, u, taskStatus, orderStatus) ==
    /\ HasTask(i, n, u)
    /\ inst' = [inst EXCEPT ![i] = Decided(@, n, u, taskStatus, @.done, taskStatus)]
    /\ MoveOrder(i, orderStatus)
    /\ UNCHANGED <<active, call>>

Reject(i, n, u)  == Adverse(i, n, u, "REJECTED", "REJECTED")
Correct(i, n, u) == Adverse(i, n, u, "CORRECTION_REQUESTED", "DRAFT")

LevelSettledByOne(i, n, u) == TRUE  \* mutant: the first approval completes any level

\* An approval by u completes level n: of an ANY level at once, of an ALL level when no
\* other task of it is pending.
LevelSettled(i, n, u) ==
    \/ inst[i].def.levels[n].policy = "ANY"
    \/ \A w \in DOMAIN inst[i].task[n] \ {u} : inst[i].task[n][w] # "PENDING"

\* What an approval makes of the instance: settled when every level is.
Outcome(all) == IF all THEN "COMPLETED" ELSE "RUNNING"

Approve(i, n, u) ==
    /\ HasTask(i, n, u)
    /\ LET done == inst[i].done \cup (IF LevelSettled(i, n, u) THEN {n} ELSE {})
           all == done = DOMAIN inst[i].task
       IN  /\ inst' = [inst EXCEPT ![i] = Decided(@, n, u, "APPROVED", done, Outcome(all))]
           /\ IF all THEN MoveOrder(i, "APPROVED") ELSE UNCHANGED po
    /\ UNCHANGED <<active, call>>

\* A definition takes effect, expires or is replaced.
ChangeDefinition(d) ==
    /\ active' = d
    /\ UNCHANGED <<po, inst, call>>

-----------------------------------------------------------------------------
Instances == Pos \X Versions

Decide(i) ==
    /\ inst[i] # NoRow
    /\ \E n \in DOMAIN inst[i].task : \E u \in Users :
          Approve(i, n, u) \/ Reject(i, n, u) \/ Correct(i, n, u)

Next ==
    \/ \E p \in Pos : CreatePurchaseOrder(p) \/ UpdatePurchaseOrder(p)
    \/ \E c \in Clients, p \in Pos, to \in OrderStatus : BeginTransition(c, p, to)
    \/ \E c \in Clients : EndSubmit(c) \/ EndCancel(c) \/ Fail(c)
    \/ \E i \in Instances : Decide(i)
    \/ \E d \in Definitions \cup {NoDefinition} : ChangeDefinition(d)

Spec == Init /\ [][Next]_vars

-----------------------------------------------------------------------------
IsInstance(x) ==
    /\ x \in Instance
    /\ x.done \subseteq DOMAIN x.def.levels
    /\ DOMAIN x.task = DOMAIN x.def.levels
    /\ \A n \in DOMAIN x.task : x.task[n] \in [x.def.levels[n].approvers -> TaskStatus]

TypeOK ==
    /\ po \in [Pos -> Order \cup {NoRow}]
    /\ DOMAIN inst = Instances
    /\ \A i \in Instances : inst[i] = NoRow \/ IsInstance(inst[i])
    /\ active \in Definitions \cup {NoDefinition}
    /\ call \in [Clients -> {Idle} \cup [op : {"SUBMITTED", "CANCELLED"}, order : Pos,
                                         expected : Versions]]

\* Level n of instance x is satisfied, by the decisions themselves.
Accepted(x, n) ==
    LET approved == {u \in DOMAIN x.task[n] : x.task[n][u] = "APPROVED"}
    IN  approved # {} /\ (x.def.levels[n].policy = "ALL" => approved = DOMAIN x.task[n])

\* ADR-0043: an order becomes APPROVED only when it is submitted under a definition that
\* asks for no approval, or when every level of the instance started for exactly the
\* submitted version is satisfied; no edit, cancellation, correction or rejection in
\* between, and no decision on an older instance, can bring an approval about.
ApprovedAsAccepted ==
    [][\A p \in Pos :
         (po[p] # NoRow /\ po[p].status # "APPROVED" /\ po'[p].status = "APPROVED")
         => \/ po[p].status = "DRAFT" /\ active # NoDefinition /\ ~active.required
            \/ /\ po[p].status = "SUBMITTED"
               /\ LET x == inst'[<<p, po[p].version>>]
                  IN  /\ x # NoRow /\ x.status = "COMPLETED"
                      /\ \A n \in DOMAIN x.task : Accepted(x, n)]_vars

\* An order under approval can be brought to an end by its approvers: the instance of
\* its version is RUNNING, nobody has rejected it, and each level that is not yet
\* satisfied has a pending task, unless the definition gave it no approver.
SubmittedIsDecidable ==
    \A p \in Pos : (po[p] # NoRow /\ po[p].status = "SUBMITTED") =>
        LET x == inst[<<p, po[p].version>>] IN
        x # NoRow =>
            /\ x.status = "RUNNING"
            /\ \E n \in DOMAIN x.task : ~Accepted(x, n)
            /\ \A n \in DOMAIN x.task :
                  /\ \A u \in DOMAIN x.task[n] : x.task[n][u] \in {"PENDING", "APPROVED"}
                  /\ ~Accepted(x, n) =>
                         \/ DOMAIN x.task[n] = {}
                         \/ \E u \in DOMAIN x.task[n] : x.task[n][u] = "PENDING"

\* Whatever calls and decisions overlap, an order's status changes only along the
\* lifecycle, and APPROVED, REJECTED and CANCELLED are final.
OrderLifecycle ==
    [][\A p \in Pos : (po[p] # NoRow /\ po'[p] # po[p]) =>
          /\ po'[p].version > po[p].version
          /\ <<po[p].status, po'[p].status>> \in
                {<<"DRAFT", "DRAFT">>, <<"DRAFT", "SUBMITTED">>, <<"DRAFT", "APPROVED">>,
                 <<"DRAFT", "CANCELLED">>, <<"SUBMITTED", "APPROVED">>,
                 <<"SUBMITTED", "REJECTED">>, <<"SUBMITTED", "DRAFT">>,
                 <<"SUBMITTED", "CANCELLED">>}]_vars

\* ADR-0043: "Rejection permanently ends the current instance".  Another approver's
\* approval breaks it (PurchaseRejection.cfg).
RejectionEndsInstance ==
    [][\A i \in Instances :
         (inst[i] # NoRow /\ inst[i].status = "REJECTED") => inst'[i].status = "REJECTED"]_vars

=============================================================================
