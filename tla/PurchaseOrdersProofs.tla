------------------------ MODULE PurchaseOrdersProofs ------------------------
(***************************************************************************)
(* Theorems about PurchaseOrders, for any number of orders, approvers,     *)
(* levels, definitions and clients, and any bound on versions.             *)
(***************************************************************************)
EXTENDS PurchaseOrders, SequenceTheorems, TLAPS

\* A call names an order that is there and a version it has had.  While the
\* order still has that version, the call's transition is one of the table.
CallsFit ==
    \A c \in Clients :
        \/ call[c] = Idle
        \/ /\ call[c].op \in {"SUBMITTED", "CANCELLED"} /\ call[c].order \in Pos
           /\ po[call[c].order] \in Order
           /\ call[c].expected \in 1 .. po[call[c].order].version
           /\ call[c].expected + 2 <= MaxVersion
           /\ po[call[c].order].version = call[c].expected =>
                  call[c].op \in Transitions[po[call[c].order].status]

\* An instance on which nobody decided against the order: the levels recorded
\* as done are those its approvers accepted, and there is one to come.
Live(x) ==
    /\ x.status = "RUNNING"
    /\ \A n \in DOMAIN x.task : \A u \in DOMAIN x.task[n] : x.task[n][u] \in {"PENDING", "APPROVED"}
    /\ x.done = {n \in DOMAIN x.task : Accepted(x, n)}
    /\ x.done # DOMAIN x.task

\* Instances exist for versions their order has had, and the one for its
\* present version, if any, is live and keeps the order SUBMITTED.
InstancesFit ==
    \A p \in Pos, v \in Versions :
        inst[<<p, v>>] # NoRow =>
            /\ po[p] \in Order /\ v <= po[p].version /\ v < MaxVersion
            /\ po[p].version = v => po[p].status = "SUBMITTED" /\ Live(inst[<<p, v>>])

\* The inductive invariant.
IInv == TypeOK /\ CallsFit /\ InstancesFit

-----------------------------------------------------------------------------
(* Instances. *)

\* The decisions of the tasks of one level.
LevelTasks == UNION {[approvers -> TaskStatus] : approvers \in SUBSET Users}

\* The levels of a definition form a sequence.
LEMMA DefinitionLevels ==
    ASSUME NEW d \in Definitions
    PROVE  /\ d.levels \in Seq(Level)
           /\ \A n \in DOMAIN d.levels :
                  /\ d.levels[n].policy \in {"ALL", "ANY"}
                  /\ d.levels[n].approvers \in SUBSET Users
<1>1. d.levels \in Seq(Level)
  BY DefinitionsAssumption DEF Definition
<1>2. d.levels \in [1 .. Len(d.levels) -> Level]
  BY <1>1, LenProperties
<1>3. \A n \in DOMAIN d.levels : d.levels[n] \in Level
  BY <1>2
<1>4. QED
  BY <1>1, <1>3 DEF Level

\* The tasks of an instance lie on the levels of its definition.
LEMMA InstanceTasks ==
    ASSUME NEW x, IsInstance(x)
    PROVE  /\ x \in Instance /\ x.def \in Definitions
           /\ x.task \in Seq(LevelTasks) /\ DOMAIN x.task = DOMAIN x.def.levels
           /\ DOMAIN x.task \subseteq Nat
           /\ \A n \in DOMAIN x.task :
                  /\ x.task[n] \in [DOMAIN x.task[n] -> TaskStatus]
                  /\ DOMAIN x.task[n] = x.def.levels[n].approvers
                  /\ DOMAIN x.task[n] \subseteq Users
                  /\ x.def.levels[n].policy \in {"ALL", "ANY"}
<1>1. x \in Instance /\ x.def \in Definitions /\ x.task \in Seq(LevelTasks)
  BY DEF IsInstance, Instance, LevelTasks
<1>2. DOMAIN x.task = DOMAIN x.def.levels
  BY DEF IsInstance
<1>3. DOMAIN x.task = 1 .. Len(x.task) /\ Len(x.task) \in Nat
  BY <1>1, LenProperties
<1>4. ASSUME NEW n \in DOMAIN x.task
      PROVE  /\ x.task[n] \in [DOMAIN x.task[n] -> TaskStatus]
             /\ DOMAIN x.task[n] = x.def.levels[n].approvers
    BY DEF IsInstance
<1>5. \A n \in DOMAIN x.def.levels :
          x.def.levels[n].policy \in {"ALL", "ANY"} /\ x.def.levels[n].approvers \in SUBSET Users
  <2> DEFINE d == x.def
  <2>1. d \in Definitions
    BY <1>1
  <2> HIDE DEF d
  <2>2. \A n \in DOMAIN d.levels :
            d.levels[n].policy \in {"ALL", "ANY"} /\ d.levels[n].approvers \in SUBSET Users
    BY <2>1, DefinitionLevels
  <2>3. QED
    BY <2>2 DEF d
<1>6. DOMAIN x.task \subseteq Nat
  BY <1>3
<1>7. QED
  BY <1>1, <1>2, <1>4, <1>5, <1>6

\* A new instance has every task pending, so it is live.
LEMMA NewInstanceLives ==
    ASSUME NEW d \in Definitions, d.required
    PROVE  IsInstance(NewInstance(d)) /\ Live(NewInstance(d))
<1> DEFINE x == NewInstance(d)
           tasks == [n \in DOMAIN d.levels |-> [u \in d.levels[n].approvers |-> "PENDING"]]
<1>1. x = [status |-> "RUNNING", def |-> d, done |-> {}, task |-> tasks]
  BY DEF NewInstance
<1>2. /\ d.levels # <<>> /\ d.levels \in Seq(Level)
      /\ DOMAIN d.levels = 1 .. Len(d.levels) /\ Len(d.levels) \in Nat \ {0}
  BY DefinitionLevels, DefinitionsAssumption, LenProperties, EmptySeq
<1>3. ASSUME NEW n \in DOMAIN d.levels
      PROVE  /\ tasks[n] \in [d.levels[n].approvers -> TaskStatus]
             /\ tasks[n] \in LevelTasks
             /\ d.levels[n].policy \in {"ALL", "ANY"}
  BY DefinitionLevels DEF LevelTasks, TaskStatus
<1>4. tasks \in Seq(LevelTasks)
  <2>1. tasks \in [1 .. Len(d.levels) -> LevelTasks]
    BY <1>2, <1>3
  <2>2. QED
    BY <1>2, <2>1, SeqDef
<1> HIDE DEF tasks
<1>5. x \in Instance
  BY <1>1, <1>4 DEF Instance, InstanceStatus, LevelTasks
<1>6. DOMAIN tasks = DOMAIN d.levels
  BY DEF tasks
<1>7. x.status = "RUNNING" /\ x.def = d /\ x.done = {} /\ x.task = tasks
  BY <1>1
<1> HIDE DEF x
<1>8. IsInstance(x)
  BY <1>3, <1>5, <1>6, <1>7 DEF IsInstance
<1>9. \A n \in DOMAIN x.task : \A u \in DOMAIN x.task[n] : x.task[n][u] = "PENDING"
  BY <1>6, <1>7 DEF tasks
<1>10. \A n \in DOMAIN x.task : ~Accepted(x, n)
  BY <1>9 DEF Accepted
<1>11. 1 \in DOMAIN x.task
  BY <1>2, <1>6, <1>7
<1>12. Live(x)
  BY <1>7, <1>9, <1>10, <1>11 DEF Live
<1>13. QED
  BY <1>8, <1>12 DEF x

\* Of the tasks of x, y has another decision of u on level n and no other change.
TaskDecided(x, y, n, u, decision) ==
    /\ DOMAIN y.task = DOMAIN x.task
    /\ \A m \in DOMAIN x.task : DOMAIN y.task[m] = DOMAIN x.task[m]
    /\ y.task[n][u] = decision
    /\ \A w \in DOMAIN x.task[n] \ {u} : y.task[n][w] = x.task[n][w]
    /\ \A m \in DOMAIN x.task \ {n} : y.task[m] = x.task[m]

\* A decision changes one task.
LEMMA DecidedInstance ==
    ASSUME NEW x, IsInstance(x), NEW n \in DOMAIN x.task, NEW u \in DOMAIN x.task[n],
           NEW decision \in TaskStatus, NEW done \in SUBSET (DOMAIN x.task),
           NEW status \in InstanceStatus,
           NEW y, y = Decided(x, n, u, decision, done, status)
    PROVE  /\ IsInstance(y) /\ y.def = x.def /\ y.done = done /\ y.status = status
           /\ TaskDecided(x, y, n, u, decision)
<1> DEFINE level == [x.task[n] EXCEPT ![u] = decision]
           tasks == [x.task EXCEPT ![n] = level]
<1>1. /\ x \in Instance /\ x.def \in Definitions
      /\ x.task \in Seq(LevelTasks) /\ DOMAIN x.task = DOMAIN x.def.levels
      /\ DOMAIN x.task \subseteq Nat
      /\ \A m \in DOMAIN x.task :
             /\ x.task[m] \in [DOMAIN x.task[m] -> TaskStatus]
             /\ DOMAIN x.task[m] = x.def.levels[m].approvers
             /\ DOMAIN x.task[m] \subseteq Users
  BY InstanceTasks
<1>2. y = [status |-> status, def |-> x.def, done |-> done, task |-> tasks]
  BY DEF Decided
<1>3. /\ level \in [DOMAIN x.task[n] -> TaskStatus]
      /\ \A w \in DOMAIN x.task[n] : level[w] = IF w = u THEN decision ELSE x.task[n][w]
  BY <1>1
<1>4. level \in LevelTasks
  BY <1>1, <1>3 DEF LevelTasks
<1> HIDE DEF level
<1>5. DOMAIN tasks = DOMAIN x.task
      /\ \A m \in DOMAIN x.task : tasks[m] = IF m = n THEN level ELSE x.task[m]
  BY <1>1, LenProperties
<1>6. tasks \in Seq(LevelTasks)
  BY <1>1, <1>4, ExceptSeq, LenProperties
<1> HIDE DEF tasks
<1>7. y.status = status /\ y.def = x.def /\ y.done = done /\ y.task = tasks
  BY <1>2
<1>8. y \in Instance
  BY <1>1, <1>2, <1>6 DEF Instance, LevelTasks
<1>9. \A m \in DOMAIN tasks : tasks[m] \in [x.def.levels[m].approvers -> TaskStatus]
  BY <1>1, <1>3, <1>5
<1>10. IsInstance(y)
  BY <1>1, <1>5, <1>7, <1>8, <1>9 DEF IsInstance
<1>11. TaskDecided(x, y, n, u, decision)
  BY <1>3, <1>5, <1>7 DEF TaskDecided
<1>12. QED
  BY <1>7, <1>10, <1>11

\* A level is accepted by one approval at least, and ALL by every approver's.
LEMMA AcceptedMeans ==
    ASSUME NEW x, NEW n
    PROVE  Accepted(x, n) <=>
               /\ \E u \in DOMAIN x.task[n] : x.task[n][u] = "APPROVED"
               /\ x.def.levels[n].policy = "ALL" =>
                      \A u \in DOMAIN x.task[n] : x.task[n][u] = "APPROVED"
<1> DEFINE approved == {u \in DOMAIN x.task[n] : x.task[n][u] = "APPROVED"}
<1>1. approved # {} <=> \E u \in DOMAIN x.task[n] : x.task[n][u] = "APPROVED"
  OBVIOUS
<1>2. approved = DOMAIN x.task[n] <=> \A u \in DOMAIN x.task[n] : x.task[n][u] = "APPROVED"
  OBVIOUS
<1>3. QED
  BY <1>1, <1>2 DEF Accepted

\* LevelSettled, of an instance.
Completes(x, n, u) ==
    \/ x.def.levels[n].policy = "ANY"
    \/ \A w \in DOMAIN x.task[n] \ {u} : x.task[n][w] # "PENDING"

\* With one more approval a level is accepted if it was, or if that completes it.
LEMMA LevelAccepted ==
    ASSUME NEW x, NEW y, NEW n, NEW u \in DOMAIN x.task[n],
           x.def.levels[n].policy \in {"ALL", "ANY"}, y.def = x.def,
           \A w \in DOMAIN x.task[n] : x.task[n][w] \in {"PENDING", "APPROVED"},
           x.task[n][u] = "PENDING", y.task[n][u] = "APPROVED",
           DOMAIN y.task[n] = DOMAIN x.task[n],
           \A w \in DOMAIN x.task[n] \ {u} : y.task[n][w] = x.task[n][w]
    PROVE  Accepted(y, n) <=> Completes(x, n, u) \/ Accepted(x, n)
<1>1. CASE x.def.levels[n].policy = "ANY"
  BY <1>1 DEF Accepted, Completes
<1>2. CASE x.def.levels[n].policy = "ALL"
  <2>1. ~Accepted(x, n)
    BY <1>2 DEF Accepted
  <2>2. Completes(x, n, u) <=> \A w \in DOMAIN x.task[n] \ {u} : x.task[n][w] = "APPROVED"
    BY <1>2 DEF Completes
  <2>3. Accepted(y, n) <=> \A w \in DOMAIN x.task[n] : y.task[n][w] = "APPROVED"
    BY <1>2 DEF Accepted
  <2>4. QED
    BY <2>1, <2>2, <2>3
<1>3. QED
  BY <1>1, <1>2

\* y is x with the levels done: live, unless that is all of them.
DoneSoFar(x, y, done) ==
    /\ DOMAIN y.task = DOMAIN x.task
    /\ done = {m \in DOMAIN y.task : Accepted(y, m)}
    /\ done # DOMAIN x.task => Live(y)

\* An approval on a live instance records exactly the levels it completes:
\* the instance stays live, or every level is accepted.
LEMMA ApprovalCounts ==
    ASSUME NEW x, IsInstance(x), Live(x),
           NEW n \in DOMAIN x.task, NEW u \in DOMAIN x.task[n], x.task[n][u] = "PENDING",
           NEW done, done = x.done \cup (IF Completes(x, n, u) THEN {n} ELSE {}),
           NEW status \in InstanceStatus, done # DOMAIN x.task => status = "RUNNING",
           NEW y, y = Decided(x, n, u, "APPROVED", done, status)
    PROVE  DoneSoFar(x, y, done)
<1>1. done \in SUBSET (DOMAIN x.task) /\ x.done = {m \in DOMAIN x.task : Accepted(x, m)}
  BY DEF Live
<1>2. "APPROVED" \in TaskStatus
  BY DEF TaskStatus
<1>3. /\ IsInstance(y) /\ y.def = x.def /\ y.done = done /\ y.status = status
      /\ TaskDecided(x, y, n, u, "APPROVED")
  BY <1>1, <1>2, DecidedInstance
<1>4. \A m \in DOMAIN x.task : \A w \in DOMAIN x.task[m] : x.task[m][w] \in {"PENDING", "APPROVED"}
  BY DEF Live
<1>5. x.def.levels[n].policy \in {"ALL", "ANY"}
  BY InstanceTasks
<1>6. /\ y.task[n][u] = "APPROVED" /\ DOMAIN y.task[n] = DOMAIN x.task[n]
      /\ \A w \in DOMAIN x.task[n] \ {u} : y.task[n][w] = x.task[n][w]
  BY <1>3 DEF TaskDecided
<1>7. /\ DOMAIN y.task = DOMAIN x.task
      /\ \A m \in DOMAIN x.task \ {n} : y.task[m] = x.task[m]
  BY <1>3 DEF TaskDecided
<1>8. ASSUME NEW m \in DOMAIN x.task \ {n} PROVE Accepted(y, m) <=> Accepted(x, m)
  <2>1. y.def = x.def /\ y.task[m] = x.task[m]
    BY <1>3, <1>7
  <2>2. QED
    BY <2>1, AcceptedMeans
<1>9. Accepted(y, n) <=> Completes(x, n, u) \/ Accepted(x, n)
  BY <1>3, <1>4, <1>5, <1>6, LevelAccepted
<1>10. done = {m \in DOMAIN y.task : Accepted(y, m)}
  <2>1. \A m \in DOMAIN x.task : m \in done <=> Accepted(y, m)
    BY <1>1, <1>8, <1>9
  <2>2. QED
    BY <1>1, <1>7, <2>1
<1>11. ASSUME done # DOMAIN x.task PROVE Live(y)
  <2>1. ASSUME NEW m \in DOMAIN x.task, NEW w \in DOMAIN y.task[m]
        PROVE  y.task[m][w] \in {"PENDING", "APPROVED"}
    <3>1. CASE m = n
      BY <1>4, <1>6, <3>1
    <3>2. CASE m # n
      BY <1>4, <1>7, <3>2
    <3>3. QED
      BY <3>1, <3>2
  <2>2. \A m \in DOMAIN y.task : \A w \in DOMAIN y.task[m] : y.task[m][w] \in {"PENDING", "APPROVED"}
    BY <1>7, <2>1
  <2>3. y.status = "RUNNING" /\ y.done # DOMAIN y.task
    BY <1>3, <1>7, <1>11
  <2>4. y.done = {m \in DOMAIN y.task : Accepted(y, m)}
    BY <1>3, <1>10
  <2>5. QED
    BY <2>2, <2>3, <2>4, Zenon DEF Live
<1>12. QED
  BY <1>7, <1>10, <1>11 DEF DoneSoFar

\* A live instance can be brought to an end by its approvers.
LEMMA LiveDecidable ==
    ASSUME NEW x, IsInstance(x), Live(x)
    PROVE  /\ x.status = "RUNNING"
           /\ \E n \in DOMAIN x.task : ~Accepted(x, n)
           /\ \A n \in DOMAIN x.task :
                 /\ \A u \in DOMAIN x.task[n] : x.task[n][u] \in {"PENDING", "APPROVED"}
                 /\ ~Accepted(x, n) =>
                        \/ DOMAIN x.task[n] = {}
                        \/ \E u \in DOMAIN x.task[n] : x.task[n][u] = "PENDING"
<1>1. \E n \in DOMAIN x.task : ~Accepted(x, n)
  BY DEF Live
<1>2. ASSUME NEW n \in DOMAIN x.task, ~Accepted(x, n), DOMAIN x.task[n] # {}
      PROVE  \E u \in DOMAIN x.task[n] : x.task[n][u] = "PENDING"
  <2>1. \A u \in DOMAIN x.task[n] : x.task[n][u] \in {"PENDING", "APPROVED"}
    BY DEF Live
  <2>2. \E u \in DOMAIN x.task[n] : x.task[n][u] # "APPROVED"
    BY <1>2 DEF Accepted
  <2>3. QED
    BY <2>1, <2>2
<1>3. QED
  BY <1>1, <1>2 DEF Live

-----------------------------------------------------------------------------
(* Steps.  Lifecycle and Approvals are what OrderLifecycle and             *)
(* ApprovedAsAccepted say of one step.                                     *)

Lifecycle ==
    \A p \in Pos : (po[p] # NoRow /\ po'[p] # po[p]) =>
        /\ po'[p].version > po[p].version
        /\ <<po[p].status, po'[p].status>> \in
              {<<"DRAFT", "DRAFT">>, <<"DRAFT", "SUBMITTED">>, <<"DRAFT", "APPROVED">>,
               <<"DRAFT", "CANCELLED">>, <<"SUBMITTED", "APPROVED">>,
               <<"SUBMITTED", "REJECTED">>, <<"SUBMITTED", "DRAFT">>,
               <<"SUBMITTED", "CANCELLED">>}

ApprovalOf(p) ==
    \/ po[p].status = "DRAFT" /\ active # NoDefinition /\ ~active.required
    \/ /\ po[p].status = "SUBMITTED"
       /\ LET x == inst'[<<p, po[p].version>>]
          IN  /\ x # NoRow /\ x.status = "COMPLETED"
              /\ \A n \in DOMAIN x.task : Accepted(x, n)

Approvals ==
    \A p \in Pos :
        (po[p] # NoRow /\ po[p].status # "APPROVED" /\ po'[p].status = "APPROVED") => ApprovalOf(p)

\* The steps of an order from one status to another.
Along(from, to) ==
    \/ from = "DRAFT" /\ to \in {"DRAFT", "SUBMITTED", "APPROVED", "CANCELLED"}
    \/ from = "SUBMITTED" /\ to \in {"APPROVED", "REJECTED", "DRAFT", "CANCELLED"}

\* A step that leaves the orders alone.
LEMMA OrdersStand == po' = po => Lifecycle /\ Approvals
  BY DEF Lifecycle, Approvals

\* A call ends, or stays what it is.
Answers == call' \in [Clients -> {Idle} \cup [op : {"SUBMITTED", "CANCELLED"}, order : Pos,
                                             expected : Versions]]
           /\ \A c \in Clients : call'[c] \in {call[c], Idle}

\* One order moves on to a later version.  Instances of other orders stand;
\* those of the order itself were decided on, or start with that version.
LEMMA OrderMoves ==
    ASSUME IInv, NEW p \in Pos, NEW row \in Order, po[p] \in Order,
           po' = [po EXCEPT ![p] = row], row.version > po[p].version,
           Along(po[p].status, row.status),
           row.status = "APPROVED" => ApprovalOf(p),
           Answers, active' = active, DOMAIN inst' = Instances,
           \A q \in Pos, v \in Versions :
               \/ inst'[<<q, v>>] = inst[<<q, v>>]
               \/ /\ q = p /\ IsInstance(inst'[<<q, v>>])
                  /\ \/ inst[<<q, v>>] # NoRow
                     \/ /\ v = row.version /\ v < MaxVersion
                        /\ row.status = "SUBMITTED" /\ Live(inst'[<<q, v>>])
    PROVE  IInv' /\ Lifecycle /\ Approvals
<1>1. TypeOK /\ CallsFit /\ InstancesFit
  BY DEF IInv
<1>2. po' \in [Pos -> Order \cup {NoRow}] /\ po'[p] = row
      /\ \A q \in Pos \ {p} : po'[q] = po[q]
  BY <1>1 DEF TypeOK
<1>3. row.version \in Nat /\ po[p].version \in Nat /\ MaxVersion \in Nat
  BY MaxVersionAssumption DEF Order, Versions
<1>4. \A i \in Instances : inst'[i] = NoRow \/ IsInstance(inst'[i])
  <2>1. ASSUME NEW q \in Pos, NEW v \in Versions
        PROVE  inst'[<<q, v>>] = NoRow \/ IsInstance(inst'[<<q, v>>])
    <3>1. inst[<<q, v>>] = NoRow \/ IsInstance(inst[<<q, v>>])
      BY <1>1 DEF TypeOK, Instances
    <3>2. QED
      BY <3>1
  <2>2. QED
    BY <2>1 DEF Instances
<1>5. TypeOK'
  BY <1>1, <1>2, <1>4 DEF TypeOK, Answers
<1>6. CallsFit'
  <2>1. ASSUME NEW c \in Clients, call'[c] # Idle
        PROVE  /\ call'[c].op \in {"SUBMITTED", "CANCELLED"} /\ call'[c].order \in Pos
               /\ po'[call'[c].order] \in Order
               /\ call'[c].expected \in 1 .. po'[call'[c].order].version
               /\ call'[c].expected + 2 <= MaxVersion
               /\ po'[call'[c].order].version = call'[c].expected =>
                      call'[c].op \in Transitions[po'[call'[c].order].status]
    <3>1. call'[c] = call[c] /\ call[c] # Idle
      BY <2>1 DEF Answers
    <3>2. /\ call[c].op \in {"SUBMITTED", "CANCELLED"} /\ call[c].order \in Pos
          /\ po[call[c].order] \in Order
          /\ call[c].expected \in 1 .. po[call[c].order].version
          /\ call[c].expected + 2 <= MaxVersion
          /\ po[call[c].order].version = call[c].expected =>
                 call[c].op \in Transitions[po[call[c].order].status]
      BY <1>1, <3>1 DEF CallsFit
    <3>3. CASE call[c].order = p
      BY <1>2, <1>3, <3>1, <3>2, <3>3
    <3>4. CASE call[c].order # p
      BY <1>2, <3>1, <3>2, <3>4
    <3>5. QED
      BY <3>3, <3>4
  <2>2. QED
    BY <2>1 DEF CallsFit
<1>7. InstancesFit'
  <2>1. ASSUME NEW q \in Pos, NEW v \in Versions, inst'[<<q, v>>] # NoRow
        PROVE  /\ po'[q] \in Order /\ v <= po'[q].version /\ v < MaxVersion
               /\ po'[q].version = v => po'[q].status = "SUBMITTED" /\ Live(inst'[<<q, v>>])
    <3>1. inst[<<q, v>>] # NoRow =>
            /\ po[q] \in Order /\ v <= po[q].version /\ v < MaxVersion
            /\ po[q].version = v => po[q].status = "SUBMITTED" /\ Live(inst[<<q, v>>])
      BY <1>1 DEF InstancesFit
    <3>2. CASE q # p
      BY <1>2, <2>1, <3>1, <3>2
    <3>3. CASE q = p /\ inst[<<q, v>>] # NoRow
      <4>1. v <= po[p].version /\ v < row.version /\ v < MaxVersion
        BY <1>3, <3>1, <3>3 DEF Versions
      <4>2. QED
        BY <1>2, <1>3, <3>3, <4>1 DEF Versions
    <3>4. CASE q = p /\ inst[<<q, v>>] = NoRow
      <4>1. v = row.version /\ v < MaxVersion /\ row.status = "SUBMITTED" /\ Live(inst'[<<q, v>>])
        BY <2>1, <3>4
      <4>2. QED
        BY <1>2, <1>3, <3>4, <4>1
    <3>5. QED
      BY <3>2, <3>3, <3>4
  <2>2. QED
    BY <2>1 DEF InstancesFit, Live
<1>8. Lifecycle
  BY <1>2 DEF Lifecycle, Along
<1>9. Approvals
  BY <1>2 DEF Approvals
<1>10. QED
  BY <1>5, <1>6, <1>7, <1>8, <1>9 DEF IInv

\* Calls that do not move.
LEMMA CallsStand == TypeOK /\ call' = call => Answers
  BY DEF TypeOK, Answers

\* A call that ends, having moved its order or not.
LEMMA CallAnswered == ASSUME TypeOK, NEW c \in Clients, Answer(c) PROVE Answers
  BY DEF TypeOK, Answers, Answer

\* What is said of orders and instances stays true while both stand.
LEMMA InstancesStand == InstancesFit /\ UNCHANGED <<po, inst>> => InstancesFit'
<1> SUFFICES ASSUME InstancesFit, UNCHANGED <<po, inst>> PROVE InstancesFit'
  OBVIOUS
<1>1. ASSUME NEW p \in Pos, NEW v \in Versions, inst'[<<p, v>>] # NoRow
      PROVE  /\ po'[p] \in Order /\ v <= po'[p].version /\ v < MaxVersion
             /\ po'[p].version = v => po'[p].status = "SUBMITTED" /\ Live(inst'[<<p, v>>])
  BY <1>1 DEF InstancesFit
<1>2. QED
  BY <1>1 DEF InstancesFit, Live

\* A step that moves no order and no instance.
LEMMA OnlyCallsAnswered ==
    ASSUME IInv, UNCHANGED <<po, inst>>, Answers, active' \in Definitions \cup {NoDefinition}
    PROVE  IInv' /\ Lifecycle /\ Approvals
<1>1. TypeOK'
  BY DEF IInv, TypeOK, Answers
<1>2. CallsFit'
  BY DEF IInv, CallsFit, Answers
<1>3. InstancesFit'
  BY InstancesStand DEF IInv
<1>4. QED
  BY <1>1, <1>2, <1>3, OrdersStand DEF IInv

\* createPurchaseOrder: no call and no instance is of an order that was not there.
LEMMA CreateKeeps ==
    ASSUME IInv, NEW p \in Pos, CreatePurchaseOrder(p)
    PROVE  IInv' /\ Lifecycle /\ Approvals
<1>1. TypeOK /\ CallsFit /\ InstancesFit
  BY DEF IInv
<1> DEFINE row == [status |-> "DRAFT", version |-> 1]
<1>2. row \in Order /\ row.status = "DRAFT"
  BY MaxVersionAssumption DEF Order, OrderStatus, Versions
<1> HIDE DEF row
<1>3. po[p] = NoRow /\ po[p] \notin Order /\ po' = [po EXCEPT ![p] = row]
      /\ UNCHANGED <<inst, active, call>>
  BY NoRowAssumption DEF CreatePurchaseOrder, InsertPurchaseOrder, row
<1>4. /\ po' \in [Pos -> Order \cup {NoRow}]
      /\ \A q \in Pos \ {p} : po'[q] = po[q]
  BY <1>1, <1>2, <1>3 DEF TypeOK
<1>5. TypeOK'
  BY <1>1, <1>3, <1>4 DEF TypeOK
<1>6. \A c \in Clients : call[c] # Idle => call[c].order # p
  BY <1>1, <1>3 DEF CallsFit
<1>7. CallsFit'
  BY <1>1, <1>3, <1>4, <1>6 DEF CallsFit
<1>8. \A v \in Versions : inst[<<p, v>>] = NoRow
  BY <1>1, <1>3 DEF InstancesFit
<1>9. InstancesFit'
  <2>1. ASSUME NEW q \in Pos, NEW v \in Versions, inst'[<<q, v>>] # NoRow
        PROVE  /\ po'[q] \in Order /\ v <= po'[q].version /\ v < MaxVersion
               /\ po'[q].version = v => po'[q].status = "SUBMITTED" /\ Live(inst'[<<q, v>>])
    BY <1>1, <1>3, <1>4, <1>8, <2>1 DEF InstancesFit
  <2>2. QED
    BY <2>1 DEF InstancesFit, Live
<1>10. Lifecycle /\ Approvals
  BY <1>3, <1>4 DEF Lifecycle, Approvals
<1>11. QED
  BY <1>5, <1>7, <1>9, <1>10 DEF IInv

\* updatePurchaseOrder: a draft gets its next version.
LEMMA UpdateKeeps ==
    ASSUME IInv, NEW p \in Pos, UpdatePurchaseOrder(p)
    PROVE  IInv' /\ Lifecycle /\ Approvals
<1>1. TypeOK
  BY DEF IInv
<1>2. po[p] \in Order /\ po[p].status = "DRAFT" /\ po[p].version < MaxVersion
  BY <1>1 DEF UpdatePurchaseOrder, WriteDraft, TypeOK
<1> DEFINE row == [po[p] EXCEPT !.version = @ + 1]
<1>3. po' = [po EXCEPT ![p] = row] /\ UNCHANGED <<inst, active, call>>
  BY DEF UpdatePurchaseOrder, WriteDraft
<1>4. row \in Order /\ row.status = "DRAFT" /\ row.version = po[p].version + 1
  BY <1>2, MaxVersionAssumption DEF Order, Versions
<1> HIDE DEF row
<1>5. row.version > po[p].version
  BY <1>2, <1>4, MaxVersionAssumption DEF Order, Versions
<1>6. DOMAIN inst' = Instances /\ Answers /\ Along(po[p].status, row.status)
  BY <1>1, <1>2, <1>3, <1>4, CallsStand DEF TypeOK, Along
<1>7. QED
  BY <1>2, <1>3, <1>4, <1>5, <1>6, OrderMoves

\* transition reads the order: the call fits it.
LEMMA BeginKeeps ==
    ASSUME IInv, NEW c \in Clients, NEW p \in Pos, NEW to \in OrderStatus, BeginTransition(c, p, to)
    PROVE  IInv' /\ Lifecycle /\ Approvals
<1>1. TypeOK /\ CallsFit /\ InstancesFit
  BY DEF IInv
<1>2. PICK v \in 1 .. po[p].version :
          call' = [call EXCEPT ![c] = [op |-> to, order |-> p, expected |-> v]]
  BY DEF BeginTransition
<1> DEFINE k == [op |-> to, order |-> p, expected |-> v]
<1>3. /\ po[p] \in Order /\ po[p].version + 2 <= MaxVersion
      /\ to \in Transitions[po[p].status] /\ UNCHANGED <<po, inst, active>>
  BY <1>1 DEF BeginTransition, TypeOK
<1>4. to \in {"SUBMITTED", "CANCELLED"}
  BY <1>3 DEF Transitions, Order, OrderStatus
<1>5. v \in Versions /\ v + 2 <= MaxVersion
  BY <1>3, MaxVersionAssumption DEF Order, Versions
<1>6. k.op = to /\ k.order = p /\ k.expected = v
      /\ k \in [op : {"SUBMITTED", "CANCELLED"}, order : Pos, expected : Versions]
  BY <1>4, <1>5
<1> HIDE DEF k
<1>7. call' = [call EXCEPT ![c] = k]
  BY <1>2 DEF k
<1>8. call'[c] = k /\ \A d \in Clients \ {c} : call'[d] = call[d]
  BY <1>1, <1>7 DEF TypeOK
<1>9. TypeOK'
  BY <1>1, <1>3, <1>6, <1>7 DEF TypeOK
<1>10. CallsFit'
  <2>1. ASSUME NEW d \in Clients, call'[d] # Idle
        PROVE  /\ call'[d].op \in {"SUBMITTED", "CANCELLED"} /\ call'[d].order \in Pos
               /\ po[call'[d].order] \in Order
               /\ call'[d].expected \in 1 .. po[call'[d].order].version
               /\ call'[d].expected + 2 <= MaxVersion
               /\ po[call'[d].order].version = call'[d].expected =>
                      call'[d].op \in Transitions[po[call'[d].order].status]
    <3>1. CASE d = c
      BY <1>3, <1>4, <1>5, <1>6, <1>8, <3>1
    <3>2. CASE d # c
      BY <1>1, <1>8, <2>1, <3>2 DEF CallsFit
    <3>3. QED
      BY <3>1, <3>2
  <2>2. QED
    BY <1>3, <2>1 DEF CallsFit
<1>11. InstancesFit'
  BY <1>1, <1>3, InstancesStand
<1>12. QED
  BY <1>3, <1>9, <1>10, <1>11, OrdersStand DEF IInv

\* A call that writes finds its order at the version it named.
LEMMA CallMatches ==
    ASSUME IInv, NEW c \in Clients, call[c] # Idle,
           NEW p, p = call[c].order, VersionMatches(p, call[c].expected)
    PROVE  /\ p \in Pos /\ po[p] \in Order
           /\ po[p].status \in {"DRAFT", "SUBMITTED"}
           /\ call[c].op = "SUBMITTED" => po[p].status = "DRAFT"
           /\ po[p].version \in Nat /\ po[p].version + 2 <= MaxVersion
<1>1. /\ p \in Pos /\ po[p] \in Order /\ call[c].op \in {"SUBMITTED", "CANCELLED"}
      /\ call[c].op \in Transitions[po[p].status]
      /\ po[p].version = call[c].expected /\ call[c].expected + 2 <= MaxVersion
  BY DEF IInv, CallsFit, VersionMatches
<1>2. po[p].status \in OrderStatus /\ po[p].version \in Nat
  BY <1>1, MaxVersionAssumption DEF Order, Versions
<1>3. po[p].status \in {"DRAFT", "SUBMITTED"}
      /\ (call[c].op = "SUBMITTED" => po[p].status = "DRAFT")
  BY <1>1, <1>2 DEF Transitions, OrderStatus
<1>4. QED
  BY <1>1, <1>2, <1>3

\* The row that moves an order is one.
LEMMA MovedRow ==
    ASSUME NEW p \in Pos, NEW to \in OrderStatus, NEW steps \in {1, 2}, po[p] \in Order,
           po[p].version + steps <= MaxVersion, NEW row,
           row = [status |-> to, version |-> po[p].version + steps]
    PROVE  /\ row \in Order /\ row.status = to /\ row.version = po[p].version + steps
           /\ row.version > po[p].version /\ Moved(p, to, steps) = [po EXCEPT ![p] = row]
<1>1. po[p].version \in Nat /\ po[p].version >= 1
  BY MaxVersionAssumption DEF Order, Versions
<1>2. po[p].version + steps \in Versions /\ po[p].version + steps > po[p].version
  BY <1>1, MaxVersionAssumption DEF Versions
<1>3. QED
  BY <1>2 DEF Moved, Order

\* submitPurchaseOrder and onDocumentSubmitted: the instance of the version that
\* the submission makes is new.
LEMMA SubmitKeeps ==
    ASSUME IInv, NEW c \in Clients, EndSubmit(c)
    PROVE  IInv' /\ Lifecycle /\ Approvals
<1> DEFINE p == call[c].order
<1>1. TypeOK /\ CallsFit /\ InstancesFit /\ Answers /\ active' = active
  BY CallAnswered DEF IInv, EndSubmit
<1>2. call[c].op = "SUBMITTED" /\ call[c] # Idle
  BY DEF EndSubmit, Idle
<1>3. CASE ~VersionMatches(p, call[c].expected)
  BY <1>1, <1>3, OnlyCallsAnswered DEF EndSubmit, TypeOK
<1>4. CASE VersionMatches(p, call[c].expected)
  <2> DEFINE v == po[p].version + 1
             i == <<p, v>>
  <2>1. /\ p \in Pos /\ po[p] \in Order /\ po[p].status = "DRAFT"
        /\ po[p].version \in Nat /\ po[p].version + 2 <= MaxVersion
    BY <1>2, <1>4, CallMatches
  <2>2. StartWorkflow(p, v)
    BY <1>4 DEF EndSubmit
  <2> HIDE DEF p
  <2>3. v \in Versions /\ v < MaxVersion /\ ~(v <= po[p].version)
    BY <2>1, MaxVersionAssumption DEF Versions
  <2>4. inst[i] = NoRow
    BY <1>1, <2>1, <2>3 DEF InstancesFit
  <2>5. CASE active # NoDefinition /\ active.required
    <3> DEFINE row == [status |-> "SUBMITTED", version |-> po[p].version + 1]
    <3>1. /\ row \in Order /\ row.status = "SUBMITTED" /\ row.version = v
          /\ row.version > po[p].version /\ Moved(p, "SUBMITTED", 1) = [po EXCEPT ![p] = row]
      <4>1. po[p].version + 1 <= MaxVersion /\ "SUBMITTED" \in OrderStatus
        BY <2>1, MaxVersionAssumption DEF OrderStatus
      <4>2. QED
        BY <2>1, <4>1, MovedRow
    <3> HIDE DEF row
    <3>2. po' = [po EXCEPT ![p] = row] /\ inst' = [inst EXCEPT ![i] = NewInstance(active)]
      BY <2>2, <2>4, <2>5, <3>1 DEF StartWorkflow
    <3>3. active \in Definitions
      BY <1>1, <2>5 DEF TypeOK
    <3>4. IsInstance(NewInstance(active)) /\ Live(NewInstance(active))
      BY <2>5, <3>3, NewInstanceLives
    <3>5. DOMAIN inst' = Instances
      BY <1>1, <3>2 DEF TypeOK
    <3>6. i \in Instances
      BY <2>1, <2>3 DEF Instances
    <3>7. \A q \in Pos, w \in Versions :
              \/ inst'[<<q, w>>] = inst[<<q, w>>]
              \/ q = p /\ w = v /\ inst'[<<q, w>>] = NewInstance(active)
      BY <1>1, <3>2, <3>6 DEF TypeOK, Instances
    <3>8. Along(po[p].status, row.status)
      BY <2>1, <3>1 DEF Along
    <3>9. \A q \in Pos, w \in Versions :
              \/ inst'[<<q, w>>] = inst[<<q, w>>]
              \/ /\ q = p /\ IsInstance(inst'[<<q, w>>])
                 /\ \/ inst[<<q, w>>] # NoRow
                    \/ /\ w = row.version /\ w < MaxVersion
                       /\ row.status = "SUBMITTED" /\ Live(inst'[<<q, w>>])
      BY <2>3, <3>1, <3>4, <3>7
    <3>10. row.status # "APPROVED"
      BY <3>1
    <3>11. QED
      BY <1>1, <2>1, <3>1, <3>2, <3>5, <3>8, <3>9, <3>10, OrderMoves
  <2>6. ASSUME NEW to \in {"SUBMITTED", "APPROVED"}, NEW steps \in {1, 2},
               po' = Moved(p, to, steps), inst' = inst,
               to = "APPROVED" => active # NoDefinition /\ ~active.required
        PROVE  IInv' /\ Lifecycle /\ Approvals
    <3> DEFINE row == [status |-> to, version |-> po[p].version + steps]
    <3>1. /\ row \in Order /\ row.status = to /\ row.version > po[p].version
          /\ Moved(p, to, steps) = [po EXCEPT ![p] = row]
      <4>1. po[p].version + steps <= MaxVersion /\ to \in OrderStatus
        BY <2>1, MaxVersionAssumption DEF OrderStatus
      <4>2. QED
        BY <2>1, <4>1, MovedRow
    <3> HIDE DEF row
    <3>2. Along(po[p].status, row.status) /\ (row.status = "APPROVED" => ApprovalOf(p))
      BY <2>1, <2>6, <3>1 DEF Along, ApprovalOf
    <3>3. DOMAIN inst' = Instances
      BY <1>1, <2>6 DEF TypeOK
    <3>4. QED
      BY <1>1, <2>1, <2>6, <3>1, <3>2, <3>3, OrderMoves
  <2>7. CASE active = NoDefinition
    BY <2>2, <2>6, <2>7 DEF StartWorkflow
  <2>8. CASE active # NoDefinition /\ ~active.required
    BY <2>2, <2>6, <2>8 DEF StartWorkflow
  <2>9. QED
    BY <2>5, <2>7, <2>8
<1>5. QED
  BY <1>3, <1>4

\* cancelPurchaseOrder.
LEMMA CancelKeeps ==
    ASSUME IInv, NEW c \in Clients, EndCancel(c)
    PROVE  IInv' /\ Lifecycle /\ Approvals
<1> DEFINE p == call[c].order
<1>1. TypeOK /\ Answers /\ UNCHANGED <<inst, active>>
  BY CallAnswered DEF IInv, EndCancel
<1>2. call[c] # Idle
  BY DEF EndCancel, Idle
<1>3. CASE ~VersionMatches(p, call[c].expected)
  BY <1>1, <1>3, OnlyCallsAnswered DEF EndCancel, TypeOK
<1>4. CASE VersionMatches(p, call[c].expected)
  <2> DEFINE row == [status |-> "CANCELLED", version |-> po[p].version + 1]
  <2>1. /\ p \in Pos /\ po[p] \in Order /\ po[p].status \in {"DRAFT", "SUBMITTED"}
        /\ po[p].version \in Nat /\ po[p].version + 2 <= MaxVersion
    BY <1>2, <1>4, CallMatches
  <2>2. po' = Moved(p, "CANCELLED", 1)
    BY <1>4 DEF EndCancel
  <2> HIDE DEF p
  <2>3. po[p].version + 1 <= MaxVersion /\ "CANCELLED" \in OrderStatus
    BY <2>1, MaxVersionAssumption DEF OrderStatus
  <2>4. /\ row \in Order /\ row.status = "CANCELLED" /\ row.version > po[p].version
        /\ po' = [po EXCEPT ![p] = row]
    BY <2>1, <2>2, <2>3, MovedRow
  <2> HIDE DEF row
  <2>5. Along(po[p].status, row.status) /\ DOMAIN inst' = Instances
    BY <1>1, <2>1, <2>4 DEF Along, TypeOK
  <2>6. QED
    BY <1>1, <2>1, <2>4, <2>5, OrderMoves
<1>5. QED
  BY <1>3, <1>4

-----------------------------------------------------------------------------
(* Decisions. *)

\* A decision is on an instance; while the order has that version, it is live.
LEMMA DecidableInstance ==
    ASSUME IInv, NEW p \in Pos, NEW v \in Versions, NEW x, x = inst[<<p, v>>], x # NoRow
    PROVE  /\ IsInstance(x) /\ po[p] \in Order /\ po[p].version \in Nat
           /\ v < MaxVersion /\ v <= po[p].version
           /\ po[p].version = v => po[p].status = "SUBMITTED" /\ Live(x)
<1>1. IsInstance(x)
  BY DEF IInv, TypeOK, Instances
<1>2. /\ po[p] \in Order /\ v < MaxVersion /\ v <= po[p].version
      /\ po[p].version = v => po[p].status = "SUBMITTED" /\ Live(x)
  BY DEF IInv, InstancesFit
<1>3. QED
  BY <1>1, <1>2, MaxVersionAssumption DEF Order, Versions

\* decide with REJECT or CORRECTION: the order leaves SUBMITTED with its version.
LEMMA AdverseKeeps ==
    ASSUME IInv, NEW p \in Pos, NEW v \in Versions, NEW n, NEW u,
           NEW decision \in {"REJECTED", "CORRECTION_REQUESTED"},
           NEW to \in {"REJECTED", "DRAFT"}, Adverse(<<p, v>>, n, u, decision, to)
    PROVE  IInv' /\ Lifecycle /\ Approvals
<1> DEFINE i == <<p, v>>
           x == inst[i]
           y == Decided(x, n, u, decision, x.done, decision)
<1>1. /\ x # NoRow /\ n \in DOMAIN x.task /\ u \in DOMAIN x.task[n]
      /\ inst' = [inst EXCEPT ![i] = y]
      /\ po[p].version = v /\ po' = Moved(p, to, 1)
      /\ UNCHANGED <<active, call>>
  BY DEF Adverse, HasTask, MoveOrder, VersionMatches
<1>2. /\ IsInstance(x) /\ po[p] \in Order /\ po[p].version \in Nat
      /\ v < MaxVersion /\ po[p].status = "SUBMITTED"
  BY <1>1, DecidableInstance
<1>3. IsInstance(y)
  <2> HIDE DEF x
  <2>1. decision \in TaskStatus /\ decision \in InstanceStatus
    BY DEF TaskStatus, InstanceStatus
  <2>2. x.done \in SUBSET (DOMAIN x.task)
    BY <1>2 DEF IsInstance
  <2>3. QED
    BY <1>1, <1>2, <2>1, <2>2, DecidedInstance
<1> DEFINE row == [status |-> to, version |-> po[p].version + 1]
<1>4. to \in OrderStatus /\ po[p].version + 1 <= MaxVersion
  BY <1>1, <1>2, MaxVersionAssumption DEF OrderStatus
<1>5. /\ row \in Order /\ row.status = to /\ row.version > po[p].version
      /\ po' = [po EXCEPT ![p] = row]
  BY <1>1, <1>2, <1>4, MovedRow
<1> HIDE DEF row, y
<1>6. i \in Instances /\ DOMAIN inst = Instances
  BY DEF Instances, IInv, TypeOK
<1>7. DOMAIN inst' = Instances
  BY <1>1, <1>6
<1>8. \A q \in Pos, w \in Versions :
          \/ inst'[<<q, w>>] = inst[<<q, w>>]
          \/ q = p /\ inst[<<q, w>>] # NoRow /\ inst'[<<q, w>>] = y
  BY <1>1, <1>6 DEF Instances
<1>9. \A q \in Pos, w \in Versions :
          \/ inst'[<<q, w>>] = inst[<<q, w>>]
          \/ /\ q = p /\ IsInstance(inst'[<<q, w>>])
             /\ \/ inst[<<q, w>>] # NoRow
                \/ /\ w = row.version /\ w < MaxVersion
                   /\ row.status = "SUBMITTED" /\ Live(inst'[<<q, w>>])
  BY <1>3, <1>8
<1>10. Answers /\ Along(po[p].status, row.status)
  BY <1>1, <1>2, <1>5, CallsStand DEF Along, IInv
<1>11. QED
  BY <1>1, <1>2, <1>5, <1>7, <1>9, <1>10, OrderMoves

\* decide with APPROVE: the order is approved with the last level, and only
\* while it has the version that the instance was started for.
LEMMA ApproveKeeps ==
    ASSUME IInv, NEW p \in Pos, NEW v \in Versions, NEW n, NEW u, Approve(<<p, v>>, n, u)
    PROVE  IInv' /\ Lifecycle /\ Approvals
<1> DEFINE i == <<p, v>>
           x == inst[i]
           done == x.done \cup (IF Completes(x, n, u) THEN {n} ELSE {})
           status == IF done = DOMAIN x.task THEN "COMPLETED" ELSE "RUNNING"
           y == Decided(x, n, u, "APPROVED", done, status)
<1>1. /\ x # NoRow /\ n \in DOMAIN x.task /\ u \in DOMAIN x.task[n] /\ x.task[n][u] = "PENDING"
      /\ UNCHANGED <<active, call>>
  BY DEF Approve, HasTask
<1>2. LevelSettled(i, n, u) <=> Completes(x, n, u)
  BY DEF LevelSettled, Completes
<1>3. inst' = [inst EXCEPT ![i] = y]
  BY <1>2 DEF Approve, Outcome
<1>4. IF done = DOMAIN x.task THEN MoveOrder(i, "APPROVED") ELSE UNCHANGED po
  BY <1>2 DEF Approve
<1>5. /\ IsInstance(x) /\ po[p] \in Order /\ po[p].version \in Nat
      /\ v < MaxVersion /\ v <= po[p].version
      /\ po[p].version = v => po[p].status = "SUBMITTED" /\ Live(x)
  BY <1>1, DecidableInstance
<1>6. i \in Instances /\ DOMAIN inst = Instances
  BY DEF Instances, IInv, TypeOK
<1> HIDE DEF x
<1>7. done \in SUBSET (DOMAIN x.task)
  BY <1>1, <1>5 DEF IsInstance
<1>8. status \in InstanceStatus /\ (done # DOMAIN x.task => status = "RUNNING")
      /\ (done = DOMAIN x.task => status = "COMPLETED")
  BY DEF InstanceStatus
<1> HIDE DEF status
<1>9. "APPROVED" \in TaskStatus
  BY DEF TaskStatus
<1>10. IsInstance(y) /\ y.status = status /\ y.done = done /\ TaskDecided(x, y, n, u, "APPROVED")
  BY <1>1, <1>5, <1>7, <1>8, <1>9, DecidedInstance
<1>11. done = x.done \cup (IF Completes(x, n, u) THEN {n} ELSE {})
       /\ y = Decided(x, n, u, "APPROVED", done, status)
  OBVIOUS
<1> HIDE DEF y, done
<1>12. Live(x) => DoneSoFar(x, y, done)
  BY <1>1, <1>5, <1>8, <1>11, ApprovalCounts
<1>13. \A q \in Pos, w \in Versions :
           inst'[<<q, w>>] = IF q = p /\ w = v THEN y ELSE inst[<<q, w>>]
  BY <1>3, <1>6 DEF Instances
<1>14. DOMAIN inst' = Instances
  BY <1>3, <1>6
<1>15. CASE done = DOMAIN x.task
  <2> DEFINE row == [status |-> "APPROVED", version |-> po[p].version + 1]
  <2>1. po[p].version = v /\ po' = Moved(p, "APPROVED", 1)
    BY <1>4, <1>15 DEF MoveOrder, VersionMatches
  <2>2. "APPROVED" \in OrderStatus /\ po[p].version + 1 <= MaxVersion
    BY <1>5, <2>1, MaxVersionAssumption DEF OrderStatus, Versions
  <2>3. /\ row \in Order /\ row.status = "APPROVED" /\ row.version > po[p].version
        /\ po' = [po EXCEPT ![p] = row]
    BY <1>5, <2>1, <2>2, MovedRow
  <2> HIDE DEF row
  <2>4. \A q \in Pos, w \in Versions :
            \/ inst'[<<q, w>>] = inst[<<q, w>>]
            \/ /\ q = p /\ IsInstance(inst'[<<q, w>>])
               /\ \/ inst[<<q, w>>] # NoRow
                  \/ /\ w = row.version /\ w < MaxVersion
                     /\ row.status = "SUBMITTED" /\ Live(inst'[<<q, w>>])
    BY <1>1, <1>10, <1>13 DEF x
  <2>5. ApprovalOf(p)
    <3>1. inst'[<<p, po[p].version>>] = y
      BY <1>13, <2>1
    <3>2. y # NoRow
      BY <1>10, NoRowAssumption DEF IsInstance
    <3>3. y.status = "COMPLETED" /\ \A m \in DOMAIN y.task : Accepted(y, m)
      BY <1>5, <1>8, <1>10, <1>12, <1>15, <2>1 DEF DoneSoFar
    <3>4. po[p].status = "SUBMITTED"
      BY <1>5, <2>1
    <3>5. QED
      BY <3>1, <3>2, <3>3, <3>4 DEF ApprovalOf
  <2>6. Answers /\ Along(po[p].status, row.status)
    BY <1>1, <1>5, <2>1, <2>3, CallsStand DEF Along, IInv
  <2>7. QED
    BY <1>1, <1>5, <1>14, <2>3, <2>4, <2>5, <2>6, OrderMoves
<1>16. CASE done # DOMAIN x.task
  <2>1. po' = po
    BY <1>4, <1>16
  <2>2. \A j \in Instances : inst'[j] = NoRow \/ IsInstance(inst'[j])
    BY <1>3, <1>6, <1>10 DEF IInv, TypeOK
  <2>3. TypeOK' /\ CallsFit'
    BY <1>1, <1>14, <2>1, <2>2 DEF IInv, TypeOK, CallsFit
  <2>4. InstancesFit'
    <3>1. ASSUME NEW q \in Pos, NEW w \in Versions, inst'[<<q, w>>] # NoRow
          PROVE  /\ po'[q] \in Order /\ w <= po'[q].version /\ w < MaxVersion
                 /\ po'[q].version = w => po'[q].status = "SUBMITTED" /\ Live(inst'[<<q, w>>])
      <4>1. CASE q = p /\ w = v
        BY <1>5, <1>12, <1>13, <1>16, <2>1, <4>1 DEF DoneSoFar
      <4>2. CASE ~(q = p /\ w = v)
        BY <1>13, <2>1, <3>1, <4>2 DEF IInv, InstancesFit
      <4>3. QED
        BY <4>1, <4>2
    <3>2. QED
      BY <3>1 DEF InstancesFit, Live
  <2>5. QED
    BY <2>1, <2>3, <2>4, OrdersStand DEF IInv
<1>17. QED
  BY <1>15, <1>16

-----------------------------------------------------------------------------
(* The specification. *)

\* No order and no instance at first.
LEMMA InitHolds == Init => IInv
<1> SUFFICES ASSUME Init PROVE IInv
  OBVIOUS
<1>1. TypeOK
  BY DEF Init, TypeOK, Instances
<1>2. CallsFit /\ InstancesFit
  BY DEF Init, CallsFit, InstancesFit
<1>3. QED
  BY <1>1, <1>2 DEF IInv

\* decide, with any answer.
LEMMA DecideKeeps ==
    ASSUME IInv, NEW i \in Instances, Decide(i)
    PROVE  IInv' /\ Lifecycle /\ Approvals
<1>1. PICK p \in Pos, v \in Versions : i = <<p, v>>
  BY DEF Instances
<1>2. PICK n, u : Approve(i, n, u) \/ Reject(i, n, u) \/ Correct(i, n, u)
  BY DEF Decide
<1>3. CASE Approve(i, n, u)
  BY <1>1, <1>3, ApproveKeeps
<1>4. CASE Reject(i, n, u)
  BY <1>1, <1>4, AdverseKeeps DEF Reject
<1>5. CASE Correct(i, n, u)
  BY <1>1, <1>5, AdverseKeeps DEF Correct
<1>6. QED
  BY <1>2, <1>3, <1>4, <1>5

\* Every step keeps the invariant and goes along the lifecycle.
LEMMA NextKeeps ==
    ASSUME IInv, [Next]_vars
    PROVE  IInv' /\ Lifecycle /\ Approvals
<1>1. ASSUME NEW p \in Pos, CreatePurchaseOrder(p) PROVE IInv' /\ Lifecycle /\ Approvals
  BY <1>1, CreateKeeps
<1>2. ASSUME NEW p \in Pos, UpdatePurchaseOrder(p) PROVE IInv' /\ Lifecycle /\ Approvals
  BY <1>2, UpdateKeeps
<1>3. ASSUME NEW c \in Clients, NEW p \in Pos, NEW to \in OrderStatus, BeginTransition(c, p, to)
      PROVE  IInv' /\ Lifecycle /\ Approvals
  BY <1>3, BeginKeeps
<1>4. ASSUME NEW c \in Clients, EndSubmit(c) PROVE IInv' /\ Lifecycle /\ Approvals
  BY <1>4, SubmitKeeps
<1>5. ASSUME NEW c \in Clients, EndCancel(c) PROVE IInv' /\ Lifecycle /\ Approvals
  BY <1>5, CancelKeeps
<1>6. ASSUME NEW c \in Clients, Fail(c) PROVE IInv' /\ Lifecycle /\ Approvals
  <2>1. Answers /\ UNCHANGED <<po, inst>> /\ active' \in Definitions \cup {NoDefinition}
    BY <1>6, CallAnswered DEF Fail, IInv, TypeOK
  <2>2. QED
    BY <2>1, OnlyCallsAnswered
<1>7. ASSUME NEW i \in Instances, Decide(i) PROVE IInv' /\ Lifecycle /\ Approvals
  BY <1>7, DecideKeeps
<1>8. ASSUME NEW d \in Definitions \cup {NoDefinition}, ChangeDefinition(d)
      PROVE  IInv' /\ Lifecycle /\ Approvals
  <2>1. Answers /\ UNCHANGED <<po, inst>> /\ active' \in Definitions \cup {NoDefinition}
    BY <1>8, CallsStand DEF ChangeDefinition, IInv
  <2>2. QED
    BY <2>1, OnlyCallsAnswered
<1>9. CASE UNCHANGED vars
  <2>1. Answers /\ UNCHANGED <<po, inst>> /\ active' \in Definitions \cup {NoDefinition}
    BY <1>9, CallsStand DEF vars, IInv, TypeOK
  <2>2. QED
    BY <2>1, OnlyCallsAnswered
<1>10. QED
  BY <1>1, <1>2, <1>3, <1>4, <1>5, <1>6, <1>7, <1>8, <1>9 DEF Next

\* The inductive invariant: what a call has read still fits while the version
\* does, and the instance of an order's present version is live.
THEOREM Invariance == Spec => []IInv
<1>1. IInv /\ [Next]_vars => IInv'
  BY NextKeeps
<1>2. QED
  BY InitHolds, <1>1, PTL DEF Spec

\* Orders, instances and calls hold values of their columns; no status but
\* those of the lifecycle is ever written.
THEOREM TypeCorrect == Spec => []TypeOK
<1>1. IInv => TypeOK
  BY DEF IInv
<1>2. QED
  BY Invariance, <1>1, PTL

\* An order under approval can be brought to an end by its approvers, but for
\* a level to which the definition gave none (decide, onDocumentSubmitted).
THEOREM SubmittedDecidable == Spec => []SubmittedIsDecidable
<1>1. IInv => SubmittedIsDecidable
  <2> SUFFICES ASSUME IInv, NEW p \in Pos, po[p] # NoRow, po[p].status = "SUBMITTED",
                      NEW x, x = inst[<<p, po[p].version>>], x # NoRow
               PROVE  /\ x.status = "RUNNING"
                      /\ \E n \in DOMAIN x.task : ~Accepted(x, n)
                      /\ \A n \in DOMAIN x.task :
                            /\ \A u \in DOMAIN x.task[n] : x.task[n][u] \in {"PENDING", "APPROVED"}
                            /\ ~Accepted(x, n) =>
                                   \/ DOMAIN x.task[n] = {}
                                   \/ \E u \in DOMAIN x.task[n] : x.task[n][u] = "PENDING"
    BY DEF SubmittedIsDecidable
  <2>1. po[p].version \in Versions
    BY DEF IInv, TypeOK, Order
  <2>2. IsInstance(x) /\ Live(x)
    BY <2>1, DecidableInstance
  <2>3. QED
    BY <2>2, LiveDecidable
<1>2. QED
  BY Invariance, <1>1, PTL

\* An order becomes APPROVED by approvals of every level of the instance for
\* exactly the version that was submitted, or by a definition that asks for none
\* (transitionPurchaseOrderFromWorkflow, onDocumentSubmitted).
THEOREM ApprovalsAccepted == Spec => ApprovedAsAccepted
<1>1. IInv /\ [Next]_vars =>
          [\A p \in Pos :
             (po[p] # NoRow /\ po[p].status # "APPROVED" /\ po'[p].status = "APPROVED")
             => \/ po[p].status = "DRAFT" /\ active # NoDefinition /\ ~active.required
                \/ /\ po[p].status = "SUBMITTED"
                   /\ LET x == inst'[<<p, po[p].version>>]
                      IN  /\ x # NoRow /\ x.status = "COMPLETED"
                          /\ \A n \in DOMAIN x.task : Accepted(x, n)]_vars
  BY NextKeeps DEF Approvals, ApprovalOf
<1>2. QED
  BY Invariance, <1>1, PTL DEF Spec, ApprovedAsAccepted

\* An order's status changes only along the lifecycle, with a new version each
\* time, whatever submissions, cancellations and decisions overlap.
THEOREM OrdersFollowLifecycle == Spec => OrderLifecycle
<1>1. IInv /\ [Next]_vars =>
          [\A p \in Pos : (po[p] # NoRow /\ po'[p] # po[p]) =>
              /\ po'[p].version > po[p].version
              /\ <<po[p].status, po'[p].status>> \in
                    {<<"DRAFT", "DRAFT">>, <<"DRAFT", "SUBMITTED">>, <<"DRAFT", "APPROVED">>,
                     <<"DRAFT", "CANCELLED">>, <<"SUBMITTED", "APPROVED">>,
                     <<"SUBMITTED", "REJECTED">>, <<"SUBMITTED", "DRAFT">>,
                     <<"SUBMITTED", "CANCELLED">>}]_vars
  BY NextKeeps DEF Lifecycle
<1>2. QED
  BY Invariance, <1>1, PTL DEF Spec, OrderLifecycle

=============================================================================
