--------------------------- MODULE WorkersProofs ----------------------------
(***************************************************************************)
(* Theorems about what runs beside the business data: Workers, for any     *)
(* number of rows and workers, any batch size, any limit of attempts and   *)
(* any number of crashes; Platform, for any requests, members, roles,      *)
(* permissions and tenants; Deployment, for any processes, migrations,     *)
(* releases and runs. The components share no variable.                    *)
(***************************************************************************)
EXTENDS Workers, Platform, Deployment, FiniteSetTheorems, SequenceTheorems, TLAPS

Done == {"completed", "sent", "published"}
Entry == (1 .. MaxAttempts) \X {"sent", "failed"}

\* The log l tells what happened to a notification whose row is x; the attempt
\* that is being made is not in it yet.
LogFits(x, l) ==
    /\ \A i \in 1 .. Len(l) : l[i][1] <= x.attempts
    /\ x.status = "processing" => x.attempts > 0 /\ \A i \in 1 .. Len(l) : l[i][1] < x.attempts
    /\ \A i, j \in 1 .. Len(l) : i < j => l[i][1] < l[j][1]
    /\ \A i \in 1 .. Len(l) : l[i][2] = "sent" <=> (x.status = "sent" /\ i = Len(l))
    /\ x.status = "sent" => l # <<>>

\* A worker has one row, or several events; the row it is to confirm was
\* executed.
WorkerFits(w) ==
    /\ worker[w].at \in {"confirm", "report"} => worker[w].current \in worker[w].batch
    /\ worker[w].at = "confirm" => executed[worker[w].current] > 0
    /\ \A r \in worker[w].batch \ Events : worker[w].batch = {r}

\* The workers that have claimed r and not yet executed it.
Executing(r) == {w \in Pool : worker[w].at = "execute" /\ r \in worker[w].batch}

\* Every execution, past or to come, was claimed as an attempt.
Counted(r) == r \notin Events => executed[r] + Cardinality(Executing(r)) <= row[r].attempts

\* The inductive invariant.
IInv ==
    /\ TypeOK
    /\ \A w \in Pool : WorkerFits(w)
    /\ \A r \in Notifications : LogFits(row[r], log[r])
    /\ \A r \in Rows : row[r].status \in Done => executed[r] > 0
    /\ \A r \in Events : row[r].status # "sent"
    /\ \A r \in Rows : Counted(r)

\* What SettledStays says of one step.
Stays ==
    \A r \in Notifications \cup Events :
        row[r].status \in {"sent", "published"} => row'[r].status = row[r].status

-----------------------------------------------------------------------------
(* Rows and logs.                                                          *)

\* A row is of one kind.
LEMMA RowKinds ==
    ASSUME kind \in Kinds
    PROVE  /\ Rows = Jobs \cup Notifications \cup Events
           /\ Jobs \cap Notifications = {} /\ Jobs \cap Events = {}
           /\ Notifications \cap Events = {}
           /\ \A r \in Jobs : kind[r] \in {"once", "recurring"}
  BY WorkersAssumption DEF Jobs, Notifications, Events

\* The log stands while the notification is not sent.
LEMMA LogStands ==
    ASSUME NEW x \in Row, NEW y \in Row, NEW l \in Seq(Entry), LogFits(x, l),
           x.status # "sent", y.status # "sent", y.attempts >= x.attempts,
           y.status = "processing" =>
               \/ x.status = "processing" /\ y.attempts = x.attempts
               \/ y.attempts > x.attempts
    PROVE  LogFits(y, l)
<1>1. x.attempts \in Nat /\ y.attempts \in Nat
  BY WorkersAssumption DEF Row
<1>2. \A i \in 1 .. Len(l) : l[i] \in Entry
  BY ElementOfSeq
<1>3. \A i \in 1 .. Len(l) : l[i][1] \in Nat
  BY <1>2, WorkersAssumption DEF Entry
<1>4. QED
  BY <1>1, <1>3 DEF LogFits

\* The outcome of the attempt that is being made is logged with the update.
LEMMA AttemptLogged ==
    ASSUME NEW x \in Row, NEW y \in Row, NEW l \in Seq(Entry), LogFits(x, l),
           x.status = "processing", y.attempts = x.attempts,
           NEW outcome \in {"sent", "failed"}, y.status = outcome,
           NEW m, m = Append(l, <<x.attempts, outcome>>)
    PROVE  m \in Seq(Entry) /\ LogFits(y, m)
<1>1. x.attempts \in 1 .. MaxAttempts
  BY WorkersAssumption DEF Row, LogFits
<1>2. <<x.attempts, outcome>> \in Entry
  BY <1>1 DEF Entry
<1>3. /\ m \in Seq(Entry) /\ Len(m) = Len(l) + 1 /\ Len(l) \in Nat
      /\ m[Len(l) + 1] = <<x.attempts, outcome>>
      /\ \A i \in 1 .. Len(l) : m[i] = l[i]
  BY <1>2, AppendProperties, LenProperties
<1>4. \A i \in 1 .. Len(l) : l[i] \in Entry
  BY ElementOfSeq
<1>5. \A i \in 1 .. Len(l) : l[i][1] \in Nat /\ l[i][1] < x.attempts /\ l[i][2] # "sent"
  BY <1>4, WorkersAssumption DEF Entry, LogFits
<1>6. \A i \in 1 .. Len(m) : i \in 1 .. Len(l) \/ i = Len(m)
  BY <1>3
<1>7. m[Len(m)][1] = x.attempts /\ m[Len(m)][2] = outcome
  BY <1>3
<1>8. \A i \in 1 .. Len(m) : m[i][1] <= y.attempts
  BY <1>1, <1>3, <1>5, <1>6, <1>7
<1>9. ASSUME NEW i \in 1 .. Len(m), NEW j \in 1 .. Len(m), i < j PROVE m[i][1] < m[j][1]
  <2>1. i \in 1 .. Len(l)
    BY <1>3, <1>9
  <2>2. CASE j = Len(m)
    BY <1>3, <1>5, <1>7, <2>1, <2>2
  <2>3. CASE j \in 1 .. Len(l)
    BY <1>3, <1>9, <2>1, <2>3 DEF LogFits
  <2>4. QED
    BY <1>6, <2>2, <2>3
<1>10. \A i \in 1 .. Len(m) : m[i][2] = "sent" <=> (y.status = "sent" /\ i = Len(m))
  BY <1>3, <1>5, <1>6, <1>7
<1>11. m # <<>>
  BY <1>3
<1>12. QED
  BY <1>3, <1>8, <1>9, <1>10, <1>11 DEF LogFits

-----------------------------------------------------------------------------
(* Steps of the tables.                                                    *)

\* A row, and its log, change as the stores change them.
RowStep(r) ==
    /\ row'[r].attempts >= row[r].attempts
    /\ r \in Notifications => LogFits(row'[r], log'[r])
    /\ row'[r].status \in Done => row'[r].status = row[r].status \/ executed[r] > 0
    /\ r \in Events => row'[r].status # "sent"
    /\ (r \notin Jobs /\ row[r].status \in {"sent", "published"}) => row'[r].status = row[r].status

TableStep ==
    /\ kind' = kind
    /\ row' \in [Rows -> Row] /\ log' \in [Rows -> Seq(Entry)]
    /\ \A r \in Rows : RowStep(r)

\* Rows that stay as they are.
LEMMA RowStands ==
    ASSUME IInv, NEW r \in Rows, row'[r] = row[r], log'[r] = log[r] PROVE RowStep(r)
<1>1. row[r].attempts \in Nat
  BY WorkersAssumption DEF IInv, TypeOK, Row
<1>2. QED
  BY <1>1 DEF IInv, RowStep

\* One row and its log are updated.
LEMMA OneRow ==
    ASSUME IInv, NEW r \in Rows, NEW y \in Row, NEW l \in Seq(Entry),
           row' = [row EXCEPT ![r] = y], log' = [log EXCEPT ![r] = l], kind' = kind,
           y.attempts >= row[r].attempts,
           r \in Notifications => LogFits(y, l),
           y.status \in Done => y.status = row[r].status \/ executed[r] > 0,
           r \in Events => y.status # "sent",
           (r \notin Jobs /\ row[r].status \in {"sent", "published"}) => y.status = row[r].status
    PROVE  TableStep
<1>1. row \in [Rows -> Row] /\ log \in [Rows -> Seq(Entry)]
  BY DEF IInv, TypeOK, Entry
<1>2. /\ row' \in [Rows -> Row] /\ row'[r] = y /\ \A x \in Rows \ {r} : row'[x] = row[x]
      /\ log' \in [Rows -> Seq(Entry)] /\ log'[r] = l /\ \A x \in Rows \ {r} : log'[x] = log[x]
  BY <1>1
<1>3. RowStep(r)
  BY <1>2 DEF RowStep
<1>4. \A x \in Rows \ {r} : RowStep(x)
  BY <1>2, RowStands
<1>5. QED
  BY <1>2, <1>3, <1>4 DEF TableStep

\* An update that logs nothing, of a row that is not sent before or after.
LEMMA OneRowUnlogged ==
    ASSUME IInv, NEW r \in Rows, NEW y \in Row,
           row' = [row EXCEPT ![r] = y], UNCHANGED <<kind, log>>,
           y.attempts >= row[r].attempts,
           y.status = "processing" =>
               \/ row[r].status = "processing" /\ y.attempts = row[r].attempts
               \/ y.attempts > row[r].attempts,
           y.status \notin Done,
           r \notin Jobs => row[r].status \notin {"sent", "published"}
    PROVE  TableStep
<1>1. row[r] \in Row /\ log[r] \in Seq(Entry) /\ log \in [Rows -> Seq(Entry)] /\ kind \in Kinds
  BY DEF IInv, TypeOK, Entry
<1>2. log' = [log EXCEPT ![r] = log[r]]
  BY <1>1
<1>3. ASSUME r \in Notifications PROVE LogFits(y, log[r])
  <2>1. row[r].status # "sent" /\ y.status # "sent" /\ LogFits(row[r], log[r])
    BY <1>1, <1>3, RowKinds DEF IInv, Done
  <2>2. QED
    BY <1>1, <2>1, LogStands
<1>4. QED
  BY <1>1, <1>2, <1>3, OneRow DEF Done

-----------------------------------------------------------------------------
(* Steps of the workers.                                                   *)

Place == [at : {"idle", "execute", "confirm", "report"}, batch : SUBSET Rows,
          current : Rows \cup {NoOne}, attempt : 0 .. MaxAttempts]

\* The workers, and what has been executed, change as workers change them.
WorkerStep ==
    /\ worker' \in [Pool -> Place] /\ executed' \in [Rows -> 0 .. MaxAttempts + 1]
    /\ crashes' \in 0 .. MaxCrashes
    /\ \A w \in Pool : (worker'[w].at = "idle" <=> worker'[w].batch = {}) /\ WorkerFits(w)'
    /\ \A r \in Rows : executed'[r] >= executed[r] /\ Counted(r)'

\* Tables and workers together.
LEMMA StepKeeps == ASSUME IInv, TableStep, WorkerStep PROVE IInv' /\ Stays
<1>1. TypeOK'
  BY DEF IInv, TypeOK, TableStep, WorkerStep, Place, Entry
<1>2. \A w \in Pool : WorkerFits(w)'
  BY DEF WorkerStep
<1>3. \A r \in Rows : Counted(r)'
  BY DEF WorkerStep
<1>4. \A r \in Notifications' : LogFits(row'[r], log'[r])
  BY DEF TableStep, RowStep, Notifications
<1>6. ASSUME NEW r \in Rows, row'[r].status \in Done PROVE executed'[r] > 0
  <2>1. executed[r] \in Nat /\ executed'[r] \in Nat /\ executed'[r] >= executed[r]
    BY WorkersAssumption DEF IInv, TypeOK, WorkerStep
  <2>2. executed[r] > 0
    BY <1>6 DEF IInv, TableStep, RowStep
  <2>3. QED
    BY <2>1, <2>2
<1>7. Stays
  <2>1. kind \in Kinds /\ \A r \in Rows : RowStep(r)
    BY DEF IInv, TypeOK, TableStep
  <2>2. QED
    BY <2>1, RowKinds DEF RowStep, Stays
<1>8. Notifications' = Notifications
  BY DEF TableStep, Notifications
<1>9. (\A r \in Notifications : LogFits(row[r], log[r]))'
  BY <1>4 DEF LogFits, Notifications
<1>5. (\A r \in Events : row[r].status # "sent")'
  BY DEF TableStep, RowStep, Events
<1>10. QED
  BY <1>1, <1>2, <1>3, <1>5, <1>6, <1>7, <1>9 DEF IInv, Done

\* No more workers have r to execute than before.
LEMMA CountStands ==
    ASSUME IInv, kind' = kind, NEW r \in Rows, executed'[r] = executed[r],
           row'[r].attempts \in Nat, row'[r].attempts >= row[r].attempts,
           \A w \in Pool : worker'[w].at = "execute" /\ r \in worker'[w].batch =>
                              worker[w].at = "execute" /\ r \in worker[w].batch
    PROVE  Counted(r)'
<1> DEFINE S == Executing(r)
           T == Executing(r)'
<1>1. T \in SUBSET S
  BY DEF Executing
<1>2. IsFiniteSet(S)
  BY WorkersAssumption, FS_Subset DEF Executing
<1>3. Counted(r)
  BY DEF IInv
<1>4. executed[r] \in Nat /\ row[r].attempts \in Nat
  BY WorkersAssumption DEF IInv, TypeOK, Row
<1>5. Events' = Events
  BY DEF Events
<1> HIDE DEF S, T
<1>6. Cardinality(S) \in Nat /\ Cardinality(T) \in Nat /\ Cardinality(T) <= Cardinality(S)
  BY <1>1, <1>2, FS_Subset, FS_CardinalityType
<1>7. r \notin Events => executed[r] + Cardinality(S) <= row[r].attempts
  BY <1>3 DEF Counted, S
<1>8. r \notin Events => executed'[r] + Cardinality(T) <= row'[r].attempts
  BY <1>4, <1>6, <1>7
<1>9. QED
  BY <1>5, <1>8 DEF Counted, T

\* One worker goes on to p without executing anything.
LEMMA GoesOn ==
    ASSUME IInv, TableStep, NEW w \in Pool, NEW p \in Place, Goes(w, p),
           executed' = executed, crashes' \in 0 .. MaxCrashes,
           p.at = "idle" <=> p.batch = {},
           p.at \in {"confirm", "report"} => p.current \in p.batch,
           p.at = "confirm" => executed[p.current] > 0,
           \A r \in p.batch \ Events :
               /\ p.batch = {r}
               /\ p.at = "execute" =>
                      worker[w].at = "execute" /\ r \in worker[w].batch
    PROVE  WorkerStep
<1>1. /\ worker \in [Pool -> Place] /\ executed \in [Rows -> 0 .. MaxAttempts + 1]
      /\ \A v \in Pool : (worker[v].at = "idle" <=> worker[v].batch = {}) /\ WorkerFits(v)
  BY DEF IInv, TypeOK, Place
<1>2. /\ worker' \in [Pool -> Place] /\ worker'[w] = p
      /\ \A v \in Pool \ {w} : worker'[v] = worker[v]
  BY <1>1 DEF Goes
<1>3. kind' = kind /\ Events' = Events
  BY DEF TableStep, Events
<1>4. ASSUME NEW v \in Pool
      PROVE  (worker'[v].at = "idle" <=> worker'[v].batch = {}) /\ WorkerFits(v)'
  BY <1>1, <1>2, <1>3 DEF WorkerFits
<1>5. ASSUME NEW r \in Rows PROVE executed'[r] >= executed[r] /\ Counted(r)'
  <2>1. executed'[r] = executed[r] /\ executed[r] \in Nat
    BY <1>1, WorkersAssumption
  <2>2. row'[r].attempts \in Nat /\ row'[r].attempts >= row[r].attempts
    BY WorkersAssumption DEF TableStep, RowStep, Row
  <2>3. CASE r \in Events
    BY <1>3, <2>1, <2>3 DEF Counted
  <2>4. CASE r \notin Events
    <3>1. \A v \in Pool : worker'[v].at = "execute" /\ r \in worker'[v].batch =>
                              worker[v].at = "execute" /\ r \in worker[v].batch
      BY <1>2, <2>4
    <3>2. QED
      BY <1>3, <2>1, <2>2, <3>1, CountStands
  <2>5. QED
    BY <2>3, <2>4
<1>6. QED
  BY <1>1, <1>2, <1>4, <1>5 DEF WorkerStep

\* A worker that stops.
LEMMA Stops ==
    ASSUME IInv, TableStep, NEW w \in Pool, Goes(w, Idle),
           executed' = executed, crashes' \in 0 .. MaxCrashes
    PROVE  WorkerStep
<1>1. Idle \in Place /\ Idle.at = "idle" /\ Idle.batch = {}
  BY WorkersAssumption DEF Idle, Place
<1>2. QED
  BY <1>1, GoesOn

\* A worker that has done with a row.
LEMMA RestsOn ==
    ASSUME IInv, TableStep, NEW w \in Pool, worker[w].at \in {"confirm", "report"},
           Goes(w, Rest(w)), UNCHANGED <<executed, crashes>>
    PROVE  WorkerStep
<1> DEFINE batch == worker[w].batch \ {worker[w].current}
           p == [at |-> "execute", batch |-> batch, current |-> NoOne, attempt |-> 0]
<1>1. crashes' \in 0 .. MaxCrashes
  BY DEF IInv, TypeOK
<1>2. CASE batch = {}
  BY <1>1, <1>2, Stops DEF Rest
<1>3. CASE batch # {}
  <2>1. Goes(w, p)
    BY <1>3 DEF Rest
  <2>2. worker[w] \in Place /\ WorkerFits(w)
    BY DEF IInv, TypeOK, Place
  <2>3. batch \in SUBSET Rows
    BY <2>2 DEF Place
  <2>4. batch \subseteq Events
    BY <2>2 DEF WorkerFits
  <2> HIDE DEF batch
  <2>5. p \in Place /\ p.at = "execute" /\ p.batch = batch
    BY <2>3, WorkersAssumption DEF Place
  <2> HIDE DEF p
  <2>6. QED
    BY <1>1, <1>3, <2>1, <2>4, <2>5, GoesOn
<1>4. QED
  BY <1>2, <1>3

\* Workers that stand.
LEMMA NobodyMoves ==
    ASSUME IInv, TableStep, UNCHANGED <<worker, executed, crashes>> PROVE WorkerStep
<1>1. kind' = kind /\ Events' = Events
  BY DEF TableStep, Events
<1>2. ASSUME NEW v \in Pool
      PROVE  (worker'[v].at = "idle" <=> worker'[v].batch = {}) /\ WorkerFits(v)'
  BY <1>1 DEF IInv, TypeOK, WorkerFits
<1>3. ASSUME NEW r \in Rows PROVE executed'[r] >= executed[r] /\ Counted(r)'
  <2>1. row'[r].attempts \in Nat /\ row'[r].attempts >= row[r].attempts /\ executed[r] \in Nat
    BY WorkersAssumption DEF TableStep, RowStep, Row, IInv, TypeOK
  <2>2. QED
    BY <1>1, <2>1, CountStands
<1>4. QED
  BY <1>2, <1>3 DEF WorkerStep, IInv, TypeOK, Place

\* Tables that stand.
LEMMA TablesStand == ASSUME IInv, UNCHANGED <<kind, row, log>> PROVE TableStep
<1>1. row \in [Rows -> Row] /\ log \in [Rows -> Seq(Entry)]
  BY DEF IInv, TypeOK, Entry
<1>2. \A r \in Rows : RowStep(r)
  BY RowStands
<1>3. QED
  BY <1>1, <1>2 DEF TableStep

-----------------------------------------------------------------------------
(* The callers, and time.                                                  *)

Status == {"none", "scheduled", "running", "completed", "cancelled",
           "pending", "processing", "sent", "published", "failed"}

\* Rows are rows, whatever they are.
LEMMA RowParts ==
    ASSUME IInv, NEW r \in Rows
    PROVE  /\ row \in [Rows -> Row] /\ row[r] \in Row /\ row[r].attempts \in Nat
           /\ log \in [Rows -> Seq(Entry)] /\ log[r] \in Seq(Entry)
           /\ kind \in Kinds /\ executed[r] \in Nat
           /\ row[r].status \in Status /\ row[r].due \in BOOLEAN
  BY WorkersAssumption DEF IInv, TypeOK, Row, Entry, Status

\* What Unleased makes of a row.
LEMMA UnleasedRow ==
    ASSUME NEW x \in Row, NEW s \in Status, NEW d \in BOOLEAN, NEW y, y = Unleased(x, s, d)
    PROVE  y \in Row /\ y.status = s /\ y.attempts = x.attempts
  BY DEF Unleased, Row, Status

\* What Leased makes of a row.
LEMMA LeasedRow ==
    ASSUME NEW x \in Row, NEW s \in Status, NEW more \in Nat, NEW w \in Pool,
           x.attempts + more <= MaxAttempts, NEW y, y = Leased(x, s, more, w)
    PROVE  y \in Row /\ y.status = s /\ y.attempts = x.attempts + more
<1>1. x.attempts + more \in 0 .. MaxAttempts
  BY WorkersAssumption DEF Row
<1>2. QED
  BY <1>1 DEF Leased, Row, Status

\* A caller writes a row that is not sent yet.
LEMMA CallerWrites ==
    ASSUME IInv, NEW r \in Rows, NEW s \in {"scheduled", "pending", "cancelled"},
           NEW d \in BOOLEAN, row' = [row EXCEPT ![r] = Unleased(row[r], s, d)],
           UNCHANGED <<kind, log, worker, executed, crashes>>,
           r \notin Jobs => row[r].status = "none"
    PROVE  IInv' /\ Stays
<1> DEFINE y == Unleased(row[r], s, d)
<1>1. y \in Row /\ y.status = s /\ y.attempts = row[r].attempts
  <2>1. s \in Status
    BY DEF Status
  <2>2. QED
    BY <2>1, RowParts, UnleasedRow
<1>2. row' = [row EXCEPT ![r] = y]
  OBVIOUS
<1> HIDE DEF y
<1>3. y.attempts >= row[r].attempts
  BY <1>1, RowParts
<1>4. y.status # "processing" /\ y.status \notin Done
  BY <1>1 DEF Done
<1>5. UNCHANGED <<kind, log>> /\ UNCHANGED <<worker, executed, crashes>>
  OBVIOUS
<1>6. r \notin Jobs => row[r].status \notin {"sent", "published"}
  OBVIOUS
<1>7. TableStep
  BY <1>1, <1>2, <1>3, <1>4, <1>5, <1>6, OneRowUnlogged
<1>8. WorkerStep
  BY <1>5, <1>7, NobodyMoves
<1>9. QED
  BY <1>7, <1>8, StepKeeps

\* schedule, enqueue, publish and cancel.
LEMMA CallerKeeps ==
    ASSUME IInv, NEW r \in Rows, Schedule(r) \/ Enqueue(r) \/ Publish(r) \/ Cancel(r)
    PROVE  IInv' /\ Stays
<1>1. CASE Schedule(r)
  BY <1>1, CallerWrites DEF Schedule
<1>2. CASE Enqueue(r)
  BY <1>2, CallerWrites DEF Enqueue
<1>3. CASE Publish(r)
  BY <1>3, CallerWrites DEF Publish
<1>4. CASE Cancel(r)
  BY <1>4, CallerWrites, RowParts DEF Cancel
<1>5. QED
  BY <1>1, <1>2, <1>3, <1>4

\* The end of a lease and the time of a row change neither status nor attempts.
LEMMA TimeWrites ==
    ASSUME IInv, NEW r \in Rows, NEW y \in Row, row' = [row EXCEPT ![r] = y],
           y.status = row[r].status, y.attempts = row[r].attempts,
           UNCHANGED <<kind, log, worker, executed, crashes>>
    PROVE  IInv' /\ Stays
<1>1. /\ row[r] \in Row /\ row[r].attempts \in Nat
      /\ log \in [Rows -> Seq(Entry)] /\ log[r] \in Seq(Entry)
  BY RowParts
<1>2. (r \in Notifications => LogFits(y, log[r])) /\ (r \in Events => y.status # "sent")
  BY DEF IInv, LogFits
<1>3. log' = [log EXCEPT ![r] = log[r]]
  BY <1>1
<1>4. kind' = kind /\ UNCHANGED <<worker, executed, crashes>> /\ y.attempts >= row[r].attempts
  BY <1>1
<1>5. TableStep
  BY <1>1, <1>2, <1>3, <1>4, OneRow
<1>6. WorkerStep
  BY <1>4, <1>5, NobodyMoves
<1>7. QED
  BY <1>5, <1>6, StepKeeps

\* LeaseEnds and ComesDue.
LEMMA TimeKeeps ==
    ASSUME IInv, NEW r \in Rows, LeaseEnds(r) \/ ComesDue(r)
    PROVE  IInv' /\ Stays
<1>1. row \in [Rows -> Row] /\ row[r] \in Row
  BY RowParts
<1>2. CASE LeaseEnds(r)
  <2> DEFINE y == [row[r] EXCEPT !.held = FALSE]
  <2>1. y \in Row /\ y.status = row[r].status /\ y.attempts = row[r].attempts
    BY <1>1 DEF Row
  <2>2. row' = [row EXCEPT ![r] = y]
    BY <1>2 DEF LeaseEnds
  <2>3. UNCHANGED <<kind, log, worker, executed, crashes>>
    BY <1>2 DEF LeaseEnds
  <2> HIDE DEF y
  <2>4. QED
    BY <2>1, <2>2, <2>3, TimeWrites
<1>3. CASE ComesDue(r)
  <2> DEFINE y == [row[r] EXCEPT !.due = TRUE]
  <2>1. y \in Row /\ y.status = row[r].status /\ y.attempts = row[r].attempts
    BY <1>1 DEF Row
  <2>2. row' = [row EXCEPT ![r] = y]
    BY <1>3 DEF ComesDue
  <2>3. UNCHANGED <<kind, log, worker, executed, crashes>>
    BY <1>3 DEF ComesDue
  <2> HIDE DEF y
  <2>4. QED
    BY <2>1, <2>2, <2>3, TimeWrites
<1>4. QED
  BY <1>2, <1>3

-----------------------------------------------------------------------------
(* Claims.                                                                 *)

\* claimDue and claimNext: the claim counts an attempt for the one who makes it.
LEMMA ClaimCounts ==
    ASSUME IInv, NEW w \in Pool, NEW r \in Rows, NEW s \in {"running", "processing"},
           row' = [row EXCEPT ![r] = Leased(row[r], s, 1, w)], worker[w] = Idle,
           Goes(w, Working(r)), UNCHANGED <<kind, log, executed, crashes>>,
           row[r].attempts < MaxAttempts, r \notin Events,
           r \notin Jobs => row[r].status \notin {"sent", "published"}
    PROVE  IInv' /\ Stays
<1>1. /\ row \in [Rows -> Row] /\ row[r] \in Row /\ row[r].attempts \in Nat
      /\ log \in [Rows -> Seq(Entry)] /\ log[r] \in Seq(Entry) /\ kind \in Kinds
      /\ executed[r] \in Nat
  BY RowParts
<1>2. /\ UNCHANGED <<kind, log>> /\ UNCHANGED <<executed, crashes>>
      /\ r \notin Jobs => row[r].status \notin {"sent", "published"}
  OBVIOUS
<1> DEFINE y == Leased(row[r], s, 1, w)
<1>4. y \in Row /\ y.status = s /\ y.attempts = row[r].attempts + 1
  <2>1. row[r].attempts + 1 \in 0 .. MaxAttempts /\ row[r].due \in BOOLEAN
    BY <1>1, WorkersAssumption DEF Row
  <2>2. QED
    BY <2>1 DEF Leased, Row
<1>5. row' = [row EXCEPT ![r] = y]
  OBVIOUS
<1> HIDE DEF y
<1>3. /\ y.attempts > row[r].attempts /\ y.attempts >= row[r].attempts
      /\ y.status \notin Done
  BY <1>1, <1>4 DEF Done
<1>6. TableStep
  BY <1>2, <1>3, <1>4, <1>5, OneRowUnlogged
<1> DEFINE p == Working(r)
<1>7. p \in Place /\ p.at = "execute" /\ p.batch = {r}
  BY <1>1, <1>2, WorkersAssumption DEF Working, Place
<1> HIDE DEF p
<1>8. /\ worker \in [Pool -> Place] /\ worker' \in [Pool -> Place] /\ worker'[w] = p
      /\ \A v \in Pool \ {w} : worker'[v] = worker[v]
  BY <1>2, <1>7 DEF IInv, TypeOK, Place, Goes, p
<1>9. Events' = Events
  BY <1>2 DEF Events
<1>10. ASSUME NEW v \in Pool
       PROVE  (worker'[v].at = "idle" <=> worker'[v].batch = {}) /\ WorkerFits(v)'
  <2>1. CASE v = w
    BY <1>7, <1>8, <2>1 DEF WorkerFits
  <2>2. CASE v # w
    BY <1>2, <1>8, <1>9, <2>2 DEF IInv, TypeOK, WorkerFits
  <2>3. QED
    BY <2>1, <2>2
<1>11. Counted(r)'
  <2> DEFINE S == Executing(r)
             T == Executing(r)'
  <2>1. w \notin S /\ T = S \cup {w}
    BY <1>2, <1>7, <1>8 DEF Executing, Idle
  <2>2. IsFiniteSet(S)
    BY WorkersAssumption, FS_Subset DEF Executing
  <2>3. executed[r] + Cardinality(S) <= row[r].attempts
    BY <1>2 DEF IInv, Counted
  <2>4. row'[r] = y
    BY <1>1, <1>5
  <2> HIDE DEF S
  <2>5. Cardinality(S \cup {w}) = Cardinality(S) + 1 /\ Cardinality(S) \in Nat
    BY <2>1, <2>2, FS_AddElement, FS_CardinalityType
  <2>6. executed'[r] = executed[r]
    BY <1>2
  <2> HIDE DEF T
  <2>7. executed'[r] + Cardinality(T) <= row'[r].attempts
    BY <1>1, <1>4, <2>1, <2>3, <2>4, <2>5, <2>6
  <2>8. QED
    BY <2>7 DEF Counted, T
<1>12. ASSUME NEW x \in Rows PROVE executed'[x] >= executed[x] /\ Counted(x)'
  <2>1. /\ row'[x].attempts \in Nat /\ row'[x].attempts >= row[x].attempts
        /\ executed[x] \in Nat /\ executed'[x] = executed[x]
    BY <1>2, <1>6, RowParts, WorkersAssumption DEF TableStep, RowStep, Row
  <2>2. CASE x = r
    BY <1>11, <2>1, <2>2
  <2>3. CASE x # r
    <3>1. \A v \in Pool : worker'[v].at = "execute" /\ x \in worker'[v].batch =>
                              worker[v].at = "execute" /\ x \in worker[v].batch
      BY <1>7, <1>8, <2>3
    <3>2. QED
      BY <1>2, <2>1, <3>1, CountStands
  <2>4. QED
    BY <2>2, <2>3
<1>13. WorkerStep
  BY <1>2, <1>8, <1>10, <1>12 DEF WorkerStep, IInv, TypeOK
<1>14. QED
  BY <1>6, <1>13, StepKeeps

\* Of a job or of a notification.
LEMMA ClaimKeeps ==
    ASSUME IInv, NEW w \in Pool, NEW r \in Rows, ClaimJob(w, r) \/ ClaimNotification(w, r)
    PROVE  IInv' /\ Stays
<1>1. kind \in Kinds
  BY RowParts
<1>2. CASE ClaimJob(w, r)
  BY <1>1, <1>2, ClaimCounts, RowKinds DEF ClaimJob, DueJob
<1>3. CASE ClaimNotification(w, r)
  BY <1>1, <1>3, ClaimCounts, RowKinds DEF ClaimNotification, DueNotification
<1>4. QED
  BY <1>2, <1>3

\* claimPending.
LEMMA ClaimEventsKeeps ==
    ASSUME IInv, NEW w \in Pool, NEW batch \in SUBSET Rows, ClaimEvents(w, batch)
    PROVE  IInv' /\ Stays
<1> DEFINE p == [at |-> "execute", batch |-> batch, current |-> NoOne, attempt |-> 0]
<1>1. /\ batch # {} /\ batch \subseteq Events /\ Goes(w, p)
      /\ \A r \in batch : row[r].status = "pending"
      /\ row' = [r \in Rows |-> IF r \in batch THEN Leased(row[r], row[r].status, 0, w)
                                            ELSE row[r]]
      /\ UNCHANGED <<kind, log, executed, crashes>>
  BY DEF ClaimEvents, PendingEvents
<1>2. /\ row \in [Rows -> Row] /\ log \in [Rows -> Seq(Entry)] /\ kind \in Kinds
      /\ crashes \in 0 .. MaxCrashes
  BY DEF IInv, TypeOK, Entry
<1>3. ASSUME NEW r \in Rows PROVE row'[r] \in Row /\ RowStep(r)
  <2>1. CASE r \notin batch
    BY <1>1, <1>2, <2>1, RowStands
  <2>2. CASE r \in batch
    <3>1. /\ row'[r] = Leased(row[r], row[r].status, 0, w) /\ row[r] \in Row
          /\ row[r].attempts \in Nat /\ row[r].status \in Status
      BY <1>1, <2>2, RowParts
    <3>2. row'[r] \in Row /\ row'[r].status = row[r].status /\ row'[r].attempts = row[r].attempts
      <4>1. row[r].attempts + 0 = row[r].attempts /\ row[r].attempts <= MaxAttempts
        BY <3>1, WorkersAssumption DEF Row
      <4>2. QED
        BY <3>1, <4>1, LeasedRow
    <3>3. r \notin Notifications
      BY <1>1, <1>2, <2>2, RowKinds
    <3>4. QED
      BY <1>1, <2>2, <3>1, <3>2, <3>3 DEF RowStep
  <2>3. QED
    BY <2>1, <2>2
<1>4. TableStep
  <2>1. \A r \in Rows : row'[r] \in Row
    BY <1>3
  <2>2. row' \in [Rows -> Row]
    BY <1>1, <2>1
  <2>3. QED
    BY <1>1, <1>2, <1>3, <2>2 DEF TableStep
<1>5. p \in Place /\ p.at = "execute" /\ p.batch = batch
  BY WorkersAssumption DEF Place
<1> HIDE DEF p
<1>6. WorkerStep
  BY <1>1, <1>2, <1>4, <1>5, GoesOn
<1>7. QED
  BY <1>4, <1>6, StepKeeps

-----------------------------------------------------------------------------
(* Execution.                                                              *)

\* One worker executes its row or gives up; the attempt is used up.
LEMMA Executed ==
    ASSUME IInv, NEW w \in Pool, NEW r \in Rows, worker[w].at = "execute",
           r \in worker[w].batch, NEW n \in {executed[r], Executes(r)},
           NEW at \in {"confirm", "report"}, at = "confirm" => n = Executes(r),
           executed' = [executed EXCEPT ![r] = n],
           Goes(w, [worker[w] EXCEPT !.at = at, !.current = r]),
           UNCHANGED <<kind, row, log, crashes>>
    PROVE  IInv' /\ Stays
<1> DEFINE p == [worker[w] EXCEPT !.at = at, !.current = r]
<1>1. /\ worker \in [Pool -> Place] /\ worker[w] \in Place
      /\ executed \in [Rows -> 0 .. MaxAttempts + 1] /\ crashes \in 0 .. MaxCrashes
      /\ \A v \in Pool : (worker[v].at = "idle" <=> worker[v].batch = {}) /\ WorkerFits(v)
      /\ row[r].attempts \in 0 .. MaxAttempts
  BY DEF IInv, TypeOK, Place, Row
<1>2. kind' = kind /\ row' = row /\ Events' = Events
  BY DEF Events
<1>3. TableStep
  BY TablesStand
<1>4. p \in Place /\ p.at = at /\ p.batch = worker[w].batch /\ p.current = r
  BY <1>1 DEF Place
<1>5. Goes(w, p)
  OBVIOUS
<1> HIDE DEF p
<1>6. /\ worker' \in [Pool -> Place] /\ worker'[w] = p
      /\ \A v \in Pool \ {w} : worker'[v] = worker[v]
  BY <1>1, <1>4, <1>5 DEF Goes
<1>7. /\ n \in 0 .. MaxAttempts + 1 /\ n >= executed[r] /\ n <= executed[r] + 1
      /\ n = Executes(r) => n > 0
  BY <1>1, WorkersAssumption DEF Executes, Bump
<1>8. /\ executed' \in [Rows -> 0 .. MaxAttempts + 1] /\ executed'[r] = n
      /\ \A x \in Rows \ {r} : executed'[x] = executed[x]
  BY <1>1, <1>7
<1>9. \A x \in Rows : executed[x] \in Nat /\ executed'[x] \in Nat /\ executed'[x] >= executed[x]
  BY <1>1, <1>7, <1>8, WorkersAssumption
<1>10. ASSUME NEW v \in Pool
       PROVE  (worker'[v].at = "idle" <=> worker'[v].batch = {}) /\ WorkerFits(v)'
  <2>1. CASE v = w
    <3>1. worker'[v].at # "idle" /\ worker'[v].batch # {}
      BY <1>4, <1>6, <2>1
    <3>2. worker'[v].at = "confirm" => executed'[worker'[v].current] > 0
      BY <1>4, <1>6, <1>7, <1>8, <2>1
    <3>3. \A x \in worker'[v].batch \ Events : worker'[v].batch = {x}
      BY <1>1, <1>4, <1>6, <2>1 DEF WorkerFits
    <3>4. QED
      BY <1>2, <1>4, <1>6, <2>1, <3>1, <3>2, <3>3 DEF WorkerFits
  <2>2. CASE v # w
    <3>1. worker'[v] = worker[v] /\ worker[v] \in Place
      BY <1>1, <1>6, <2>2
    <3>2. worker[v].at = "confirm" => executed'[worker[v].current] > 0
      <4>1. SUFFICES ASSUME worker[v].at = "confirm" PROVE executed'[worker[v].current] > 0
        OBVIOUS
      <4>2. worker[v].current \in Rows /\ executed[worker[v].current] > 0
        BY <1>1, <3>1, <4>1 DEF WorkerFits, Place
      <4>3. QED
        BY <1>9, <4>2
    <3>3. QED
      BY <1>1, <1>2, <3>1, <3>2 DEF WorkerFits
  <2>3. QED
    BY <2>1, <2>2
<1>11. Counted(r)'
  <2> DEFINE S == Executing(r)
             T == Executing(r)'
  <2>1. w \in S /\ T = S \ {w}
    BY <1>1, <1>4, <1>6 DEF Executing
  <2>2. IsFiniteSet(S)
    BY WorkersAssumption, FS_Subset DEF Executing
  <2>3. r \notin Events => executed[r] + Cardinality(S) <= row[r].attempts
    BY DEF IInv, Counted
  <2> HIDE DEF S, T
  <2>4. Cardinality(T) = Cardinality(S) - 1 /\ Cardinality(S) \in Nat
    BY <2>1, <2>2, FS_RemoveElement, FS_CardinalityType
  <2>5. r \notin Events => executed'[r] + Cardinality(T) <= row[r].attempts
    BY <1>1, <1>7, <1>8, <1>9, <2>3, <2>4
  <2>6. QED
    BY <1>2, <2>5 DEF Counted, T
<1>12. ASSUME NEW x \in Rows PROVE executed'[x] >= executed[x] /\ Counted(x)'
  <2>1. CASE x = r
    BY <1>9, <1>11, <2>1
  <2>2. CASE x # r
    <3>1. \A v \in Pool : worker'[v].at = "execute" /\ x \in worker'[v].batch =>
                              worker[v].at = "execute" /\ x \in worker[v].batch
      BY <1>4, <1>6
    <3>2. row'[x].attempts \in Nat /\ row'[x].attempts >= row[x].attempts
      BY <1>2, RowParts
    <3>3. executed'[x] = executed[x]
      BY <1>8, <2>2
    <3>4. QED
      BY <1>2, <1>9, <3>1, <3>2, <3>3, CountStands
  <2>3. QED
    BY <2>1, <2>2
<1>13. WorkerStep
  BY <1>1, <1>6, <1>8, <1>10, <1>12 DEF WorkerStep
<1>14. QED
  BY <1>3, <1>13, StepKeeps

\* The handler, the provider or the transport did its work, or threw.
LEMMA ExecutionKeeps ==
    ASSUME IInv, NEW w \in Pool, NEW r \in Rows, Succeeds(w, r) \/ Throws(w, r)
    PROVE  IInv' /\ Stays
<1>1. CASE Succeeds(w, r)
  BY <1>1, Executed DEF Succeeds
<1>2. CASE Throws(w, r)
  <2>1. PICK n \in {executed[r], Executes(r)} : executed' = [executed EXCEPT ![r] = n]
    BY <1>2 DEF Throws
  <2>2. QED
    BY <1>2, <2>1, Executed DEF Throws
<1>3. QED
  BY <1>1, <1>2

-----------------------------------------------------------------------------
(* Reports.                                                                *)

\* What a report makes of the row r, with its log.
ReportFits(r, y, l) ==
    /\ y \in Row /\ l \in Seq(Entry)
    /\ y.attempts >= row[r].attempts
    /\ r \in Notifications => LogFits(y, l)
    /\ y.status \in Done => y.status = row[r].status \/ executed[r] > 0
    /\ r \in Events => y.status # "sent"
    /\ (r \notin Jobs /\ row[r].status \in {"sent", "published"}) => y.status = row[r].status

\* complete and fail.
LEMMA JobReported ==
    ASSUME IInv, NEW r \in Jobs, NEW again \in BOOLEAN
    PROVE  /\ executed[r] > 0 => ReportFits(r, CompleteJob(r), log[r])
           /\ ReportFits(r, FailJob(r, again), log[r])
<1>1. /\ row[r] \in Row /\ row[r].attempts \in Nat /\ log[r] \in Seq(Entry)
      /\ r \in Rows /\ r \notin Notifications /\ r \notin Events /\ row[r].due \in BOOLEAN
      /\ Settled[kind[r]] \in {"completed", "scheduled"}
  BY RowParts, RowKinds DEF Jobs, Settled
<1>2. ReportFits(r, row[r], log[r])
  BY <1>1 DEF ReportFits
<1>3. ASSUME NEW s \in Status, NEW d \in BOOLEAN, s \in Done => executed[r] > 0
      PROVE  ReportFits(r, Unleased(row[r], s, d), log[r])
  <2> DEFINE y == Unleased(row[r], s, d)
  <2>1. y \in Row /\ y.status = s /\ y.attempts = row[r].attempts
    BY <1>1, UnleasedRow
  <2> HIDE DEF y
  <2>2. ReportFits(r, y, log[r])
    BY <1>1, <1>3, <2>1 DEF ReportFits
  <2>3. QED
    BY <2>2 DEF y
<1>4. ASSUME executed[r] > 0 PROVE ReportFits(r, CompleteJob(r), log[r])
  BY <1>1, <1>2, <1>3, <1>4 DEF CompleteJob, Status
<1>5. ReportFits(r, FailJob(r, again), log[r])
  BY <1>1, <1>3 DEF FailJob, Status, Done
<1>6. QED
  BY <1>4, <1>5

\* markSent and markFailed, with the row of notification_delivery_attempts.
LEMMA NotificationReported ==
    ASSUME IInv, NEW r \in Notifications, NEW w \in Pool, NEW again \in BOOLEAN
    PROVE  /\ executed[r] > 0 => ReportFits(r, MarkSent(r, w), LogAttempt(r, w, "sent"))
           /\ ReportFits(r, MarkFailed(r, w, again), LogAttempt(r, w, "failed"))
<1>1. /\ row[r] \in Row /\ row[r].attempts \in Nat /\ log[r] \in Seq(Entry)
      /\ r \in Rows /\ r \notin Events /\ row[r].due \in BOOLEAN
  BY RowParts, RowKinds DEF Notifications
<1>2. LogFits(row[r], log[r])
  BY DEF IInv
<1>3. CASE row[r].owner # w \/ row[r].status # "processing"
  BY <1>1, <1>2, <1>3 DEF MarkSent, MarkFailed, LogAttempt, ReportFits
<1>4. CASE row[r].owner = w /\ row[r].status = "processing"
  <2>1. ASSUME NEW outcome \in {"sent", "failed"}, NEW d \in BOOLEAN,
               outcome = "sent" => executed[r] > 0
        PROVE  ReportFits(r, Unleased(row[r], outcome, d),
                          Append(log[r], <<row[r].attempts, outcome>>))
    <3> DEFINE y == Unleased(row[r], outcome, d)
               m == Append(log[r], <<row[r].attempts, outcome>>)
    <3>1. y \in Row /\ y.status = outcome /\ y.attempts = row[r].attempts
      <4>1. outcome \in Status
        BY DEF Status
      <4>2. QED
        BY <1>1, <4>1, UnleasedRow
    <3> HIDE DEF y
    <3>2. m \in Seq(Entry) /\ LogFits(y, m)
      BY <1>1, <1>2, <1>4, <3>1, AttemptLogged
    <3> HIDE DEF m
    <3>3. ReportFits(r, y, m)
      BY <1>1, <1>4, <2>1, <3>1, <3>2 DEF ReportFits, Done
    <3>4. QED
      BY <3>3 DEF y, m
  <2>2. ASSUME executed[r] > 0 PROVE ReportFits(r, MarkSent(r, w), LogAttempt(r, w, "sent"))
    BY <1>1, <1>4, <2>1, <2>2 DEF MarkSent, LogAttempt
  <2>3. ReportFits(r, MarkFailed(r, w, again), LogAttempt(r, w, "failed"))
    BY <1>1, <1>4, <2>1 DEF MarkFailed, LogAttempt
  <2>4. QED
    BY <2>2, <2>3
<1>5. QED
  BY <1>3, <1>4

\* markPublished and markFailed of an event.
LEMMA EventReported ==
    ASSUME IInv, NEW r \in Events, NEW w \in Pool
    PROVE  /\ executed[r] > 0 => ReportFits(r, MarkPublished(r, w), log[r])
           /\ ReportFits(r, EventFailed(r, w), log[r])
<1>1. /\ row[r] \in Row /\ row[r].attempts \in Nat /\ log[r] \in Seq(Entry)
      /\ r \in Rows /\ r \notin Notifications /\ row[r].due \in BOOLEAN /\ row[r].status \in Status
  BY RowParts, RowKinds DEF Events
<1>2. ReportFits(r, row[r], log[r]) /\ row[r].status # "sent"
  BY <1>1 DEF ReportFits, IInv
<1>3. ASSUME NEW s \in Status, NEW d \in BOOLEAN, s # "sent",
             s \in Done => s = row[r].status \/ executed[r] > 0,
             row[r].status \in {"sent", "published"} => s = row[r].status
      PROVE  ReportFits(r, Unleased(row[r], s, d), log[r])
  <2> DEFINE y == Unleased(row[r], s, d)
  <2>1. y \in Row /\ y.status = s /\ y.attempts = row[r].attempts
    BY <1>1, UnleasedRow
  <2> HIDE DEF y
  <2>2. ReportFits(r, y, log[r])
    BY <1>1, <1>3, <2>1 DEF ReportFits
  <2>3. QED
    BY <2>2 DEF y
<1>4. ASSUME executed[r] > 0 PROVE ReportFits(r, MarkPublished(r, w), log[r])
  BY <1>1, <1>2, <1>3, <1>4 DEF MarkPublished, Status
<1>5. ReportFits(r, EventFailed(r, w), log[r])
  BY <1>1, <1>2, <1>3 DEF EventFailed, IInv
<1>6. QED
  BY <1>4, <1>5

\* A report updates one row with its log.
LEMMA ReportStep ==
    ASSUME IInv, NEW r \in Rows, NEW y, NEW l, ReportFits(r, y, l), kind' = kind,
           row' = [row EXCEPT ![r] = y],
           log' = IF r \in Notifications THEN [log EXCEPT ![r] = l] ELSE log,
           r \notin Notifications => l = log[r]
    PROVE  TableStep
<1>1. log \in [Rows -> Seq(Entry)]
  BY RowParts
<1>2. log' = [log EXCEPT ![r] = l]
  BY <1>1
<1>3. QED
  BY <1>2, OneRow DEF ReportFits

\* A worker that confirms or reports has a row, and confirms only what was
\* executed.
LEMMA CurrentRow ==
    ASSUME IInv, NEW w \in Pool, worker[w].at \in {"confirm", "report"}
    PROVE  /\ worker[w].current \in Rows /\ worker[w].current \in worker[w].batch
           /\ worker[w].at = "confirm" => executed[worker[w].current] > 0
           /\ worker[w].batch \in SUBSET Rows
  BY DEF IInv, TypeOK, WorkerFits

\* complete, markSent and markPublished.
LEMMA SettleStep ==
    ASSUME IInv, NEW w \in Pool, worker[w].at = "confirm", Settle(w), kind' = kind
    PROVE  TableStep
<1> DEFINE r == worker[w].current
<1>1. r \in Rows /\ executed[r] > 0 /\ kind \in Kinds
  BY CurrentRow, RowParts
<1>2. CASE r \in Jobs
  <2> DEFINE y == CompleteJob(r)
  <2>1. r \notin Notifications /\ r \notin Events
    BY <1>1, <1>2, RowKinds
  <2>2. row' = [row EXCEPT ![r] = y] /\ log' = log
    BY <1>2, <2>1 DEF Settle
  <2>3. ReportFits(r, y, log[r])
    BY <1>1, <1>2, JobReported
  <2> HIDE DEF y
  <2>4. QED
    BY <1>1, <2>1, <2>2, <2>3, ReportStep
<1>3. CASE r \in Notifications
  <2> DEFINE y == MarkSent(r, w)
             l == LogAttempt(r, w, "sent")
  <2>1. r \notin Jobs /\ r \notin Events
    BY <1>1, <1>3, RowKinds
  <2>2. row' = [row EXCEPT ![r] = y] /\ log' = [log EXCEPT ![r] = l]
    <3>1. row' = [row EXCEPT ![r] = y]
      BY <1>3, <2>1 DEF Settle
    <3>2. log' = [log EXCEPT ![r] = l]
      BY <1>3 DEF Settle
    <3>3. QED
      BY <3>1, <3>2
  <2>3. ReportFits(r, y, l)
    BY <1>1, <1>3, NotificationReported
  <2> HIDE DEF y, l
  <2>4. QED
    BY <1>1, <1>3, <2>2, <2>3, ReportStep
<1>4. CASE r \in Events
  <2> DEFINE y == MarkPublished(r, w)
  <2>1. r \notin Notifications /\ r \notin Jobs
    BY <1>1, <1>4, RowKinds
  <2>2. row' = [row EXCEPT ![r] = y] /\ log' = log
    BY <1>4, <2>1 DEF Settle
  <2>3. ReportFits(r, y, log[r])
    BY <1>1, <1>4, EventReported
  <2> HIDE DEF y
  <2>4. QED
    BY <1>1, <2>1, <2>2, <2>3, ReportStep
<1>5. QED
  BY <1>1, <1>2, <1>3, <1>4, RowKinds

\* fail and the two statements named markFailed.
LEMMA FailureStep ==
    ASSUME IInv, NEW w \in Pool, worker[w].at = "report", RecordFailure(w), kind' = kind
    PROVE  TableStep
<1> DEFINE r == worker[w].current
<1>1. r \in Rows /\ kind \in Kinds /\ Again(w) \in BOOLEAN
  BY CurrentRow, RowParts DEF Again
<1>2. CASE r \in Jobs
  <2> DEFINE y == FailJob(r, Again(w))
  <2>1. r \notin Notifications /\ r \notin Events
    BY <1>1, <1>2, RowKinds
  <2>2. row' = [row EXCEPT ![r] = y] /\ log' = log
    BY <1>2, <2>1 DEF RecordFailure
  <2>3. ReportFits(r, y, log[r])
    BY <1>1, <1>2, JobReported
  <2> HIDE DEF y
  <2>4. QED
    BY <1>1, <2>1, <2>2, <2>3, ReportStep
<1>3. CASE r \in Notifications
  <2> DEFINE y == MarkFailed(r, w, Again(w))
             l == LogAttempt(r, w, "failed")
  <2>1. r \notin Jobs /\ r \notin Events
    BY <1>1, <1>3, RowKinds
  <2>2. row' = [row EXCEPT ![r] = y] /\ log' = [log EXCEPT ![r] = l]
    <3>1. row' = [row EXCEPT ![r] = y]
      BY <1>3, <2>1 DEF RecordFailure
    <3>2. log' = [log EXCEPT ![r] = l]
      BY <1>3 DEF RecordFailure
    <3>3. QED
      BY <3>1, <3>2
  <2>3. ReportFits(r, y, l)
    BY <1>1, <1>3, NotificationReported
  <2> HIDE DEF y, l
  <2>4. QED
    BY <1>1, <1>3, <2>2, <2>3, ReportStep
<1>4. CASE r \in Events
  <2> DEFINE y == EventFailed(r, w)
  <2>1. r \notin Notifications /\ r \notin Jobs
    BY <1>1, <1>4, RowKinds
  <2>2. row' = [row EXCEPT ![r] = y] /\ log' = log
    BY <1>4, <2>1 DEF RecordFailure
  <2>3. ReportFits(r, y, log[r])
    BY <1>1, <1>4, EventReported
  <2> HIDE DEF y
  <2>4. QED
    BY <1>1, <2>1, <2>2, <2>3, ReportStep
<1>5. QED
  BY <1>1, <1>2, <1>3, <1>4, RowKinds

\* The answers of the reports, and their loss.
LEMMA ReportKeeps ==
    ASSUME IInv, NEW w \in Pool,
           Confirm(w) \/ ConfirmThrows(w) \/ Report(w) \/ ReportThrows(w)
    PROVE  IInv' /\ Stays
<1>1. crashes \in 0 .. MaxCrashes
  BY DEF IInv, TypeOK
<1>2. CASE Confirm(w)
  <2>1. TableStep
    BY <1>2, SettleStep DEF Confirm
  <2>2. WorkerStep
    BY <1>2, <2>1, RestsOn DEF Confirm
  <2>3. QED
    BY <2>1, <2>2, StepKeeps
<1>3. CASE ConfirmThrows(w)
  <2> DEFINE p == [worker[w] EXCEPT !.at = "report"]
  <2>1. TableStep
    BY <1>3, SettleStep, TablesStand DEF ConfirmThrows
  <2>2. worker[w].at = "confirm" /\ worker[w] \in Place /\ WorkerFits(w)
    BY <1>3 DEF ConfirmThrows, IInv, TypeOK, Place
  <2>3. p \in Place /\ p.at = "report" /\ p.batch = worker[w].batch /\ p.current = worker[w].current
    BY <2>2 DEF Place
  <2>4. Goes(w, p) /\ executed' = executed /\ crashes' = crashes
    BY <1>3 DEF ConfirmThrows
  <2> HIDE DEF p
  <2>5. p.current \in p.batch /\ \A r \in p.batch \ Events : p.batch = {r}
    BY <2>2, <2>3 DEF WorkerFits
  <2>6. p.batch # {}
    BY <2>5
  <2>7. WorkerStep
    BY <1>1, <2>1, <2>3, <2>4, <2>5, <2>6, GoesOn
  <2>8. QED
    BY <2>1, <2>7, StepKeeps
<1>4. CASE Report(w)
  <2>1. TableStep
    BY <1>4, FailureStep DEF Report
  <2>2. WorkerStep
    BY <1>4, <2>1, RestsOn DEF Report
  <2>3. QED
    BY <2>1, <2>2, StepKeeps
<1>5. CASE ReportThrows(w)
  <2>1. TableStep
    BY <1>5, FailureStep, TablesStand DEF ReportThrows
  <2>2. WorkerStep
    BY <1>1, <1>5, <2>1, Stops DEF ReportThrows
  <2>3. QED
    BY <2>1, <2>2, StepKeeps
<1>6. QED
  BY <1>2, <1>3, <1>4, <1>5

\* A worker dies.
LEMMA CrashKeeps == ASSUME IInv, NEW w \in Pool, Crash(w) PROVE IInv' /\ Stays
<1>1. UNCHANGED <<kind, row, log>> /\ executed' = executed /\ Goes(w, Idle)
  BY DEF Crash
<1>2. crashes' \in 0 .. MaxCrashes
  BY WorkersAssumption DEF Crash, IInv, TypeOK
<1>3. TableStep
  BY <1>1, TablesStand
<1>4. WorkerStep
  BY <1>1, <1>2, <1>3, Stops
<1>5. QED
  BY <1>3, <1>4, StepKeeps

-----------------------------------------------------------------------------
(* The system.                                                             *)

\* Nothing was written and nobody works.
LEMMA InitHolds == ASSUME Init PROVE IInv
<1>1. TypeOK
  <2>1. kind \in Kinds /\ row \in [Rows -> Row] /\ executed \in [Rows -> 0 .. MaxAttempts + 1]
    BY WorkersAssumption DEF Init, Row
  <2>2. log \in [Rows -> Seq((1 .. MaxAttempts) \X {"sent", "failed"})]
    BY EmptySeq DEF Init
  <2>3. \A w \in Pool : worker[w] = Idle
    BY DEF Init
  <2>4. worker \in [Pool -> [at : {"idle", "execute", "confirm", "report"}, batch : SUBSET Rows,
                             current : Rows \cup {NoOne}, attempt : 0 .. MaxAttempts]]
    BY WorkersAssumption DEF Init, Idle
  <2>5. crashes \in 0 .. MaxCrashes
    BY WorkersAssumption DEF Init
  <2>6. QED
    BY <2>1, <2>2, <2>3, <2>4, <2>5 DEF TypeOK, Idle
<1>2. \A w \in Pool : WorkerFits(w)
  BY DEF Init, Idle, WorkerFits
<1>3. \A r \in Rows : row[r].status = "none" /\ row[r].attempts = 0 /\ executed[r] = 0
                      /\ log[r] = <<>>
  BY DEF Init
<1>4. \A r \in Notifications : LogFits(row[r], log[r])
  <2>1. Len(<<>>) = 0 /\ \A i \in 1 .. 0 : FALSE
    OBVIOUS
  <2>2. QED
    BY <1>3, <2>1 DEF LogFits, Notifications
<1>5. ASSUME NEW r \in Rows PROVE Counted(r)
  <2>1. Executing(r) = {}
    BY DEF Executing, Init, Idle
  <2>2. QED
    BY <1>3, <2>1, FS_EmptySet DEF Counted
<1>6. QED
  BY <1>1, <1>2, <1>3, <1>4, <1>5 DEF IInv, Done, Events

\* Every step keeps the inductive invariant, and takes back nothing.
LEMMA NextKeeps == ASSUME IInv, [Next]_vars PROVE IInv' /\ Stays
<1>1. ASSUME NEW r \in Rows, Schedule(r) \/ Enqueue(r) \/ Publish(r) \/ Cancel(r)
      PROVE  IInv' /\ Stays
  BY <1>1, CallerKeeps
<1>2. ASSUME NEW r \in Rows, LeaseEnds(r) \/ ComesDue(r) PROVE IInv' /\ Stays
  BY <1>2, TimeKeeps
<1>3. ASSUME NEW w \in Pool, Turn(w) PROVE IInv' /\ Stays
  <2>1. ASSUME NEW r \in Rows, ClaimJob(w, r) \/ ClaimNotification(w, r) PROVE IInv' /\ Stays
    BY <2>1, ClaimKeeps
  <2>2. ASSUME NEW r \in Rows, Succeeds(w, r) \/ Throws(w, r) PROVE IInv' /\ Stays
    BY <2>2, ExecutionKeeps
  <2>3. ASSUME NEW batch \in SUBSET Rows, ClaimEvents(w, batch) PROVE IInv' /\ Stays
    BY <2>3, ClaimEventsKeeps
  <2>4. QED
    BY <1>3, <2>1, <2>2, <2>3, ReportKeeps DEF Turn
<1>4. ASSUME NEW w \in Pool, Crash(w) PROVE IInv' /\ Stays
  BY <1>4, CrashKeeps
<1>5. CASE UNCHANGED vars
  <2>1. UNCHANGED <<kind, row, log>> /\ UNCHANGED <<worker, executed, crashes>>
    BY <1>5 DEF vars
  <2>2. TableStep
    BY <2>1, TablesStand
  <2>3. QED
    BY <2>1, <2>2, NobodyMoves, StepKeeps
<1>6. QED
  BY <1>1, <1>2, <1>3, <1>4, <1>5 DEF Next

\* The inductive invariant holds in every behaviour.
THEOREM Invariance == Spec => []IInv
<1>1. Init => IInv
  BY InitHolds
<1>2. IInv /\ [Next]_vars => IInv'
  BY NextKeeps
<1>3. QED
  BY <1>1, <1>2, PTL DEF Spec

\* The tables and the workers are well formed: no row counts more attempts than
\* max_attempts, and a worker without a batch is idle.
THEOREM TypeCorrect == Spec => []TypeOK
<1>1. IInv => TypeOK
  BY DEF IInv
<1>2. QED
  BY <1>1, Invariance, PTL

\* The delivery log of a notification tells what happened to it, in order and
\* without repetition, whatever leases end and whatever answers are lost
\* (markSent, markFailed).
THEOREM LogTruthful == Spec => []NotificationLog
<1>1. IInv => NotificationLog
  BY DEF IInv, LogFits, NotificationLog
<1>2. QED
  BY <1>1, Invariance, PTL

\* Work is marked as done only when it was done, and it takes effect at most
\* max_attempts times (claimDue, claimNext).
THEOREM ExecutionsCounted == Spec => []ExecutionsAccounted
<1>1. ASSUME IInv PROVE ExecutionsAccounted
  <2>1. ASSUME NEW r \in Rows, r \notin Events PROVE executed[r] <= MaxAttempts
    <3> DEFINE S == Executing(r)
    <3>1. IsFiniteSet(S)
      BY WorkersAssumption, FS_Subset DEF Executing
    <3>2. executed[r] + Cardinality(S) <= row[r].attempts
      BY <1>1, <2>1 DEF IInv, Counted
    <3> HIDE DEF S
    <3>3. Cardinality(S) \in Nat
      BY <3>1, FS_CardinalityType
    <3>4. /\ executed[r] \in Nat /\ row[r].attempts \in Nat /\ row[r].attempts <= MaxAttempts
          /\ MaxAttempts \in Nat
      BY <1>1, <2>1, WorkersAssumption DEF IInv, TypeOK, Row
    <3>5. QED
      BY <3>2, <3>3, <3>4
  <2>2. QED
    BY <1>1, <2>1 DEF IInv, Done, ExecutionsAccounted
<1>2. QED
  BY <1>1, Invariance, PTL

\* No late report takes back what was sent or published (the guards of
\* markFailed and markPublished).
THEOREM SettledForGood == Spec => SettledStays
<1>1. IInv /\ [Next]_vars => Stays
  BY NextKeeps
<1>2. QED
  BY <1>1, Invariance, PTL DEF Spec, SettledStays, Stays

------------------------------------------------------------------------------
(* Platform.                                                               *)

\* The rows of the three tables.
MemberRow == [identity : Identities \cup {None}, status : MemberStatus,
              roles : SUBSET (Roles \cup {Owner})]
RoleRow == [exists : BOOLEAN, deleted : BOOLEAN, keys : SUBSET Keys]
TenantRow == [slug : Slugs \cup {None}, status : TenantStatus \cup {None},
              deleted : BOOLEAN, parts : SUBSET {Parts[i] : i \in DOMAIN Parts},
              modules : SUBSET Modules, visible : BOOLEAN]

\* What a request that locked a row found there is there until it writes.
HolderSound(r) ==
    /\ Doing(r, "patchMember") => member[request[r].do.member].status # "absent"
    /\ request[r].at \in Holding /\ Doing(r, "patchMember") =>
          /\ request[r].at = "locked" => request[r].do.roles = {}
          /\ request[r].at = "deleted" => request[r].gone = member[request[r].do.member].roles
    /\ request[r].at = "deleted" /\ Doing(r, "putPermissions") =>
          request[r].gone = role[request[r].do.role].keys

\* No two requests hold one row.
LocksApart ==
    \A q, r \in Requests : q # r => Locked(q) = None \/ Locked(q) # Locked(r)

\* A tenant that is being created is hidden, and has what was inserted so far;
\* other requests are about tenants that can be seen.
CreatorSound(r) ==
    /\ Doing(r, "createTenant") =>
          /\ request[r].at \in {"arrived", "creating"}
          /\ request[r].at = "arrived" => tenant[request[r].do.tenant] = NoTenant
          /\ request[r].at = "creating" =>
                LET t == tenant[request[r].do.tenant]
                IN  /\ request[r].done \in 2 .. Len(Parts) - 1
                    /\ t.parts = {Parts[i] : i \in 1 .. request[r].done}
                    /\ ~t.visible /\ ~t.deleted /\ t.status = "active"
                    /\ CoreModules \subseteq t.modules
    /\ request[r].do # None
          /\ request[r].do.op \in {"patchModule", "setStatus", "transition", "deleteTenant"} =>
          tenant[request[r].do.tenant].visible
    /\ request[r].at = "checked" /\ Doing(r, "patchModule") =>
          (request[r].do.module \in CoreModules => request[r].do.enabled)

\* No two requests create one tenant.
CreatorsApart ==
    \A q, r \in Requests :
        /\ Doing(q, "createTenant") /\ Doing(r, "createTenant")
        /\ request[q].do.tenant = request[r].do.tenant
        => q = r

\* The two parts of HeldOnce.
MembersOnce ==
    \A m, n \in Members :
        /\ member[m].status = "active" /\ member[n].status = "active"
        /\ member[m].identity = member[n].identity
        => m = n
SlugsOnce ==
    \A t, u \in Tenants :
        /\ tenant[t].slug = tenant[u].slug /\ tenant[t].slug # None
        /\ ~tenant[t].deleted /\ ~tenant[u].deleted
        => t = u

\* The memberships and roles, and who holds their rows; the tenants, and who
\* creates them.
MembersSound ==
    /\ GivenByOneRequest /\ MembersOnce /\ LocksApart
    /\ \A r \in Requests : HolderSound(r)
TenantsSound ==
    /\ TenantsWhole /\ SlugsOnce /\ CreatorsApart
    /\ \A r \in Requests : CreatorSound(r)

\* The inductive invariant of Platform.
PlatformInv == PlatformTypeOK /\ MembersSound /\ TenantsSound

------------------------------------------------------------------------------
\* What is in an operation.
LEMMA OperationFields ==
    ASSUME NEW d \in Operations
    PROVE  /\ d.op = "addMember" => d.identity \in Identities /\ d.roles \in RoleSets
           /\ d.op = "patchMember" =>
                 /\ d.member \in Members /\ d.roles \in RoleSets \cup {{}}
                 /\ d.status \in {"active", "suspended", "revoked", None}
           /\ d.op \in {"createRole", "patchRole", "putPermissions"} => d.role \in Roles
           /\ d.op = "patchRole" => d.deleted \in BOOLEAN
           /\ d.op = "putPermissions" => d.keys \in KeySets
           /\ d.op \in {"patchModule", "createTenant", "setStatus", "transition", "deleteTenant"}
                 => d.tenant \in Tenants
           /\ d.op = "patchModule" => d.module \in Modules /\ d.enabled \in BOOLEAN
           /\ d.op = "createTenant" => d.slug \in Slugs
           /\ d.op = "setStatus" => d.status \in TenantStatus
           /\ d.op = "transition" =>
                 d.action \in {"suspend", "reactivate", "deactivate", "activate"}
  BY DEF Operations

\* A request moves and the others stay.
LEMMA RequestMoves ==
    ASSUME PlatformTypeOK, NEW r \in Requests, NEW x \in Request, x.gone # {} => x.at = "deleted",
           request' = [request EXCEPT ![r] = x]
    PROVE  /\ request' \in [Requests -> Request] /\ request'[r] = x
           /\ \A q \in Requests : q # r => request'[q] = request[q]
           /\ \A q \in Requests : request'[q].gone # {} => request'[q].at = "deleted"
  BY DEF PlatformTypeOK

\* Which row a request has locked.
LEMMA LockedRows ==
    ASSUME NEW r \in Requests
    PROVE  /\ request[r].at \notin Holding => Locked(r) = None
           /\ request[r].at \in Holding =>
                 /\ Doing(r, "addMember") => Locked(r) = request[r].do.identity
                 /\ Doing(r, "patchMember") => Locked(r) = request[r].do.member
                 /\ Doing(r, "putPermissions") => Locked(r) = request[r].do.role
  BY DEF Locked, Doing

\* Where the members and the roles stay, only what concerns the request that
\* moved is left to show, and nothing of one that ended.
LEMMA MembersStay ==
    ASSUME PlatformTypeOK, MembersSound, NEW r \in Requests, NEW x \in Request,
           x.gone # {} => x.at = "deleted",
           request' = [request EXCEPT ![r] = x], UNCHANGED <<member, role>>,
           HolderSound(r)', \A q \in Requests \ {r} : Locked(r)' = None \/ Locked(r)' # Locked(q)
    PROVE  MembersSound'
<1>1. \A q \in Requests : q # r => request'[q] = request[q]
  BY RequestMoves
<1>2. GivenByOneRequest' /\ MembersOnce'
  BY DEF MembersSound, GivenByOneRequest, MembersOnce
<1>3. \A q \in Requests : q # r => Locked(q)' = Locked(q)
  BY <1>1 DEF Locked, Doing
<1>4. LocksApart'
  <2>1. ASSUME NEW p \in Requests, NEW q \in Requests, p # q
        PROVE  Locked(p)' = None \/ Locked(p)' # Locked(q)'
    <3>1. CASE p # r /\ q # r
      BY <1>3, <2>1, <3>1 DEF MembersSound, LocksApart
    <3>2. CASE p = r
      BY <1>3, <2>1, <3>2
    <3>3. CASE q = r
      BY <1>3, <2>1, <3>3
    <3>4. QED
      BY <3>1, <3>2, <3>3
  <2>2. QED
    BY <2>1 DEF LocksApart
<1>5. \A q \in Requests : HolderSound(q)'
  <2>1. ASSUME NEW q \in Requests, q # r PROVE HolderSound(q)'
    <3>1. HolderSound(q)
      BY DEF MembersSound
    <3>2. request'[q] = request[q]
      BY <1>1, <2>1
    <3>3. QED
      BY <3>1, <3>2 DEF HolderSound, Doing
  <2>2. QED
    BY <2>1
<1>6. QED
  BY <1>2, <1>4, <1>5 DEF MembersSound

\* So it is with the tenants.
LEMMA TenantsStay ==
    ASSUME PlatformTypeOK, TenantsSound, NEW r \in Requests, NEW x \in Request,
           x.gone # {} => x.at = "deleted",
           request' = [request EXCEPT ![r] = x], UNCHANGED tenant, CreatorSound(r)',
           x.do # None /\ x.do.op = "createTenant" =>
              \A q \in Requests \ {r} :
                 Doing(q, "createTenant") => request[q].do.tenant # x.do.tenant
    PROVE  TenantsSound'
<1>1. request'[r] = x /\ \A q \in Requests : q # r => request'[q] = request[q]
  BY RequestMoves
<1>2. TenantsWhole' /\ SlugsOnce'
  BY DEF TenantsSound, TenantsWhole, SlugsOnce
<1>3. CreatorsApart'
  <2>1. ASSUME NEW p \in Requests, NEW q \in Requests, p # q,
               Doing(p, "createTenant")', Doing(q, "createTenant")',
               request'[p].do.tenant = request'[q].do.tenant
        PROVE  FALSE
    <3>1. CASE p # r /\ q # r
      BY <1>1, <2>1, <3>1 DEF TenantsSound, CreatorsApart, Doing
    <3>2. CASE p = r
      BY <1>1, <2>1, <3>2 DEF Doing
    <3>3. CASE q = r
      BY <1>1, <2>1, <3>3 DEF Doing
    <3>4. QED
      BY <3>1, <3>2, <3>3
  <2>2. QED
    BY <2>1 DEF CreatorsApart
<1>4. ASSUME NEW q \in Requests, q # r PROVE CreatorSound(q)'
  <2>1. CreatorSound(q)
    BY DEF TenantsSound
  <2>2. request'[q] = request[q]
    BY <1>1, <1>4
  <2>3. QED
    BY <2>1, <2>2 DEF CreatorSound, Doing
<1>5. QED
  BY <1>2, <1>3, <1>4 DEF TenantsSound

\* A request that ends holds nothing.
LEMMA LeaveStays ==
    ASSUME PlatformAssumption, PlatformTypeOK, NEW r \in Requests, Leave(r)
    PROVE  /\ NoRequest \in Request /\ NoRequest.gone = {}
           /\ request' = [request EXCEPT ![r] = NoRequest]
           /\ request' \in [Requests -> Request] /\ request'[r] = NoRequest
           /\ \A q \in Requests : q # r => request'[q] = request[q]
           /\ \A q \in Requests : request'[q].gone # {} => request'[q].at = "deleted"
           /\ HolderSound(r)' /\ CreatorSound(r)' /\ Locked(r)' = None
           /\ MembersSound /\ UNCHANGED <<member, role>> => MembersSound'
           /\ TenantsSound /\ UNCHANGED tenant => TenantsSound'
<1>1. NoRequest \in Request /\ NoRequest.gone = {} /\ NoRequest.at = "idle" /\ NoRequest.do = None
  BY DEF NoRequest, Request, Parts
<1>2. request' = [request EXCEPT ![r] = NoRequest]
  BY DEF Leave
<1>3. /\ request' \in [Requests -> Request] /\ request'[r] = NoRequest
      /\ \A q \in Requests : q # r => request'[q] = request[q]
      /\ \A q \in Requests : request'[q].gone # {} => request'[q].at = "deleted"
  BY <1>1, <1>2, RequestMoves
<1>4. HolderSound(r)' /\ Locked(r)' = None
  BY <1>1, <1>3 DEF HolderSound, Locked, Doing, Holding
<1>5. CreatorSound(r)'
  BY <1>1, <1>3 DEF CreatorSound, Doing
<1>6. MembersSound /\ UNCHANGED <<member, role>> => MembersSound'
  BY <1>1, <1>2, <1>4, MembersStay
<1>7. TenantsSound /\ UNCHANGED tenant => TenantsSound'
  BY <1>1, <1>2, <1>5, TenantsStay
<1>8. QED
  BY <1>1, <1>2, <1>3, <1>4, <1>5, <1>6, <1>7

------------------------------------------------------------------------------
\* An authorized request has not read anything yet.
LEMMA ArriveKeeps ==
    ASSUME PlatformAssumption, PlatformInv, NEW r \in Requests, NEW d \in Operations, Arrive(r, d)
    PROVE  PlatformInv'
<1> DEFINE x == [request[r] EXCEPT !.at = "arrived", !.do = d]
<1>1. /\ PlatformTypeOK /\ MembersSound /\ TenantsSound /\ request[r] \in Request
      /\ request[r] = NoRequest
      /\ UNCHANGED <<member, role, tenant>>
  BY DEF PlatformInv, PlatformTypeOK, Arrive
<1>2. x \in Request /\ x.at = "arrived" /\ x.do = d /\ x.gone = {}
  <2>1. request[r].gone = {}
    BY <1>1 DEF NoRequest
  <2>2. QED
    BY <1>1, <2>1 DEF Request
<1>3. request' = [request EXCEPT ![r] = x]
  BY <1>1 DEF Arrive, PlatformTypeOK
<1> HIDE DEF x
<1>4. request'[r] = x
  BY <1>1, <1>2, <1>3, RequestMoves
<1>5. HolderSound(r)' /\ Locked(r)' = None
  BY <1>1, <1>2, <1>4 DEF HolderSound, Locked, Doing, Holding, Arrive
<1>6. CreatorSound(r)'
  BY <1>1, <1>2, <1>4 DEF CreatorSound, Doing, Arrive
<1>7. MembersSound'
  BY <1>1, <1>2, <1>3, <1>5, MembersStay
<1>8. TenantsSound'
  <2>1. d.op = "createTenant" =>
          \A q \in Requests \ {r} : Doing(q, "createTenant") => request[q].do.tenant # d.tenant
    BY DEF Arrive, Doing
  <2>2. QED
    BY <1>1, <1>2, <1>3, <1>6, <2>1, TenantsStay
<1>9. PlatformTypeOK'
  <2>1. served' \in 0 .. MaxRequests
    BY <1>1 DEF Arrive, PlatformTypeOK, PlatformAssumption
  <2>2. QED
    BY <1>1, <1>2, <1>3, <2>1, RequestMoves DEF PlatformTypeOK
<1>10. QED
  BY <1>7, <1>8, <1>9 DEF PlatformInv

------------------------------------------------------------------------------
\* A request goes on to where it holds a row that was free.
LEMMA HoldKeeps ==
    ASSUME PlatformInv, NEW r \in Requests, NEW x \in Request, x.gone # {} => x.at = "deleted",
           request' = [request EXCEPT ![r] = x], UNCHANGED <<member, role, tenant, served>>,
           HolderSound(r)', \A q \in Requests \ {r} : Locked(r)' = None \/ Locked(r)' # Locked(q),
           x.do = request[r].do, x.at = request[r].at \/ x.do.op # "createTenant",
           CreatorSound(r)'
    PROVE  PlatformInv'
<1>1. PlatformTypeOK /\ MembersSound /\ TenantsSound
  BY DEF PlatformInv
<1>2. MembersSound'
  BY <1>1, MembersStay
<1>3. TenantsSound'
  <2>1. x.do # None /\ x.do.op = "createTenant" =>
          \A q \in Requests \ {r} : Doing(q, "createTenant") => request[q].do.tenant # x.do.tenant
    BY <1>1 DEF TenantsSound, CreatorsApart, Doing
  <2>2. QED
    BY <1>1, <2>1, TenantsStay
<1>4. PlatformTypeOK'
  BY <1>1, RequestMoves DEF PlatformTypeOK
<1>5. QED
  BY <1>2, <1>3, <1>4 DEF PlatformInv

\* The three requests for a lock.
LEMMA LockKeeps ==
    ASSUME PlatformAssumption, PlatformInv, NEW r \in Requests,
           LockIdentity(r) \/ LockMember(r) \/ LockRole(r)
    PROVE  PlatformInv'
<1>1. /\ PlatformTypeOK /\ MembersSound /\ TenantsSound /\ request[r] \in Request
      /\ request[r].at = "arrived" /\ request[r].gone = {}
      /\ request[r].do \in Operations /\ request[r].do # None
      /\ UNCHANGED <<member, role, tenant, served>>
  BY DEF PlatformInv, PlatformTypeOK, LockIdentity, LockMember, LockRole, Doing, Request
<1> DEFINE d == request[r].do
<1>2. CASE LockIdentity(r)
  <2> DEFINE x == [request[r] EXCEPT !.at = "locked"]
  <2>1. x \in Request /\ x.at = "locked" /\ x.do = d /\ x.gone = {} /\ d.op = "addMember"
    BY <1>1, <1>2 DEF Request, LockIdentity, Doing
  <2>2. request' = [request EXCEPT ![r] = x]
    BY <1>1, <1>2 DEF LockIdentity, Proceeds, PlatformTypeOK
  <2> HIDE DEF x
  <2>3. request'[r] = x /\ \A q \in Requests : q # r => request'[q] = request[q]
    BY <1>1, <2>1, <2>2, RequestMoves
  <2>4. HolderSound(r)' /\ CreatorSound(r)' /\ Locked(r)' = d.identity
    BY <1>1, <2>1, <2>3 DEF HolderSound, CreatorSound, Locked, Doing, Holding
  <2>5. \A q \in Requests \ {r} : Locked(q) # d.identity
    BY <1>2 DEF LockIdentity, LockFree
  <2>6. QED
    BY <1>1, <2>1, <2>2, <2>4, <2>5, HoldKeeps
<1>3. CASE LockMember(r)
  <2>1. d.op = "patchMember" /\ d.member \in Members
    BY <1>1, <1>3, OperationFields DEF LockMember, Doing
  <2>2. \A q \in Requests \ {r} : Locked(q) # d.member
    BY <1>3 DEF LockMember, LockFree
  <2>3. member[d.member].roles \subseteq Roles \cup {Owner}
    BY <1>1, <2>1 DEF PlatformTypeOK
  <2>4. member[d.member].status # "absent"
    BY <1>1, <2>1 DEF MembersSound, HolderSound, Doing
  <2>5. PICK x \in Request :
          /\ request' = [request EXCEPT ![r] = x] /\ x.do = d
          /\ d.roles = {} => x.at = "locked" /\ x.gone = {}
          /\ d.roles # {} => x.at = "deleted" /\ x.gone = member[d.member].roles
    <3>1. CASE d.roles = {}
      <4> DEFINE x == [request[r] EXCEPT !.at = "locked"]
      <4>1. x \in Request /\ x.at = "locked" /\ x.do = d /\ x.gone = {}
        BY <1>1 DEF Request
      <4>2. request' = [request EXCEPT ![r] = x]
        BY <1>1, <1>3, <3>1 DEF LockMember, Proceeds, PlatformTypeOK
      <4> HIDE DEF x
      <4>3. QED
        BY <3>1, <4>1, <4>2
    <3>2. CASE d.roles # {}
      <4> DEFINE gone == member[d.member].roles
                 x == [request[r] EXCEPT !.at = "deleted", !.gone = gone]
      <4>1. x \in Request /\ x.at = "deleted" /\ x.do = d /\ x.gone = gone
        <5>1. gone \subseteq Roles \cup {Owner}
          BY <2>3
        <5> HIDE DEF gone
        <5>2. QED
          BY <1>1, <5>1 DEF Request
      <4>2. request' = [request EXCEPT ![r] = x]
        BY <1>1, <1>3, <3>2 DEF LockMember, PlatformTypeOK
      <4> HIDE DEF x
      <4>3. QED
        BY <3>2, <4>1, <4>2
    <3>3. QED
      BY <3>1, <3>2
  <2>6. x.at \in Holding /\ (x.gone # {} => x.at = "deleted")
    BY <2>5 DEF Holding
  <2>7. request'[r] = x /\ \A q \in Requests : q # r => request'[q] = request[q]
    BY <1>1, <2>5, <2>6, RequestMoves
  <2>8. HolderSound(r)'
    BY <1>1, <2>1, <2>4, <2>5, <2>7 DEF HolderSound, Doing
  <2>9. CreatorSound(r)' /\ Locked(r)' = d.member
    BY <1>1, <2>1, <2>5, <2>6, <2>7 DEF CreatorSound, Locked, Doing, Holding
  <2>10. QED
    BY <1>1, <2>1, <2>2, <2>5, <2>6, <2>8, <2>9, HoldKeeps
<1>4. CASE LockRole(r)
  <2>1. d.op = "putPermissions" /\ d.role \in Roles
    BY <1>1, <1>4, OperationFields DEF LockRole, Doing
  <2>2. \A q \in Requests \ {r} : Locked(q) # d.role
    BY <1>4 DEF LockRole, LockFree
  <2>3. CASE Leave(r)
    BY <1>1, <2>3, LeaveStays DEF PlatformInv, PlatformTypeOK
  <2>4. CASE ~role[d.role].deleted
    <3> DEFINE gone == role[d.role].keys
               x == [request[r] EXCEPT !.at = "deleted", !.gone = gone]
    <3>1. gone \subseteq Keys
      BY <1>1, <2>1 DEF PlatformTypeOK
    <3>2. request' = [request EXCEPT ![r] = x]
      <4>1. request' = [request EXCEPT ![r].at = "deleted", ![r].gone = gone]
        BY <1>4, <2>4 DEF LockRole
      <4>2. request \in [Requests -> Request]
        BY <1>1 DEF PlatformTypeOK
      <4> HIDE DEF gone
      <4>3. QED
        BY <4>1, <4>2
    <3>3. x \in Request /\ x.at = "deleted" /\ x.do = d /\ x.gone = gone
      <4> HIDE DEF gone
      <4>1. QED
        BY <1>1, <3>1 DEF Request
    <3> HIDE DEF x
    <3>4. request'[r] = x /\ \A q \in Requests : q # r => request'[q] = request[q]
      BY <1>1, <3>2, <3>3, RequestMoves
    <3>5. HolderSound(r)'
      BY <1>1, <2>1, <3>3, <3>4 DEF HolderSound, Doing
    <3>6. CreatorSound(r)' /\ Locked(r)' = d.role
      BY <1>1, <2>1, <3>3, <3>4 DEF CreatorSound, Locked, Doing, Holding
    <3>7. QED
      BY <1>1, <2>1, <2>2, <3>2, <3>3, <3>5, <3>6, HoldKeeps
  <2>5. QED
    BY <1>4, <2>3, <2>4 DEF LockRole
<1>5. QED
  BY <1>2, <1>3, <1>4

------------------------------------------------------------------------------
\* A membership changes that no other request holds.
LEMMA MemberChanges ==
    ASSUME PlatformAssumption, PlatformInv, NEW r \in Requests, NEW m \in Members,
           NEW y \in MemberRow,
           Leave(r), UNCHANGED <<role, tenant, served>>, member' = [member EXCEPT ![m] = y],
           y.roles \in RoleSets \cup {{}, {Owner}}, y.status # "absent",
           y.status = "active" => ActiveFree(m, y.identity),
           \A q \in Requests \ {r} :
              ~(request[q].at \in Holding /\ Doing(q, "patchMember") /\ request[q].do.member = m)
    PROVE  PlatformInv'
<1>1. PlatformTypeOK /\ MembersSound /\ TenantsSound
  BY DEF PlatformInv
<1>2. member \in [Members -> MemberRow]
  BY <1>1 DEF PlatformTypeOK, MemberRow
<1>3. /\ member' \in [Members -> MemberRow] /\ member'[m] = y
      /\ \A n \in Members : n # m => member'[n] = member[n]
  BY <1>2
<1>4. /\ request' \in [Requests -> Request]
      /\ \A q \in Requests : q # r => request'[q] = request[q]
      /\ \A q \in Requests : request'[q].gone # {} => request'[q].at = "deleted"
      /\ HolderSound(r)' /\ Locked(r)' = None /\ TenantsSound'
  BY <1>1, LeaveStays
<1>5. PlatformTypeOK'
  BY <1>1, <1>3, <1>4 DEF PlatformTypeOK, MemberRow
<1>6. GivenByOneRequest'
  <2>1. \A n \in Members : member'[n].roles \in RoleSets \cup {{}, {Owner}}
    BY <1>1, <1>3 DEF MembersSound, GivenByOneRequest
  <2>2. \A o \in Roles : role'[o].keys \in KeySets \cup {{}}
    BY <1>1 DEF MembersSound, GivenByOneRequest
  <2>3. QED
    BY <2>1, <2>2 DEF GivenByOneRequest
<1>7. MembersOnce'
  <2>1. \A n \in Members \ {m} :
          ~(y.status = "active" /\ member[n].identity = y.identity /\ member[n].status = "active")
    BY DEF ActiveFree
  <2>2. QED
    BY <1>1, <1>3, <2>1 DEF MembersSound, MembersOnce
<1>8. LocksApart'
  <2>1. \A q \in Requests : q # r => Locked(q)' = Locked(q)
    BY <1>4 DEF Locked, Doing
  <2>2. QED
    BY <1>1, <1>4, <2>1 DEF MembersSound, LocksApart
<1>9. ASSUME NEW q \in Requests, q # r PROVE HolderSound(q)'
  <2>1. HolderSound(q) /\ request'[q] = request[q]
    BY <1>1, <1>4, <1>9 DEF MembersSound
  <2>2. Doing(q, "patchMember") => request[q].do.member \in Members
    BY <1>1, OperationFields DEF PlatformTypeOK, Request, Doing
  <2>3. Doing(q, "patchMember") => member'[request[q].do.member].status # "absent"
    BY <1>3, <2>1, <2>2 DEF HolderSound
  <2>4. Doing(q, "patchMember") /\ request[q].at \in Holding
          => member'[request[q].do.member] = member[request[q].do.member]
    BY <1>3, <1>9, <2>2
  <2>5. QED
    BY <2>1, <2>3, <2>4 DEF HolderSound, Doing
<1>10. QED
  BY <1>4, <1>5, <1>6, <1>7, <1>8, <1>9 DEF PlatformInv, MembersSound

\* A membership is added.
LEMMA AddMemberKeeps ==
    ASSUME PlatformAssumption, PlatformInv, NEW r \in Requests, AddMember(r) PROVE PlatformInv'
<1> DEFINE d == request[r].do
<1>1. /\ PlatformTypeOK /\ MembersSound /\ TenantsSound /\ Leave(r)
      /\ UNCHANGED <<role, tenant, served>>
  BY DEF PlatformInv, AddMember
<1>2. d \in Operations /\ d.op = "addMember" /\ d.identity \in Identities /\ d.roles \in RoleSets
  BY <1>1, OperationFields DEF AddMember, Doing, PlatformTypeOK, Request
<1>3. PICK m \in Members :
        /\ member[m].status = "absent"
        /\ member' = IF ActiveFree(m, d.identity)
                     THEN [member EXCEPT ![m] = [identity |-> d.identity, status |-> "active",
                                                 roles |-> d.roles]]
                     ELSE member
  BY DEF AddMember
<1>4. CASE member' = member
  BY <1>1, <1>4, LeaveStays DEF PlatformInv, PlatformTypeOK
<1>5. CASE ActiveFree(m, d.identity)
  <2> DEFINE y == [identity |-> d.identity, status |-> "active", roles |-> d.roles]
  <2>1. /\ y \in MemberRow /\ y.roles \in RoleSets \cup {{}, {Owner}}
        /\ y.status = "active" /\ y.identity = d.identity
    BY <1>2 DEF MemberRow, MemberStatus, PlatformAssumption
  <2>2. member' = [member EXCEPT ![m] = y]
    BY <1>3, <1>5
  <2> HIDE DEF y, d
  <2>3. \A q \in Requests : ~(Doing(q, "patchMember") /\ request[q].do.member = m)
    BY <1>1, <1>3 DEF MembersSound, HolderSound
  <2>4. QED
    BY <1>1, <1>5, <2>1, <2>2, <2>3, MemberChanges
<1>6. QED
  BY <1>3, <1>4, <1>5

\* A membership gets another status, other roles, or both.
LEMMA SaveMemberKeeps ==
    ASSUME PlatformAssumption, PlatformInv, NEW r \in Requests, SaveMember(r) PROVE PlatformInv'
<1>m. PICK m \in Members : Doing(r, "patchMember") => m = request[r].do.member
  BY OperationFields DEF SaveMember, Doing, PlatformInv, PlatformTypeOK, Request
<1> DEFINE d == request[r].do
           old == member[m]
           roles == IF d.roles = {} THEN old.roles ELSE (old.roles \ request[r].gone) \cup d.roles
           status == IF d.status = None THEN old.status ELSE d.status
<1>1. /\ PlatformTypeOK /\ MembersSound /\ TenantsSound /\ Leave(r)
      /\ UNCHANGED <<role, tenant, served>> /\ request[r].at \in Holding /\ Doing(r, "patchMember")
  BY DEF PlatformInv, SaveMember
<1>2. /\ d \in Operations /\ d.op = "patchMember" /\ d.member = m
      /\ d.roles \in RoleSets \cup {{}} /\ d.status \in {"active", "suspended", "revoked", None}
  BY <1>1, <1>m, OperationFields DEF Doing, PlatformTypeOK, Request
<1>3. old \in MemberRow /\ old.status # "absent" /\ old.roles \in RoleSets \cup {{}, {Owner}}
  BY <1>1, <1>2 DEF PlatformTypeOK, MemberRow, MembersSound, HolderSound, GivenByOneRequest
<1>4. roles = IF d.roles = {} THEN old.roles ELSE d.roles
  <2>1. d.roles # {} => request[r].gone = old.roles
    BY <1>1, <1>2 DEF MembersSound, HolderSound, Holding
  <2>2. QED
    BY <2>1
<1>5. roles \in RoleSets \cup {{}, {Owner}} /\ roles \subseteq Roles \cup {Owner}
  BY <1>2, <1>3, <1>4 DEF PlatformAssumption, MemberRow
<1>6. status \in MemberStatus /\ status # "absent"
  BY <1>2, <1>3 DEF MemberStatus, MemberRow
<1>7. \/ member' = member
      \/ /\ status = "active" => ActiveFree(m, old.identity)
         /\ member' = [member EXCEPT ![m].status = status, ![m].roles = roles]
  BY <1>2 DEF SaveMember
<1> HIDE DEF roles, status
<1>8. CASE member' = member
  BY <1>1, <1>8, LeaveStays DEF PlatformInv, PlatformTypeOK
<1>9. CASE /\ status = "active" => ActiveFree(m, old.identity)
           /\ member' = [member EXCEPT ![m].status = status, ![m].roles = roles]
  <2> DEFINE y == [member[m] EXCEPT !.status = status, !.roles = roles]
  <2>1. /\ y \in MemberRow /\ y.identity = old.identity /\ y.status = status /\ y.roles = roles
    BY <1>3, <1>5, <1>6 DEF MemberRow
  <2>2. member \in [Members -> MemberRow]
    BY <1>1 DEF PlatformTypeOK, MemberRow
  <2>3. member' = [member EXCEPT ![m] = y]
    BY <1>9, <2>2
  <2>4. \A q \in Requests \ {r} :
           ~(request[q].at \in Holding /\ Doing(q, "patchMember") /\ request[q].do.member = m)
    <3>1. Locked(r) = m
      BY <1>1, <1>2, LockedRows
    <3>2. m # None
      BY DEF PlatformAssumption
    <3>3. \A q \in Requests \ {r} : Locked(q) # m
      BY <1>1, <3>1, <3>2 DEF MembersSound, LocksApart
    <3>4. QED
      BY <3>3, LockedRows
  <2>5. /\ y.status = "active" => ActiveFree(m, y.identity)
        /\ y.roles \in RoleSets \cup {{}, {Owner}} /\ y.status # "absent"
    BY <1>5, <1>6, <1>9, <2>1
  <2> HIDE DEF y
  <2>6. QED
    BY <1>1, <2>1, <2>3, <2>4, <2>5, MemberChanges
<1>10. QED
  BY <1>7, <1>8, <1>9

------------------------------------------------------------------------------
\* A role changes, and its permissions only if no other request has deleted them.
LEMMA RoleChanges ==
    ASSUME PlatformAssumption, PlatformInv, NEW r \in Requests, NEW o \in Roles, NEW y \in RoleRow,
           Leave(r), UNCHANGED <<member, tenant, served>>, role' = [role EXCEPT ![o] = y],
           y.keys \in KeySets \cup {{}},
           \/ y.keys = role[o].keys
           \/ \A q \in Requests \ {r} :
                 ~(/\ request[q].at = "deleted" /\ Doing(q, "putPermissions")
                   /\ request[q].do.role = o)
    PROVE  PlatformInv'
<1>1. PlatformTypeOK /\ MembersSound /\ TenantsSound
  BY DEF PlatformInv
<1>2. role \in [Roles \cup {Owner} -> RoleRow]
  BY <1>1 DEF PlatformTypeOK, RoleRow
<1>3. /\ role' \in [Roles \cup {Owner} -> RoleRow] /\ role'[o] = y
      /\ \A p \in Roles : p # o => role'[p] = role[p]
  BY <1>2
<1>4. /\ request' \in [Requests -> Request]
      /\ \A q \in Requests : q # r => request'[q] = request[q]
      /\ \A q \in Requests : request'[q].gone # {} => request'[q].at = "deleted"
      /\ HolderSound(r)' /\ Locked(r)' = None /\ TenantsSound'
  BY <1>1, LeaveStays
<1>5. PlatformTypeOK'
  BY <1>1, <1>3, <1>4 DEF PlatformTypeOK, RoleRow
<1>6. GivenByOneRequest' /\ MembersOnce'
  <2>1. \A p \in Roles : role'[p].keys \in KeySets \cup {{}}
    BY <1>1, <1>3 DEF MembersSound, GivenByOneRequest
  <2>2. QED
    BY <1>1, <2>1 DEF MembersSound, GivenByOneRequest, MembersOnce
<1>7. LocksApart'
  <2>1. \A q \in Requests : q # r => Locked(q)' = Locked(q)
    BY <1>4 DEF Locked, Doing
  <2>2. QED
    BY <1>1, <1>4, <2>1 DEF MembersSound, LocksApart
<1>8. ASSUME NEW q \in Requests, q # r PROVE HolderSound(q)'
  <2>1. HolderSound(q) /\ request'[q] = request[q]
    BY <1>1, <1>4, <1>8 DEF MembersSound
  <2>2. Doing(q, "putPermissions") => request[q].do.role \in Roles
    BY <1>1, OperationFields DEF PlatformTypeOK, Request, Doing
  <2>3. Doing(q, "putPermissions") /\ request[q].at = "deleted"
          => role'[request[q].do.role].keys = role[request[q].do.role].keys
    BY <1>3, <1>8, <2>2
  <2>4. QED
    BY <2>1, <2>3 DEF HolderSound, Doing
<1>9. QED
  BY <1>4, <1>5, <1>6, <1>7, <1>8 DEF PlatformInv, MembersSound

\* Roles are created, renamed, deleted and given permissions.
LEMMA RoleKeeps ==
    ASSUME PlatformAssumption, PlatformInv, NEW r \in Requests,
           CreateRole(r) \/ PatchRole(r) \/ PutPermissions(r)
    PROVE  PlatformInv'
<1> DEFINE d == request[r].do
<1>1. /\ PlatformTypeOK /\ MembersSound /\ TenantsSound /\ Leave(r)
      /\ UNCHANGED <<member, tenant, served>>
  BY DEF PlatformInv, CreateRole, PatchRole, PutPermissions
<1>2. /\ d \in Operations /\ d.role \in Roles
      /\ d.op = "patchRole" => d.deleted \in BOOLEAN
      /\ d.op = "putPermissions" => d.keys \in KeySets
  BY <1>1, OperationFields DEF CreateRole, PatchRole, PutPermissions, Doing, PlatformTypeOK, Request
<1>3. PICK o \in Roles : o = d.role
  BY <1>2
<1>4. role \in [Roles \cup {Owner} -> RoleRow] /\ role[o] \in RoleRow
      /\ role[o].keys \in KeySets \cup {{}}
  BY <1>1 DEF PlatformTypeOK, RoleRow, MembersSound, GivenByOneRequest
<1>5. CASE CreateRole(r)
  <2> DEFINE y == [role[o] EXCEPT !.exists = TRUE]
  <2>1. y \in RoleRow /\ y.keys = role[o].keys
    BY <1>4 DEF RoleRow
  <2>2. role' = [role EXCEPT ![o] = y]
    BY <1>3, <1>4, <1>5 DEF CreateRole
  <2> HIDE DEF y
  <2>3. QED
    BY <1>1, <1>4, <2>1, <2>2, RoleChanges
<1>6. CASE PatchRole(r)
  <2> DEFINE y == [role[o] EXCEPT !.deleted = d.deleted]
  <2>1. y \in RoleRow /\ y.keys = role[o].keys
    BY <1>2, <1>4, <1>6 DEF RoleRow, PatchRole, Doing
  <2>2. role' = [role EXCEPT ![o] = y]
    BY <1>3, <1>4, <1>6 DEF PatchRole
  <2> HIDE DEF y
  <2>3. QED
    BY <1>1, <1>4, <2>1, <2>2, RoleChanges
<1>7. CASE PutPermissions(r)
  <2>1. d.keys \in KeySets /\ d.keys \subseteq Keys /\ request[r].at = "deleted"
        /\ Doing(r, "putPermissions")
    BY <1>2, <1>7 DEF PutPermissions, Doing, PlatformAssumption
  <2>2. request[r].gone = role[o].keys
    BY <1>1, <1>3, <2>1 DEF MembersSound, HolderSound
  <2>3. role' = [role EXCEPT ![o].keys = {} \cup d.keys]
    BY <1>3, <1>7, <2>2 DEF PutPermissions
  <2> DEFINE y == [role[o] EXCEPT !.keys = {} \cup d.keys]
  <2>4. y \in RoleRow /\ y.keys = d.keys
    <3>1. {} \cup d.keys = d.keys
      OBVIOUS
    <3>2. QED
      BY <1>4, <2>1, <3>1 DEF RoleRow
  <2>5. role' = [role EXCEPT ![o] = y]
    BY <1>4, <2>3
  <2>6. \A q \in Requests \ {r} :
           ~(request[q].at = "deleted" /\ Doing(q, "putPermissions") /\ request[q].do.role = o)
    <3>1. Locked(r) = o
      BY <1>3, <2>1, LockedRows DEF Holding
    <3>2. o # None
      BY DEF PlatformAssumption
    <3>3. \A q \in Requests \ {r} : Locked(q) # o
      BY <1>1, <3>1, <3>2 DEF MembersSound, LocksApart
    <3>4. QED
      BY <3>3, LockedRows DEF Holding
  <2> HIDE DEF y
  <2>7. QED
    BY <1>1, <2>1, <2>4, <2>5, <2>6, RoleChanges
<1>8. QED
  BY <1>5, <1>6, <1>7

------------------------------------------------------------------------------
\* A tenant that can be seen changes.
LEMMA TenantChanges ==
    ASSUME PlatformAssumption, PlatformInv, NEW r \in Requests, NEW t \in Tenants,
           NEW y \in TenantRow,
           Leave(r), UNCHANGED <<member, role, served>>, tenant' = [tenant EXCEPT ![t] = y],
           tenant[t].visible, y.visible, y.parts = tenant[t].parts, y.slug = tenant[t].slug,
           CoreModules \subseteq y.modules, y.deleted <=> y.status = "cancelled",
           ~y.deleted /\ tenant[t].deleted => SlugFree(t, y.slug)
    PROVE  PlatformInv'
<1>1. PlatformTypeOK /\ MembersSound /\ TenantsSound
  BY DEF PlatformInv
<1>2. tenant \in [Tenants -> TenantRow]
  BY <1>1 DEF PlatformTypeOK, TenantRow
<1>3. /\ tenant' \in [Tenants -> TenantRow] /\ tenant'[t] = y
      /\ \A u \in Tenants : u # t => tenant'[u] = tenant[u]
  BY <1>2
<1>4. /\ request' \in [Requests -> Request]
      /\ \A q \in Requests : q # r => request'[q] = request[q]
      /\ \A q \in Requests : request'[q].gone # {} => request'[q].at = "deleted"
      /\ request'[r] = NoRequest /\ CreatorSound(r)' /\ MembersSound'
  BY <1>1, LeaveStays
<1>5. PlatformTypeOK'
  BY <1>1, <1>3, <1>4 DEF PlatformTypeOK, TenantRow
<1>6. TenantsWhole'
  BY <1>1, <1>3 DEF TenantsSound, TenantsWhole
<1>7. SlugsOnce'
  <2>1. ~y.deleted /\ tenant[t].deleted =>
          \A u \in Tenants \ {t} : ~(tenant[u].slug = y.slug /\ ~tenant[u].deleted)
    BY DEF SlugFree
  <2>2. QED
    BY <1>1, <1>3, <2>1 DEF TenantsSound, SlugsOnce
<1>8. CreatorsApart'
  BY <1>1, <1>4 DEF TenantsSound, CreatorsApart, Doing, NoRequest
<1>9. ASSUME NEW q \in Requests, q # r PROVE CreatorSound(q)'
  <2>1. CreatorSound(q) /\ request'[q] = request[q]
    BY <1>1, <1>4, <1>9 DEF TenantsSound
  <2>2. request[q].do # None /\ request[q].do.op \in {"createTenant", "patchModule", "setStatus",
                                                       "transition", "deleteTenant"}
          => request[q].do.tenant \in Tenants
    BY <1>1, OperationFields DEF PlatformTypeOK, Request
  <2>3. Doing(q, "createTenant") => request[q].do.tenant # t
    BY <2>1 DEF CreatorSound, NoTenant
  <2>4. \A u \in Tenants : tenant[u].visible => tenant'[u].visible
    BY <1>3
  <2>5. QED
    BY <1>3, <2>1, <2>2, <2>3, <2>4 DEF CreatorSound, Doing
<1>10. QED
  BY <1>4, <1>5, <1>6, <1>7, <1>8, <1>9 DEF PlatformInv, TenantsSound

\* A tenant that can be seen, and what of it is needed.
LEMMA SeenTenant ==
    ASSUME PlatformInv, NEW r \in Requests, request[r].do # None,
           request[r].do.op \in {"patchModule", "setStatus", "transition", "deleteTenant"}
    PROVE  /\ request[r].do \in Operations /\ request[r].do.tenant \in Tenants
           /\ tenant[request[r].do.tenant] \in TenantRow /\ tenant[request[r].do.tenant].visible
           /\ CoreModules \subseteq tenant[request[r].do.tenant].modules
           /\ tenant[request[r].do.tenant].deleted
                 <=> tenant[request[r].do.tenant].status = "cancelled"
<1>1. PlatformTypeOK /\ CreatorSound(r) /\ TenantsWhole
  BY DEF PlatformInv, TenantsSound
<1>2. request[r].do \in Operations /\ request[r].do.tenant \in Tenants
  BY <1>1, OperationFields DEF PlatformTypeOK, Request
<1>3. tenant[request[r].do.tenant].visible
  BY <1>1 DEF CreatorSound
<1>4. QED
  BY <1>1, <1>2, <1>3 DEF PlatformTypeOK, TenantRow, TenantsWhole

\* The status of a tenant changes.
LEMMA SaveKeeps ==
    ASSUME PlatformAssumption, PlatformInv, NEW r \in Requests, NEW t \in Tenants,
           NEW s \in TenantStatus,
           tenant[t] \in TenantRow, tenant[t].visible, CoreModules \subseteq tenant[t].modules,
           Leave(r), UNCHANGED <<member, role, served>>,
           \/ UNCHANGED tenant
           \/ /\ tenant' = [tenant EXCEPT ![t] = WithStatus(t, s)]
              /\ s # "cancelled" => SlugFree(t, tenant[t].slug)
    PROVE  PlatformInv'
<1>1. CASE UNCHANGED tenant
  BY <1>1, LeaveStays DEF PlatformInv, PlatformTypeOK
<1>2. CASE /\ tenant' = [tenant EXCEPT ![t] = WithStatus(t, s)]
           /\ s # "cancelled" => SlugFree(t, tenant[t].slug)
  <2> DEFINE gone == s = "cancelled"
             y == [tenant[t] EXCEPT !.status = s, !.deleted = gone]
  <2>1. gone \in BOOLEAN
    OBVIOUS
  <2>2. tenant' = [tenant EXCEPT ![t] = y]
    BY <1>2 DEF WithStatus
  <2>3. /\ y \in TenantRow /\ y.status = s /\ y.deleted = gone /\ y.visible = tenant[t].visible
        /\ y.parts = tenant[t].parts /\ y.slug = tenant[t].slug /\ y.modules = tenant[t].modules
    <3> HIDE DEF gone
    <3>1. QED
      BY <2>1 DEF TenantRow
  <2>4. (y.deleted <=> y.status = "cancelled") /\ (~y.deleted => SlugFree(t, y.slug))
    <3> HIDE DEF y
    <3>1. QED
      BY <1>2, <2>3
  <2> HIDE DEF y, gone
  <2>5. QED
    BY <2>2, <2>3, <2>4, TenantChanges
<1>3. QED
  BY <1>1, <1>2

\* Both administrations change the status, and delete.
LEMMA StatusKeeps ==
    ASSUME PlatformAssumption, PlatformInv, NEW r \in Requests,
           SetStatus(r) \/ SaveTransition(r) \/ DeleteTenant(r)
    PROVE  PlatformInv'
<1>1. request[r].do # None /\ request[r].do.op \in {"setStatus", "transition", "deleteTenant"}
  BY DEF SetStatus, SaveTransition, DeleteTenant, Doing
<1>2. PICK t \in Tenants : t = request[r].do.tenant
  BY <1>1, SeenTenant
<1>3. /\ tenant[t] \in TenantRow /\ tenant[t].visible /\ CoreModules \subseteq tenant[t].modules
      /\ request[r].do \in Operations
  BY <1>1, <1>2, SeenTenant
<1>4. ASSUME NEW s \in TenantStatus, Save(r, t, s) PROVE PlatformInv'
  BY <1>3, <1>4, SaveKeeps DEF Save
<1>5. CASE SetStatus(r)
  <2>1. PICK s \in TenantStatus : s = request[r].do.status
    BY <1>3, <1>5, OperationFields DEF SetStatus, Doing
  <2>2. CASE Save(r, t, s)
    BY <1>4, <2>2
  <2>3. CASE Leave(r) /\ UNCHANGED <<member, role, tenant, served>>
    BY <2>3, LeaveStays DEF PlatformInv, PlatformTypeOK
  <2>4. QED
    BY <1>2, <1>5, <2>1, <2>2, <2>3 DEF SetStatus
<1>6. CASE SaveTransition(r)
  <2>1. Leads[request[r].do.action] \in TenantStatus
    BY <1>3, <1>6, OperationFields DEF SaveTransition, Doing, Leads, TenantStatus
  <2>2. PICK s \in TenantStatus : s = Leads[request[r].do.action]
    BY <2>1
  <2>3. Save(r, t, s)
    BY <1>2, <1>6, <2>2 DEF SaveTransition
  <2>4. QED
    BY <1>4, <2>3
<1>7. CASE DeleteTenant(r)
  <2>1. "cancelled" \in TenantStatus
    BY DEF TenantStatus
  <2>2. /\ Leave(r) /\ UNCHANGED <<member, role, served>>
        /\ UNCHANGED tenant \/ tenant' = [tenant EXCEPT ![t] = WithStatus(t, "cancelled")]
    BY <1>2, <1>7 DEF DeleteTenant
  <2>3. QED
    BY <1>3, <2>1, <2>2, SaveKeeps
<1>8. QED
  BY <1>5, <1>6, <1>7

------------------------------------------------------------------------------
\* The checks that are read before the row is written.
LEMMA TenantCheckKeeps ==
    ASSUME PlatformAssumption, PlatformInv, NEW r \in Requests, CheckTransition(r) \/ CheckModule(r)
    PROVE  PlatformInv'
<1>1. /\ PlatformTypeOK /\ MembersSound /\ TenantsSound /\ request[r] \in Request
      /\ request[r].at = "arrived" /\ request[r].gone = {} /\ request[r].do # None
      /\ request[r].do.op \in {"transition", "patchModule"}
      /\ UNCHANGED <<member, role, tenant, served>>
  BY DEF PlatformInv, PlatformTypeOK, CheckTransition, CheckModule, Doing
<1>2. CASE Leave(r)
  BY <1>1, <1>2, LeaveStays DEF PlatformInv, PlatformTypeOK
<1>3. CASE /\ Proceeds(r, "checked")
           /\ request[r].do.op = "patchModule" /\ request[r].do.module \in CoreModules
                 => request[r].do.enabled
  <2> DEFINE x == [request[r] EXCEPT !.at = "checked"]
  <2>1. x \in Request /\ x.at = "checked" /\ x.do = request[r].do /\ x.gone = {}
    BY <1>1 DEF Request
  <2>2. request' = [request EXCEPT ![r] = x]
    BY <1>1, <1>3 DEF Proceeds, PlatformTypeOK
  <2> HIDE DEF x
  <2>3. request'[r] = x
    BY <1>1, <2>1, <2>2, RequestMoves
  <2>4. HolderSound(r)' /\ Locked(r)' = None
    BY <1>1, <2>1, <2>3 DEF HolderSound, Locked, Doing, Holding
  <2>5. CreatorSound(r)'
    <3>1. CreatorSound(r)
      BY <1>1 DEF TenantsSound
    <3>2. QED
      BY <1>1, <1>3, <2>1, <2>3, <3>1 DEF CreatorSound, Doing
  <2>6. QED
    BY <1>1, <2>1, <2>2, <2>4, <2>5, HoldKeeps
<1>4. QED
  BY <1>2, <1>3 DEF CheckTransition, CheckModule, Doing

\* A module is enabled or disabled, never a core module disabled.
LEMMA SaveModuleKeeps ==
    ASSUME PlatformAssumption, PlatformInv, NEW r \in Requests, SaveModule(r) PROVE PlatformInv'
<1> DEFINE d == request[r].do
<1>1. d # None /\ d.op = "patchModule" /\ request[r].at = "checked"
      /\ Leave(r) /\ UNCHANGED <<member, role, served>>
  BY DEF SaveModule, Doing
<1>2. PICK t \in Tenants : t = d.tenant
  BY <1>1, SeenTenant
<1>3. /\ tenant[t] \in TenantRow /\ tenant[t].visible /\ CoreModules \subseteq tenant[t].modules
      /\ (tenant[t].deleted <=> tenant[t].status = "cancelled") /\ d \in Operations
  BY <1>1, <1>2, SeenTenant
<1>4. d.module \in Modules /\ d.enabled \in BOOLEAN /\ (d.module \in CoreModules => d.enabled)
  BY <1>1, <1>3, OperationFields DEF PlatformInv, TenantsSound, CreatorSound, Doing
<1> DEFINE modules == IF d.enabled THEN tenant[t].modules \cup {d.module}
                      ELSE tenant[t].modules \ {d.module}
<1>5. modules \subseteq Modules /\ CoreModules \subseteq modules
  BY <1>3, <1>4 DEF TenantRow
<1>6. tenant' = [tenant EXCEPT ![t].modules = modules]
  BY <1>2 DEF SaveModule
<1> HIDE DEF modules, d
<1> DEFINE y == [tenant[t] EXCEPT !.modules = modules]
<1>7. /\ y \in TenantRow /\ y.modules = modules /\ y.visible = tenant[t].visible
      /\ y.parts = tenant[t].parts /\ y.slug = tenant[t].slug
      /\ y.deleted = tenant[t].deleted /\ y.status = tenant[t].status
  BY <1>3, <1>5 DEF TenantRow
<1>8. tenant' = [tenant EXCEPT ![t] = y]
  BY <1>6 DEF PlatformInv, PlatformTypeOK
<1> HIDE DEF y
<1>9. QED
  BY <1>1, <1>3, <1>5, <1>7, <1>8, TenantChanges

\* What a step of a creation does: request r of tenant t becomes x, and the
\* tenant's row y.
CreationGoes(r, t, x, y) ==
    /\ x.gone = {} /\ x.at \notin Holding
    /\ Doing(r, "createTenant") /\ request[r].do.tenant = t
    /\ request' = [request EXCEPT ![r] = x] /\ tenant' = [tenant EXCEPT ![t] = y]
    /\ UNCHANGED <<member, role, served>>
    /\ \/ x = NoRequest
       \/ /\ x.do = request[r].do /\ x.at = "creating" /\ x.done \in 2 .. Len(Parts) - 1
          /\ y.parts = {Parts[i] : i \in 1 .. x.done} /\ ~y.visible /\ ~y.deleted
          /\ y.status = "active" /\ CoreModules \subseteq y.modules
    /\ y.visible =>
          /\ y.parts = {Parts[i] : i \in DOMAIN Parts} /\ CoreModules \subseteq y.modules
          /\ y.deleted <=> y.status = "cancelled"
    /\ \/ y.slug = None \/ SlugFree(t, y.slug)
       \/ y.slug = tenant[t].slug /\ y.deleted = tenant[t].deleted

------------------------------------------------------------------------------
\* The request that creates a tenant changes it, which nobody else sees.
LEMMA CreationChanges ==
    ASSUME PlatformAssumption, PlatformInv, NEW r \in Requests, NEW t \in Tenants,
           NEW y \in TenantRow,
           NEW x \in Request, CreationGoes(r, t, x, y)
    PROVE  PlatformInv'
<1> USE DEF CreationGoes
<1>1. /\ PlatformTypeOK /\ MembersSound /\ TenantsSound /\ CreatorSound(r)
      /\ tenant \in [Tenants -> TenantRow]
  BY DEF PlatformInv, PlatformTypeOK, TenantRow, TenantsSound
<1>2. /\ tenant' \in [Tenants -> TenantRow] /\ tenant'[t] = y
      /\ \A u \in Tenants : u # t => tenant'[u] = tenant[u]
  BY <1>1
<1>3. /\ request' \in [Requests -> Request] /\ request'[r] = x
      /\ \A q \in Requests : q # r => request'[q] = request[q]
      /\ \A q \in Requests : request'[q].gone # {} => request'[q].at = "deleted"
  BY <1>1, RequestMoves
<1>4. ~tenant[t].visible
  BY <1>1 DEF CreatorSound, NoTenant, Doing
<1>5. HolderSound(r)' /\ Locked(r)' = None
  <2>1. x.do = request[r].do \/ x.do = None
    BY DEF NoRequest
  <2>2. x.at # "deleted"
    BY DEF Holding
  <2>3. QED
    BY <1>3, <2>1, <2>2 DEF HolderSound, Locked, Doing
<1>6. MembersSound'
  BY <1>1, <1>5, MembersStay
<1>7. PlatformTypeOK'
  BY <1>1, <1>2, <1>3 DEF PlatformTypeOK, TenantRow
<1>8. TenantsWhole'
  BY <1>1, <1>2 DEF TenantsSound, TenantsWhole
<1>9. SlugsOnce'
  <2>1. SlugFree(t, y.slug) =>
           \A u \in Tenants \ {t} : ~(tenant[u].slug = y.slug /\ ~tenant[u].deleted)
    BY DEF SlugFree
  <2>2. QED
    BY <1>1, <1>2, <2>1 DEF TenantsSound, SlugsOnce
<1>10. CreatorsApart'
  <2>1. \A q \in Requests : Doing(q, "createTenant")'
           => Doing(q, "createTenant") /\ request'[q].do = request[q].do
    BY <1>3 DEF Doing, NoRequest
  <2>2. QED
    BY <1>1, <2>1 DEF TenantsSound, CreatorsApart
<1>11. CreatorSound(r)'
  <2>1. CASE x = NoRequest
    BY <1>3, <2>1 DEF CreatorSound, NoRequest, Doing
  <2>2. CASE x # NoRequest
    BY <1>2, <1>3, <2>2 DEF CreatorSound, Doing
  <2>3. QED
    BY <2>1, <2>2
<1>12. ASSUME NEW q \in Requests, q # r PROVE CreatorSound(q)'
  <2>1. CreatorSound(q) /\ request'[q] = request[q]
    BY <1>1, <1>3, <1>12 DEF TenantsSound
  <2>2. request[q].do # None /\ request[q].do.op \in {"createTenant", "patchModule", "setStatus",
                                                       "transition", "deleteTenant"}
          => request[q].do.tenant \in Tenants
    BY <1>1, OperationFields DEF PlatformTypeOK, Request
  <2>3. Doing(q, "createTenant") => request[q].do.tenant # t
    BY <1>1, <1>12 DEF TenantsSound, CreatorsApart
  <2>4. \A u \in Tenants : tenant[u].visible => tenant'[u].visible
    BY <1>2, <1>4
  <2>5. QED
    BY <1>2, <2>1, <2>2, <2>3, <2>4 DEF CreatorSound, Doing
<1>13. QED
  BY <1>6, <1>7, <1>8, <1>9, <1>10, <1>11, <1>12 DEF PlatformInv, TenantsSound

\* What the names of the parts are does not matter, only how many there are.
LEMMA PartNumbers ==
    /\ Len(Parts) \in Nat /\ Len(Parts) > 3 /\ DOMAIN Parts = 1 .. Len(Parts)
    /\ \A n \in 1 .. Len(Parts) - 1 :
          {Parts[i] : i \in 1 .. n + 1} = {Parts[i] : i \in 1 .. n} \cup {Parts[n + 1]}
    /\ \A n \in 1 .. Len(Parts) :
          /\ {Parts[i] : i \in 1 .. n} \subseteq {Parts[i] : i \in DOMAIN Parts}
          /\ Visible(n) <=> n = Len(Parts)
<1>1. Len(Parts) = 9 /\ DOMAIN Parts = 1 .. 9
  BY DEF Parts
<1>2. \A n \in 1 .. 8 : 1 .. n + 1 = (1 .. n) \cup {n + 1}
  OBVIOUS
<1>3. \A n \in 1 .. 9 : 1 .. n \subseteq 1 .. 9
  OBVIOUS
<1>4. QED
  BY <1>1, <1>2, <1>3 DEF Visible

\* The first statements of a new tenant.
LEMMA InsertTenantKeeps ==
    ASSUME PlatformAssumption, PlatformInv, NEW r \in Requests, InsertTenant(r) PROVE PlatformInv'
<1> DEFINE d == request[r].do
<1>1. /\ PlatformTypeOK /\ request[r] \in Request /\ request[r].gone = {}
      /\ Doing(r, "createTenant") /\ request[r].at = "arrived"
      /\ UNCHANGED <<member, role, served>>
  BY DEF PlatformInv, PlatformTypeOK, InsertTenant
<1>2. PICK t \in Tenants, slug \in Slugs : t = d.tenant /\ slug = d.slug
  BY <1>1, OperationFields DEF Doing, Request
<1>3. CASE Leave(r) /\ UNCHANGED tenant
  BY <1>1, <1>3, LeaveStays DEF PlatformInv, PlatformTypeOK
<1>4. CASE SlugFree(t, slug)
  <2> DEFINE y == [slug |-> slug, status |-> "active", deleted |-> FALSE,
                   parts |-> {Parts[1], Parts[2]}, modules |-> Modules, visible |-> Visible(2)]
             x == [request[r] EXCEPT !.at = "creating", !.done = 2]
  <2>1. tenant' = [tenant EXCEPT ![t] = y]
    BY <1>2, <1>4 DEF InsertTenant
  <2>2. request' = [request EXCEPT ![r].at = "creating", ![r].done = 2]
    BY <1>2, <1>4 DEF InsertTenant
  <2>3. request' = [request EXCEPT ![r] = x]
    BY <1>1, <2>2 DEF PlatformTypeOK
  <2>4. {Parts[1], Parts[2]} = {Parts[i] : i \in 1 .. 2} /\ ~Visible(2)
        /\ {Parts[i] : i \in 1 .. 2} \subseteq {Parts[i] : i \in DOMAIN Parts}
        /\ 2 \in 0 .. Len(Parts) /\ 2 \in 2 .. Len(Parts) - 1
    <3>1. Len(Parts) = 9
      BY DEF Parts
    <3>2. {Parts[1], Parts[2]} = {Parts[i] : i \in 1 .. 2}
      <4>1. 1 .. 2 = {1, 2}
        OBVIOUS
      <4>2. QED
        BY <4>1
    <3>3. ~Visible(2)
      BY <3>1 DEF Visible
    <3>4. {Parts[i] : i \in 1 .. 2} \subseteq {Parts[i] : i \in DOMAIN Parts}
      BY <3>1, PartNumbers
    <3>5. QED
      BY <3>1, <3>2, <3>3, <3>4
  <2>5. /\ y \in TenantRow /\ y.slug = slug /\ y.status = "active" /\ ~y.deleted /\ ~y.visible
        /\ y.parts = {Parts[i] : i \in 1 .. 2} /\ CoreModules \subseteq y.modules
    <3>1. y \in TenantRow
      BY <1>2, <2>4 DEF TenantRow, TenantStatus, Visible
    <3>2. QED
      BY <2>4, <3>1 DEF PlatformAssumption
  <2>6. x \in Request /\ x.at = "creating" /\ x.do = d /\ x.done = 2 /\ x.gone = {}
    BY <1>1, <2>4 DEF Request
  <2>7. x.at \notin Holding
    BY <2>6 DEF Holding
  <2>8. y.parts = {Parts[i] : i \in 1 .. x.done}
    <3>1. 1 .. x.done = 1 .. 2
      BY <2>6
    <3>2. QED
      BY <2>5, <3>1
  <2> HIDE DEF x, y
  <2>9. CreationGoes(r, t, x, y)
    BY <1>1, <1>2, <1>4, <2>1, <2>3, <2>4, <2>5, <2>6, <2>7, <2>8 DEF CreationGoes
  <2>10. QED
    BY <2>5, <2>6, <2>9, CreationChanges
<1>5. QED
  BY <1>2, <1>3, <1>4 DEF InsertTenant

\* One statement more; the last one is followed by COMMIT.
LEMMA InsertPartKeeps ==
    ASSUME PlatformAssumption, PlatformInv, NEW r \in Requests, InsertPart(r) PROVE PlatformInv'
<1>1. /\ PlatformTypeOK /\ CreatorSound(r) /\ request[r] \in Request /\ request[r].gone = {}
      /\ Doing(r, "createTenant") /\ request[r].at = "creating"
      /\ UNCHANGED <<member, role, served>>
  BY DEF PlatformInv, PlatformTypeOK, TenantsSound, InsertPart
<1>2. PICK t \in Tenants : t = request[r].do.tenant
  BY <1>1, OperationFields DEF Doing, Request
<1>3. PICK n \in 2 .. Len(Parts) - 1 : n = request[r].done
  BY <1>1 DEF CreatorSound
<1>4. /\ tenant[t] \in TenantRow /\ tenant[t].parts = {Parts[k] : k \in 1 .. n}
      /\ ~tenant[t].visible /\ ~tenant[t].deleted /\ tenant[t].status = "active"
      /\ CoreModules \subseteq tenant[t].modules
  BY <1>1, <1>2, <1>3 DEF CreatorSound, PlatformTypeOK, TenantRow
<1>5. /\ n + 1 \in 2 .. Len(Parts) /\ n + 1 \in 0 .. Len(Parts)
      /\ {Parts[k] : k \in 1 .. n} \cup {Parts[n + 1]} = {Parts[k] : k \in 1 .. n + 1}
      /\ {Parts[k] : k \in 1 .. n + 1} \subseteq {Parts[k] : k \in DOMAIN Parts}
      /\ Visible(n + 1) <=> n + 1 = Len(Parts)
      /\ n + 1 = Len(Parts) => {Parts[k] : k \in 1 .. n + 1} = {Parts[k] : k \in DOMAIN Parts}
      /\ n + 1 # Len(Parts) => n + 1 \in 2 .. Len(Parts) - 1
  <2>1. /\ n \in 1 .. Len(Parts) - 1 /\ n + 1 \in 1 .. Len(Parts) /\ n + 1 \in 2 .. Len(Parts)
        /\ n + 1 \in 0 .. Len(Parts)
        /\ n + 1 # Len(Parts) => n + 1 \in 2 .. Len(Parts) - 1
    <3>1. Len(Parts) \in Nat
      BY DEF Parts
    <3>2. QED
      BY <3>1
  <2>2. {Parts[k] : k \in 1 .. n + 1} = {Parts[k] : k \in 1 .. n} \cup {Parts[n + 1]}
    BY <2>1, PartNumbers
  <2>3. {Parts[k] : k \in 1 .. n + 1} \subseteq {Parts[k] : k \in DOMAIN Parts}
    BY <2>1, PartNumbers
  <2>4. Visible(n + 1) <=> n + 1 = Len(Parts)
    BY <2>1, PartNumbers
  <2>5. n + 1 = Len(Parts) => {Parts[k] : k \in 1 .. n + 1} = {Parts[k] : k \in DOMAIN Parts}
    <3>1. n + 1 = Len(Parts) => 1 .. n + 1 = DOMAIN Parts
      BY PartNumbers
    <3>2. QED
      BY <3>1
  <2>6. QED
    BY <2>1, <2>2, <2>3, <2>4, <2>5
<1> DEFINE parts == {Parts[k] : k \in 1 .. n + 1}
           seen == Visible(n + 1)
           y == [tenant[t] EXCEPT !.parts = parts, !.visible = seen]
<1>6. tenant' = [tenant EXCEPT ![t] = y]
  <2>1. tenant' = [tenant EXCEPT ![t].parts = @ \cup {Parts[n + 1]}, ![t].visible = Visible(n + 1)]
    BY <1>2, <1>3 DEF InsertPart
  <2>2. tenant[t].parts \cup {Parts[n + 1]} = parts
    BY <1>4, <1>5
  <2>3. tenant \in [Tenants -> TenantRow]
    BY <1>1 DEF PlatformTypeOK, TenantRow
  <2> HIDE DEF parts, seen
  <2>4. QED
    BY <2>1, <2>2, <2>3 DEF seen
<1>7. /\ y \in TenantRow /\ y.slug = tenant[t].slug /\ y.deleted = tenant[t].deleted
      /\ y.status = tenant[t].status /\ y.modules = tenant[t].modules
      /\ y.parts = parts /\ y.visible = seen
  <2>1. parts \subseteq {Parts[k] : k \in DOMAIN Parts} /\ seen \in BOOLEAN
    BY <1>5 DEF Visible
  <2> HIDE DEF parts, seen
  <2>2. QED
    BY <1>4, <2>1 DEF TenantRow
<1>8. PICK x \in Request :
        /\ request' = [request EXCEPT ![r] = x] /\ x.gone = {} /\ x.at \notin Holding
        /\ IF n + 1 = Len(Parts) THEN x = NoRequest
           ELSE x.do = request[r].do /\ x.at = "creating" /\ x.done = n + 1
  <2>1. CASE n + 1 = Len(Parts)
    <3>1. Leave(r)
      BY <1>3, <2>1 DEF InsertPart
    <3>2. QED
      BY <1>1, <2>1, <3>1, LeaveStays DEF NoRequest, Holding
  <2>2. CASE n + 1 # Len(Parts)
    <3> DEFINE x == [request[r] EXCEPT !.done = n + 1]
    <3>1. /\ x \in Request /\ x.do = request[r].do /\ x.at = "creating" /\ x.done = n + 1
          /\ x.gone = {}
      BY <1>1, <1>5 DEF Request
    <3>2. request' = [request EXCEPT ![r].done = n + 1]
      BY <1>3, <2>2 DEF InsertPart
    <3>3. request' = [request EXCEPT ![r] = x]
      BY <1>1, <3>2 DEF PlatformTypeOK
    <3> HIDE DEF x
    <3>4. QED
      BY <2>2, <3>1, <3>3 DEF Holding
  <2>3. QED
    BY <2>1, <2>2
<1> HIDE DEF y, parts, seen
<1>9. y.visible => n + 1 = Len(Parts) /\ y.parts = {Parts[k] : k \in DOMAIN Parts}
  BY <1>5, <1>7 DEF parts, seen
<1>10. n + 1 # Len(Parts) => ~y.visible /\ y.parts = {Parts[k] : k \in 1 .. n + 1}
  BY <1>5, <1>7 DEF parts, seen
<1>11. x.done = n + 1 => {Parts[k] : k \in 1 .. n + 1} = {Parts[k] : k \in 1 .. x.done}
  OBVIOUS
<1>12. CreationGoes(r, t, x, y)
  <2>1. CASE n + 1 = Len(Parts)
    BY <1>1, <1>2, <1>4, <1>6, <1>7, <1>8, <1>9, <2>1 DEF CreationGoes
  <2>2. CASE n + 1 # Len(Parts)
    BY <1>1, <1>2, <1>4, <1>5, <1>6, <1>7, <1>8, <1>10, <1>11, <2>2 DEF CreationGoes
  <2>3. QED
    BY <2>1, <2>2
<1>13. QED
  BY <1>7, <1>12, CreationChanges

\* What was not committed is gone.
LEMMA RollbackKeeps ==
    ASSUME PlatformAssumption, PlatformInv, NEW r \in Requests, Rollback(r) PROVE PlatformInv'
<1>1. /\ PlatformTypeOK /\ request[r] \in Request /\ Leave(r) /\ UNCHANGED <<member, role, served>>
  BY DEF PlatformInv, PlatformTypeOK, Rollback
<1>2. CASE UNCHANGED tenant
  BY <1>1, <1>2, LeaveStays DEF PlatformInv, PlatformTypeOK
<1>3. CASE Doing(r, "createTenant") /\ tenant' = [tenant EXCEPT ![request[r].do.tenant] = NoTenant]
  <2>1. PICK t \in Tenants : t = request[r].do.tenant
    BY <1>1, <1>3, OperationFields DEF Doing, Request
  <2>2. NoTenant \in TenantRow /\ ~NoTenant.visible /\ NoTenant.slug = None
    BY DEF NoTenant, TenantRow
  <2>3. NoRequest \in Request /\ NoRequest.gone = {} /\ NoRequest.at \notin Holding
        /\ request' = [request EXCEPT ![r] = NoRequest]
    BY <1>1, LeaveStays DEF NoRequest, Holding
  <2>4. tenant' = [tenant EXCEPT ![t] = NoTenant]
    BY <1>3, <2>1
  <2>5. CreationGoes(r, t, NoRequest, NoTenant)
    BY <1>1, <1>3, <2>1, <2>2, <2>3, <2>4 DEF CreationGoes
  <2>6. QED
    BY <2>2, <2>3, <2>5, CreationChanges
<1>4. QED
  BY <1>2, <1>3 DEF Rollback

------------------------------------------------------------------------------
\* One administrator, no tenant and no request.
LEMMA PlatformInitSound == ASSUME PlatformAssumption, PlatformInit PROVE PlatformInv
<1>1. /\ NoRequest \in Request /\ NoRequest.gone = {}
      /\ NoRequest.at = "idle" /\ NoRequest.do = None
      /\ NoTenant \in TenantRow /\ NoTenant.slug = None /\ ~NoTenant.visible
  <2>1. 0 \in 0 .. Len(Parts)
    <3>1. Len(Parts) = 9
      BY DEF Parts
    <3>2. QED
      BY <3>1
  <2>2. NoRequest \in Request /\ NoRequest.gone = {} /\ NoRequest.at = "idle" /\ NoRequest.do = None
    BY <2>1 DEF NoRequest, Request
  <2>3. NoTenant \in TenantRow /\ NoTenant.slug = None /\ ~NoTenant.visible
    BY DEF NoTenant, TenantRow
  <2>4. QED
    BY <2>2, <2>3
<1>2. /\ request \in [Requests -> Request] /\ \A r \in Requests : request[r] = NoRequest
      /\ tenant \in [Tenants -> TenantRow] /\ \A t \in Tenants : tenant[t] = NoTenant
  BY <1>1 DEF PlatformInit
<1>3. PICK m \in Members, i \in Identities :
        member = [n \in Members |->
                    IF n = m THEN [identity |-> i, status |-> "active", roles |-> {Owner}]
                    ELSE [identity |-> None, status |-> "absent", roles |-> {}]]
  BY DEF PlatformInit
<1>4. /\ member \in [Members -> MemberRow]
      /\ \A n \in Members :
            member[n].roles \in {{}, {Owner}} /\ (member[n].status = "active" => n = m)
  BY <1>3 DEF MemberRow, MemberStatus
<1>5. /\ role \in [Roles \cup {Owner} -> RoleRow]
      /\ \A o \in Roles : role[o].keys = {}
  BY DEF PlatformInit, RoleRow, PlatformAssumption
<1>6. PlatformTypeOK
  BY <1>1, <1>2, <1>4, <1>5
     DEF PlatformInit, PlatformTypeOK, MemberRow, RoleRow, TenantRow, PlatformAssumption
<1>7. MembersSound
  <2>1. LocksApart /\ \A r \in Requests : HolderSound(r)
    BY <1>1, <1>2 DEF LocksApart, Locked, Holding, HolderSound, Doing
  <2>2. QED
    BY <1>4, <1>5, <2>1 DEF MembersSound, GivenByOneRequest, MembersOnce
<1>8. TenantsSound
  BY <1>1, <1>2 DEF TenantsSound, TenantsWhole, SlugsOnce, CreatorsApart, CreatorSound, Doing
<1>9. QED
  BY <1>6, <1>7, <1>8 DEF PlatformInv

\* Every step keeps the invariant.
LEMMA PlatformNextKeeps ==
    ASSUME PlatformAssumption, PlatformInv, [PlatformNext]_platformVars PROVE PlatformInv'
<1>1. CASE UNCHANGED platformVars
  <2>1. \A r \in Requests : HolderSound(r)' <=> HolderSound(r)
    BY <1>1 DEF platformVars, HolderSound, Doing
  <2>2. \A r \in Requests : CreatorSound(r)' <=> CreatorSound(r)
    BY <1>1 DEF platformVars, CreatorSound, Doing
  <2>3. LocksApart'
    BY <1>1 DEF platformVars, PlatformInv, MembersSound, LocksApart, Locked, Doing
  <2>4. MembersSound'
    BY <1>1, <2>1, <2>3 DEF platformVars, PlatformInv, MembersSound, GivenByOneRequest, MembersOnce
  <2>5. TenantsSound'
    BY <1>1, <2>2
       DEF platformVars, PlatformInv, TenantsSound, TenantsWhole, SlugsOnce, CreatorsApart, Doing
  <2>6. QED
    BY <1>1, <2>4, <2>5 DEF platformVars, PlatformInv, PlatformTypeOK
<1>2. CASE PlatformNext
  BY <1>2, ArriveKeeps, LockKeeps, AddMemberKeeps, SaveMemberKeeps, RoleKeeps, InsertTenantKeeps,
     InsertPartKeeps, RollbackKeeps, StatusKeeps, TenantCheckKeeps, SaveModuleKeeps DEF PlatformNext
<1>3. QED
  BY <1>1, <1>2

\* The invariant holds in every state.
THEOREM PlatformInvariance == PlatformSpec => []PlatformInv
  BY PlatformAssumption, PlatformInitSound, PlatformNextKeeps, PTL DEF PlatformSpec

\* The variables of Platform have their types.
THEOREM PlatformTypeCorrect == PlatformSpec => []PlatformTypeOK
  BY PlatformInvariance, PTL DEF PlatformInv

\* The roles of a member and the permissions of a role are never a mixture of
\* two requests (PATCH /platform/members, PUT /platform/roles).
THEOREM NeverAMixture == PlatformSpec => []GivenByOneRequest
  BY PlatformInvariance, PTL DEF PlatformInv, MembersSound

\* A tenant that can be seen is whole, and deleted just when it is cancelled.
THEOREM TenantsAreWhole == PlatformSpec => []TenantsWhole
  BY PlatformInvariance, PTL DEF PlatformInv, TenantsSound

\* An identity has one active membership, a slug one tenant that lives.
THEOREM HeldByOne == PlatformSpec => []HeldOnce
<1>1. PlatformInv => HeldOnce
  BY DEF PlatformInv, MembersSound, TenantsSound, MembersOnce, SlugsOnce, HeldOnce
<1>2. QED
  BY <1>1, PlatformInvariance, PTL

------------------------------------------------------------------------------
(* Deployment.                                                             *)

\* Which command a process carries out is known from where it is; only the
\* reference data counts rows.
Placed(p) ==
    LET x == process[p]
    IN  /\ x.at \in {"role", "createRole", "preflight", "lock", "verify"} \cup Sectioned
              => x.job = "provision"
        /\ x.at = "security" => x.job \in {"provision", "secure"}
        /\ x.at \in {"seed", "seedWrite"} => x.job \in {"provision", "seed"}
        /\ x.at \in {"operate", "operateWrite"} => x.job \in OperatorCommands
        /\ IF x.at = "rows" THEN x.job = "reference" ELSE x.row = 1

\* What a process that migrates has passed is recorded, what it applies is
\* not; afterwards its whole release is.
MigratorSound(p) ==
    LET x == process[p]
    IN  /\ x.at \in Sectioned =>
              /\ x.next <= x.release + 1
              /\ \A m \in Migrations : m < x.next => m \in tracked
        /\ x.at \in {"apply", "mark"} => x.next <= x.release /\ x.next \notin tracked
        /\ x.at = "mark" => There(x.next)
        /\ x.job = "provision" /\ x.at \in {"security", "seed", "seedWrite", "verify", "done"}
              => \A m \in Migrations : m <= x.release => m \in tracked

\* What provisioning has reached stays, and what the reference data wrote.
StagesSound(p) ==
    LET x == process[p]
    IN  /\ x.job = "provision" /\ x.at \in {"seed", "seedWrite", "verify", "done"} =>
              (x.release = Newest => hardened = Contract)
        /\ x.job = "provision" /\ x.at = "done" => admins \cup dismissed # {}
        /\ x.at = "rows" =>
              \A i \in 1 .. Len(ReferenceRows) : i < x.row => ReferenceRows[i] \in seeded
        /\ x.job = "reference" /\ x.at = "done" => seeded = AllRows

\* The administrators that the seeds created and nobody dismissed.
SeedAdmins == {p \in (admins \cap Processes) \ dismissed : process[p].job \in {"provision", "seed"}}

\* The identities of users, and those that once were administrators.
Known == Users \cup admins \cup dismissed

\* What a process found that is about to write an administrator.
WriterSound(p) ==
    LET x == process[p]
    IN  /\ x.at = "seedWrite" => x.identity \in Known \/ (x.identity = p /\ SeedAdmins \subseteq {p})
        /\ x.at = "operateWrite" =>
              /\ used[x.job] = 0
              /\ x.identity \in Known \/ (x.job = "bootstrap" /\ x.identity = p)

\* The lock of the migrations, of the seed and of the operator's commands.
CommandLocksApart ==
    \A p, q \in Processes : p # q =>
        /\ ~(process[p].at \in Sectioned /\ process[q].at \in Sectioned)
        /\ ~(process[p].at \in Seeding /\ process[q].at \in Seeding)
        /\ ~(process[p].at \in Operating /\ process[q].at \in Operating)

\* In a database whose table belongs to it nothing differs from the files, and
\* migrations are recorded without a gap, at most one late.
SchemaSound ==
    /\ RecordedIsThere
    /\ history = "intact" =>
          /\ \A m \in Migrations : schema[m] \in {"absent", "complete"}
          /\ \A m \in Migrations : m \in tracked => \A k \in Migrations : k < m => k \in tracked
          /\ \A m \in Migrations : schema[m] # "absent" =>
                \A k \in Migrations : k < m => k \in tracked

\* Whoever signs in is a user or was an administrator; the seeds created one.
AdminsSound ==
    /\ \A l \in Usernames \cup Emails : login[l].active => login[l].owner \in Known
    /\ \A p, q \in SeedAdmins : p = q
    /\ \A o \in OperatorCommands : used[o] \in {0, 1}

\* All that holds of one process.
ProcessSound(p) == Placed(p) /\ MigratorSound(p) /\ StagesSound(p) /\ WriterSound(p)

\* The inductive invariant of Deployment.
DeploymentInv ==
    /\ DeploymentTypeOK /\ SchemaSound /\ AdminsSound /\ CommandLocksApart
    /\ \A p \in Processes : ProcessSound(p)

\* What a step of p does to the tables that the others rely on.
Grows(p) ==
    /\ history' = history
    /\ tracked \subseteq tracked'
    /\ UNCHANGED <<tracked, schema>> \/ process[p].at \in Sectioned
    /\ hardened' \in {hardened, Contract} \/ process[p].at = "apply"
    /\ Known \subseteq Known' /\ admins \cup dismissed \subseteq admins' \cup dismissed'
    /\ SeedAdmins' \subseteq SeedAdmins \/ process[p].at = "seedWrite"
    /\ used' = used \/ process[p].at = "operateWrite"
    /\ seeded \subseteq seeded' /\ seeded' \subseteq AllRows

\* Process p may go where it goes: a lock that it takes there is free.
LockedBy(p, at) ==
    /\ at \in Sectioned => \A q \in Processes \ {p} : process[q].at \notin Sectioned
    /\ at \in Seeding => \A q \in Processes \ {p} : process[q].at \notin Seeding
    /\ at \in Operating => \A q \in Processes \ {p} : process[q].at \notin Operating

------------------------------------------------------------------------------
\* The reference rows.
LEMMA RowNumbers ==
    /\ Len(ReferenceRows) = 9 /\ DOMAIN ReferenceRows = 1 .. 9
    /\ "platformPermission" = ReferenceRows[7] /\ "platformRole" = ReferenceRows[8]
    /\ \A i \in 1 .. 9 : ReferenceRows[i] = "rolePermission" => i = 9
<1>1. DOMAIN ReferenceRows = 1 .. Len(ReferenceRows) /\ Len(ReferenceRows) = 9
  BY DEF ReferenceRows, PlanRows, ModuleRows, PermissionRows, ActionPermissionRows,
         ManufacturingPermissionRows, WorkflowPermissionRows, PlatformRows
<1>2. /\ ReferenceRows[1] = "plan" /\ ReferenceRows[2] = "module"
      /\ ReferenceRows[3] = "permission" /\ ReferenceRows[4] = "actionPermission"
      /\ ReferenceRows[5] = "manufacturingPermission" /\ ReferenceRows[6] = "workflowPermission"
      /\ ReferenceRows[7] = "platformPermission" /\ ReferenceRows[8] = "platformRole"
      /\ ReferenceRows[9] = "rolePermission"
  BY DEF ReferenceRows, PlanRows, ModuleRows, PermissionRows, ActionPermissionRows,
         ManufacturingPermissionRows, WorkflowPermissionRows, PlatformRows
<1>3. QED
  BY <1>1, <1>2

\* Only p moves.
LEMMA ProcessMoves ==
    ASSUME DeploymentTypeOK, NEW p \in Processes, NEW x \in Process,
           process' = [process EXCEPT ![p] = x]
    PROVE  /\ process' \in [Processes -> Process] /\ process'[p] = x
           /\ \A q \in Processes : q # p => process'[q] = process[q]
BY DEF DeploymentTypeOK

\* Move leaves all but the position.
LEMMA Moves ==
    ASSUME DeploymentAssumption, DeploymentTypeOK, NEW p \in Processes,
           NEW at \in {"createRole", "migrate", "apply", "mark"}, Move(p, at)
    PROVE  \E x \in Process :
              /\ process' = [process EXCEPT ![p] = x]
              /\ x.at = at /\ x.job = process[p].job /\ x.release = process[p].release
              /\ x.next = process[p].next /\ x.row = process[p].row
              /\ x.identity = process[p].identity
<1> DEFINE x == [process[p] EXCEPT !.at = at]
<1>1. process[p] \in Process /\ process \in [Processes -> Process]
  BY DEF DeploymentTypeOK
<1>2. process' = [process EXCEPT ![p] = x]
  BY <1>1 DEF Move
<1>3. /\ x \in Process /\ x.at = at /\ x.job = process[p].job /\ x.release = process[p].release
      /\ x.next = process[p].next /\ x.row = process[p].row /\ x.identity = process[p].identity
  BY <1>1 DEF Process
<1> HIDE DEF x
<1>4. QED
  BY <1>2, <1>3

\* Where a process ends or goes to its next stage, it starts afresh.
LEMMA Ends ==
    ASSUME DeploymentAssumption, DeploymentTypeOK, NEW p \in Processes,
           NEW at \in {"preflight", "lock", "security", "seed", "verify", "done", "failed"},
           process' = [process EXCEPT
               ![p].at = at, ![p].next = 1, ![p].row = 1, ![p].identity = Nobody]
    PROVE  \E x \in Process :
              /\ process' = [process EXCEPT ![p] = x]
              /\ x.at = at /\ x.job = process[p].job /\ x.release = process[p].release
              /\ x.next = 1 /\ x.row = 1 /\ x.identity = Nobody
<1> DEFINE x == [process[p] EXCEPT !.at = at, !.next = 1, !.row = 1, !.identity = Nobody]
<1>1. process[p] \in Process /\ process \in [Processes -> Process]
  BY DEF DeploymentTypeOK
<1>2. process' = [process EXCEPT ![p] = x]
  BY <1>1
<1>3. 1 \in 1 .. Newest + 1 /\ 1 \in 1 .. Len(ReferenceRows) + 1
  <2>1. Len(ReferenceRows) \in Nat
    BY RowNumbers
  <2>2. QED
    BY <2>1 DEF DeploymentAssumption
<1>4. /\ x \in Process /\ x.at = at /\ x.job = process[p].job /\ x.release = process[p].release
      /\ x.next = 1 /\ x.row = 1 /\ x.identity = Nobody
  BY <1>1, <1>3 DEF Process
<1> HIDE DEF x
<1>5. QED
  BY <1>2, <1>4

\* Finish, for every stage.
LEMMA Finishes ==
    ASSUME DeploymentAssumption, DeploymentTypeOK, NEW p \in Processes,
           NEW at \in {"role", "preflight", "lock", "security", "seed", "verify", "operate",
                       "rows"},
           Finish(p, at)
    PROVE  \E x \in Process :
              /\ process' = [process EXCEPT ![p] = x]
              /\ x.at = IF process[p].job = "provision" THEN After(at) ELSE "done"
              /\ x.job = process[p].job /\ x.release = process[p].release
              /\ x.next = 1 /\ x.row = 1 /\ x.identity = Nobody
<1>1. PICK to \in {"preflight", "lock", "security", "seed", "verify", "done"} :
         to = IF process[p].job = "provision" THEN After(at) ELSE "done"
  BY DEF After
<1>2. process' = [process EXCEPT ![p].at = to, ![p].next = 1, ![p].row = 1, ![p].identity = Nobody]
  BY <1>1 DEF Finish
<1>3. PICK x \in Process :
         /\ process' = [process EXCEPT ![p] = x]
         /\ x.at = to /\ x.job = process[p].job /\ x.release = process[p].release
         /\ x.next = 1 /\ x.row = 1 /\ x.identity = Nobody
  <2>1. to \in {"preflight", "lock", "security", "seed", "verify", "done", "failed"}
    OBVIOUS
  <2>2. QED
    BY <1>2, <2>1, Ends, ZenonT(60)
<1>4. QED
  BY <1>1, <1>3

\* Fail is an end.
LEMMA Fails ==
    ASSUME DeploymentAssumption, DeploymentTypeOK, NEW p \in Processes, Fail(p)
    PROVE  \E x \in Process :
              /\ process' = [process EXCEPT ![p] = x]
              /\ x.at = "failed" /\ x.job = process[p].job /\ x.release = process[p].release
              /\ x.next = 1 /\ x.row = 1 /\ x.identity = Nobody
BY Ends DEF Fail

------------------------------------------------------------------------------
\* A step of process p disturbs no other process.
LEMMA ProcessStepKeeps ==
    ASSUME DeploymentAssumption, DeploymentInv, NEW p \in Processes, NEW x \in Process,
           process' = [process EXCEPT ![p] = x],
           x.job = process[p].job, x.release = process[p].release,
           DeploymentTypeOK', SchemaSound', AdminsSound', ProcessSound(p)', Grows(p),
           LockedBy(p, x.at)
    PROVE  DeploymentInv'
<1>1. /\ process' \in [Processes -> Process] /\ process'[p] = x
      /\ \A q \in Processes : q # p => process'[q] = process[q]
  BY ProcessMoves DEF DeploymentInv
<1>2. CommandLocksApart'
  BY <1>1 DEF DeploymentInv, CommandLocksApart, LockedBy
<1>3. ASSUME NEW q \in Processes, q # p PROVE ProcessSound(q)'
  <2>1. ProcessSound(q) /\ ProcessSound(p) /\ process'[q] = process[q] /\ process[q] \in Process
        /\ process[p] \in Process
    BY <1>1, <1>3 DEF DeploymentInv, DeploymentTypeOK
  <2>2. Placed(q)'
    BY <2>1 DEF ProcessSound, Placed
  <2>3. MigratorSound(q)'
    <3>1. process[q].at \in Sectioned => UNCHANGED <<tracked, schema>>
      BY <1>3 DEF Grows, DeploymentInv, CommandLocksApart
    <3>2. tracked \subseteq tracked'
      BY DEF Grows
    <3>3. QED
      BY <2>1, <3>1, <3>2 DEF ProcessSound, MigratorSound, Sectioned, There, Grows
  <2>4. StagesSound(q)'
    <3>1. /\ admins \cup dismissed \subseteq admins' \cup dismissed' /\ seeded \subseteq seeded' /\ seeded' \subseteq AllRows
          /\ AllRows \subseteq seeded => seeded' = AllRows
      BY DEF Grows
    <3>2. CASE hardened' \in {hardened, Contract}
      BY <2>1, <3>1, <3>2 DEF ProcessSound, StagesSound
    <3>3. CASE process[p].at = "apply"
      <4>1. process[p].next \in Migrations /\ process[p].next \notin tracked
        BY <2>1, <3>3 DEF ProcessSound, MigratorSound, Process, Migrations, DeploymentAssumption
      <4>2. ~(/\ process[q].job = "provision" /\ process[q].release = Newest
              /\ process[q].at \in {"seed", "seedWrite", "verify", "done"})
        BY <2>1, <4>1 DEF ProcessSound, MigratorSound, Migrations
      <4>3. QED
        BY <2>1, <3>1, <4>2 DEF ProcessSound, StagesSound
    <3>4. QED
      BY <3>2, <3>3 DEF Grows
  <2>5. WriterSound(q)'
    <3>1. process[q].at = "seedWrite" => SeedAdmins' \subseteq SeedAdmins
      BY <1>3 DEF Grows, DeploymentInv, CommandLocksApart, Seeding
    <3>2. process[q].at = "operateWrite" => used' = used
      BY <1>3 DEF Grows, DeploymentInv, CommandLocksApart, Operating
    <3>3. Known \subseteq Known'
      BY DEF Grows
    <3> HIDE DEF SeedAdmins, Known
    <3>4. QED
      BY <2>1, <3>1, <3>2, <3>3 DEF ProcessSound, WriterSound
  <2>6. QED
    BY <2>2, <2>3, <2>4, <2>5 DEF ProcessSound
<1>4. QED
  BY <1>2, <1>3 DEF DeploymentInv

\* A step that makes x of process p and leaves the tables as they are.
Quiet(p, x) ==
    /\ process' = [process EXCEPT ![p] = x]
    /\ x.job = process[p].job /\ x.release = process[p].release
    /\ UNCHANGED <<history, tracked, schema, hardened, admins, dismissed, login, used, seeded>>
    /\ migrationRole' \in BOOLEAN
    /\ x.identity # Nobody => x.at \in Seeding \cup Operating
    /\ x.next > 1 => x.at \in Sectioned
    /\ ProcessSound(p)' /\ LockedBy(p, x.at)

\* Such a step keeps the invariant.
LEMMA QuietKeeps ==
    ASSUME DeploymentAssumption, DeploymentInv, NEW p \in Processes, NEW x \in Process, Quiet(p, x)
    PROVE  DeploymentInv'
<1> USE DEF Quiet
<1>1. /\ process' \in [Processes -> Process] /\ process'[p] = x
      /\ \A q \in Processes : q # p => process'[q] = process[q]
  BY ProcessMoves DEF DeploymentInv
<1>2. DeploymentTypeOK'
  BY <1>1 DEF DeploymentInv, DeploymentTypeOK
<1>3. SchemaSound'
  BY DEF DeploymentInv, SchemaSound, RecordedIsThere, There
<1>4. SeedAdmins' = SeedAdmins /\ Known' = Known
  BY <1>1 DEF SeedAdmins, Known, DeploymentInv, DeploymentTypeOK
<1>5. AdminsSound'
  <2> HIDE DEF SeedAdmins, Known
  <2>1. QED
    BY <1>4 DEF DeploymentInv, AdminsSound
<1>6. Grows(p)
  BY <1>4 DEF Grows, DeploymentInv, DeploymentTypeOK
<1>7. QED
  BY <1>2, <1>3, <1>5, <1>6, ProcessStepKeeps

\* A process fails, or dies.
LEMMA FailKeeps ==
    ASSUME DeploymentAssumption, DeploymentInv, NEW p \in Processes, Fail(p),
           UNCHANGED <<history, tracked, schema, hardened, admins, dismissed, login, used, seeded>>,
           migrationRole' \in BOOLEAN
    PROVE  DeploymentInv'
<1>1. PICK x \in Process :
         /\ process' = [process EXCEPT ![p] = x]
         /\ x.at = "failed" /\ x.job = process[p].job /\ x.release = process[p].release
         /\ x.next = 1 /\ x.row = 1 /\ x.identity = Nobody
  BY Fails DEF DeploymentInv
<1>2. process'[p] = x
  BY <1>1, ProcessMoves DEF DeploymentInv
<1>3. ProcessSound(p)'
  BY <1>1, <1>2 DEF ProcessSound, Placed, MigratorSound, StagesSound, WriterSound, Sectioned
<1>4. LockedBy(p, x.at)
  BY <1>1 DEF LockedBy, Sectioned, Seeding, Operating
<1>5. Quiet(p, x)
  BY <1>1, <1>3, <1>4 DEF Quiet
<1>6. QED
  BY <1>5, QuietKeeps

\* A stage ends that changes no table.
LEMMA FinishKeeps ==
    ASSUME DeploymentAssumption, DeploymentInv, NEW p \in Processes,
           NEW at \in {"role", "preflight", "lock", "verify", "rows"}, Finish(p, at),
           UNCHANGED <<history, tracked, schema, hardened, admins, dismissed, login, used, seeded>>,
           migrationRole' \in BOOLEAN,
           at # "rows" => process[p].job = "provision",
           at = "lock" => \A m \in Migrations : m <= process[p].release => m \in tracked,
           at = "verify" => process[p].at = "verify" /\ admins # {},
           at = "rows" => process[p].job = "reference" /\ seeded = AllRows
    PROVE  DeploymentInv'
<1>1. PICK x \in Process :
         /\ process' = [process EXCEPT ![p] = x]
         /\ x.at = IF process[p].job = "provision" THEN After(at) ELSE "done"
         /\ x.job = process[p].job /\ x.release = process[p].release
         /\ x.next = 1 /\ x.row = 1 /\ x.identity = Nobody
  BY Finishes DEF DeploymentInv
<1>2. process'[p] = x
  BY <1>1, ProcessMoves DEF DeploymentInv
<1>3. x.at = CASE at = "role" -> "preflight" [] at = "preflight" -> "lock"
               [] at = "lock" -> "security" [] OTHER -> "done"
  BY <1>1 DEF After
<1>4. ProcessSound(p) /\ process[p] \in Process
  BY DEF DeploymentInv, DeploymentTypeOK
<1>5. Placed(p)'
  BY <1>1, <1>2, <1>3 DEF Placed, Sectioned
<1>6. MigratorSound(p)'
  BY <1>1, <1>2, <1>3, <1>4 DEF ProcessSound, MigratorSound, Sectioned
<1>7. StagesSound(p)'
  BY <1>1, <1>2, <1>3, <1>4 DEF ProcessSound, StagesSound
<1>8. WriterSound(p)' /\ LockedBy(p, x.at)
  BY <1>1, <1>2, <1>3 DEF WriterSound, LockedBy, Sectioned, Seeding, Operating
<1>9. ProcessSound(p)'
  BY <1>5, <1>6, <1>7, <1>8 DEF ProcessSound
<1>10. Quiet(p, x)
  BY <1>1, <1>8, <1>9 DEF Quiet
<1>11. QED
  BY <1>10, QuietKeeps

------------------------------------------------------------------------------
\* A process starts its command.
LEMMA BeginKeeps ==
    ASSUME DeploymentAssumption, DeploymentInv, NEW p \in Processes, Begin(p) PROVE DeploymentInv'
<1>1. /\ process \in [Processes -> Process] /\ process[p] \in Process /\ ProcessSound(p)
      /\ process[p].identity = Nobody /\ process[p].next = 1 /\ process[p].row = 1
  <2>1. /\ process \in [Processes -> Process] /\ process[p] \in Process /\ ProcessSound(p)
        /\ process[p].identity # Nobody => process[p].at \in Seeding \cup Operating
        /\ process[p].next > 1 => process[p].at \in Sectioned
    BY DEF DeploymentInv, DeploymentTypeOK
  <2>2. process[p].at \in {"idle", "failed", "done"}
    BY DEF Begin
  <2>3. process[p].identity = Nobody
    BY <2>1, <2>2 DEF Seeding, Operating
  <2>4. process[p].next = 1
    BY <2>1, <2>2 DEF Sectioned, Process, DeploymentAssumption
  <2>5. process[p].row = 1
    BY <2>1, <2>2 DEF ProcessSound, Placed
  <2>6. QED
    BY <2>1, <2>3, <2>4, <2>5
<1>2. PICK at \in {"role", "security", "seed", "rows", "operate"} :
         /\ at = Start[process[p].job]
         /\ at = "role" => process[p].job = "provision"
         /\ at = "security" => process[p].job = "secure"
         /\ at = "seed" => process[p].job = "seed"
         /\ at = "rows" => process[p].job = "reference"
         /\ at = "operate" => process[p].job \in OperatorCommands
  BY <1>1 DEF Start, Process, Commands, OperatorCommands
<1> DEFINE n == process[p].runs + 1
           x == [process[p] EXCEPT !.at = at, !.runs = n]
<1>3. process' = [process EXCEPT ![p].at = at, ![p].runs = n]
  BY <1>2 DEF Begin
<1>4. process' = [process EXCEPT ![p] = x]
  BY <1>1, <1>3
<1>5. n \in 0 .. MaxRuns
  BY <1>1 DEF Begin, Process, DeploymentAssumption
<1>6. /\ x \in Process /\ x.at = at /\ x.job = process[p].job /\ x.release = process[p].release
      /\ x.next = 1 /\ x.row = 1 /\ x.identity = Nobody
  <2> HIDE DEF n
  <2>1. QED
    BY <1>1, <1>5 DEF Process
<1> HIDE DEF x, n
<1>7. process'[p] = x
  BY <1>1, <1>4
<1>8. Placed(p)'
  BY <1>2, <1>6, <1>7 DEF Placed, Sectioned
<1>9. MigratorSound(p)' /\ WriterSound(p)' /\ LockedBy(p, x.at)
  BY <1>2, <1>6, <1>7
     DEF MigratorSound, WriterSound, LockedBy, Sectioned, Seeding, Operating
<1>10. StagesSound(p)'
  <2>1. x.at = "rows" => \A i \in 1 .. Len(ReferenceRows) : ~(i < x.row)
    BY <1>6
  <2>2. QED
    BY <1>2, <1>6, <1>7, <2>1 DEF StagesSound
<1>11. UNCHANGED <<history, tracked, schema, hardened, admins, dismissed, login, used, seeded>>
       /\ migrationRole' \in BOOLEAN
  BY DEF Begin, migrationTables, adminTables, DeploymentInv, DeploymentTypeOK
<1>12. ProcessSound(p)'
  BY <1>8, <1>9, <1>10 DEF ProcessSound
<1>13. Quiet(p, x)
  BY <1>4, <1>6, <1>9, <1>11, <1>12 DEF Quiet
<1>14. QED
  BY <1>6, <1>13, QuietKeeps

\* A process dies.
LEMMA DieKeeps ==
    ASSUME DeploymentAssumption, DeploymentInv, NEW p \in Processes, Die(p) PROVE DeploymentInv'
BY FailKeeps DEF Die, migrationTables, adminTables, DeploymentInv, DeploymentTypeOK

\* The migration role and the preflight.
LEMMA MigrationRoleKeeps ==
    ASSUME DeploymentAssumption, DeploymentInv, NEW p \in Processes,
           FindRole(p) \/ CreateMigrationRole(p) \/ Preflight(p)
    PROVE  DeploymentInv'
<1>1. /\ UNCHANGED <<history, tracked, schema, hardened, admins, dismissed, login, used, seeded>>
      /\ migrationRole' \in BOOLEAN
  BY DEF FindRole, CreateMigrationRole, Preflight, migrationTables, adminTables, DeploymentInv,
         DeploymentTypeOK
<1>2. process[p].job = "provision" /\ process[p] \in Process /\ ProcessSound(p)
  BY DEF FindRole, CreateMigrationRole, Preflight, DeploymentInv, DeploymentTypeOK, ProcessSound,
         Placed
<1>3. CASE Finish(p, "role") \/ Finish(p, "preflight")
  BY <1>1, <1>2, <1>3, FinishKeeps
<1>4. CASE Fail(p)
  BY <1>1, <1>4, FailKeeps
<1>5. CASE Move(p, "createRole") /\ process[p].at = "role"
  <2>1. PICK x \in Process :
           /\ process' = [process EXCEPT ![p] = x]
           /\ x.at = "createRole" /\ x.job = process[p].job /\ x.release = process[p].release
           /\ x.next = process[p].next /\ x.row = process[p].row
           /\ x.identity = process[p].identity
    BY <1>5, Moves DEF DeploymentInv
  <2>2. process'[p] = x
    BY <2>1, ProcessMoves DEF DeploymentInv
  <2>3. x.identity = Nobody /\ x.next = 1 /\ x.row = 1
    <3>1. /\ process[p].identity # Nobody => process[p].at \in Seeding \cup Operating
          /\ process[p].next > 1 => process[p].at \in Sectioned
      BY DEF DeploymentInv, DeploymentTypeOK
    <3>2. x.identity = Nobody
      BY <1>5, <2>1, <3>1 DEF Seeding, Operating
    <3>3. x.next = 1
      BY <1>2, <1>5, <2>1, <3>1 DEF Sectioned, Process, DeploymentAssumption
    <3>4. x.row = 1
      BY <1>2, <1>5, <2>1 DEF ProcessSound, Placed
    <3>5. QED
      BY <3>2, <3>3, <3>4
  <2>4. ProcessSound(p)'
    BY <1>2, <2>1, <2>2, <2>3
       DEF ProcessSound, Placed, MigratorSound, StagesSound, WriterSound, Sectioned
  <2>5. LockedBy(p, x.at)
    BY <2>1 DEF LockedBy, Sectioned, Seeding, Operating
  <2>6. Quiet(p, x)
    BY <1>1, <2>1, <2>3, <2>4, <2>5 DEF Quiet
  <2>7. QED
    BY <2>6, QuietKeeps
<1>6. QED
  BY <1>3, <1>4, <1>5 DEF FindRole, CreateMigrationRole, Preflight

------------------------------------------------------------------------------
(* Migrations. *)

\* What a step that changes the tables of the migrations has to show.
LEMMA TablesKeep ==
    ASSUME DeploymentAssumption, DeploymentInv, NEW p \in Processes, NEW x \in Process,
           process' = [process EXCEPT ![p] = x],
           x.job = process[p].job, x.release = process[p].release,
           x.at \in Sectioned, x.identity = Nobody, process[p].at \in Sectioned,
           SchemaSound', ProcessSound(p)',
           tracked \subseteq tracked', tracked' \subseteq Migrations \cup {0},
           schema' \in [Migrations -> Presence],
           hardened' = hardened \/ (process[p].at = "apply" /\ hardened' \subseteq Contract),
           UNCHANGED <<history, migrationRole, admins, dismissed, login, used, seeded>>
    PROVE  DeploymentInv'
<1>1. /\ process' \in [Processes -> Process] /\ process'[p] = x
      /\ \A q \in Processes : q # p => process'[q] = process[q]
  BY ProcessMoves DEF DeploymentInv
<1>2. DeploymentTypeOK'
  <2>1. \A q \in Processes :
           process'[q].identity # Nobody => process'[q].at \in Seeding \cup Operating
    BY <1>1 DEF DeploymentInv, DeploymentTypeOK
  <2>2. \A q \in Processes : process'[q].next > 1 => process'[q].at \in Sectioned
    BY <1>1 DEF DeploymentInv, DeploymentTypeOK
  <2>3. hardened' \subseteq Contract
    BY DEF DeploymentInv, DeploymentTypeOK
  <2>4. QED
    BY <1>1, <2>1, <2>2, <2>3 DEF DeploymentInv, DeploymentTypeOK
<1>3. SeedAdmins' = SeedAdmins /\ Known' = Known
  BY <1>1 DEF SeedAdmins, Known, DeploymentInv, DeploymentTypeOK
<1>4. AdminsSound'
  <2> HIDE DEF SeedAdmins, Known
  <2>1. QED
    BY <1>3 DEF DeploymentInv, AdminsSound
<1>5. Grows(p)
  BY <1>3 DEF Grows, DeploymentInv, DeploymentTypeOK
<1>6. LockedBy(p, x.at)
  BY DEF LockedBy, Sectioned, Seeding, Operating, DeploymentInv, CommandLocksApart
<1>7. QED
  BY <1>2, <1>4, <1>5, <1>6, ProcessStepKeeps

\* A process that migrates, its next migration a constant.
LEMMA Migrating ==
    ASSUME DeploymentAssumption, DeploymentInv, NEW p \in Processes, process[p].at \in Sectioned
    PROVE  /\ process[p] \in Process /\ process \in [Processes -> Process]
           /\ process[p].job = "provision" /\ process[p].identity = Nobody /\ process[p].row = 1
           /\ process[p].release \in {Oldest, Newest} /\ process[p].next \in 1 .. Newest + 1
           /\ MigratorSound(p)
<1>1. process[p] \in Process /\ process \in [Processes -> Process] /\ ProcessSound(p)
  BY DEF DeploymentInv, DeploymentTypeOK
<1>2. process[p].identity = Nobody
  BY DEF DeploymentInv, DeploymentTypeOK, Sectioned, Seeding, Operating
<1>3. process[p].job = "provision" /\ process[p].row = 1 /\ MigratorSound(p)
  BY <1>1 DEF ProcessSound, Placed, Sectioned
<1>4. QED
  BY <1>1, <1>2, <1>3 DEF Process

\* The lock is taken.
LEMMA MigrationLockKeeps ==
    ASSUME DeploymentAssumption, DeploymentInv, NEW p \in Processes, LockMigrations(p)
    PROVE  DeploymentInv'
<1>1. /\ UNCHANGED <<history, tracked, schema, hardened, admins, dismissed, login, used, seeded>>
      /\ migrationRole' \in BOOLEAN
  BY DEF LockMigrations, migrationTables, adminTables, DeploymentInv, DeploymentTypeOK
<1>2. CASE Fail(p)
  BY <1>1, <1>2, FailKeeps
<1>3. CASE Move(p, "migrate")
  <2>1. PICK x \in Process :
           /\ process' = [process EXCEPT ![p] = x]
           /\ x.at = "migrate" /\ x.job = process[p].job /\ x.release = process[p].release
           /\ x.next = process[p].next /\ x.row = process[p].row
           /\ x.identity = process[p].identity
    BY <1>3, Moves DEF DeploymentInv
  <2>2. process'[p] = x
    BY <2>1, ProcessMoves DEF DeploymentInv
  <2>3. /\ process[p].at = "lock" /\ process[p] \in Process /\ ProcessSound(p)
        /\ process[p].identity # Nobody => process[p].at \in Seeding \cup Operating
        /\ process[p].next > 1 => process[p].at \in Sectioned
    BY DEF LockMigrations, DeploymentInv, DeploymentTypeOK
  <2>4. x.identity = Nobody /\ x.row = 1 /\ x.job = "provision"
    BY <2>1, <2>3 DEF Seeding, Operating, ProcessSound, Placed
  <2>5. x.next = 1 /\ x.release \in Nat
    BY <2>1, <2>3 DEF Sectioned, Process, DeploymentAssumption
  <2>6. ProcessSound(p)'
    <3>1. MigratorSound(p)'
      BY <2>1, <2>2, <2>5 DEF MigratorSound, Migrations
    <3>2. Placed(p)' /\ StagesSound(p)' /\ WriterSound(p)'
      BY <2>1, <2>2, <2>4 DEF Placed, StagesSound, WriterSound, Sectioned
    <3>3. QED
      BY <3>1, <3>2 DEF ProcessSound
  <2>7. LockedBy(p, x.at)
    BY <2>1 DEF LockedBy, LockMigrations, MigrationLockFree, Seeding, Operating
  <2>8. Quiet(p, x)
    BY <1>1, <2>1, <2>4, <2>6, <2>7 DEF Quiet, Sectioned
  <2>9. QED
    BY <2>8, QuietKeeps
<1>4. QED
  BY <1>2, <1>3 DEF LockMigrations

\* What is recorded, after all before it, is there.
LEMMA MarkKeeps ==
    ASSUME DeploymentAssumption, DeploymentInv, NEW p \in Processes, NEW m \in Migrations,
           process[p].at \in Sectioned, m = process[p].next, m <= process[p].release,
           \/ process' = [process EXCEPT ![p].at = "migrate", ![p].next = m + 1]
           \/ process[p].at = "migrate" /\ process' = [process EXCEPT ![p].next = m + 1],
           MarkApplied(m) \/ (m \in tracked /\ tracked' = tracked),
           There(m)', NEW s \in Results(m),
           schema' = schema \/ schema' = [schema EXCEPT ![m] = s],
           hardened' = hardened \/ (process[p].at = "apply" /\ hardened' \subseteq Contract),
           UNCHANGED <<history, migrationRole, admins, dismissed, login, used, seeded>>
    PROVE  DeploymentInv'
<1> DEFINE n == m + 1
<1>1. /\ process[p] \in Process /\ process \in [Processes -> Process]
      /\ process[p].job = "provision" /\ process[p].identity = Nobody /\ process[p].row = 1
      /\ process[p].release \in {Oldest, Newest} /\ MigratorSound(p)
      /\ schema \in [Migrations -> Presence] /\ SchemaSound
      /\ tracked \subseteq Migrations \cup {0}
  BY Migrating DEF DeploymentInv, DeploymentTypeOK
<1>2. n \in 1 .. Newest + 1 /\ n \in Nat /\ m \in Nat /\ n = m + 1 /\ m >= 1
  BY DEF Migrations, DeploymentAssumption
<1>3. PICK x \in Process :
         /\ process' = [process EXCEPT ![p] = x]
         /\ x.at = "migrate" /\ x.next = n /\ x.job = process[p].job
         /\ x.release = process[p].release /\ x.row = 1 /\ x.identity = Nobody
  <2> HIDE DEF n
  <2>1. CASE process' = [process EXCEPT ![p].at = "migrate", ![p].next = n]
    <3> DEFINE x == [process[p] EXCEPT !.at = "migrate", !.next = n]
    <3>1. process' = [process EXCEPT ![p] = x]
      BY <1>1, <2>1
    <3>2. /\ x \in Process /\ x.at = "migrate" /\ x.next = n /\ x.job = process[p].job
          /\ x.release = process[p].release /\ x.row = 1 /\ x.identity = Nobody
      BY <1>1, <1>2 DEF Process
    <3> HIDE DEF x
    <3>3. QED
      BY <3>1, <3>2
  <2>2. CASE process[p].at = "migrate" /\ process' = [process EXCEPT ![p].next = n]
    <3> DEFINE x == [process[p] EXCEPT !.next = n]
    <3>1. process' = [process EXCEPT ![p] = x]
      BY <1>1, <2>2
    <3>2. /\ x \in Process /\ x.at = "migrate" /\ x.next = n /\ x.job = process[p].job
          /\ x.release = process[p].release /\ x.row = 1 /\ x.identity = Nobody
      BY <1>1, <1>2, <2>2 DEF Process
    <3> HIDE DEF x
    <3>3. QED
      BY <3>1, <3>2
  <2>3. QED
    BY <2>1, <2>2 DEF n
<1>4. x.at = "migrate" /\ x.next = n /\ x.release = process[p].release /\ x.job = process[p].job
      /\ x.row = 1 /\ x.identity = Nobody
  BY <1>3
<1> HIDE DEF n
<1>5. process'[p] = x
  BY <1>1, <1>3
<1>6. /\ tracked \subseteq tracked' /\ m \in tracked' /\ tracked' \subseteq Migrations \cup {0}
      /\ \A k \in tracked' : k \in tracked \/ k = m
  BY <1>1 DEF MarkApplied
<1>7. /\ schema' \in [Migrations -> Presence]
      /\ \A k \in Migrations : k # m => schema'[k] = schema[k]
      /\ history = "intact" => schema'[m] = "complete"
  <2>1. s \in Presence
    BY DEF Results, Presence
  <2>2. history = "intact" => schema'[m] = "complete"
    BY DEF There
  <2>3. QED
    BY <1>1, <2>1, <2>2
<1>8. \A k \in Migrations : k < m => k \in tracked
  BY <1>1 DEF MigratorSound
<1>9. SchemaSound'
  <2>1. RecordedIsThere'
    BY <1>1, <1>6, <1>7 DEF SchemaSound, RecordedIsThere, There
  <2>2. history' = "intact" => \A k \in Migrations : schema'[k] \in {"absent", "complete"}
    BY <1>1, <1>7 DEF SchemaSound
  <2>3. history' = "intact" =>
           /\ \A k \in Migrations : k \in tracked' => \A j \in Migrations : j < k => j \in tracked'
           /\ \A k \in Migrations : schema'[k] # "absent" =>
                 \A j \in Migrations : j < k => j \in tracked'
    BY <1>1, <1>6, <1>7, <1>8 DEF SchemaSound
  <2>4. QED
    BY <2>1, <2>2, <2>3 DEF SchemaSound
<1>10. ProcessSound(p)'
  <2>1. MigratorSound(p)'
    <3>1. \A k \in Migrations : k < n => k \in tracked'
      <4>1. \A k \in Migrations : k < n => k < m \/ k = m
        BY <1>2 DEF Migrations, DeploymentAssumption
      <4>2. QED
        BY <1>6, <1>8, <4>1
    <3>2. n <= x.release + 1
      BY <1>1, <1>2, <1>4 DEF DeploymentAssumption
    <3>3. QED
      BY <1>4, <1>5, <3>1, <3>2 DEF MigratorSound
  <2>2. Placed(p)' /\ StagesSound(p)' /\ WriterSound(p)'
    BY <1>1, <1>4, <1>5 DEF Placed, StagesSound, WriterSound, Sectioned
  <2>3. QED
    BY <2>1, <2>2 DEF ProcessSound
<1>11. x.at \in Sectioned
  BY <1>4 DEF Sectioned
<1>12. QED
  BY <1>3, <1>4, <1>6, <1>7, <1>9, <1>10, <1>11, TablesKeep

\* One turn of the loop.
LEMMA NextMigrationKeeps ==
    ASSUME DeploymentAssumption, DeploymentInv, NEW p \in Processes, NextMigration(p)
    PROVE  DeploymentInv'
<1>1. /\ process[p].at = "migrate" /\ process[p].at \in Sectioned
      /\ UNCHANGED <<history, schema, migrationRole, hardened, admins, dismissed, login, used, seeded>>
      /\ migrationRole' \in BOOLEAN
  BY DEF NextMigration, Sectioned, adminTables, DeploymentInv, DeploymentTypeOK
<1>2. /\ process[p] \in Process /\ process \in [Processes -> Process]
      /\ process[p].job = "provision" /\ process[p].identity = Nobody /\ process[p].row = 1
      /\ process[p].release \in {Oldest, Newest} /\ process[p].next \in 1 .. Newest + 1
      /\ MigratorSound(p) /\ SchemaSound
  BY <1>1, Migrating DEF DeploymentInv
<1>3. PICK m \in 1 .. Newest + 1 : m = process[p].next
  BY <1>2
<1>4. CASE m > process[p].release /\ Finish(p, "lock") /\ UNCHANGED tracked
  <2>1. \A k \in Migrations : k <= process[p].release => k \in tracked
    BY <1>1, <1>2, <1>3, <1>4 DEF MigratorSound, Migrations, DeploymentAssumption
  <2>2. QED
    BY <1>1, <1>2, <1>4, <2>1, FinishKeeps
<1>5. CASE m <= process[p].release /\ Tracked(m) /\ UNCHANGED tracked
           /\ process' = [process EXCEPT ![p].next = m + 1]
  <2>1. m \in Migrations /\ m \in tracked
    BY <1>2, <1>5 DEF Migrations, DeploymentAssumption, Tracked
  <2>2. There(m)'
    BY <1>1, <1>2, <2>1, DeploymentAssumption
       DEF SchemaSound, RecordedIsThere, There, Migrations, DeploymentAssumption
  <2>3. "complete" \in Results(m)
    BY DEF Results
  <2>4. QED
    BY <1>1, <1>3, <1>5, <2>1, <2>2, <2>3, MarkKeeps
<1>6. CASE m <= process[p].release /\ Present(m) /\ MarkApplied(m)
           /\ process' = [process EXCEPT ![p].next = m + 1]
  <2>1. m \in Migrations
    BY <1>2, <1>6 DEF Migrations, DeploymentAssumption
  <2>2. There(m)'
    BY <1>1, <1>2, <1>6, <2>1 DEF SchemaSound, Present, ChallengesMatch, ObjectExists, There
  <2>3. "complete" \in Results(m)
    BY DEF Results
  <2>4. QED
    BY <1>1, <1>3, <1>6, <2>1, <2>2, <2>3, MarkKeeps
<1>7. CASE m <= process[p].release /\ ~Tracked(m) /\ Move(p, "apply") /\ UNCHANGED tracked
  <2>1. PICK x \in Process :
           /\ process' = [process EXCEPT ![p] = x]
           /\ x.at = "apply" /\ x.job = process[p].job /\ x.release = process[p].release
           /\ x.next = process[p].next /\ x.row = process[p].row
           /\ x.identity = process[p].identity
    BY <1>7, Moves DEF DeploymentInv
  <2>2. process'[p] = x
    BY <2>1, ProcessMoves DEF DeploymentInv
  <2>3. MigratorSound(p)'
    BY <1>1, <1>2, <1>3, <1>7, <2>1, <2>2 DEF MigratorSound, Sectioned, Tracked
  <2>4. Placed(p)' /\ StagesSound(p)' /\ WriterSound(p)'
    BY <1>2, <2>1, <2>2 DEF Placed, StagesSound, WriterSound, Sectioned
  <2>5. ProcessSound(p)'
    BY <2>3, <2>4 DEF ProcessSound
  <2>6. LockedBy(p, x.at)
    BY <1>1, <2>1 DEF LockedBy, Sectioned, Seeding, Operating, DeploymentInv, CommandLocksApart
  <2>7. Quiet(p, x)
    BY <1>1, <1>2, <1>7, <2>1, <2>5, <2>6 DEF Quiet, Sectioned
  <2>8. QED
    BY <2>7, QuietKeeps
<1>8. QED
  BY <1>3, <1>4, <1>5, <1>6, <1>7 DEF NextMigration

\* The file, and the record unless the file commits itself.
LEMMA ApplyMigrationKeeps ==
    ASSUME DeploymentAssumption, DeploymentInv, NEW p \in Processes, ApplyMigration(p)
    PROVE  DeploymentInv'
<1>1. /\ process[p].at = "apply" /\ process[p].at \in Sectioned
      /\ UNCHANGED <<history, migrationRole, admins, dismissed, login, used, seeded>>
      /\ migrationRole' \in BOOLEAN
  BY DEF ApplyMigration, Sectioned, adminTables, DeploymentInv, DeploymentTypeOK
<1>2. /\ process[p] \in Process /\ process \in [Processes -> Process]
      /\ process[p].job = "provision" /\ process[p].identity = Nobody /\ process[p].row = 1
      /\ process[p].release \in {Oldest, Newest} /\ process[p].next \in 1 .. Newest + 1
      /\ MigratorSound(p) /\ SchemaSound /\ hardened \subseteq Contract
      /\ schema \in [Migrations -> Presence]
      /\ tracked \subseteq Migrations \cup {0}
  BY <1>1, Migrating DEF DeploymentInv, DeploymentTypeOK
<1>3. PICK m \in Migrations : m = process[p].next /\ m <= process[p].release /\ m \notin tracked
  BY <1>1, <1>2 DEF MigratorSound, Migrations, DeploymentAssumption
<1>4. CASE Fail(p) /\ UNCHANGED <<migrationTables, hardened>>
  <2>1. UNCHANGED <<history, tracked, schema, hardened, admins, dismissed, login, used, seeded>>
    BY <1>1, <1>4 DEF migrationTables
  <2>2. QED
    BY <1>1, <1>4, <2>1, FailKeeps
<1>5. ASSUME Applies(m), NEW s \in Results(m), schema' = [schema EXCEPT ![m] = s],
             hardened' = IF m \in Loosening THEN hardened \ {"ownership"} ELSE hardened
      PROVE  /\ There(m)' /\ schema' \in [Migrations -> Presence]
             /\ \A k \in Migrations : k # m => schema'[k] = schema[k]
             /\ hardened' \subseteq Contract
             /\ history = "intact" => schema'[m] = "complete"
  <2>1. s \in Presence /\ schema'[m] = s
    BY <1>2, <1>5 DEF Results, Presence
  <2>2. m \in Exact => s = "complete"
    BY <1>5 DEF Applies, Results, DeploymentAssumption
  <2>3. history = "intact" => s = "complete"
    BY <1>2, <1>5 DEF SchemaSound, Results
  <2>4. s \in {"similar", "complete"}
    BY <1>5 DEF Results
  <2>5. There(m)'
    BY <1>1, <2>1, <2>2, <2>3, <2>4 DEF There
  <2>6. QED
    BY <1>2, <1>5, <2>1, <2>3, <2>5
<1>6. CASE /\ Applies(m) /\ \E s \in Results(m) : schema' = [schema EXCEPT ![m] = s]
           /\ hardened' = IF m \in Loosening THEN hardened \ {"ownership"} ELSE hardened
           /\ MarkApplied(m)
           /\ process' = [process EXCEPT ![p].at = "migrate", ![p].next = m + 1]
  <2>1. PICK s \in Results(m) : schema' = [schema EXCEPT ![m] = s]
    BY <1>6
  <2>2. There(m)' /\ hardened' \subseteq Contract
    BY <1>5, <1>6, <2>1
  <2>3. QED
    BY <1>1, <1>3, <1>6, <2>1, <2>2, MarkKeeps
<1>7. CASE /\ Applies(m) /\ \E s \in Results(m) : schema' = [schema EXCEPT ![m] = s]
           /\ hardened' = IF m \in Loosening THEN hardened \ {"ownership"} ELSE hardened
           /\ Move(p, "mark") /\ UNCHANGED tracked
  <2>1. /\ There(m)' /\ schema' \in [Migrations -> Presence]
        /\ \A k \in Migrations : k # m => schema'[k] = schema[k]
        /\ hardened' \subseteq Contract
        /\ history = "intact" => schema'[m] = "complete"
    BY <1>5, <1>7
  <2>2. PICK x \in Process :
           /\ process' = [process EXCEPT ![p] = x]
           /\ x.at = "mark" /\ x.job = process[p].job /\ x.release = process[p].release
           /\ x.next = process[p].next /\ x.row = process[p].row
           /\ x.identity = process[p].identity
    BY <1>7, Moves DEF DeploymentInv
  <2>3. process'[p] = x
    BY <2>2, ProcessMoves DEF DeploymentInv
  <2>4. SchemaSound'
    <3>1. \A k \in Migrations : k < m => k \in tracked
      BY <1>1, <1>2, <1>3 DEF MigratorSound
    <3>2. RecordedIsThere'
      <4>1. \A k \in tracked' \ {0} : k \in Migrations /\ k # m /\ There(k)
        BY <1>2, <1>3, <1>7 DEF SchemaSound, RecordedIsThere
      <4>2. QED
        BY <1>1, <2>1, <4>1 DEF RecordedIsThere, There
    <3>3. QED
      BY <1>1, <1>2, <1>7, <2>1, <3>1, <3>2 DEF SchemaSound
  <2>5. MigratorSound(p)'
    BY <1>1, <1>2, <1>3, <1>7, <2>1, <2>2, <2>3 DEF MigratorSound, Sectioned, There
  <2>6. Placed(p)' /\ StagesSound(p)' /\ WriterSound(p)'
    BY <1>2, <2>2, <2>3 DEF Placed, StagesSound, WriterSound, Sectioned
  <2>7. ProcessSound(p)' /\ x.at \in Sectioned /\ tracked' \subseteq Migrations \cup {0}
        /\ tracked \subseteq tracked' /\ x.identity = Nobody
    BY <1>2, <1>7, <2>2, <2>5, <2>6 DEF ProcessSound, Sectioned
  <2>8. QED
    BY <1>1, <2>1, <2>2, <2>4, <2>7, TablesKeep
<1>8. QED
  BY <1>3, <1>4, <1>6, <1>7 DEF ApplyMigration

\* What committed itself is recorded.
LEMMA RecordMigrationKeeps ==
    ASSUME DeploymentAssumption, DeploymentInv, NEW p \in Processes, RecordMigration(p)
    PROVE  DeploymentInv'
<1>1. /\ process[p].at = "mark" /\ process[p].at \in Sectioned
      /\ UNCHANGED <<history, schema, migrationRole, hardened, admins, dismissed, login, used, seeded>>
  BY DEF RecordMigration, Sectioned, adminTables
<1>2. /\ process[p].next \in 1 .. Newest + 1 /\ MigratorSound(p)
      /\ process[p].release \in {Oldest, Newest}
  BY <1>1, Migrating
<1>3. PICK m \in Migrations : m = process[p].next /\ m <= process[p].release
  BY <1>1, <1>2 DEF MigratorSound, Migrations, DeploymentAssumption
<1>4. There(m)' /\ "complete" \in Results(m)
  BY <1>1, <1>2, <1>3 DEF MigratorSound, There, Results
<1>5. MarkApplied(m) /\ process' = [process EXCEPT ![p].at = "migrate", ![p].next = m + 1]
  BY <1>3 DEF RecordMigration
<1>6. QED
  BY <1>1, <1>3, <1>4, <1>5, MarkKeeps

------------------------------------------------------------------------------
(* The security bootstrap and the administrators. *)

\* The script holds altogether or changes nothing.
LEMMA BootstrapSecurityKeeps ==
    ASSUME DeploymentAssumption, DeploymentInv, NEW p \in Processes, BootstrapSecurity(p)
    PROVE  DeploymentInv'
<1>1. /\ process[p].at = "security" /\ process[p] \in Process /\ ProcessSound(p)
      /\ UNCHANGED <<history, tracked, schema, migrationRole, admins, dismissed, login, used, seeded>>
      /\ migrationRole' \in BOOLEAN
  BY DEF BootstrapSecurity, migrationTables, adminTables, DeploymentInv, DeploymentTypeOK
<1>2. CASE UNCHANGED hardened /\ Fail(p)
  BY <1>1, <1>2, FailKeeps
<1>3. CASE \E ok \in Serves : /\ VerifyPlatformSecurity(ScriptEstablishes(ok))
                             /\ hardened' = ScriptEstablishes(ok) /\ Finish(p, "security")
  <2>1. hardened' = Contract
    BY <1>3 DEF VerifyPlatformSecurity, RolesHardened, FunctionsOwned, GrantsRevoked, NothingOwned,
                RowSecurityForced, ScriptEstablishes, Contract
  <2>2. PICK x \in Process :
           /\ process' = [process EXCEPT ![p] = x]
           /\ x.at = IF process[p].job = "provision" THEN After("security") ELSE "done"
           /\ x.job = process[p].job /\ x.release = process[p].release
           /\ x.next = 1 /\ x.row = 1 /\ x.identity = Nobody
    BY <1>3, Finishes DEF DeploymentInv
  <2>3. /\ process' \in [Processes -> Process] /\ process'[p] = x
        /\ \A q \in Processes : q # p => process'[q] = process[q]
    BY <2>2, ProcessMoves DEF DeploymentInv
  <2>4. x.at = IF process[p].job = "provision" THEN "seed" ELSE "done"
    BY <2>2 DEF After
  <2>5. process[p].job \in {"provision", "secure"}
    BY <1>1 DEF ProcessSound, Placed
  <2>6. DeploymentTypeOK'
    BY <1>1, <2>1, <2>2, <2>3 DEF DeploymentInv, DeploymentTypeOK
  <2>7. SchemaSound'
    BY <1>1 DEF DeploymentInv, SchemaSound, RecordedIsThere, There
  <2>8. SeedAdmins' = SeedAdmins /\ Known' = Known
    BY <1>1, <2>2, <2>3 DEF SeedAdmins, Known, DeploymentInv, DeploymentTypeOK
  <2>9. AdminsSound'
    <3> HIDE DEF SeedAdmins, Known
    <3>1. QED
      BY <1>1, <2>8 DEF DeploymentInv, AdminsSound
  <2>10. Placed(p)' /\ WriterSound(p)'
    BY <2>2, <2>3, <2>4, <2>5 DEF Placed, WriterSound, Sectioned
  <2>11. MigratorSound(p)'
    BY <1>1, <2>2, <2>3, <2>4, <2>5 DEF ProcessSound, MigratorSound, Sectioned
  <2>12. StagesSound(p)'
    BY <2>1, <2>2, <2>3, <2>4, <2>5 DEF StagesSound
  <2>13. Grows(p)
    BY <1>1, <2>1, <2>8 DEF Grows, DeploymentInv, DeploymentTypeOK
  <2>14. LockedBy(p, x.at)
    BY <2>4 DEF LockedBy, Sectioned, Seeding, Operating
  <2>15. ProcessSound(p)'
    BY <2>10, <2>11, <2>12 DEF ProcessSound
  <2>16. QED
    BY <2>2, <2>6, <2>7, <2>9, <2>13, <2>14, <2>15, ProcessStepKeeps
<1>4. QED
  BY <1>2, <1>3 DEF BootstrapSecurity

\* Where nothing is migrated and no row is counted.
LEMMA Standing ==
    ASSUME DeploymentAssumption, DeploymentInv, NEW p \in Processes,
           process[p].at \in {"seed", "seedWrite", "operate", "operateWrite", "verify"}
    PROVE  /\ process[p] \in Process /\ ProcessSound(p)
           /\ process[p].next = 1 /\ process[p].row = 1
<1>1. /\ process[p] \in Process /\ ProcessSound(p)
      /\ process[p].next > 1 => process[p].at \in Sectioned
  BY DEF DeploymentInv, DeploymentTypeOK
<1>2. process[p].next = 1
  BY <1>1 DEF Sectioned, Process, DeploymentAssumption
<1>3. process[p].row = 1
  BY <1>1 DEF ProcessSound, Placed
<1>4. QED
  BY <1>1, <1>2, <1>3

\* The seed looks, under its lock.
LEMMA SeedFindsKeeps ==
    ASSUME DeploymentAssumption, DeploymentInv, NEW p \in Processes, SeedFinds(p)
    PROVE  DeploymentInv'
<1>1. /\ process[p].at = "seed"
      /\ UNCHANGED <<history, tracked, schema, hardened, admins, dismissed, login, used, seeded>>
      /\ migrationRole' \in BOOLEAN
  BY DEF SeedFinds, migrationTables, adminTables, DeploymentInv, DeploymentTypeOK
<1>2. CASE Fail(p)
  BY <1>1, <1>2, FailKeeps
<1>3. CASE \E i \in AllIdentities :
              /\ i \in Known \/ (i = p /\ admins = {})
              /\ process' = [process EXCEPT ![p].at = "seedWrite", ![p].identity = i]
  <2>1. /\ process[p] \in Process /\ ProcessSound(p)
        /\ process[p].next = 1 /\ process[p].row = 1
    BY <1>1, Standing
  <2>0. PICK i \in AllIdentities :
        /\ i \in Known \/ (i = p /\ admins = {})
        /\ process' = [process EXCEPT ![p].at = "seedWrite", ![p].identity = i]
    BY <1>3
  <2>2. PICK x \in Process :
           /\ process' = [process EXCEPT ![p] = x]
           /\ x.at = "seedWrite" /\ x.job = process[p].job /\ x.release = process[p].release
           /\ x.next = 1 /\ x.row = 1 /\ x.identity = i
    <3> DEFINE x == [process[p] EXCEPT !.at = "seedWrite", !.identity = i]
    <3>1. process \in [Processes -> Process]
      BY DEF DeploymentInv, DeploymentTypeOK
    <3>2. process' = [process EXCEPT ![p] = x]
      BY <2>0, <3>1
    <3>3. /\ x \in Process /\ x.at = "seedWrite" /\ x.job = process[p].job
          /\ x.release = process[p].release
          /\ x.next = 1 /\ x.row = 1 /\ x.identity = i
      BY <2>1 DEF Process
    <3> HIDE DEF x
    <3>4. QED
      BY <3>2, <3>3
  <2>3. /\ process'[p] = x /\ \A q \in Processes : q # p => process'[q] = process[q]
    <3>1. DeploymentTypeOK
      BY DEF DeploymentInv
    <3>2. QED
      BY <2>2, <3>1, ProcessMoves
  <2>4. process[p].job \in {"provision", "seed"}
    BY <1>1, <2>1 DEF ProcessSound, Placed
  <2>5. SeedAdmins' = SeedAdmins /\ Known' = Known
    <3>1. \A q \in Processes : process'[q].job = process[q].job
      BY <2>2, <2>3
    <3>2. QED
      BY <1>1, <3>1 DEF SeedAdmins, Known
  <2>6. admins = {} => SeedAdmins = {}
    BY DEF SeedAdmins
  <2>7. WriterSound(p)'
    <3> HIDE DEF SeedAdmins, Known
    <3>1. QED
      BY <2>0, <2>2, <2>3, <2>5, <2>6 DEF WriterSound
  <2>8. Placed(p)'
    BY <2>2, <2>3, <2>4 DEF Placed, Sectioned
  <2>9. MigratorSound(p)'
    BY <1>1, <2>1, <2>2, <2>3 DEF ProcessSound, MigratorSound, Sectioned
  <2>10. StagesSound(p)'
    BY <1>1, <2>1, <2>2, <2>3 DEF ProcessSound, StagesSound
  <2>11. LockedBy(p, x.at)
    BY <2>2 DEF LockedBy, Sectioned, Seeding, Operating, SeedFinds, SeedLockFree
  <2>12. ProcessSound(p)' /\ x.at \in Seeding
    BY <2>2, <2>7, <2>8, <2>9, <2>10 DEF ProcessSound, Seeding
  <2>13. x.identity # Nobody => x.at \in Seeding \cup Operating
    BY <2>12
  <2>14. x.next > 1 => x.at \in Sectioned
    BY <2>2
  <2>15. Quiet(p, x)
    BY <1>1, <2>2, <2>11, <2>12, <2>13, <2>14 DEF Quiet
  <2>16. QED
    BY <2>15, QuietKeeps
<1>4. PICK n \in Usernames : n = process[p].username
  BY DEF DeploymentInv, DeploymentTypeOK, Process
<1>5. login[n].active => login[n].owner \in Known
  BY DEF DeploymentInv, AdminsSound
<1>6. p \in AllIdentities /\ Known \subseteq AllIdentities
  BY DEF Known, AllIdentities, DeploymentInv, DeploymentTypeOK
<1>7. QED
  <2>1. CASE login[n].active
    BY <1>2, <1>3, <1>4, <1>5, <1>6, <2>1 DEF SeedFinds
  <2>2. CASE ~login[n].active
    BY <1>2, <1>3, <1>4, <1>6, <2>2 DEF SeedFinds
  <2>3. QED
    BY <2>1, <2>2

\* One of the operator's commands looks, under its lock.
LEMMA OperatorFindsKeeps ==
    ASSUME DeploymentAssumption, DeploymentInv, NEW p \in Processes, OperatorFinds(p)
    PROVE  DeploymentInv'
<1>1. /\ process[p].at = "operate"
      /\ UNCHANGED <<history, tracked, schema, hardened, admins, dismissed, login, used, seeded>>
      /\ migrationRole' \in BOOLEAN
  BY DEF OperatorFinds, migrationTables, adminTables, DeploymentInv, DeploymentTypeOK
<1>2. /\ process[p] \in Process /\ ProcessSound(p)
      /\ process[p].next = 1 /\ process[p].row = 1
  BY <1>1, Standing
<1>3. CASE Fail(p)
  BY <1>1, <1>3, FailKeeps
<1>4. CASE \E i \in AllIdentities :
              /\ used[process[p].job] = 0
              /\ i \in Known \/ (process[p].job = "bootstrap" /\ i = p)
              /\ process' = [process EXCEPT ![p].at = "operateWrite", ![p].identity = i]
  <2>2. PICK i \in AllIdentities :
           /\ used[process[p].job] = 0
           /\ i \in Known \/ (process[p].job = "bootstrap" /\ i = p)
           /\ process' = [process EXCEPT ![p].at = "operateWrite", ![p].identity = i]
    BY <1>4
  <2>3. PICK x \in Process :
           /\ process' = [process EXCEPT ![p] = x]
           /\ x.at = "operateWrite" /\ x.job = process[p].job /\ x.release = process[p].release
           /\ x.next = 1 /\ x.row = 1 /\ x.identity = i
    <3> DEFINE x == [process[p] EXCEPT !.at = "operateWrite", !.identity = i]
    <3>1. process \in [Processes -> Process]
      BY DEF DeploymentInv, DeploymentTypeOK
    <3>2. process' = [process EXCEPT ![p] = x]
      BY <2>2, <3>1
    <3>3. /\ x \in Process /\ x.at = "operateWrite" /\ x.job = process[p].job
          /\ x.release = process[p].release
          /\ x.next = 1 /\ x.row = 1 /\ x.identity = i
      BY <1>2 DEF Process
    <3> HIDE DEF x
    <3>4. QED
      BY <3>2, <3>3
  <2>4. process'[p] = x
    BY <2>3, ProcessMoves DEF DeploymentInv
  <2>5. process[p].job \in {"bootstrap", "recover"}
    BY <1>1, <1>2 DEF ProcessSound, Placed, OperatorCommands
  <2>6. WriterSound(p)'
    <3>1. Known' = Known
      BY <1>1 DEF Known, OperatorFinds, adminTables
    <3> HIDE DEF Known
    <3>2. QED
      BY <1>1, <2>2, <2>3, <2>4, <3>1 DEF WriterSound
  <2>7. Placed(p)' /\ MigratorSound(p)' /\ StagesSound(p)'
    BY <2>3, <2>4, <2>5 DEF Placed, MigratorSound, StagesSound, Sectioned, OperatorCommands
  <2>8. LockedBy(p, x.at)
    BY <2>3 DEF LockedBy, Sectioned, Seeding, Operating, OperatorFinds, OperatorLockFree
  <2>9. ProcessSound(p)' /\ x.at \in Operating
    BY <2>3, <2>6, <2>7 DEF ProcessSound, Operating
  <2>10. Quiet(p, x)
    BY <1>1, <2>3, <2>8, <2>9 DEF Quiet
  <2>11. QED
    BY <2>10, QuietKeeps
<1>5. PICK e \in Emails : e = process[p].email
  BY <1>2 DEF Process
<1>6. login[e].active => login[e].owner \in Known
  BY DEF DeploymentInv, AdminsSound
<1>7. p \in AllIdentities /\ Known \subseteq AllIdentities
  BY DEF Known, AllIdentities, DeploymentInv, DeploymentTypeOK
<1>8. QED
  <2>1. CASE process[p].job = "bootstrap"
    BY <1>3, <1>4, <1>7, <2>1 DEF OperatorFinds
  <2>2. CASE process[p].job # "bootstrap"
    BY <1>3, <1>4, <1>5, <1>6, <1>7, <2>2 DEF OperatorFinds
  <2>3. QED
    BY <2>1, <2>2

\* What a step has to show that makes i an administrator who may sign in.
LEMMA WritesKeep ==
    ASSUME DeploymentAssumption, DeploymentInv, NEW p \in Processes, NEW i \in AllIdentities,
           NEW at \in {"seed", "operate"}, Finish(p, at),
           process[p].at = IF at = "seed" THEN "seedWrite" ELSE "operateWrite",
           login' \in [Usernames \cup Emails -> Login],
           \A l \in Usernames \cup Emails : login'[l] = login[l] \/ login'[l].owner = i,
           admins' = admins \cup {i}, dismissed' = dismissed,
           i \in Known \/ (at = "operate" /\ process[p].job = "bootstrap" /\ i = p)
                      \/ (at = "seed" /\ i = p /\ SeedAdmins \subseteq {p}),
           IF at = "seed" THEN UNCHANGED used ELSE used' = [used EXCEPT ![process[p].job] = @ + 1],
           seeded \subseteq seeded', seeded' \subseteq AllRows,
           UNCHANGED <<history, tracked, schema, migrationRole, hardened>>
    PROVE  DeploymentInv'
<1>1. /\ process[p] \in Process /\ ProcessSound(p) /\ DeploymentTypeOK /\ SchemaSound /\ AdminsSound
      /\ process[p].at \in {"seedWrite", "operateWrite"}
  BY Standing DEF DeploymentInv
<1>2. PICK x \in Process :
         /\ process' = [process EXCEPT ![p] = x]
         /\ x.at = IF process[p].job = "provision" THEN After(at) ELSE "done"
         /\ x.job = process[p].job /\ x.release = process[p].release
         /\ x.next = 1 /\ x.row = 1 /\ x.identity = Nobody
  BY <1>1, Finishes
<1>3. /\ process' \in [Processes -> Process] /\ process'[p] = x
      /\ \A q \in Processes : q # p => process'[q] = process[q]
  BY <1>1, <1>2, ProcessMoves
<1>4. IF at = "seed" THEN process[p].job \in {"provision", "seed"}
                     ELSE process[p].job \in {"bootstrap", "recover"}
  BY <1>1 DEF ProcessSound, Placed, OperatorCommands
<1>5. x.at = IF process[p].job = "provision" THEN "verify" ELSE "done"
  BY <1>2, <1>4 DEF After
<1>6. /\ used' \in [OperatorCommands -> Nat] /\ \A o \in OperatorCommands : used'[o] \in {0, 1}
      /\ used' = used \/ process[p].at = "operateWrite"
  <2>1. CASE at = "seed"
    BY <1>1, <2>1 DEF DeploymentTypeOK, AdminsSound
  <2>2. CASE at = "operate"
    <3>1. PICK o \in OperatorCommands : o = process[p].job
      BY <1>4, <2>2 DEF OperatorCommands
    <3>2. used[o] = 0 /\ used \in [OperatorCommands -> Nat]
      BY <1>1, <2>2, <3>1 DEF ProcessSound, WriterSound, DeploymentTypeOK
    <3>3. used' = [used EXCEPT ![o] = 1]
      BY <2>2, <3>1, <3>2
    <3>4. QED
      BY <1>1, <2>2, <3>2, <3>3 DEF AdminsSound
  <2>3. QED
    BY <2>1, <2>2
<1>7. \/ SeedAdmins' \subseteq SeedAdmins
      \/ at = "seed" /\ SeedAdmins' \subseteq {p}
  <2>1. \A q \in Processes : process'[q].job = process[q].job
    BY <1>2, <1>3
  <2>2. SeedAdmins' \subseteq SeedAdmins \cup {i}
    BY <2>1 DEF SeedAdmins
  <2>3. CASE i \in Known
    BY <2>1, <2>3 DEF SeedAdmins, Known, DeploymentAssumption
  <2>4. CASE at = "operate" /\ process[p].job = "bootstrap" /\ i = p
    BY <2>1, <2>4 DEF SeedAdmins
  <2>5. CASE at = "seed" /\ i = p /\ SeedAdmins \subseteq {p}
    <3> HIDE DEF SeedAdmins
    <3>1. QED
      BY <2>2, <2>5
  <2>6. QED
    BY <2>3, <2>4, <2>5
<1>8. DeploymentTypeOK'
  BY <1>1, <1>2, <1>3, <1>6 DEF DeploymentTypeOK
<1>9. SchemaSound'
  BY <1>1 DEF SchemaSound, RecordedIsThere, There
<1>10. AdminsSound'
  <2>1. \A a, b \in SeedAdmins' : a = b
    <3> HIDE DEF SeedAdmins
    <3>1. QED
      BY <1>1, <1>7 DEF AdminsSound
  <2>2. \A l \in Usernames \cup Emails : login'[l].active => login'[l].owner \in Known'
    <3>1. Known \cup {i} = Known'
      BY DEF Known
    <3> HIDE DEF Known
    <3>2. QED
      BY <1>1, <3>1 DEF AdminsSound
  <2> HIDE DEF SeedAdmins, Known
  <2>3. QED
    BY <1>6, <2>1, <2>2 DEF AdminsSound
<1>11. Grows(p)
  <2>1. SeedAdmins' \subseteq SeedAdmins \/ process[p].at = "seedWrite"
    <3> HIDE DEF SeedAdmins
    <3>1. QED
      BY <1>7
  <2>2. Known \subseteq Known'
    BY DEF Known
  <2> HIDE DEF SeedAdmins, Known
  <2>3. QED
    BY <1>6, <2>1, <2>2 DEF Grows
<1>12. Placed(p)' /\ WriterSound(p)'
  BY <1>2, <1>3, <1>4, <1>5 DEF Placed, WriterSound, Sectioned, OperatorCommands
<1>13. MigratorSound(p)'
  BY <1>1, <1>2, <1>3, <1>4, <1>5 DEF ProcessSound, MigratorSound, Sectioned
<1>14. StagesSound(p)'
  BY <1>1, <1>2, <1>3, <1>4, <1>5 DEF ProcessSound, StagesSound
<1>15. LockedBy(p, x.at)
  BY <1>5 DEF LockedBy, Sectioned, Seeding, Operating
<1>16. ProcessSound(p)'
  BY <1>12, <1>13, <1>14 DEF ProcessSound
<1>17. QED
  BY <1>2, <1>8, <1>9, <1>10, <1>11, <1>15, <1>16, ProcessStepKeeps

\* The seed writes.
LEMMA SeedWritesKeeps ==
    ASSUME DeploymentAssumption, DeploymentInv, NEW p \in Processes, SeedWrites(p)
    PROVE  DeploymentInv'
<1>1. PICK n \in Usernames, e \in Emails : n = process[p].username /\ e = process[p].email
  BY DEF DeploymentInv, DeploymentTypeOK, Process
<1>2. PICK i : i = process[p].identity
  OBVIOUS
<1>3. /\ process[p].at = "seedWrite" /\ Finish(p, "seed")
      /\ login' = [login EXCEPT ![n] = IF @.owner = Nobody THEN Own(i) ELSE @, ![e] = Own(i)]
      /\ admins' = admins \cup {i} /\ dismissed' = dismissed
      /\ seeded' = seeded \cup {"platformRole"} /\ used' = used
      /\ UNCHANGED <<history, tracked, schema, migrationRole, hardened>>
  BY <1>1, <1>2 DEF SeedWrites, migrationTables
<1>4. /\ i \in Known \/ (i = p /\ SeedAdmins \subseteq {p})
      /\ seeded \subseteq AllRows /\ login \in [Usernames \cup Emails -> Login]
  <2> HIDE DEF SeedAdmins, Known
  <2>1. QED
    BY <1>2, <1>3, Standing DEF ProcessSound, WriterSound, DeploymentInv, DeploymentTypeOK
<1>5. i \in AllIdentities
  BY <1>4 DEF Known, AllIdentities, DeploymentInv, DeploymentTypeOK
<1>6. Own(i) \in Login /\ Own(i).owner = i
  BY <1>5 DEF Own, Login
<1>7. /\ login' \in [Usernames \cup Emails -> Login]
      /\ \A l \in Usernames \cup Emails : login'[l] = login[l] \/ login'[l].owner = i
  BY <1>3, <1>4, <1>6
<1>8. seeded' \subseteq AllRows
  BY <1>3, <1>4, RowNumbers DEF AllRows
<1> HIDE DEF SeedAdmins, Known
<1>9. QED
  BY <1>3, <1>4, <1>5, <1>7, <1>8, WritesKeep

\* An operator's command writes.
LEMMA OperatorWritesKeeps ==
    ASSUME DeploymentAssumption, DeploymentInv, NEW p \in Processes, OperatorWrites(p)
    PROVE  DeploymentInv'
<1>1. /\ process[p].at = "operateWrite"
      /\ UNCHANGED <<history, tracked, schema, migrationRole, hardened, seeded>>
      /\ migrationRole' \in BOOLEAN
  BY DEF OperatorWrites, migrationTables, DeploymentInv, DeploymentTypeOK
<1>2. CASE Fail(p) /\ UNCHANGED adminTables
  BY <1>1, <1>2, FailKeeps DEF adminTables
<1>3. PICK e \in Emails : e = process[p].email
  BY DEF DeploymentInv, DeploymentTypeOK, Process
<1>4. PICK i : i = process[p].identity
  OBVIOUS
<1>5. /\ i \in Known \/ (process[p].job = "bootstrap" /\ i = p)
      /\ seeded \subseteq AllRows /\ login \in [Usernames \cup Emails -> Login]
  <2> HIDE DEF Known
  <2>1. QED
    BY <1>1, <1>4, Standing DEF ProcessSound, WriterSound, DeploymentInv, DeploymentTypeOK
<1>6. i \in AllIdentities
  BY <1>5 DEF Known, AllIdentities, DeploymentInv, DeploymentTypeOK
<1>7. CASE /\ login' = IF process[p].job = "bootstrap"
                      THEN [login EXCEPT ![e].owner = i, ![e].active = TRUE] ELSE login
           /\ admins' = admins \cup {i} /\ dismissed' = dismissed
           /\ used' = [used EXCEPT ![process[p].job] = @ + 1]
           /\ Finish(p, "operate")
  <2>1. /\ login' \in [Usernames \cup Emails -> Login]
        /\ \A l \in Usernames \cup Emails : login'[l] = login[l] \/ login'[l].owner = i
    <3> DEFINE mine == [login[e] EXCEPT !.owner = i, !.active = TRUE]
    <3>1. mine \in Login /\ mine.owner = i
      BY <1>5, <1>6 DEF Login
    <3>2. login' = login \/ login' = [login EXCEPT ![e] = mine]
      BY <1>5, <1>7
    <3> HIDE DEF mine
    <3>3. QED
      BY <1>5, <3>1, <3>2
  <2> HIDE DEF Known
  <2>2. QED
    BY <1>1, <1>5, <1>6, <1>7, <2>1, WritesKeep
<1>8. QED
  BY <1>2, <1>3, <1>4, <1>7 DEF OperatorWrites

------------------------------------------------------------------------------
(* Tenant users and administrators. *)

\* What a step has to show that no command takes.
LEMMA EnvironmentKeeps ==
    ASSUME DeploymentAssumption, DeploymentInv,
           UNCHANGED <<history, tracked, schema, migrationRole, hardened, used, seeded, process>>,
           admins' \subseteq AllIdentities, dismissed' \subseteq AllIdentities,
           login' \in [Usernames \cup Emails -> Login],
           Known \subseteq Known', admins \cup dismissed \subseteq admins' \cup dismissed',
           SeedAdmins' \subseteq SeedAdmins,
           \A l \in Usernames \cup Emails : login'[l].active => login'[l].owner \in Known'
    PROVE  DeploymentInv'
<1>1. DeploymentTypeOK' /\ SchemaSound' /\ CommandLocksApart'
  BY DEF DeploymentInv, DeploymentTypeOK, SchemaSound, RecordedIsThere, There, CommandLocksApart
<1>2. AdminsSound'
  <2> HIDE DEF SeedAdmins, Known
  <2>1. QED
    BY DEF DeploymentInv, AdminsSound
<1>3. ASSUME NEW p \in Processes PROVE ProcessSound(p)'
  <2>1. ProcessSound(p)
    BY DEF DeploymentInv
  <2>2. Placed(p)' /\ MigratorSound(p)' /\ StagesSound(p)'
    BY <2>1 DEF ProcessSound, Placed, MigratorSound, StagesSound, There
  <2>3. WriterSound(p)'
    <3> HIDE DEF SeedAdmins, Known
    <3>1. QED
      BY <2>1 DEF ProcessSound, WriterSound
  <2>4. QED
    BY <2>2, <2>3 DEF ProcessSound
<1>4. QED
  BY <1>1, <1>2, <1>3 DEF DeploymentInv

\* A tenant user is saved or retired.
LEMMA UsersKeep ==
    ASSUME DeploymentAssumption, DeploymentInv, NEW u \in Users,
           (\E l \in Usernames \cup Emails : SaveUser(u, l)) \/ RetireUser(u)
    PROVE  DeploymentInv'
<1>1. /\ UNCHANGED <<history, tracked, schema, migrationRole, hardened, used, seeded, process>>
      /\ admins' = admins /\ dismissed' = dismissed
  BY DEF SaveUser, RetireUser, migrationTables
<1>2. /\ admins \subseteq AllIdentities /\ dismissed \subseteq AllIdentities /\ u \in AllIdentities
      /\ login \in [Usernames \cup Emails -> Login]
      /\ \A l \in Usernames \cup Emails : login[l].active => login[l].owner \in Known
  BY DEF AllIdentities, DeploymentInv, DeploymentTypeOK, AdminsSound
<1>3. Known' = Known /\ SeedAdmins' = SeedAdmins /\ u \in Known
  BY <1>1 DEF Known, SeedAdmins
<1>4. /\ login' \in [Usernames \cup Emails -> Login]
      /\ \A l \in Usernames \cup Emails : login'[l].active => login'[l].owner \in Known
  <2>1. CASE \E l \in Usernames \cup Emails : SaveUser(u, l)
    <3> DEFINE mine == [owner |-> u, user |-> u, active |-> TRUE]
    <3>1. mine \in Login /\ mine.owner = u
      BY <1>2 DEF Login
    <3>2. PICK l \in Usernames \cup Emails : login' = [login EXCEPT ![l] = mine]
      BY <2>1 DEF SaveUser
    <3> HIDE DEF mine, Known
    <3>3. QED
      BY <1>2, <1>3, <3>1, <3>2
  <2>2. CASE RetireUser(u)
    <3>1. ASSUME NEW l \in Usernames \cup Emails
          PROVE  /\ login'[l] \in Login /\ login'[l].owner = login[l].owner
                 /\ login'[l].active => login[l].active
      <4>1. login'[l] = [login[l] EXCEPT !.active = @ /\ login[l].user # u]
        BY <2>2 DEF RetireUser
      <4>2. login[l] \in Login
        BY <1>2
      <4>3. QED
        BY <4>1, <4>2 DEF Login
    <3> HIDE DEF Known
    <3>2. QED
      BY <1>2, <2>2, <3>1 DEF RetireUser
  <2>3. QED
    BY <2>1, <2>2
<1> HIDE DEF Known, SeedAdmins
<1>5. QED
  BY <1>1, <1>2, <1>3, <1>4, EnvironmentKeeps

\* An administrator is appointed or dismissed.
LEMMA AppointmentsKeep ==
    ASSUME DeploymentAssumption, DeploymentInv, NEW i \in AllIdentities, Appoint(i) \/ Dismiss(i)
    PROVE  DeploymentInv'
<1>1. /\ UNCHANGED <<history, tracked, schema, migrationRole, hardened, used, seeded, process>>
      /\ login' = login
  BY DEF Appoint, Dismiss, migrationTables
<1>2. /\ admins \subseteq AllIdentities /\ dismissed \subseteq AllIdentities
      /\ login \in [Usernames \cup Emails -> Login]
      /\ \A l \in Usernames \cup Emails : login[l].active => login[l].owner \in Known
  BY DEF DeploymentInv, DeploymentTypeOK, AdminsSound
<1>3. /\ admins' \subseteq AllIdentities /\ dismissed' \subseteq AllIdentities
      /\ admins \cup dismissed \subseteq admins' \cup dismissed' /\ Known \subseteq Known'
  BY <1>2 DEF Appoint, Dismiss, Known
<1>4. SeedAdmins' \subseteq SeedAdmins
  BY <1>1 DEF SeedAdmins, Appoint, Dismiss, DeploymentAssumption
<1> HIDE DEF Known, SeedAdmins
<1>5. QED
  BY <1>1, <1>2, <1>3, <1>4, EnvironmentKeeps

\* The verification.
LEMMA VerifyKeeps ==
    ASSUME DeploymentAssumption, DeploymentInv, NEW p \in Processes, Verify(p)
    PROVE  DeploymentInv'
<1>1. /\ process[p].at = "verify"
      /\ UNCHANGED <<history, tracked, schema, hardened, admins, dismissed, login, used, seeded>>
      /\ migrationRole' \in BOOLEAN
  BY DEF Verify, migrationTables, adminTables, DeploymentInv, DeploymentTypeOK
<1>2. process[p].job = "provision"
  BY <1>1, Standing DEF ProcessSound, Placed
<1>3. QED
  BY <1>1, <1>2, FailKeeps, FinishKeeps DEF Verify, Provisioned

------------------------------------------------------------------------------
(* The reference data. *)

\* A row is written; the owner's permissions come when what they refer to is
\* there.
LEMMA SeedRowKeeps ==
    ASSUME DeploymentAssumption, DeploymentInv, NEW p \in Processes, SeedRow(p)
    PROVE  DeploymentInv'
<1>1. /\ process[p].at = "rows" /\ process[p].row <= Len(ReferenceRows)
      /\ process[p] \in Process /\ process \in [Processes -> Process] /\ ProcessSound(p)
      /\ UNCHANGED <<history, tracked, schema, migrationRole, hardened, admins, dismissed, login, used>>
      /\ migrationRole' \in BOOLEAN
  BY DEF SeedRow, migrationTables, adminTables, DeploymentInv, DeploymentTypeOK
<1>2. CASE Fail(p) /\ UNCHANGED seeded
  BY <1>1, <1>2, FailKeeps
<1>3. PICK i \in 1 .. 9 : i = process[p].row
  BY <1>1, RowNumbers DEF Process
<1>4. CASE /\ seeded' = seeded \cup IF Joins(ReferenceRows[i]) THEN {ReferenceRows[i]} ELSE {}
           /\ process' = [process EXCEPT ![p].row = @ + 1]
  <2> DEFINE n == i + 1
             x == [process[p] EXCEPT !.row = n]
  <2>1. process' = [process EXCEPT ![p].row = n]
    BY <1>3, <1>4
  <2>2. process' = [process EXCEPT ![p] = x]
    BY <1>1, <2>1
  <2>3. n \in 1 .. Len(ReferenceRows) + 1
    BY RowNumbers
  <2>4. /\ process[p].job = "reference" /\ process[p].identity = Nobody /\ process[p].next = 1
        /\ \A k \in 1 .. 9 : k < i => ReferenceRows[k] \in seeded
    <3>1. /\ process[p].identity # Nobody => process[p].at \in Seeding \cup Operating
          /\ process[p].next > 1 => process[p].at \in Sectioned
      BY DEF DeploymentInv, DeploymentTypeOK
    <3>2. process[p].identity = Nobody
      BY <1>1, <3>1 DEF Seeding, Operating
    <3>3. process[p].next = 1
      BY <1>1, <3>1 DEF Sectioned, Process, DeploymentAssumption
    <3>4. process[p].job = "reference" /\ \A k \in 1 .. 9 : k < i => ReferenceRows[k] \in seeded
      BY <1>1, <1>3, RowNumbers DEF ProcessSound, Placed, StagesSound
    <3>5. QED
      BY <3>2, <3>3, <3>4
  <2>5. /\ x \in Process /\ x.at = "rows" /\ x.job = "reference" /\ x.release = process[p].release
        /\ x.next = 1 /\ x.row = n /\ x.identity = Nobody
    <3> HIDE DEF n
    <3>1. QED
      BY <1>1, <2>3, <2>4 DEF Process
  <2> HIDE DEF x, n
  <2>6. /\ process' \in [Processes -> Process] /\ process'[p] = x
        /\ \A q \in Processes : q # p => process'[q] = process[q]
    BY <2>2, <2>5, ProcessMoves DEF DeploymentInv
  <2>7. seeded' = seeded \cup {ReferenceRows[i]}
    <3>1. ReferenceRows[i] = "rolePermission" =>
             {"platformRole", "platformPermission"} \subseteq seeded
      <4>1. i = 9 => ReferenceRows[7] \in seeded /\ ReferenceRows[8] \in seeded
        BY <2>4
      <4>2. QED
        BY <4>1, RowNumbers
    <3>2. Joins(ReferenceRows[i])
      BY <3>1 DEF Joins
    <3>3. QED
      BY <1>4, <3>2
  <2>8. /\ seeded \subseteq seeded' /\ seeded' \subseteq AllRows
        /\ \A k \in 1 .. 9 : k < n => ReferenceRows[k] \in seeded'
    <3>1. seeded \subseteq AllRows /\ ReferenceRows[i] \in AllRows
      BY RowNumbers DEF AllRows, DeploymentInv, DeploymentTypeOK
    <3>2. \A k \in 1 .. 9 : k < n => k < i \/ k = i
      BY DEF n
    <3>3. QED
      BY <2>4, <2>7, <3>1, <3>2
  <2>9. DeploymentTypeOK'
    <3>1. \A q \in Processes :
             process'[q].identity # Nobody => process'[q].at \in Seeding \cup Operating
      BY <2>5, <2>6 DEF DeploymentInv, DeploymentTypeOK
    <3>2. \A q \in Processes : process'[q].next > 1 => process'[q].at \in Sectioned
      BY <2>5, <2>6 DEF DeploymentInv, DeploymentTypeOK
    <3>3. QED
      BY <1>1, <2>6, <2>8, <3>1, <3>2 DEF DeploymentInv, DeploymentTypeOK
  <2>10. SchemaSound'
    BY <1>1 DEF DeploymentInv, SchemaSound, RecordedIsThere, There
  <2>11. SeedAdmins' = SeedAdmins /\ Known' = Known
    BY <1>1, <2>4, <2>5, <2>6 DEF SeedAdmins, Known, DeploymentInv, DeploymentTypeOK
  <2>12. AdminsSound' /\ Grows(p)
    <3> HIDE DEF SeedAdmins, Known
    <3>1. QED
      BY <1>1, <2>8, <2>11 DEF DeploymentInv, AdminsSound, Grows
  <2>13. Placed(p)' /\ MigratorSound(p)' /\ WriterSound(p)'
    BY <2>5, <2>6 DEF Placed, MigratorSound, WriterSound, Sectioned
  <2>14. StagesSound(p)'
    <3>1. \A k \in 1 .. Len(ReferenceRows) : k < n => ReferenceRows[k] \in seeded'
      BY <2>8, RowNumbers
    <3>2. QED
      BY <2>5, <2>6, <3>1 DEF StagesSound
  <2>15. ProcessSound(p)' /\ x.job = process[p].job
    BY <2>4, <2>5, <2>13, <2>14 DEF ProcessSound
  <2>16. LockedBy(p, x.at)
    BY <2>5 DEF LockedBy, Sectioned, Seeding, Operating
  <2>17. QED
    BY <2>2, <2>5, <2>9, <2>10, <2>12, <2>15, <2>16, ProcessStepKeeps
<1>5. QED
  BY <1>2, <1>3, <1>4 DEF SeedRow

\* All rows were written.
LEMMA SeedReferenceDataKeeps ==
    ASSUME DeploymentAssumption, DeploymentInv, NEW p \in Processes, SeedReferenceData(p)
    PROVE  DeploymentInv'
<1>1. /\ process[p].at = "rows" /\ process[p].row > 9 /\ Finish(p, "rows")
      /\ process[p] \in Process /\ ProcessSound(p) /\ seeded \subseteq AllRows
      /\ UNCHANGED <<history, tracked, schema, hardened, admins, dismissed, login, used, seeded>>
      /\ migrationRole' \in BOOLEAN
  BY RowNumbers
     DEF SeedReferenceData, migrationTables, adminTables, DeploymentInv, DeploymentTypeOK
<1>2. process[p].job = "reference" /\ \A k \in 1 .. 9 : ReferenceRows[k] \in seeded
  BY <1>1, RowNumbers DEF ProcessSound, Placed, StagesSound, Process
<1>3. seeded = AllRows
  BY <1>1, <1>2, RowNumbers DEF AllRows
<1>4. QED
  BY <1>1, <1>2, <1>3, FinishKeeps

------------------------------------------------------------------------------
\* What the database is at first.
LEMMA DeploymentInitSound == ASSUME DeploymentAssumption, DeploymentInit PROVE DeploymentInv
<1>1. /\ process \in [Processes -> Process]
      /\ \A p \in Processes : /\ process[p].at = "idle" /\ process[p].next = 1
                              /\ process[p].row = 1 /\ process[p].identity = Nobody
  <2> DEFINE First == {[job |-> j, release |-> r, username |-> n, email |-> a, runs |-> 0,
                        at |-> "idle", next |-> 1, row |-> 1, identity |-> Nobody] :
                          j \in Tasks, r \in {Oldest, Newest}, n \in Usernames, a \in Emails}
  <2>1. process \in [Processes -> First]
    BY DEF DeploymentInit
  <2>2. 0 \in 0 .. MaxRuns /\ 1 \in 1 .. Newest + 1 /\ 1 \in 1 .. Len(ReferenceRows) + 1
    BY RowNumbers DEF DeploymentAssumption
  <2>3. \A x \in First : x \in Process /\ x.at = "idle" /\ x.next = 1 /\ x.row = 1
                         /\ x.identity = Nobody
    BY <2>2 DEF Process, Commands, DeploymentAssumption
  <2> HIDE DEF First
  <2>4. QED
    BY <2>1, <2>3
<1>2. /\ admins \subseteq Users /\ dismissed = {} /\ hardened = {}
      /\ login = [l \in Usernames \cup Emails |-> NoLogin]
      /\ used = [o \in OperatorCommands |-> 0]
      /\ migrationRole = FALSE /\ seeded \in {{}, AllRows}
  BY DEF DeploymentInit
<1>3. /\ history \in {"intact", "edited", "lost", "foreign"} /\ tracked \subseteq Migrations \cup {0}
      /\ schema \in [Migrations -> Presence] /\ SchemaSound
  <2>1. ASSUME NEW k \in 0 .. Oldest, NEW e \in 0 .. Oldest, NEW s \in Presence
        PROVE  /\ Schema(k, e, s) \in [Migrations -> Presence]
               /\ \A m \in Migrations : m \in 1 .. k /\ m # e => Schema(k, e, s)[m] = "complete"
               /\ \A m \in Migrations : m > k => Schema(k, e, s)[m] = "absent"
    BY <2>1 DEF Schema, Presence, Migrations, DeploymentAssumption
  <2>2. PICK k \in 0 .. Oldest :
           \/ /\ history = "intact" /\ tracked = 1 .. k
              /\ schema = Schema(k, 0, "complete")
           \/ \E e \in 1 .. k, s \in Presence \ {"absent"} :
                 /\ schema = Schema(k, e, s)
                 /\ \/ history = "edited" /\ tracked = (1 .. k \ {e}) \cup {0}
                    \/ history = "lost" /\ tracked = {}
           \/ /\ history = "foreign" /\ tracked = {0}
              /\ \E s \in Presence : k = 1 /\ schema = Schema(1, 1, s)
    BY DEF DeploymentInit, SchemaInit
  <2>3. k \in Nat /\ k <= Newest /\ 1 .. k \subseteq Migrations
    BY DEF DeploymentAssumption, Migrations
  <2>4. CASE history = "intact" /\ tracked = 1 .. k /\ schema = Schema(k, 0, "complete")
    <3>1. 0 \in 0 .. Oldest /\ "complete" \in Presence
      BY DEF DeploymentAssumption, Presence
    <3>2. \A m \in Migrations : m \in Nat /\ m # 0 /\ (m \in 1 .. k \/ m > k)
      BY <2>3 DEF Migrations, DeploymentAssumption
    <3>3. /\ schema \in [Migrations -> Presence]
          /\ \A m \in Migrations : m \in 1 .. k => schema[m] = "complete"
          /\ \A m \in Migrations : m > k => schema[m] = "absent"
      BY <2>1, <2>4, <3>1, <3>2
    <3>4. RecordedIsThere
      BY <2>3, <2>4, <3>3 DEF RecordedIsThere, There
    <3>5. \A m \in Migrations : schema[m] \in {"absent", "complete"}
      BY <3>2, <3>3
    <3>6. \A m \in Migrations : m \in 1 .. k =>
             \A j \in Migrations : j < m => j \in tracked
      BY <2>3, <2>4 DEF Migrations, DeploymentAssumption
    <3>7. QED
      BY <2>3, <2>4, <3>2, <3>3, <3>4, <3>5, <3>6 DEF SchemaSound
  <2>5. CASE \E e \in 1 .. k, s \in Presence \ {"absent"} :
                /\ schema = Schema(k, e, s)
                /\ \/ history = "edited" /\ tracked = (1 .. k \ {e}) \cup {0}
                   \/ history = "lost" /\ tracked = {}
    <3>1. PICK e \in 1 .. k, s \in Presence :
             /\ schema = Schema(k, e, s)
             /\ \/ history = "edited" /\ tracked = (1 .. k \ {e}) \cup {0}
                \/ history = "lost" /\ tracked = {}
      BY <2>5
    <3>2. e \in 0 .. Oldest
      BY DEF DeploymentAssumption
    <3>3. /\ schema \in [Migrations -> Presence]
          /\ \A m \in Migrations : m \in 1 .. k /\ m # e => schema[m] = "complete"
      BY <2>1, <3>1, <3>2
    <3>4. RecordedIsThere /\ history # "intact"
      BY <2>3, <3>1, <3>3 DEF RecordedIsThere, There
    <3>5. QED
      BY <2>3, <3>1, <3>3, <3>4 DEF SchemaSound
  <2>6. CASE /\ history = "foreign" /\ tracked = {0}
             /\ \E s \in Presence : k = 1 /\ schema = Schema(1, 1, s)
    BY <2>1, <2>6 DEF SchemaSound, RecordedIsThere
  <2>7. QED
    BY <2>2, <2>4, <2>5, <2>6
<1>6. SeedAdmins = {}
  BY <1>2 DEF SeedAdmins, DeploymentAssumption
<1>7. AdminsSound
  BY <1>2, <1>6 DEF AdminsSound, NoLogin
<1>8. \A p \in Processes : ProcessSound(p)
  BY <1>1 DEF ProcessSound, Placed, MigratorSound, StagesSound, WriterSound, Sectioned
<1>9. CommandLocksApart
  BY <1>1 DEF CommandLocksApart, Sectioned, Seeding, Operating
<1>10. DeploymentTypeOK
  <2>1. /\ admins \subseteq AllIdentities /\ dismissed \subseteq AllIdentities
        /\ login \in [Usernames \cup Emails -> Login]
        /\ used \in [OperatorCommands -> Nat] /\ hardened \subseteq Contract
        /\ migrationRole \in BOOLEAN /\ seeded \subseteq AllRows
    BY <1>2 DEF AllIdentities, Login, NoLogin
  <2>2. \A p \in Processes : /\ ~(process[p].identity # Nobody) /\ ~(process[p].next > 1)
    BY <1>1
  <2>3. QED
    BY <1>1, <1>3, <2>1, <2>2 DEF DeploymentTypeOK
<1>11. QED
  BY <1>3, <1>7, <1>8, <1>9, <1>10 DEF DeploymentInv

\* Every step keeps the invariant.
LEMMA DeploymentNextKeeps ==
    ASSUME DeploymentAssumption, DeploymentInv, [DeploymentNext]_deploymentVars
    PROVE  DeploymentInv'
<1>1. CASE UNCHANGED deploymentVars
  <2>1. /\ UNCHANGED <<history, tracked, schema, migrationRole, hardened, admins, dismissed>>
        /\ UNCHANGED <<login, used, seeded, process>>
    BY <1>1 DEF deploymentVars
  <2>2. DeploymentTypeOK' /\ SchemaSound' /\ AdminsSound' /\ CommandLocksApart'
    BY <2>1 DEF DeploymentInv, DeploymentTypeOK, SchemaSound, RecordedIsThere, There, AdminsSound,
                SeedAdmins, Known, CommandLocksApart
  <2>3. ASSUME NEW p \in Processes PROVE ProcessSound(p)'
    BY <2>1 DEF DeploymentInv, ProcessSound, Placed, MigratorSound, StagesSound, WriterSound,
                SeedAdmins, Known, There
  <2>4. QED
    BY <2>2, <2>3 DEF DeploymentInv
<1>2. CASE DeploymentNext
  <2>1. ASSUME NEW p \in Processes, Begin(p) \/ Die(p) PROVE DeploymentInv'
    BY <2>1, BeginKeeps, DieKeeps
  <2>2. ASSUME NEW p \in Processes, Run(p) PROVE DeploymentInv'
    BY <2>2, MigrationRoleKeeps, MigrationLockKeeps, NextMigrationKeeps, ApplyMigrationKeeps,
       RecordMigrationKeeps, BootstrapSecurityKeeps, SeedFindsKeeps, SeedWritesKeeps, VerifyKeeps,
       OperatorFindsKeeps, OperatorWritesKeeps, SeedRowKeeps, SeedReferenceDataKeeps DEF Run
  <2>3. QED
    BY <1>2, <2>1, <2>2, UsersKeep, AppointmentsKeep DEF DeploymentNext
<1>3. QED
  BY <1>1, <1>2

\* The invariant holds in every state.
THEOREM DeploymentInvariance == DeploymentSpec => []DeploymentInv
  BY DeploymentAssumption, DeploymentInitSound, DeploymentNextKeeps, PTL DEF DeploymentSpec

\* The variables of Deployment have their types.
THEOREM DeploymentTypeCorrect == DeploymentSpec => []DeploymentTypeOK
  BY DeploymentInvariance, PTL DEF DeploymentInv

\* A migration that is recorded is in the schema (runMigrations,
\* migrationChecks): in every detail when the database was left alone or the
\* migration is compared in every detail, else at least in the objects by which
\* it is recognised; for any journal, releases, deaths, and edited files or
\* losses of the migration table.
THEOREM RecordedMigrations == DeploymentSpec => []RecordedIsThere
  BY DeploymentInvariance, PTL DEF DeploymentInv, SchemaSound

\* A command that succeeded leaves what it is for (provisionDatabase, the seed
\* of the reference data).
THEOREM DoneMeansReady == DeploymentSpec => []ReadyWhenDone
<1>1. ASSUME DeploymentInv PROVE ReadyWhenDone
  <2>1. ASSUME NEW p \in Processes, process[p].at = "done", process[p].job = "provision"
        PROVE  /\ \A m \in 1 .. process[p].release : Tracked(m) /\ There(m)
               /\ admins \cup dismissed # {}
               /\ process[p].release = Newest => hardened = Contract
    <3>1. MigratorSound(p) /\ StagesSound(p) /\ process[p].release \in {Oldest, Newest}
          /\ RecordedIsThere
      <4>1. process[p] \in Process /\ ProcessSound(p) /\ SchemaSound
        BY <1>1 DEF DeploymentInv, DeploymentTypeOK
      <4>2. process[p].release \in {Oldest, Newest}
        BY <4>1 DEF Process
      <4>3. QED
        BY <4>1, <4>2 DEF ProcessSound, SchemaSound
    <3>2. \A m \in 1 .. process[p].release : m \in Migrations /\ m # 0 /\ m <= process[p].release
      BY <3>1, DeploymentAssumption DEF Migrations, DeploymentAssumption
    <3>3. \A m \in 1 .. process[p].release : Tracked(m) /\ There(m)
      BY <2>1, <3>1, <3>2 DEF MigratorSound, Tracked, RecordedIsThere
    <3>4. QED
      BY <2>1, <3>1, <3>3 DEF StagesSound
  <2>2. ASSUME NEW p \in Processes, process[p].at = "done", process[p].job = "reference"
        PROVE  seeded = AllRows
    BY <1>1, <2>2 DEF DeploymentInv, ProcessSound, StagesSound
  <2>3. QED
    BY <2>1, <2>2 DEF ReadyWhenDone
<1>2. DeploymentInv => ReadyWhenDone
  BY <1>1
<1>3. QED
  BY <1>2, DeploymentInvariance, PTL

\* A set without two elements.
LEMMA AtMostOne == ASSUME NEW S, \A a, b \in S : a = b PROVE Cardinality(S) <= 1
<1>1. CASE S = {}
  BY <1>1, FS_EmptySet
<1>2. CASE S # {}
  <2>1. PICK a : S = {a}
    BY <1>2
  <2>2. Cardinality({a}) = 1
    BY FS_Singleton
  <2>3. QED
    BY <2>1, <2>2
<1>3. QED
  BY <1>1, <1>2

\* The seeds create no second administrator while one that they created is not
\* dismissed, under any usernames and e-mails and whatever users and appointments
\* there are meanwhile; the operator's commands are used once each.
THEOREM OneAdministrator == DeploymentSpec => []AdministratorsMadeOnce
<1>1. ASSUME DeploymentInv PROVE AdministratorsMadeOnce
  <2>1. Cardinality(SeedAdmins) <= 1
    BY <1>1, AtMostOne DEF DeploymentInv, AdminsSound
  <2>2. \A o \in OperatorCommands : used[o] <= 1
    BY <1>1 DEF DeploymentInv, AdminsSound
  <2>3. QED
    BY <2>1, <2>2 DEF AdministratorsMadeOnce, SeedAdmins
<1>2. DeploymentInv => AdministratorsMadeOnce
  BY <1>1
<1>3. QED
  BY <1>2, DeploymentInvariance, PTL

\* No migration runs over the effects of a later one while the migration table
\* belongs to the schema (applyMigrationFile).
THEOREM NoStepBehindALaterOne == DeploymentSpec => NeverBehindALaterOne
<1>1. ASSUME DeploymentInv, NEW p \in Processes, history = "intact", process[p].at = "apply",
             NEW m \in Migrations, m > process[p].next
      PROVE  schema[m] = "absent"
  <2>1. process[p].next \in Migrations /\ process[p].next \notin tracked
    <3>1. process[p].at \in Sectioned
      BY <1>1 DEF Sectioned
    <3>2. /\ process[p].release \in {Oldest, Newest} /\ process[p].next \in 1 .. Newest + 1
          /\ MigratorSound(p)
      BY <1>1, <3>1, DeploymentAssumption, Migrating
    <3>3. QED
      BY <1>1, <3>2, DeploymentAssumption DEF MigratorSound, Migrations, DeploymentAssumption
  <2>2. SchemaSound /\ schema[m] \in Presence
    BY <1>1 DEF DeploymentInv, DeploymentTypeOK
  <2>3. QED
    BY <1>1, <2>1, <2>2 DEF SchemaSound
<1>2. DeploymentInv => \A p \in Processes :
          history = "intact" /\ process[p].at = "apply" /\ process'[p].at # "failed"
             /\ process' # process /\ process[p] # process'[p]
          => \A m \in Migrations : m > process[p].next => schema[m] = "absent"
  BY <1>1
<1>3. QED
  BY <1>2, DeploymentInvariance, PTL DEF NeverBehindALaterOne

=============================================================================
