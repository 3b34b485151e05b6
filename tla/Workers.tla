------------------------------- MODULE Workers -------------------------------
(***************************************************************************)
(* The background work of a tenant: scheduled jobs (SchedulerWorker),      *)
(* notifications (NotificationDeliveryWorker) and outbox events            *)
(* (OutboxDispatcher), each a table that several workers poll.             *)
(*                                                                         *)
(* A worker claims rows under a lease, does the work outside any           *)
(* transaction, and reports the result in a second transaction.  Between   *)
(* the two the lease may end, another worker may claim the row, the        *)
(* worker may die, and the report may be applied though its answer is      *)
(* lost.  Each call of a store is one statement, so one step.              *)
(*                                                                         *)
(* What kind of work a row is stays fixed; a state has one row of several  *)
(* kinds rather than every table, since the tables do not interact.        *)
(***************************************************************************)
EXTENDS Naturals, Sequences, FiniteSets

CONSTANTS Rows,         \* rows of the three tables
          Pool,         \* worker identifiers, one process each
          NoOne,        \* the owner of a row without a lease
          Kinds,        \* what the rows may be: functions from Rows
          MaxAttempts,  \* the column max_attempts of jobs and notifications
          BatchSize,    \* events that one dispatch claims at most
          MaxCrashes    \* bound: workers that die in a behaviour

VARIABLES kind,      \* what each row is: a job, a notification or an event
          row,       \* the row's columns
          log,       \* notification_delivery_attempts, in order of insertion
          worker,    \* where each worker is in runNext or dispatchBatch
          executed,  \* how often the row's work took effect (saturating)
          crashes    \* workers that died so far

vars == <<kind, row, log, worker, executed, crashes>>

ASSUME WorkersAssumption ==
    /\ MaxAttempts \in Nat \ {0}
    /\ BatchSize \in Nat \ {0}
    /\ MaxCrashes \in Nat
    /\ NoOne \notin Pool /\ IsFiniteSet(Pool)
    /\ Kinds \subseteq [Rows -> {"once", "recurring", "notification", "event"}]

Jobs == {r \in Rows : kind[r] \in {"once", "recurring"}}
Notifications == {r \in Rows : kind[r] = "notification"}
Events == {r \in Rows : kind[r] = "event"}

\* What execution of a row leads to when nothing goes wrong.
Settled == [once |-> "completed", recurring |-> "scheduled",
            notification |-> "sent", event |-> "published"]

\* due: next_run_at or available_at has passed; held: the lease has not ended.
Row == [status : {"none", "scheduled", "running", "completed", "cancelled",
                  "pending", "processing", "sent", "published", "failed"},
        attempts : 0 .. MaxAttempts, owner : Pool \cup {NoOne},
        held : BOOLEAN, due : BOOLEAN]

Idle == [at |-> "idle", batch |-> {}, current |-> NoOne, attempt |-> 0]

TypeOK ==
    /\ kind \in Kinds
    /\ row \in [Rows -> Row]
    /\ log \in [Rows -> Seq((1 .. MaxAttempts) \X {"sent", "failed"})]
    /\ worker \in [Pool -> [at : {"idle", "execute", "confirm", "report"}, batch : SUBSET Rows,
                            current : Rows \cup {NoOne}, attempt : 0 .. MaxAttempts]]
    /\ \A w \in Pool : worker[w].at = "idle" <=> worker[w].batch = {}
    /\ executed \in [Rows -> 0 .. MaxAttempts + 1]
    /\ crashes \in 0 .. MaxCrashes

Init ==
    /\ kind \in Kinds
    /\ row = [r \in Rows |-> [status |-> "none", attempts |-> 0, owner |-> NoOne,
                              held |-> FALSE, due |-> FALSE]]
    /\ log = [r \in Rows |-> <<>>]
    /\ worker = [w \in Pool |-> Idle]
    /\ executed = [r \in Rows |-> 0]
    /\ crashes = 0

\* The row x with a new status, its time past or not, without a lease.
Unleased(x, status, due) ==
    [status |-> status, attempts |-> x.attempts, owner |-> NoOne, held |-> FALSE, due |-> due]

\* The row x under a lease of w, for which it counts so many attempts more.
Leased(x, status, more, w) ==
    [status |-> status, attempts |-> x.attempts + more, owner |-> w, held |-> TRUE, due |-> x.due]

\* Counts up to a limit above which nobody tells the numbers apart.
Bump(n, limit) == IF n < limit THEN n + 1 ELSE n

\* The work of a row takes effect once more: for events only whether it did
\* is of interest.
Executes(r) == Bump(executed[r], IF r \in Events THEN 1 ELSE MaxAttempts + 1)

-----------------------------------------------------------------------------
(* The callers' side: PostgresSchedulerService, PostgresNotificationService
   and PostgresOutboxPublisher.  A row becomes visible when the caller's
   transaction commits; its time is now or later. *)

Schedule(r) ==
    /\ r \in Jobs /\ row[r].status = "none"
    /\ \E d \in BOOLEAN : row' = [row EXCEPT ![r] = Unleased(@, "scheduled", d)]
    /\ UNCHANGED <<kind, log, worker, executed, crashes>>

Enqueue(r) ==
    /\ r \in Notifications /\ row[r].status = "none"
    /\ \E d \in BOOLEAN : row' = [row EXCEPT ![r] = Unleased(@, "pending", d)]
    /\ UNCHANGED <<kind, log, worker, executed, crashes>>

Publish(r) ==
    /\ r \in Events /\ row[r].status = "none"
    /\ row' = [row EXCEPT ![r] = Unleased(@, "pending", TRUE)]
    /\ UNCHANGED <<kind, log, worker, executed, crashes>>

Cancel(r) ==
    /\ r \in Jobs /\ row[r].status \in {"scheduled", "failed"}
    /\ row' = [row EXCEPT ![r] = Unleased(@, "cancelled", @.due)]
    /\ UNCHANGED <<kind, log, worker, executed, crashes>>

-----------------------------------------------------------------------------
(* The stores' statements, as functions from the old row to the new one. *)

\* The candidates of claimDue, claimNext and claimPending.
DueJob(r) ==
    /\ r \in Jobs
    /\ row[r].status \in {"scheduled", "failed"}
    /\ row[r].due /\ ~row[r].held
    /\ row[r].attempts < MaxAttempts

DueNotification(r) ==
    /\ r \in Notifications
    /\ row[r].status \in {"pending", "failed"}
    /\ row[r].due /\ ~row[r].held
    /\ row[r].attempts < MaxAttempts

PendingEvents ==
    {r \in Events : row[r].status = "pending" /\ row[r].due /\ ~row[r].held}

\* complete looks at the status, and not at the owner of the lease.
CompleteJob(r) ==
    IF row[r].status # "running" THEN row[r]
    ELSE Unleased(row[r], Settled[kind[r]], kind[r] = "once" /\ row[r].due)

\* fail looks at neither.
FailJob(r, again) ==
    Unleased(row[r], IF row[r].attempts >= MaxAttempts THEN "failed" ELSE "scheduled",
             row[r].due /\ ~again)

\* The updates of notifications and events are for the owner of the lease only.
MarkSent(r, w) ==
    IF row[r].owner # w \/ row[r].status # "processing" THEN row[r]
    ELSE Unleased(row[r], "sent", row[r].due)

FailAnyNotification(r, w, again) ==  \* mutant: a late report is applied, as for jobs
    Unleased(row[r], "failed", row[r].due /\ ~again)

MarkFailed(r, w, again) ==
    IF row[r].owner # w \/ row[r].status # "processing" THEN row[r]
    ELSE Unleased(row[r], "failed", row[r].due /\ ~again)

LogAlways(r, w, outcome) ==  \* mutant: logged whether or not the update found the row
    Append(log[r], <<row[r].attempts, outcome>>)

\* The row of notification_delivery_attempts that goes with the update.
LogAttempt(r, w, outcome) ==
    IF row[r].owner # w \/ row[r].status # "processing" THEN log[r]
    ELSE Append(log[r], <<row[r].attempts, outcome>>)

MarkPublished(r, w) ==
    IF row[r].owner # w \/ row[r].status = "published" THEN row[r]
    ELSE Unleased(row[r], "published", row[r].due)

\* Nobody reads the attempt count of an event.
EventFailed(r, w) ==
    IF row[r].owner # w \/ row[r].status = "published" THEN row[r]
    ELSE Unleased(row[r], row[r].status, FALSE)

-----------------------------------------------------------------------------
(* The workers. *)

Goes(w, state) == worker' = [worker EXCEPT ![w] = state]

Working(r) == [at |-> "execute", batch |-> {r}, current |-> NoOne,
               attempt |-> row[r].attempts + 1]

ClaimJob(w, r) ==
    /\ worker[w] = Idle /\ DueJob(r)
    /\ row' = [row EXCEPT ![r] = Leased(@, "running", 1, w)]
    /\ Goes(w, Working(r))
    /\ UNCHANGED <<kind, log, executed, crashes>>

ClaimUncounted(w, r) ==  \* mutant: the claim does not count the attempt
    /\ worker[w] = Idle /\ DueNotification(r)
    /\ row' = [row EXCEPT ![r] = Leased(@, "processing", 0, w)]
    /\ Goes(w, Working(r))
    /\ UNCHANGED <<kind, log, executed, crashes>>

ClaimNotification(w, r) ==
    /\ worker[w] = Idle /\ DueNotification(r)
    /\ row' = [row EXCEPT ![r] = Leased(@, "processing", 1, w)]
    /\ Goes(w, Working(r))
    /\ UNCHANGED <<kind, log, executed, crashes>>

\* The whole batch gets one lease, and its events are delivered one by one.
ClaimEvents(w, batch) ==
    /\ worker[w] = Idle
    /\ batch # {} /\ batch \subseteq PendingEvents
    /\ Cardinality(batch) <= BatchSize
    /\ Cardinality(batch) = BatchSize \/ batch = PendingEvents
    /\ row' = [r \in Rows |-> IF r \in batch THEN Leased(row[r], row[r].status, 0, w)
                                         ELSE row[r]]
    /\ Goes(w, [at |-> "execute", batch |-> batch, current |-> NoOne, attempt |-> 0])
    /\ UNCHANGED <<kind, log, executed, crashes>>

\* After a row the dispatcher goes to the next of its batch.
Rest(w) ==
    LET batch == worker[w].batch \ {worker[w].current} IN
    IF batch = {} THEN Idle
    ELSE [at |-> "execute", batch |-> batch, current |-> NoOne, attempt |-> 0]

\* The handler, the provider or the transport does the work.
Succeeds(w, r) ==
    /\ worker[w].at = "execute" /\ r \in worker[w].batch
    /\ executed' = [executed EXCEPT ![r] = Executes(r)]
    /\ Goes(w, [worker[w] EXCEPT !.at = "confirm", !.current = r])
    /\ UNCHANGED <<kind, row, log, crashes>>

\* There is no handler, or it throws: before it did anything, or after.
Throws(w, r) ==
    /\ worker[w].at = "execute" /\ r \in worker[w].batch
    /\ \E n \in {executed[r], Executes(r)} :
         executed' = [executed EXCEPT ![r] = n]
    /\ Goes(w, [worker[w] EXCEPT !.at = "report", !.current = r])
    /\ UNCHANGED <<kind, row, log, crashes>>

\* The update that settles the row of w's current work.
Settle(w) ==
    LET r == worker[w].current IN
    /\ row' = [row EXCEPT ![r] = CASE r \in Jobs -> CompleteJob(r)
                                   [] r \in Notifications -> MarkSent(r, w)
                                   [] r \in Events -> MarkPublished(r, w)]
    /\ log' = IF r \in Notifications THEN [log EXCEPT ![r] = LogAttempt(r, w, "sent")] ELSE log

\* complete, markSent or markPublished returns.
Confirm(w) ==
    /\ worker[w].at = "confirm"
    /\ Settle(w)
    /\ Goes(w, Rest(w))
    /\ UNCHANGED <<kind, executed, crashes>>

\* It throws, having been applied or not: runNext takes that for a failure
\* of the work.
ConfirmThrows(w) ==
    /\ worker[w].at = "confirm"
    /\ Settle(w) \/ UNCHANGED <<row, log>>
    /\ Goes(w, [worker[w] EXCEPT !.at = "report"])
    /\ UNCHANGED <<kind, executed, crashes>>

\* The last attempt gets no time for another one.
Again(w) == worker[w].attempt < MaxAttempts

RecordFailure(w) ==
    LET r == worker[w].current IN
    /\ row' = [row EXCEPT ![r] = CASE r \in Jobs -> FailJob(r, Again(w))
                                   [] r \in Notifications -> MarkFailed(r, w, Again(w))
                                   [] r \in Events -> EventFailed(r, w)]
    /\ log' = IF r \in Notifications THEN [log EXCEPT ![r] = LogAttempt(r, w, "failed")] ELSE log

Report(w) ==
    /\ worker[w].at = "report"
    /\ RecordFailure(w)
    /\ Goes(w, Rest(w))
    /\ UNCHANGED <<kind, executed, crashes>>

\* Nobody catches what fail or markFailed throws: the rest of a batch is left
\* under its lease.
ReportThrows(w) ==
    /\ worker[w].at = "report"
    /\ RecordFailure(w) \/ UNCHANGED <<row, log>>
    /\ Goes(w, Idle)
    /\ UNCHANGED <<kind, executed, crashes>>

\* The process of a worker dies and another one starts under its name.
Crash(w) ==
    /\ worker[w] # Idle /\ crashes < MaxCrashes
    /\ crashes' = crashes + 1
    /\ Goes(w, Idle)
    /\ UNCHANGED <<kind, row, log, executed>>

\* The next step of a call of runNext or dispatchBatch, or the start of one.
Turn(w) ==
    \/ \E r \in Rows : ClaimJob(w, r) \/ ClaimNotification(w, r) \/ Succeeds(w, r) \/ Throws(w, r)
    \/ \E batch \in SUBSET Rows : ClaimEvents(w, batch)
    \/ Confirm(w) \/ ConfirmThrows(w) \/ Report(w) \/ ReportThrows(w)

-----------------------------------------------------------------------------
(* Time. *)

LeaseEnds(r) ==
    /\ row[r].held
    /\ row' = [row EXCEPT ![r].held = FALSE]
    /\ UNCHANGED <<kind, log, worker, executed, crashes>>

ComesDue(r) ==
    /\ row[r].status \in {"scheduled", "pending", "failed"} /\ ~row[r].due
    /\ row' = [row EXCEPT ![r].due = TRUE]
    /\ UNCHANGED <<kind, log, worker, executed, crashes>>

Next ==
    \/ \E r \in Rows : Schedule(r) \/ Enqueue(r) \/ Publish(r) \/ Cancel(r)
    \/ \E r \in Rows : LeaseEnds(r) \/ ComesDue(r)
    \/ \E w \in Pool : Turn(w) \/ Crash(w)

\* No fairness: who calls the workers, and whether again, is not in the code.
Spec == Init /\ [][Next]_vars

-----------------------------------------------------------------------------
(* Properties. *)

\* The delivery log of a notification tells what happened to it: every attempt
\* is logged at most once and in order, and "sent" is the last word, there if
\* and only if the notification is marked as sent
\* (PostgresNotificationDeliveryStore.markSent, markFailed).
NotificationLog ==
    \A r \in Notifications :
        /\ \A i, j \in 1 .. Len(log[r]) : i < j => log[r][i][1] < log[r][j][1]
        /\ \A i \in 1 .. Len(log[r]) :
             log[r][i][2] = "sent" <=> (row[r].status = "sent" /\ i = Len(log[r]))
        /\ row[r].status = "sent" => log[r] # <<>>

\* Work is marked as done only when it was done, whoever held the lease then,
\* and the work of a job or a notification takes effect at most max_attempts
\* times in all, with lost answers and crashes (claimDue, claimNext).
ExecutionsAccounted ==
    \A r \in Rows :
        /\ row[r].status \in {"completed", "sent", "published"} => executed[r] > 0
        /\ r \notin Events => executed[r] <= MaxAttempts

\* What was sent or published stays so: no late report of a worker whose lease
\* ended takes it back (the guards of markFailed and markPublished).
SettledStays ==
    [][\A r \in Notifications \cup Events :
         row[r].status \in {"sent", "published"} => row'[r].status = row[r].status]_vars

=============================================================================
