----------------------------- MODULE InventoryTx -----------------------------
(***************************************************************************)
(* The inventory operations statement by statement, as concurrent READ     *)
(* COMMITTED transactions of PostgreSQL.                                   *)
(*                                                                         *)
(* A request is a sequence of operations run in one UnitOfWork             *)
(* transaction: a single InventoryService call, or the calls one sales     *)
(* order or goods receipt makes.  Plain SELECTs see committed rows and the *)
(* transaction's own; UPDATE, FOR UPDATE and a unique index make a         *)
(* transaction wait for the one holding the row or key.  Any error rolls   *)
(* the whole transaction back.  A process crash, a lost connection or the  *)
(* 30 s statement timeout does the same at any point.                      *)
(*                                                                         *)
(* Inserting a missing stock row of zeros (ensureStock) is not a step of   *)
(* its own: it waits for, and then holds, the very row the next statement  *)
(* of every caller locks.                                                  *)
(***************************************************************************)
EXTENDS StockTypes, Sequences

CONSTANTS Clients,   \* concurrent requests being served
          Requests,  \* the requests callers make: sequences of operations
          Nobody     \* owner of a row no transaction holds

VARIABLES db,     \* the committed rows of the three tables
          cur,    \* the same with the uncommitted writes of open transactions
          owner,  \* the transaction that holds each row or unique key
          tx,     \* where each client's transaction is
          usable  \* the stock rows whose warehouse and item assertWarehouseAndItem accepts

vars == <<db, cur, owner, tx, usable>>

Operation == [type : {"RECEIPT", "RETURN", "RESERVE", "RELEASE", "FULFIL"},
              branch : Branches, wh : Warehouses, item : Items, qty : Qty,
              src : Sources, key : OpKeys]

ASSUME RequestsAssumption ==
    \A r \in Requests : r \in Seq(Operation) /\ r # <<>>

ASSUME NobodyAssumption == Nobody \notin Clients

Tables == {"stock", "res", "mov"}
Keys(t) == CASE t = "stock" -> StockKey [] t = "res" -> ResKey [] t = "mov" -> OpKeys
Rows == UNION {{<<t, k>> : k \in Keys(t)} : t \in Tables}

PC == {"idle", "find", "assert", "lock", "write", "insert", "lockres", "findmov", "commit"}

Idle == [pc |-> "idle", ops |-> <<>>]

-----------------------------------------------------------------------------
(* Rows as a transaction sees and changes them                             *)

Holds(c, t, k) == owner[<<t, k>>] = c
Sees(c, t, k) == IF Holds(c, t, k) THEN cur[t][k] ELSE db[t][k]

\* Row or key k is not held by another transaction.
CanTake(c, t, k) == owner[<<t, k>>] \in {c, Nobody}
Take(c, t, k) == owner' = [owner EXCEPT ![<<t, k>>] = c]

\* The tables base with the rows c holds taken from top.
Overlay(c, base, top) ==
    [t \in Tables |-> [k \in Keys(t) |-> IF Holds(c, t, k) THEN top[t][k] ELSE base[t][k]]]

ReleaseRows(c) == owner' = [row \in Rows |-> IF owner[row] = c THEN Nobody ELSE owner[row]]

RollbackForgotten(c) ==  \* mutant: the connection is pooled with its transaction open
    /\ tx' = [tx EXCEPT ![c] = Idle]
    /\ UNCHANGED <<db, cur, owner, usable>>

\* ROLLBACK, and the connection goes back to the pool.
Rollback(c) ==
    /\ cur' = Overlay(c, cur, db)
    /\ ReleaseRows(c)
    /\ tx' = [tx EXCEPT ![c] = Idle]
    /\ UNCHANGED <<db, usable>>

Op(c) == Head(tx[c].ops)
StockOf(c) == <<Op(c).wh, Op(c).item>>
ResOf(c) == <<Op(c).src, Op(c).item>>
Ends(c) == Op(c).type \in {"RELEASE", "FULFIL"}
Adds(c) == Op(c).type \in {"RECEIPT", "RETURN"}

Entry(op) == IF op.type \in {"RELEASE", "FULFIL"} THEN "lockres" ELSE "find"

GoTo(c, pc) == tx' = [tx EXCEPT ![c].pc = pc]

\* The current operation returned: go on with the next one, or commit.
Return(c) ==
    LET rest == Tail(tx[c].ops)
    IN  tx' = [tx EXCEPT ![c] =
                 [pc |-> IF rest = <<>> THEN "commit" ELSE Entry(Head(rest)), ops |-> rest]]

-----------------------------------------------------------------------------
Init ==
    /\ db = [stock |-> [s \in StockKey |-> [onHand |-> 0, reserved |-> 0]],
             res   |-> [r \in ResKey |-> NoRow],
             mov   |-> [k \in OpKeys |-> NoRow]]
    /\ cur = db
    /\ owner = [row \in Rows |-> Nobody]
    /\ tx = [c \in Clients |-> Idle]
    /\ usable = StockKey

\* BEGIN: a caller makes a request, for the first time or again.
Begin(c) ==
    /\ tx[c].pc = "idle"
    /\ \E r \in Requests : tx' = [tx EXCEPT ![c] = [pc |-> Entry(Head(r)), ops |-> r]]
    /\ UNCHANGED <<db, cur, owner, usable>>

\* findMovement: an operation already done in this branch is answered at once.
FindMovement(c) ==
    /\ tx[c].pc = "find" /\ Adds(c)
    /\ LET prior == Sees(c, "mov", Op(c).key)
       IN  IF prior # NoRow /\ prior.branch = Op(c).branch THEN Return(c) ELSE GoTo(c, "assert")
    /\ UNCHANGED <<db, cur, owner, usable>>

\* The two looks reserveStock takes at an earlier reservation of the source and item.
AnswerFromPrior(c, prior) ==
    IF prior.qty = Op(c).qty
    THEN Return(c) /\ UNCHANGED <<db, cur, owner, usable>>
    ELSE Rollback(c)

SeesPrior(c) ==
    LET prior == Sees(c, "res", ResOf(c)) IN prior # NoRow /\ prior.branch = Op(c).branch

FindReservation(c) ==
    /\ tx[c].pc = "find" /\ Op(c).type = "RESERVE"
    /\ IF SeesPrior(c)
       THEN AnswerFromPrior(c, Sees(c, "res", ResOf(c)))
       ELSE GoTo(c, "assert") /\ UNCHANGED <<db, cur, owner, usable>>

\* assertWarehouseAndItem reads master data without locking it.
AssertUsable(c) ==
    /\ tx[c].pc = "assert"
    /\ IF StockOf(c) \in usable
       THEN /\ GoTo(c, IF Adds(c) THEN "write" ELSE "lock")
            /\ UNCHANGED <<db, cur, owner, usable>>
       ELSE Rollback(c)

\* reserveStock: SELECT ... FROM inventory_stock ... FOR UPDATE
LockStock(c) ==
    /\ tx[c].pc = "lock"
    /\ CanTake(c, "stock", StockOf(c))
    /\ Take(c, "stock", StockOf(c))
    /\ GoTo(c, "write")
    /\ UNCHANGED <<db, cur, usable>>

FreeOnHand(s) == cur.stock[s].onHand  \* mutant: reserved quantity counts as free

Free(s) == cur.stock[s].onHand - cur.stock[s].reserved

\* reserveStock under the row lock: look again for a concurrent reservation, then
\* move quantity from available to reserved.
ReserveUnderLock(c) ==
    /\ tx[c].pc = "write" /\ Op(c).type = "RESERVE"
    /\ LET s == StockOf(c) IN
       IF SeesPrior(c) THEN AnswerFromPrior(c, Sees(c, "res", ResOf(c)))
       ELSE IF Free(s) < Op(c).qty THEN Rollback(c)
       ELSE /\ cur' = [cur EXCEPT !.stock[s].reserved = @ + Op(c).qty]
            /\ GoTo(c, "insert")
            /\ UNCHANGED <<db, owner, usable>>

\* receiveStock and returnStock: the UPDATE waits for the row and adds to it.
AddToStock(c) ==
    /\ tx[c].pc = "write" /\ Adds(c)
    /\ CanTake(c, "stock", StockOf(c))
    /\ Take(c, "stock", StockOf(c))
    /\ cur' = [cur EXCEPT !.stock[StockOf(c)].onHand = @ + Op(c).qty]
    /\ GoTo(c, "insert")
    /\ UNCHANGED <<db, usable>>

Upsert(c, t, k, row) ==  \* mutant: the unique index is missing
    /\ CanTake(c, t, k)
    /\ cur' = [cur EXCEPT ![t][k] = row]
    /\ Take(c, t, k)
    /\ Return(c)
    /\ UNCHANGED <<db, usable>>

\* INSERT under a unique index: wait for another transaction inserting the same key,
\* fail if the key is there by then.
InsertRow(c, t, k, row) ==
    /\ CanTake(c, t, k)
    /\ IF Sees(c, t, k) # NoRow
       THEN Rollback(c)
       ELSE /\ cur' = [cur EXCEPT ![t][k] = row]
            /\ Take(c, t, k)
            /\ Return(c)
            /\ UNCHANGED <<db, usable>>

InsertReservation(c) ==
    /\ tx[c].pc = "insert" /\ Op(c).type = "RESERVE"
    /\ InsertRow(c, "res", ResOf(c),
                 [branch |-> Op(c).branch, wh |-> Op(c).wh, qty |-> Op(c).qty,
                  status |-> "RESERVED"])

InsertMovement(c) ==
    /\ tx[c].pc = "insert" /\ Adds(c)
    /\ InsertRow(c, "mov", Op(c).key,
                 [branch |-> Op(c).branch, stock |-> StockOf(c), qty |-> Op(c).qty,
                  type |-> Op(c).type, res |-> NoRow])

\* The reservation has been released, or fulfilled, before.
AlreadyEnded(c, row) ==
    row.status = IF Op(c).type = "RELEASE" THEN "RELEASED" ELSE "FULFILLED"

\* lockReservation, and what releaseReservation and fulfillReservation make of the
\* status found.  A row that is not committed yet is not found, and not waited for.
LockReservation(c) ==
    /\ tx[c].pc = "lockres"
    /\ LET r == ResOf(c) IN
       IF Sees(c, "res", r) = NoRow THEN Rollback(c)
       ELSE /\ CanTake(c, "res", r)
            /\ LET row == Sees(c, "res", r)
                   wrong == IF Op(c).type = "RELEASE" THEN "FULFILLED" ELSE "RELEASED"
               IN  IF row.branch # Op(c).branch \/ row.status = wrong
                   THEN Rollback(c)
                   ELSE /\ Take(c, "res", r)
                        /\ IF AlreadyEnded(c, row) THEN Return(c)
                           ELSE GoTo(c, IF Op(c).type = "RELEASE" THEN "write" ELSE "findmov")
                        /\ UNCHANGED <<db, cur, usable>>

\* fulfillReservation: an operation key already used in the branch ends the call.
FindIssue(c) ==
    /\ tx[c].pc = "findmov"
    /\ LET prior == Sees(c, "mov", Op(c).key)
       IN  IF prior # NoRow /\ prior.branch = Op(c).branch THEN Return(c) ELSE GoTo(c, "write")
    /\ UNCHANGED <<db, cur, owner, usable>>

\* The stock row of the reservation c has locked.
HeldRow(c) == <<cur.res[ResOf(c)].wh, Op(c).item>>
HeldQty(c) == cur.res[ResOf(c)].qty

\* releaseReservation: UPDATE inventory_stock, then the reservation.
ReleaseStock(c) ==
    /\ tx[c].pc = "write" /\ Op(c).type = "RELEASE"
    /\ CanTake(c, "stock", HeldRow(c))
    /\ Take(c, "stock", HeldRow(c))
    /\ cur' = [cur EXCEPT !.stock[HeldRow(c)].reserved = @ - HeldQty(c),
                          !.res[ResOf(c)].status = "RELEASED"]
    /\ Return(c)
    /\ UNCHANGED <<db, usable>>

\* fulfillReservation: the guarded UPDATE of the stock row.
IssueStock(c) ==
    /\ tx[c].pc = "write" /\ Op(c).type = "FULFIL"
    /\ CanTake(c, "stock", HeldRow(c))
    /\ LET s == HeldRow(c)
           q == HeldQty(c)
       IN  IF cur.stock[s].onHand < q \/ cur.stock[s].reserved < q THEN Rollback(c)
           ELSE /\ Take(c, "stock", s)
                /\ cur' = [cur EXCEPT !.stock[s] =
                             [onHand |-> @.onHand - q, reserved |-> @.reserved - q]]
                /\ GoTo(c, "insert")
                /\ UNCHANGED <<db, usable>>

\* fulfillReservation: INSERT the issue, then mark the reservation FULFILLED.
InsertIssue(c) ==
    /\ tx[c].pc = "insert" /\ Op(c).type = "FULFIL"
    /\ LET k == Op(c).key
           r == ResOf(c)
       IN  /\ CanTake(c, "mov", k)
           /\ IF Sees(c, "mov", k) # NoRow THEN Rollback(c)
              ELSE /\ cur' = [cur EXCEPT
                        !.mov[k] = [branch |-> Op(c).branch, stock |-> HeldRow(c),
                                    qty |-> HeldQty(c), type |-> "ISSUE", res |-> r],
                        !.res[r].status = "FULFILLED"]
                   /\ Take(c, "mov", k)
                   /\ Return(c)
                   /\ UNCHANGED <<db, usable>>

CommitTx(c) ==
    /\ tx[c].pc = "commit"
    /\ db' = Overlay(c, db, cur)
    /\ ReleaseRows(c)
    /\ tx' = [tx EXCEPT ![c] = Idle]
    /\ UNCHANGED <<cur, usable>>

-----------------------------------------------------------------------------
(* Faults and the database's own housekeeping                              *)

\* A crash of the server process, a lost connection or a statement timeout.
Fail(c) == tx[c].pc # "idle" /\ Rollback(c)

\* The row or key client c's next statement has to wait for, as <<table, key>>.
Wants(c) ==
    CASE tx[c].pc = "lockres" /\ Sees(c, "res", ResOf(c)) # NoRow -> <<"res", ResOf(c)>>
      [] tx[c].pc \in {"lock", "write"} ->
            <<"stock", IF Ends(c) THEN HeldRow(c) ELSE StockOf(c)>>
      [] tx[c].pc = "insert" ->
            IF Op(c).type = "RESERVE" THEN <<"res", ResOf(c)>> ELSE <<"mov", Op(c).key>>
      [] OTHER -> <<>>

Waits(c) == Wants(c) # <<>> /\ owner[Wants(c)] \notin {c, Nobody}

\* Some transactions wait for each other in a ring that c is in.
Deadlocked(c) ==
    \E S \in SUBSET Clients :
        /\ c \in S
        /\ \A d \in S : Waits(d) /\ owner[Wants(d)] \in S
        /\ \A d \in S : \E e \in S : owner[Wants(e)] = d

\* deadlock_timeout expires: the database aborts a transaction of the ring.
AbortVictim(c) == Deadlocked(c) /\ Rollback(c)

\* A warehouse or item is created, deactivated, reactivated or deleted.
MasterDataChange ==
    /\ \E u \in SUBSET StockKey : usable' = u
    /\ UNCHANGED <<db, cur, owner, tx>>

Step(c) ==
    \/ FindMovement(c) \/ FindReservation(c) \/ AssertUsable(c) \/ LockStock(c)
    \/ ReserveUnderLock(c) \/ AddToStock(c) \/ InsertReservation(c) \/ InsertMovement(c)
    \/ LockReservation(c) \/ FindIssue(c) \/ ReleaseStock(c) \/ IssueStock(c)
    \/ InsertIssue(c) \/ CommitTx(c)

Next ==
    \/ \E c \in Clients : Begin(c) \/ Step(c) \/ Fail(c) \/ AbortVictim(c)
    \/ MasterDataChange

\* A transaction whose statement keeps getting its lock runs it (the lock queue is
\* first come, first served), and a ring of waits is always broken.
Fairness ==
    /\ \A c \in Clients : SF_vars(Step(c))
    /\ \A c \in Clients : WF_vars(AbortVictim(c))

Spec == Init /\ [][Next]_vars /\ Fairness

-----------------------------------------------------------------------------
Database == [stock : [StockKey -> StockRow], res : [ResKey -> ReservationRow],
             mov : [OpKeys -> MovementRow]]

TypeOK ==
    /\ db \in Database /\ cur \in Database
    /\ owner \in [Rows -> Clients \cup {Nobody}]
    /\ tx \in [Clients -> [pc : PC, ops : Seq(Operation)]]
    /\ usable \subseteq StockKey

\* Whatever interleaving of reads, waits, errors and crashes led here, the committed
\* counters of a stock row agree with the committed rows they summarise.
CommittedCountersMatchLedger ==
    \A s \in StockKey :
        /\ db.stock[s].reserved = Held(db.res, s)
        /\ db.stock[s].onHand + Issued(db.mov, s) = Incoming(db.mov, s)

Ledger == INSTANCE StockLedger WITH res <- db.res, mov <- db.mov

\* Transactions that overlap, are retried or die leave the ledger as if each committed
\* one had happened alone: history is only added to, and stock never promised twice.
ImplementsLedger == Ledger!LedgerSpec

\* No transaction waits for a lock for ever: with the deadlock detector breaking the
\* rings that multi-line requests form, every request is answered.
RequestsAnswered == \A c \in Clients : tx[c].pc # "idle" ~> tx[c].pc = "idle"

=============================================================================
