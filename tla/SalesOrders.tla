----------------------------- MODULE SalesOrders -----------------------------
(***************************************************************************)
(* Quotations and sales orders over the inventory: QuotationService,       *)
(* OrderService and their repositories, with the inventory operations they *)
(* call, and other users of the inventory working beside them.             *)
(*                                                                         *)
(* A transition and a reservation first read the document without locking  *)
(* it, decide, and only later write: between a Begin action and the action *)
(* that ends the call other calls commit.  What follows the reads takes    *)
(* row locks and commits at once, so it is one step (see InventoryTx).  A  *)
(* call that throws at its end leaves the database as it was.              *)
(***************************************************************************)
EXTENDS InventoryOps, Sequences

CONSTANTS Quotations,   \* quotation identifiers
          Orders,       \* sales order identifiers, sources of reservations
          Clients,      \* concurrent transitions and reservations
          LineChoices,  \* the line lists users enter: sequences of Line
          MaxVersion    \* bound: no new call on a document of this version

VARIABLES stock, res, mov,  \* the inventory tables
          whActive,         \* the warehouses that are ACTIVE
          quo, ord,         \* sales_quotations and sales_orders
          counter,          \* code_counters, per document type and branch
          call              \* what each client's call has read so far

inventory == <<stock, res, mov>>
vars == <<stock, res, mov, whActive, quo, ord, counter, call>>

Line == [item : Items \cup {NoRow}, qty : Qty]

ASSUME OrdersAssumption == Orders \subseteq Sources

ASSUME LineChoicesAssumption == \A l \in LineChoices : l \in Seq(Line) /\ l # <<>>

QuotationStatus == {"DRAFT", "SENT", "ACCEPTED", "REJECTED", "EXPIRED", "CANCELLED"}
OrderStatus == {"DRAFT", "CONFIRMED", "CANCELLED", "CLOSED"}

Quotation == [branch : Branches, number : Nat, status : QuotationStatus,
              lines : LineChoices, version : Nat, deleted : BOOLEAN]
Order == [branch : Branches, number : Nat, quo : Quotations, wh : Warehouses,
          lines : LineChoices, status : OrderStatus, reserved : BOOLEAN,
          version : Nat, deleted : BOOLEAN]

ASSUME NoDocumentAssumption == NoRow \notin Quotation /\ NoRow \notin Order

\* The transition tables of the two services.
QuotationTransitions ==
    [s \in QuotationStatus |->
        CASE s = "DRAFT" -> {"SENT", "CANCELLED"}
          [] s = "SENT"  -> {"ACCEPTED", "REJECTED", "EXPIRED", "CANCELLED"}
          [] OTHER       -> {}]
OrderTransitions ==
    [s \in OrderStatus |->
        CASE s = "DRAFT"     -> {"CONFIRMED", "CANCELLED"}
          [] s = "CONFIRMED" -> {"CANCELLED", "CLOSED"}
          [] OTHER           -> {}]

\* What a call has read: to is the status it goes to, expected the version its caller
\* sent, open the reservations it is going to release.
Idle == [op |-> "idle"]
Call == {Idle}
    \cup [op : {"quotation"}, doc : Quotations, to : QuotationStatus, expected : Nat]
    \cup [op : {"order"}, doc : Orders, to : OrderStatus, expected : Nat]
    \cup [op : {"list"}, doc : Orders, expected : Nat]
    \cup [op : {"cancel"}, doc : Orders, expected : Nat, open : SUBSET ResKey]
    \cup [op : {"reserve"}, doc : Orders]

Database == [stock |-> stock, res |-> res, mov |-> mov]
Registry == [wh   |-> [w \in Warehouses |-> IF w \in whActive THEN "ACTIVE" ELSE "INACTIVE"],
             item |-> [i \in Items |-> "SELLABLE"]]

\* The rows of each item as f[item] has them: operations on different items, one after the
\* other in one transaction, touch different rows.  Only reserving and releasing are put
\* together so, and neither writes a movement.
Together(f) == [stock |-> [s \in StockKey |-> f[s[2]].stock[s]],
                res   |-> [r \in ResKey |-> f[r[2]].res[r]],
                mov   |-> mov]

\* ways[i] is what the operations on item i may leave, one database or, when they throw,
\* none; then all is taken back.
AllItems(ways) ==
    IF \E i \in Items : ways[i] = {} THEN {}
    ELSE {Together([i \in Items |-> CHOOSE d \in ways[i] : TRUE])}

Post(d) == stock' = d.stock /\ res' = d.res /\ mov' = d.mov

\* getById: rows that are there and not soft-deleted.
Live(table, id) == table[id] # NoRow /\ ~table[id].deleted

\* version_number = version_number + 1, in every UPDATE of a document.
CountVersion(row) == [row EXCEPT !.version = @ + 1]

Answer(c) == call' = [call EXCEPT ![c] = Idle]

-----------------------------------------------------------------------------
Init ==
    /\ stock = [s \in StockKey |-> [onHand |-> 0, reserved |-> 0]]
    /\ res = [r \in ResKey |-> NoRow]
    /\ mov = [k \in OpKeys |-> NoRow]
    /\ whActive = Warehouses
    /\ quo = [q \in Quotations |-> NoRow]
    /\ ord = [o \in Orders |-> NoRow]
    /\ counter = [t \in {"sales_quotation", "sales_order"} |-> [b \in Branches |-> 0]]
    /\ call = [c \in Clients |-> Idle]

(* Numbering.  The counter is kept per branch, the number is unique in the *)
(* tenant.                                                                  *)

NextNumber(type, b) == counter[type][b] + 1

\* INSERT under the unique index on the number.
NumberIsFree(table, n) == \A id \in DOMAIN table : table[id] # NoRow => table[id].number # n

CountUp(type, b) == counter' = [counter EXCEPT ![type][b] = @ + 1]

-----------------------------------------------------------------------------
(* Quotations                                                              *)

\* replaceItems: the old lines are deleted, the new ones inserted in their order.
ReplaceItems(row, lines) == [row EXCEPT !.lines = lines]

\* The repository's create.
InsertQuotation(q, b, lines) ==
    /\ quo[q] = NoRow
    /\ NumberIsFree(quo, NextNumber("sales_quotation", b))
    /\ quo' = [quo EXCEPT ![q] = ReplaceItems(
                 [branch |-> b, number |-> NextNumber("sales_quotation", b),
                  status |-> "DRAFT", lines |-> <<>>, version |-> 1, deleted |-> FALSE], lines)]
    /\ CountUp("sales_quotation", b)

CreateQuotation(q, b, lines) ==
    /\ InsertQuotation(q, b, lines)
    /\ UNCHANGED <<inventory, whActive, ord, call>>

EditableAlways(q) == Live(quo, q)  \* mutant: UPDATE without status='DRAFT'

\* The guard of the UPDATEs of update and softDelete.
Editable(q) == Live(quo, q) /\ quo[q].status = "DRAFT"

\* The repository's update: one guarded UPDATE, and the lines.
WriteQuotation(q, lines) ==
    /\ Editable(q)
    /\ quo' = [quo EXCEPT ![q] = ReplaceItems(CountVersion(@), lines)]

\* update, by the caller that has the current version.
UpdateQuotation(q, lines) ==
    /\ quo[q] # NoRow => quo[q].version < MaxVersion
    /\ WriteQuotation(q, lines)
    /\ UNCHANGED <<inventory, whActive, ord, counter, call>>

DeleteQuotation(q) ==
    /\ Editable(q)
    /\ quo' = [quo EXCEPT ![q] = CountVersion([@ EXCEPT !.deleted = TRUE])]
    /\ UNCHANGED <<inventory, whActive, ord, counter, call>>

\* The caller names the version it last saw, the current one or an older one.
BeginQuotationTransition(c, q, to) ==
    /\ call[c] = Idle
    /\ Live(quo, q) /\ quo[q].version < MaxVersion
    /\ to \in QuotationTransitions[quo[q].status]
    /\ \E v \in 1 .. quo[q].version :
          call' = [call EXCEPT ![c] = [op |-> "quotation", doc |-> q, to |-> to, expected |-> v]]
    /\ UNCHANGED <<inventory, whActive, quo, ord, counter>>

\* The repository's transition: an UPDATE guarded by the version.
MoveQuotation(q, to, v) ==
    IF Live(quo, q) /\ quo[q].version = v
    THEN quo' = [quo EXCEPT ![q] = CountVersion([@ EXCEPT !.status = to])]
    ELSE UNCHANGED quo

EndQuotationTransition(c) ==
    /\ call[c].op = "quotation"
    /\ MoveQuotation(call[c].doc, call[c].to, call[c].expected)
    /\ Answer(c)
    /\ UNCHANGED <<inventory, whActive, ord, counter>>

-----------------------------------------------------------------------------
(* Orders                                                                  *)

\* The repository's create.
InsertOrder(o, q, w) ==
    /\ ord[o] = NoRow
    /\ Live(quo, q) /\ quo[q].status = "ACCEPTED"
    /\ w \in whActive
    /\ \A n \in DOMAIN quo[q].lines : quo[q].lines[n].item # NoRow
    /\ LET b == quo[q].branch
           n == NextNumber("sales_order", b)
       IN  /\ NumberIsFree(ord, n)
           /\ ord' = [ord EXCEPT ![o] =
                        [branch |-> b, number |-> n, quo |-> q, wh |-> w,
                         lines |-> quo[q].lines, status |-> "DRAFT", reserved |-> FALSE,
                         version |-> 1, deleted |-> FALSE]]
           /\ CountUp("sales_order", b)

CreateOrder(o, q, w) ==
    /\ InsertOrder(o, q, w)
    /\ UNCHANGED <<inventory, whActive, quo, call>>

\* The repository's update: the notes and the version of a draft.
WriteOrder(o) ==
    /\ Live(ord, o) /\ ord[o].status = "DRAFT"
    /\ ord' = [ord EXCEPT ![o] = CountVersion(@)]

\* update, by the caller that has the current version.
UpdateOrder(o) ==
    /\ ord[o] # NoRow => ord[o].version < MaxVersion
    /\ WriteOrder(o)
    /\ UNCHANGED <<inventory, whActive, quo, counter, call>>

DeleteOrder(o) ==
    /\ Live(ord, o) /\ ord[o].status = "DRAFT"
    /\ ord' = [ord EXCEPT ![o] = CountVersion([@ EXCEPT !.deleted = TRUE])]
    /\ UNCHANGED <<inventory, whActive, quo, counter, call>>

\* transition: the unlocked read, and what it decides.
BeginOrderTransition(c, o, to) ==
    /\ call[c] = Idle
    /\ Live(ord, o) /\ ord[o].version < MaxVersion
    /\ to \in OrderTransitions[ord[o].status]
    /\ \E v \in 1 .. ord[o].version :
          call' = [call EXCEPT ![c] =
                     IF to = "CANCELLED" /\ ord[o].reserved
                     THEN [op |-> "list", doc |-> o, expected |-> v]
                     ELSE [op |-> "order", doc |-> o, to |-> to, expected |-> v]]
    /\ UNCHANGED <<inventory, whActive, quo, ord, counter>>

VersionIgnored(o, v) == Live(ord, o)  \* mutant: UPDATE without the version_number guard

\* The guard of the UPDATE in PostgresOrderRepository.transition.
VersionMatches(o, v) == Live(ord, o) /\ ord[o].version = v

EndOrderTransition(c) ==
    /\ call[c].op = "order"
    /\ LET o == call[c].doc IN
       IF VersionMatches(o, call[c].expected)
       THEN ord' = [ord EXCEPT ![o] = CountVersion([@ EXCEPT !.status = call[c].to])]
       ELSE UNCHANGED ord
    /\ Answer(c)
    /\ UNCHANGED <<inventory, whActive, quo, counter>>

\* Cancelling a reserved order: listReservationsBySource, also unlocked.
ListReservations(c) ==
    /\ call[c].op = "list"
    /\ LET o == call[c].doc
           open == {r \in {o} \X Items : /\ Lockable(Database, r, ord[o].branch)
                                         /\ res[r].status = "RESERVED"}
       IN  call' = [call EXCEPT ![c] = [op |-> "cancel", doc |-> o,
                                        expected |-> call[c].expected, open |-> open]]
    /\ UNCHANGED <<inventory, whActive, quo, ord, counter>>

\* releaseReservation for the reservations rs of o, one after the other.
ReleaseAll(o, rs) ==
    AllItems([i \in Items |->
        IF <<o, i>> \in rs THEN ReleaseReservation(Database, <<o, i>>, ord[o].branch)
        ELSE {Database}])

\* Release what was listed, clear reservation_status (which counts the version up)
\* and cancel, if the version then is the caller's plus one.
EndCancel(c) ==
    /\ call[c].op = "cancel"
    /\ LET o  == call[c].doc
           ds == ReleaseAll(o, call[c].open)
       IN  \/ /\ VersionMatches(o, call[c].expected)
              /\ \E d \in ds : Post(d)
              /\ ord' = [ord EXCEPT ![o] =
                    CountVersion([CountVersion([@ EXCEPT !.reserved = FALSE])
                                     EXCEPT !.status = "CANCELLED"])]
           \/ /\ ds = {} \/ ~VersionMatches(o, call[c].expected)
              /\ UNCHANGED <<inventory, ord>>
    /\ Answer(c)
    /\ UNCHANGED <<whActive, quo, counter>>

MayReserve(o) == ord[o].status = "CONFIRMED"

\* reserve: the unlocked read.
BeginReserve(c, o) ==
    /\ call[c] = Idle
    /\ Live(ord, o) /\ ord[o].version < MaxVersion
    /\ MayReserve(o)
    /\ call' = [call EXCEPT ![c] = [op |-> "reserve", doc |-> o]]
    /\ UNCHANGED <<inventory, whActive, quo, ord, counter>>

LineRequest(o, line) == [branch |-> ord[o].branch, wh |-> ord[o].wh, item |-> line.item,
                         qty |-> line.qty, src |-> o]

\* The lines of an order for one item; a line that occurs twice is one element, since the
\* second finds the reservation of the first and is answered with it.
LinesOf(o, i) == {line \in {ord[o].lines[n] : n \in DOMAIN ord[o].lines} : line.item = i}

\* reserveStock for the lines of one item; of two quantities the second one is refused.
ReserveItem(o, i) ==
    IF LinesOf(o, i) = {} THEN {Database}
    ELSE IF \E x, y \in LinesOf(o, i) : x # y THEN {}
    ELSE UNION {ReserveStock(Database, Registry, LineRequest(o, x)) : x \in LinesOf(o, i)}

\* mutant: a line that cannot be reserved is skipped
ReserveSomeLines(o) ==
    AllItems([i \in Items |-> IF ReserveItem(o, i) = {} THEN {Database} ELSE ReserveItem(o, i)])

\* reserveStock for every line, in one transaction.
ReserveLines(o) == AllItems([i \in Items |-> ReserveItem(o, i)])

\* The lines are reserved and updateReservationStatus sets RESERVED, without a look at
\* the status or the version of the order, which may have moved on since the read.
EndReserve(c) ==
    /\ call[c].op = "reserve"
    /\ LET o  == call[c].doc
           ds == ReserveLines(o)
       IN  \/ /\ \E d \in ds : Post(d)
              /\ ord' = [ord EXCEPT ![o] = CountVersion([@ EXCEPT !.reserved = TRUE])]
           \/ /\ ds = {}
              /\ UNCHANGED <<inventory, ord>>
    /\ Answer(c)
    /\ UNCHANGED <<whActive, quo, counter>>

\* A call dies (crash, lost connection, timeout): its transaction is rolled back.
Fail(c) ==
    /\ call[c] # Idle
    /\ Answer(c)
    /\ UNCHANGED <<inventory, whActive, quo, ord, counter>>

-----------------------------------------------------------------------------
(* Others at work in the inventory.  Its routes name any source, an order too. *)

InventoryUser ==
    /\ \E d \in (UNION {AddStock(Database, Registry, in, "RECEIPT") : in \in AddRequest})
             \cup (UNION {ReleaseReservation(Database, r, b) : r \in ResKey, b \in Branches})
             \cup (UNION {FulfillReservation(Database, r, b, k) :
                            r \in ResKey, b \in Branches, k \in OpKeys})
             \cup (UNION {ReserveStock(Database, Registry, in) : in \in ReserveRequest}) :
          Post(d)
    /\ UNCHANGED <<whActive, quo, ord, counter, call>>

\* updateWarehouse; one that leaves the status as it is changes nothing here.
SetWarehouse(w, active) ==
    /\ active # (w \in whActive)
    /\ whActive' = IF active THEN whActive \cup {w} ELSE whActive \ {w}
    /\ UNCHANGED <<inventory, quo, ord, counter, call>>

EndCall(c) ==
    EndQuotationTransition(c) \/ EndOrderTransition(c) \/ ListReservations(c)
        \/ EndCancel(c) \/ EndReserve(c) \/ Fail(c)

Next ==
    \/ \E q \in Quotations, b \in Branches, l \in LineChoices : CreateQuotation(q, b, l)
    \/ \E q \in Quotations, l \in LineChoices : UpdateQuotation(q, l)
    \/ \E q \in Quotations : DeleteQuotation(q)
    \/ \E o \in Orders, q \in Quotations, w \in Warehouses : CreateOrder(o, q, w)
    \/ \E o \in Orders : UpdateOrder(o) \/ DeleteOrder(o)
    \/ \E c \in Clients, q \in Quotations, to \in QuotationStatus :
          BeginQuotationTransition(c, q, to)
    \/ \E c \in Clients, o \in Orders, to \in OrderStatus : BeginOrderTransition(c, o, to)
    \/ \E c \in Clients, o \in Orders : BeginReserve(c, o)
    \/ \E c \in Clients : EndCall(c)
    \/ InventoryUser
    \/ \E w \in Warehouses, active \in BOOLEAN : SetWarehouse(w, active)

Spec == Init /\ [][Next]_vars

-----------------------------------------------------------------------------
TypeOK ==
    /\ stock \in [StockKey -> StockRow]
    /\ res \in [ResKey -> ReservationRow]
    /\ mov \in [OpKeys -> MovementRow]
    /\ quo \in [Quotations -> Quotation \cup {NoRow}]
    /\ ord \in [Orders -> Order \cup {NoRow}]
    /\ whActive \subseteq Warehouses
    /\ counter \in [{"sales_quotation", "sales_order"} -> [Branches -> Nat]]
    /\ call \in [Clients -> Call]

\* Whatever calls overlap, a committed change of an order's status is one the
\* transition table allows from the status the order really had, and an order in a
\* terminal status, or deleted, keeps it.
OrderLifecycle ==
    [][\A o \in Orders : ord[o] # NoRow =>
          /\ ord'[o] # NoRow
          /\ ord'[o].status # ord[o].status =>
                /\ ord'[o].status \in OrderTransitions[ord[o].status]
                /\ ~ord[o].deleted
          /\ ord'[o].deleted # ord[o].deleted =>
                ord[o].status = "DRAFT" /\ ord'[o].deleted]_vars

\* ADR-0026: an order comes from an accepted quotation and keeps its lines.
OrderMatchesQuotation ==
    \A o \in Orders : ord[o] # NoRow =>
        LET q == quo[ord[o].quo]
        IN  q.status = "ACCEPTED" /\ ~q.deleted /\ q.lines = ord[o].lines

\* The very commit that cancels an order whose reservation_status is RESERVED leaves
\* none of its lines reserved, although they were listed without a lock and others
\* reserve, release and fulfil for the order meanwhile.  What was reserved for an order
\* past it, through the inventory's own route, a cancellation need not know of.
CancelReleases ==
    [][\A o \in Orders :
          (ord[o] # NoRow /\ ord[o].reserved
             /\ ord[o].status # "CANCELLED" /\ ord'[o].status = "CANCELLED")
          => \A n \in DOMAIN ord[o].lines :
                res'[<<o, ord[o].lines[n].item>>].status # "RESERVED"]_vars

\* Reservation is all or nothing: an order whose reservation_status is RESERVED has a
\* reservation for every line of it, in its branch and of the line's quantity, whoever
\* reserved for some of them before.
ReservedWhole ==
    \A o \in Orders : (ord[o] # NoRow /\ ord[o].reserved) =>
        \A n \in DOMAIN ord[o].lines :
            LET row == res[<<o, ord[o].lines[n].item>>]
            IN  /\ row # NoRow /\ row.branch = ord[o].branch
                /\ row.qty = ord[o].lines[n].qty

\* The roadmap: "canceling a reserved order releases its Inventory reservations".  A
\* reservation that read the order before breaks it, and so does one that was made for
\* the order through the inventory's own route (SalesCancelRace.cfg).
CancelledHoldsNothing ==
    \A o \in Orders : (ord[o] # NoRow /\ ord[o].status = "CANCELLED")
        => \A i \in Items : res[<<o, i>>] = NoRow \/ res[<<o, i>>].status # "RESERVED"

\* ADR-0026: order numbers "are collision-safe"; the sales order and quotation
\* documents say the same of both.  A second branch breaks it (SalesNumbering.cfg).
NumbersCollisionSafe ==
    \A b \in Branches :
        /\ NumberIsFree(quo, NextNumber("sales_quotation", b))
        /\ NumberIsFree(ord, NextNumber("sales_order", b))

=============================================================================
