--------------------------- MODULE SalesOrdersProofs -------------------------
(***************************************************************************)
(* Theorems about SalesOrders, for any number of quotations, orders,       *)
(* clients, lines and versions, and for the stock that they reserve.       *)
(***************************************************************************)
EXTENDS SalesOrders, InventoryOpsProofs

\* A quotation's transition was allowed at the version its caller has, and that is
\* not one to come.
QuotationFits(c) ==
    call[c].op = "quotation" =>
        LET q == call[c].doc
        IN  /\ quo[q] # NoRow /\ call[c].expected <= quo[q].version
            /\ call[c].expected = quo[q].version =>
                  call[c].to \in QuotationTransitions[quo[q].status]

\* No line of order o is reserved that a cancellation does not know of.
KnownOpen(o, known) ==
    \A n \in DOMAIN ord[o].lines :
        LET r == <<o, ord[o].lines[n].item>>
        IN  res[r] # NoRow /\ res[r].status = "RESERVED" => r \in known

\* So was an order's; a cancellation that lists first is one of a reserved order, and
\* once it has listed it knows which lines are reserved.
OrderFits(c) ==
    call[c].op \in {"order", "list", "cancel"} =>
        LET o == call[c].doc
        IN  /\ ord[o] # NoRow /\ call[c].expected <= ord[o].version
            /\ call[c].expected = ord[o].version =>
                  CASE call[c].op = "order" ->
                          /\ call[c].to \in OrderTransitions[ord[o].status]
                          /\ call[c].to = "CANCELLED" => ~ord[o].reserved
                    [] call[c].op = "list" ->
                          "CANCELLED" \in OrderTransitions[ord[o].status] /\ ord[o].reserved
                    [] call[c].op = "cancel" ->
                          /\ "CANCELLED" \in OrderTransitions[ord[o].status]
                          /\ ord[o].reserved
                          /\ KnownOpen(o, call[c].open)

\* A reservation is made for an order that is there.
ReserveFits(c) == call[c].op = "reserve" => ord[call[c].doc] # NoRow

CallFits(c) == QuotationFits(c) /\ OrderFits(c) /\ ReserveFits(c)

\* An order has the lines of its accepted quotation, with an item each.
OrderComes(o) ==
    ord[o] # NoRow =>
        /\ LET q == quo[ord[o].quo]
           IN  q # NoRow /\ q.status = "ACCEPTED" /\ ~q.deleted /\ q.lines = ord[o].lines
        /\ \A n \in DOMAIN ord[o].lines : ord[o].lines[n].item # NoRow

\* An order that says it is reserved has a row for each of its lines (ReservedWhole).
OrderHolds(o) ==
    (ord[o] # NoRow /\ ord[o].reserved) =>
        \A n \in DOMAIN ord[o].lines :
            LET row == res[<<o, ord[o].lines[n].item>>]
            IN  /\ row # NoRow /\ row.branch = ord[o].branch
                /\ row.qty = ord[o].lines[n].qty

\* The inductive invariant.
IInv ==
    /\ TypeOK
    /\ Sound(Database)
    /\ \A c \in Clients : CallFits(c)
    /\ \A o \in Orders : OrderComes(o) /\ OrderHolds(o)

-----------------------------------------------------------------------------
(* Operations on several items.                                            *)

\* Sound results for each item are sound together: a stock row and the
\* reservations that hold it are of one item.
LEMMA TogetherSound ==
    ASSUME NEW f, \A i \in Items : Sound(f[i]) /\ f[i].mov = mov, NEW e, e = Together(f),
           mov \in [OpKeys -> MovementRow]
    PROVE  Sound(e)
<1>1. /\ \A s \in StockKey : s[2] \in Items /\ e.stock[s] = f[s[2]].stock[s]
      /\ \A r \in ResKey : r[2] \in Items /\ e.res[r] = f[r[2]].res[r]
      /\ e.mov = mov
  BY DEF Together, StockKey, ResKey
<1>2. \A i \in Items : Typed(f[i]) /\ Counted(f[i]) /\ Covered(f[i])
                       /\ IssuedOnce(f[i].res, mov)
  BY DEF Sound
<1>3. Typed(e)
  <2>1. \A s \in StockKey : f[s[2]].stock[s] \in StockRow
    BY <1>1, <1>2 DEF Typed
  <2>2. \A r \in ResKey : f[r[2]].res[r] \in ReservationRow
    BY <1>1, <1>2 DEF Typed
  <2>3. /\ e.stock = [s \in StockKey |-> f[s[2]].stock[s]]
        /\ e.res = [r \in ResKey |-> f[r[2]].res[r]]
    BY DEF Together
  <2>4. e.stock \in [StockKey -> StockRow]
    BY <2>1, <2>3
  <2>5. e.res \in [ResKey -> ReservationRow]
    BY <2>2, <2>3
  <2>6. QED
    BY <1>1, <2>4, <2>5 DEF Typed
<1>4. ASSUME NEW s \in StockKey
      PROVE  /\ e.stock[s].reserved = Held(e.res, s)
             /\ e.stock[s].onHand + Issued(e.mov, s) = Incoming(e.mov, s)
             /\ e.stock[s].reserved <= e.stock[s].onHand
  <2> DEFINE g == f[s[2]]
  <2>1. g.stock[s] = e.stock[s] /\ g.mov = mov /\ Counted(g) /\ Covered(g)
    BY <1>1, <1>2
  <2>2. ASSUME NEW r \in ResKey, r[2] = s[2] PROVE e.res[r] = g.res[r]
    BY <1>1, <2>2
  <2>3. HeldUnits(e.res, s) = HeldUnits(g.res, s)
    BY <2>2 DEF HeldUnits
  <2> HIDE DEF g
  <2>4. Held(e.res, s) = Held(g.res, s)
    BY <2>3 DEF Held
  <2>5. QED
    BY <1>1, <2>1, <2>4 DEF Counted, Covered
<1>5. IssuedOnce(e.res, mov)
  <2>1. ASSUME NEW r \in ResKey
        PROVE  (e.res[r] # NoRow /\ e.res[r].status = "FULFILLED")
                  <=> \E k \in OpKeys : IsIssueOf(mov, k, r)
    BY <1>1, <1>2 DEF IssuedOnce
  <2>2. ASSUME NEW k \in OpKeys, NEW r \in ResKey, IsIssueOf(mov, k, r)
        PROVE  mov[k].qty = e.res[r].qty /\ mov[k].stock = <<e.res[r].wh, r[2]>>
    BY <1>1, <1>2, <2>2 DEF IssuedOnce
  <2>3. ASSUME NEW k \in OpKeys, NEW l \in OpKeys, NEW r \in ResKey,
               IsIssueOf(mov, k, r), IsIssueOf(mov, l, r)
        PROVE  k = l
    BY <1>1, <1>2, <2>3 DEF IssuedOnce
  <2>4. QED
    BY <2>1, <2>2, <2>3 DEF IssuedOnce
<1>6. QED
  BY <1>1, <1>3, <1>4, <1>5 DEF Sound, Counted, Covered

\* What the operations on all items leave: each row as one of them left it.
LEMMA AllItemsSteps ==
    ASSUME Sound(Database), NEW ways,
           \A i \in Items : \A d \in ways[i] :
               Sound(d) /\ Extends(Database, d) /\ d.mov = mov,
           NEW e \in AllItems(ways)
    PROVE  /\ Sound(e) /\ Extends(Database, e)
           /\ \A i \in Items : \E d \in ways[i] :
                 \A r \in ResKey : r[2] = i => e.res[r] = d.res[r]
<1> DEFINE f == [i \in Items |-> CHOOSE d \in ways[i] : TRUE]
<1>1. e = Together(f) /\ \A i \in Items : ways[i] # {}
  BY DEF AllItems
<1>2. \A i \in Items : f[i] \in ways[i]
  BY <1>1
<1> HIDE DEF f
<1>3. \A i \in Items : Sound(f[i]) /\ Extends(Database, f[i]) /\ f[i].mov = mov
  BY <1>2
<1>4. mov \in [OpKeys -> MovementRow]
  BY DEF Sound, Typed, Database
<1>5. Sound(e)
  BY <1>1, <1>3, <1>4, TogetherSound
<1>6. \A r \in ResKey : r[2] \in Items /\ e.res[r] = f[r[2]].res[r]
  BY <1>1 DEF Together, ResKey
<1>7. \A i \in Items : \A r \in ResKey : r[2] = i => e.res[r] = f[i].res[r]
  BY <1>6
<1>8. \A r \in ResKey : ReservationStep(Database.res[r], e.res[r])
  BY <1>3, <1>6 DEF Extends
<1>9. e.mov = Database.mov
  BY <1>1 DEF Together, Database
<1>10. Extends(Database, e)
  BY <1>8, <1>9 DEF Extends, MovementStep
<1>11. QED
  BY <1>2, <1>5, <1>7, <1>10

-----------------------------------------------------------------------------
(* Rows                                                                    *)

\* y is what an UPDATE may make of the order x.
WrittenOver(x, y) ==
    /\ y \in Order /\ y.version > x.version
    /\ y.branch = x.branch /\ y.quo = x.quo /\ y.lines = x.lines

\* And with what status, reservation and deletion.
WrittenAs(x, y, status, reserved, deleted) ==
    WrittenOver(x, y) /\ y.status = status /\ y.reserved = reserved /\ y.deleted = deleted

\* The UPDATEs of an order.
LEMMA OrderWrites ==
    ASSUME NEW x \in Order, NEW s \in OrderStatus
    PROVE  /\ WrittenAs(x, CountVersion(x), x.status, x.reserved, x.deleted)
           /\ WrittenAs(x, CountVersion([x EXCEPT !.status = s]), s, x.reserved, x.deleted)
           /\ WrittenAs(x, CountVersion([x EXCEPT !.deleted = TRUE]), x.status, x.reserved, TRUE)
           /\ WrittenAs(x, CountVersion([x EXCEPT !.reserved = TRUE]), x.status, TRUE, x.deleted)
           /\ WrittenAs(x, CountVersion([CountVersion([x EXCEPT !.reserved = FALSE])
                                           EXCEPT !.status = s]), s, FALSE, x.deleted)
<1>1. ASSUME NEW y \in Order
      PROVE  /\ WrittenOver(y, CountVersion(y)) /\ CountVersion(y).status = y.status
             /\ CountVersion(y).reserved = y.reserved /\ CountVersion(y).deleted = y.deleted
  BY DEF CountVersion, Order, WrittenOver
<1>2. ASSUME NEW y \in Order
      PROVE  LET z == [y EXCEPT !.status = s]
             IN  /\ z \in Order /\ z.version = y.version /\ z.branch = y.branch
                 /\ z.quo = y.quo /\ z.lines = y.lines /\ z.status = s
                 /\ z.reserved = y.reserved /\ z.deleted = y.deleted
  BY DEF Order
<1>3. ASSUME NEW b \in BOOLEAN
      PROVE  LET z == [x EXCEPT !.reserved = b]
             IN  /\ z \in Order /\ z.version = x.version /\ z.branch = x.branch
                 /\ z.quo = x.quo /\ z.lines = x.lines /\ z.status = x.status
                 /\ z.reserved = b /\ z.deleted = x.deleted
  BY DEF Order
<1>4. LET z == [x EXCEPT !.deleted = TRUE]
      IN  /\ z \in Order /\ z.version = x.version /\ z.branch = x.branch
          /\ z.quo = x.quo /\ z.lines = x.lines /\ z.status = x.status
          /\ z.reserved = x.reserved /\ z.deleted = TRUE
  BY DEF Order
<1> DEFINE z1 == [x EXCEPT !.status = s]
           z2 == [x EXCEPT !.deleted = TRUE]
           z3 == [x EXCEPT !.reserved = TRUE]
           z4 == [x EXCEPT !.reserved = FALSE]
           z5 == CountVersion(z4)
           z6 == [z5 EXCEPT !.status = s]
<1>5. /\ z1 \in Order /\ z1.version = x.version /\ z1.branch = x.branch
      /\ z1.quo = x.quo /\ z1.lines = x.lines /\ z1.status = s
      /\ z1.reserved = x.reserved /\ z1.deleted = x.deleted
  BY <1>2
<1>6. /\ z2 \in Order /\ z2.version = x.version /\ z2.branch = x.branch
      /\ z2.quo = x.quo /\ z2.lines = x.lines /\ z2.status = x.status
      /\ z2.reserved = x.reserved /\ z2.deleted = TRUE
  BY <1>4
<1>7. /\ z3 \in Order /\ z3.version = x.version /\ z3.branch = x.branch
      /\ z3.quo = x.quo /\ z3.lines = x.lines /\ z3.status = x.status
      /\ z3.reserved = TRUE /\ z3.deleted = x.deleted
  BY <1>3
<1>8. /\ z4 \in Order /\ z4.version = x.version /\ z4.branch = x.branch
      /\ z4.quo = x.quo /\ z4.lines = x.lines /\ z4.status = x.status
      /\ z4.reserved = FALSE /\ z4.deleted = x.deleted
  BY <1>3
<1> HIDE DEF z4
<1>9. /\ WrittenOver(z4, z5) /\ z5.status = z4.status /\ z5.reserved = z4.reserved
      /\ z5.deleted = z4.deleted /\ z5 \in Order
  BY <1>1, <1>8 DEF WrittenOver
<1> HIDE DEF z5
<1>10. /\ z6 \in Order /\ z6.version = z5.version /\ z6.branch = z5.branch
       /\ z6.quo = z5.quo /\ z6.lines = z5.lines /\ z6.status = s
       /\ z6.reserved = z5.reserved /\ z6.deleted = z5.deleted
  BY <1>2, <1>9
<1> HIDE DEF z1, z2, z3, z6
<1>11. /\ WrittenOver(z1, CountVersion(z1)) /\ CountVersion(z1).status = z1.status
       /\ CountVersion(z1).reserved = z1.reserved /\ CountVersion(z1).deleted = z1.deleted
  BY <1>1, <1>5
<1>12. /\ WrittenOver(z2, CountVersion(z2)) /\ CountVersion(z2).status = z2.status
       /\ CountVersion(z2).reserved = z2.reserved /\ CountVersion(z2).deleted = z2.deleted
  BY <1>1, <1>6
<1>13. /\ WrittenOver(z3, CountVersion(z3)) /\ CountVersion(z3).status = z3.status
       /\ CountVersion(z3).reserved = z3.reserved /\ CountVersion(z3).deleted = z3.deleted
  BY <1>1, <1>7
<1>14. /\ WrittenOver(z6, CountVersion(z6)) /\ CountVersion(z6).status = z6.status
       /\ CountVersion(z6).reserved = z6.reserved /\ CountVersion(z6).deleted = z6.deleted
  BY <1>1, <1>10
<1>15. WrittenOver(x, CountVersion(z1)) /\ WrittenOver(x, CountVersion(z2))
       /\ WrittenOver(x, CountVersion(z3))
  BY <1>5, <1>6, <1>7, <1>11, <1>12, <1>13 DEF WrittenOver
<1>16. WrittenOver(x, CountVersion(z6))
  <2>1. x.version \in Nat /\ z5.version \in Nat /\ CountVersion(z6).version \in Nat
    BY <1>9, <1>14 DEF Order, WrittenOver
  <2>2. QED
    BY <1>8, <1>9, <1>10, <1>14, <2>1 DEF WrittenOver
<1>17. /\ WrittenAs(x, CountVersion(x), x.status, x.reserved, x.deleted)
       /\ WrittenAs(x, CountVersion(z1), s, x.reserved, x.deleted)
       /\ WrittenAs(x, CountVersion(z2), x.status, x.reserved, TRUE)
       /\ WrittenAs(x, CountVersion(z3), x.status, TRUE, x.deleted)
       /\ WrittenAs(x, CountVersion(z6), s, FALSE, x.deleted)
  BY <1>1, <1>5, <1>6, <1>7, <1>8, <1>9, <1>10, <1>11, <1>12, <1>13, <1>14, <1>15, <1>16
     DEF WrittenAs
<1>18. z6 = [CountVersion([x EXCEPT !.reserved = FALSE]) EXCEPT !.status = s]
  BY DEF z4, z5, z6
<1>19. QED
  BY <1>17, <1>18 DEF z1, z2, z3

\* y is what an UPDATE may make of the quotation x.
QuotedOver(x, y) == y \in Quotation /\ y.version > x.version

\* The UPDATEs of a quotation.
LEMMA QuotationWrites ==
    ASSUME NEW x \in Quotation, NEW s \in QuotationStatus, NEW l \in LineChoices
    PROVE  /\ QuotedOver(x, ReplaceItems(CountVersion(x), l))
           /\ QuotedOver(x, CountVersion([x EXCEPT !.deleted = TRUE]))
           /\ QuotedOver(x, CountVersion([x EXCEPT !.status = s]))
<1>1. ASSUME NEW y \in Quotation
      PROVE  /\ CountVersion(y) \in Quotation /\ CountVersion(y).version = y.version + 1
             /\ y.version \in Nat
  BY DEF CountVersion, Quotation
<1>2. ASSUME NEW y \in Quotation
      PROVE  ReplaceItems(y, l) \in Quotation /\ ReplaceItems(y, l).version = y.version
  BY DEF ReplaceItems, Quotation
<1>3. [x EXCEPT !.deleted = TRUE] \in Quotation
      /\ [x EXCEPT !.deleted = TRUE].version = x.version
  BY DEF Quotation
<1>4. [x EXCEPT !.status = s] \in Quotation /\ [x EXCEPT !.status = s].version = x.version
  BY DEF Quotation
<1> DEFINE z1 == CountVersion(x)
           z2 == [x EXCEPT !.deleted = TRUE]
           z3 == [x EXCEPT !.status = s]
<1>5. z1 \in Quotation /\ z1.version = x.version + 1 /\ x.version \in Nat
      /\ z2 \in Quotation /\ z2.version = x.version
      /\ z3 \in Quotation /\ z3.version = x.version
  BY <1>1, <1>3, <1>4
<1> HIDE DEF z1, z2, z3
<1>6. QuotedOver(x, ReplaceItems(z1, l)) /\ QuotedOver(x, CountVersion(z2))
      /\ QuotedOver(x, CountVersion(z3))
  BY <1>1, <1>2, <1>5 DEF QuotedOver
<1>7. QED
  BY <1>6 DEF z1, z2, z3

\* What is known of the fields of a call.
LEMMA CallFields ==
    ASSUME NEW x \in Call
    PROVE  /\ x.op = "quotation" => x.doc \in Quotations /\ x.to \in QuotationStatus
           /\ x.op = "order" => x.to \in OrderStatus
           /\ x.op \in {"order", "list", "cancel", "reserve"} => x.doc \in Orders
           /\ x.op \in {"quotation", "order", "list", "cancel"} => x.expected \in Nat
           /\ x.op = "cancel" => x.open \in SUBSET ResKey
  BY DEF Call, Idle

-----------------------------------------------------------------------------
(* What a step does to the documents, and to what is reserved for them.    *)

\* An order keeps what it was made of, and every write counts its version.
OrdersFollow ==
    \A o \in Orders : ord[o] # NoRow =>
        ord'[o] = ord[o] \/ WrittenOver(ord[o], ord'[o])

\* So does a quotation, and an accepted one is not written at all.
QuotationsFollow ==
    \A q \in Quotations : quo[q] # NoRow =>
        \/ quo'[q] = quo[q]
        \/ /\ QuotedOver(quo[q], quo'[q])
           /\ ~(quo[q].status = "ACCEPTED" /\ ~quo[q].deleted)

\* A reservation that is there keeps its branch and quantity, and never opens again.
RowStays(r) ==
    res[r] # NoRow =>
        /\ res'[r] # NoRow /\ res'[r].branch = res[r].branch /\ res'[r].qty = res[r].qty
        /\ res'[r].status = "RESERVED" => res[r].status = "RESERVED"
RowsStay == \A r \in ResKey : RowStays(r)

\* The actions' promises, for one order (OrderLifecycle, CancelReleases).
Lifecycle(o) ==
    ord[o] # NoRow =>
        /\ ord'[o] # NoRow
        /\ ord'[o].status # ord[o].status =>
              ord'[o].status \in OrderTransitions[ord[o].status] /\ ~ord[o].deleted
        /\ ord'[o].deleted # ord[o].deleted => ord[o].status = "DRAFT" /\ ord'[o].deleted
CancelFrees(o) ==
    (ord[o] # NoRow /\ ord[o].reserved
       /\ ord[o].status # "CANCELLED" /\ ord'[o].status = "CANCELLED")
    => \A n \in DOMAIN ord[o].lines :
          res'[<<o, ord[o].lines[n].item>>].status # "RESERVED"

\* And the history of the stock goes on.
Promises ==
    /\ \A o \in Orders : Lifecycle(o) /\ CancelFrees(o)
    /\ Extends(Database, Database')

\* The rows of an order's items.
LEMMA OrderKeys ==
    ASSUME NEW o \in Orders, NEW i \in Items PROVE <<o, i>> \in ResKey /\ <<o, i>>[2] = i
  BY OrdersAssumption DEF ResKey

\* The lines of an order are lines for items that exist.
LEMMA OrderLines ==
    ASSUME IInv, NEW o \in Orders, ord[o] # NoRow, NEW n \in DOMAIN ord[o].lines
    PROVE  LineRequest(o, ord[o].lines[n]) \in ReserveRequest /\ ord[o].lines[n].item \in Items
<1>1. ord[o] \in Order
  BY DEF IInv, TypeOK
<1>2. ord[o].lines \in LineChoices /\ ord[o].branch \in Branches /\ ord[o].wh \in Warehouses
  BY <1>1 DEF Order
<1>3. ord[o].lines[n] \in Line
  BY <1>2, LineChoicesAssumption
<1>4. ord[o].lines[n].item # NoRow
  BY DEF IInv, OrderComes
<1>5. ord[o].lines[n].item \in Items /\ ord[o].lines[n].qty \in Qty
  BY <1>3, <1>4 DEF Line
<1>6. QED
  BY <1>2, <1>5, OrdersAssumption DEF LineRequest, ReserveRequest

\* The key of a line's reservation.
LEMMA LineKeys ==
    ASSUME IInv, NEW o \in Orders, ord[o] # NoRow, NEW n \in DOMAIN ord[o].lines
    PROVE  <<o, ord[o].lines[n].item>> \in ResKey
  BY OrderLines, OrderKeys

\* Whatever the history of the stock goes on with, the rows there are stay.
LEMMA RowsStayed ==
    ASSUME IInv, Extends(Database, Database')
    PROVE  RowsStay
<1> SUFFICES ASSUME NEW r \in ResKey, res[r] # NoRow PROVE RowStays(r)
  BY DEF RowsStay, RowStays
<1>1. res[r] \in Reservation
  BY DEF IInv, TypeOK, ReservationRow
<1>2. ReservationStep(res[r], res'[r])
  BY DEF Extends, Database
<1>3. CASE res'[r] = res[r]
  BY <1>3 DEF RowStays
<1>4. CASE res'[r] # NoRow /\ res[r].status = "RESERVED"
           /\ res'[r] = [res[r] EXCEPT !.status = res'[r].status]
  <2> DEFINE x == [res[r] EXCEPT !.status = res'[r].status]
  <2>1. x.branch = res[r].branch /\ x.qty = res[r].qty
    BY <1>1 DEF Reservation
  <2>2. res'[r] = x
    BY <1>4
  <2> HIDE DEF x
  <2>3. QED
    BY <1>4, <2>1, <2>2 DEF RowStays
<1>5. QED
  BY <1>2, <1>3, <1>4 DEF ReservationStep

\* What a cancellation knows of a reserved order stays all there is to know.
LEMMA KnownStays ==
    ASSUME IInv, RowsStay, NEW o \in Orders, ord[o] # NoRow, ord[o].reserved,
           ord'[o] = ord[o], NEW known, KnownOpen(o, known)
    PROVE  KnownOpen(o, known)'
<1> SUFFICES ASSUME NEW n \in DOMAIN ord[o].lines,
                    res'[<<o, ord[o].lines[n].item>>] # NoRow,
                    res'[<<o, ord[o].lines[n].item>>].status = "RESERVED"
             PROVE  <<o, ord[o].lines[n].item>> \in known
  BY DEF KnownOpen
<1> DEFINE r == <<o, ord[o].lines[n].item>>
<1>1. r \in ResKey
  BY LineKeys
<1>2. res[r] # NoRow
  BY DEF IInv, OrderHolds
<1>3. KnownOpen(o, known) => (res[r] # NoRow /\ res[r].status = "RESERVED" => r \in known)
  BY DEF KnownOpen
<1> HIDE DEF r
<1>4. res'[r].status = "RESERVED"
  BY DEF r
<1>5. res[r].status = "RESERVED"
  BY <1>1, <1>2, <1>4 DEF RowsStay, RowStays
<1>6. QED
  BY <1>2, <1>3, <1>5 DEF r

\* A call that does not move while others do still fits what it has read: what it read
\* is as it was, or has another version.
LEMMA CallStands ==
    ASSUME IInv, OrdersFollow, QuotationsFollow, NEW c \in Clients, call'[c] = call[c],
           RowsStay
    PROVE  CallFits(c)'
<1>1. CallFits(c) /\ call[c] \in Call
  BY DEF IInv, TypeOK
<1>2. QuotationFits(c)'
  <2> SUFFICES ASSUME call[c].op = "quotation"
               PROVE  QuotationFits(c)'
    BY DEF QuotationFits
  <2> DEFINE q == call[c].doc
  <2>1. /\ q \in Quotations /\ call[c].expected \in Nat /\ quo[q] # NoRow
        /\ call[c].expected <= quo[q].version
        /\ call[c].expected = quo[q].version =>
              call[c].to \in QuotationTransitions[quo[q].status]
    BY <1>1, CallFields DEF CallFits, QuotationFits
  <2> HIDE DEF q
  <2>6. quo[q] \in Quotation
    BY <2>1 DEF IInv, TypeOK
  <2>2. quo[q].version \in Nat
    BY <2>6 DEF Quotation
  <2>3. CASE quo'[q] = quo[q]
    BY <2>1, <2>3 DEF QuotationFits, q
  <2>4. CASE QuotedOver(quo[q], quo'[q])
    <3>1. quo'[q] \in Quotation /\ quo'[q].version > quo[q].version
      BY <2>4 DEF QuotedOver
    <3>2. quo'[q].version \in Nat
      BY <3>1 DEF Quotation
    <3>3. quo'[q] # NoRow /\ call[c].expected <= quo'[q].version
          /\ call[c].expected # quo'[q].version
      BY <2>1, <2>2, <3>1, <3>2, NoDocumentAssumption
    <3>4. QED
      BY <3>3 DEF QuotationFits, q
  <2>5. QED
    BY <2>1, <2>3, <2>4 DEF QuotationsFollow
<1>3. OrderFits(c)'
  <2> SUFFICES ASSUME call[c].op \in {"order", "list", "cancel"} PROVE OrderFits(c)'
    BY DEF OrderFits
  <2> DEFINE o == call[c].doc
  <2>1. o \in Orders /\ call[c].expected \in Nat /\ ord[o] # NoRow
        /\ call[c].expected <= ord[o].version
    BY <1>1, CallFields DEF CallFits, OrderFits
  <2>2. ord[o].version \in Nat
    BY <2>1 DEF IInv, TypeOK, Order
  <2>3. CASE ord'[o] = ord[o]
    <3>1. PICK p \in Orders, known \in {call[c].open} : p = o /\ known = call[c].open
      BY <2>1
    <3>2. ord[p].reserved /\ KnownOpen(p, known) => KnownOpen(p, known)'
      BY <2>1, <2>3, <3>1, KnownStays
    <3>3. OrderFits(c) /\ call'[c].doc = p /\ call'[c].open = known /\ ord'[p] = ord[p]
      BY <1>1, <2>3, <3>1 DEF CallFits
    <3>4. CASE call[c].op = "cancel"
      <4>1. call[c].expected = ord[p].version =>
               "CANCELLED" \in OrderTransitions[ord[p].status] /\ ord[p].reserved
                  /\ KnownOpen(p, known)
        BY <3>1, <3>3, <3>4 DEF OrderFits
      <4>2. call'[c].expected = ord'[p].version =>
               /\ "CANCELLED" \in OrderTransitions[ord'[p].status] /\ ord'[p].reserved
               /\ \A n \in DOMAIN ord'[p].lines :
                     LET r == <<p, ord'[p].lines[n].item>>
                     IN  res'[r] # NoRow /\ res'[r].status = "RESERVED" => r \in known
        BY <3>2, <3>3, <4>1 DEF KnownOpen
      <4>3. ord'[p] # NoRow /\ call'[c].expected <= ord'[p].version /\ call'[c].op = "cancel"
        BY <2>1, <3>1, <3>3, <3>4
      <4>4. QED
        BY <3>3, <4>2, <4>3 DEF OrderFits, KnownOpen
    <3>5. CASE call[c].op = "order"
      BY <2>1, <3>1, <3>3, <3>5 DEF OrderFits
    <3>6. CASE call[c].op = "list"
      BY <2>1, <3>1, <3>3, <3>6 DEF OrderFits
    <3>7. QED
      BY <3>4, <3>5, <3>6
  <2>4. CASE WrittenOver(ord[o], ord'[o])
    <3>1. ord'[o] \in Order /\ ord'[o].version > ord[o].version
      BY <2>4 DEF WrittenOver
    <3>2. ord'[o].version \in Nat
      BY <3>1 DEF Order
    <3>3. ord'[o] # NoRow /\ call[c].expected <= ord'[o].version
          /\ call[c].expected # ord'[o].version
      BY <2>1, <2>2, <3>1, <3>2, NoDocumentAssumption
    <3>4. QED
      BY <3>3 DEF OrderFits
  <2>5. QED
    BY <2>1, <2>3, <2>4 DEF OrdersFollow
<1>4. ReserveFits(c)'
  <2> SUFFICES ASSUME call[c].op = "reserve" PROVE ord'[call[c].doc] # NoRow
    BY DEF ReserveFits
  <2>1. call[c].doc \in Orders /\ ord[call[c].doc] # NoRow
    BY <1>1, CallFields DEF CallFits, ReserveFits
  <2>2. QED
    BY <2>1, NoDocumentAssumption DEF OrdersFollow, WrittenOver
<1>5. QED
  BY <1>2, <1>3, <1>4 DEF CallFits

\* An order that is there keeps coming from its accepted quotation.
LEMMA OrderStands ==
    ASSUME IInv, OrdersFollow, QuotationsFollow, NEW o \in Orders, ord[o] # NoRow
    PROVE  OrderComes(o)'
<1>1. /\ OrderComes(o) /\ ord[o] \in Order /\ ord[o].quo \in Quotations
  BY DEF IInv, TypeOK, Order
<1>2. ord'[o].quo = ord[o].quo /\ ord'[o].lines = ord[o].lines
  BY DEF OrdersFollow, WrittenOver
<1>3. quo'[ord[o].quo] = quo[ord[o].quo]
  BY <1>1 DEF OrderComes, QuotationsFollow
<1>4. QED
  BY <1>1, <1>2, <1>3 DEF OrderComes

\* An order that was not said to be reserved just now still has what it says.
LEMMA HoldsStand ==
    ASSUME IInv, RowsStay, NEW o \in Orders,
           ord[o] = NoRow => ord'[o] = NoRow \/ ~ord'[o].reserved,
           ord[o] # NoRow => /\ ord'[o].branch = ord[o].branch
                             /\ ord'[o].lines = ord[o].lines
                             /\ ord'[o].reserved => ord[o].reserved
    PROVE  OrderHolds(o)'
<1> SUFFICES ASSUME ord[o] # NoRow, ord[o].reserved, NEW n \in DOMAIN ord[o].lines
             PROVE  LET row == res'[<<o, ord[o].lines[n].item>>]
                    IN  /\ row # NoRow /\ row.branch = ord[o].branch
                        /\ row.qty = ord[o].lines[n].qty
  BY DEF OrderHolds
<1> DEFINE r == <<o, ord[o].lines[n].item>>
<1>1. r \in ResKey
  BY LineKeys
<1>2. res[r] # NoRow /\ res[r].branch = ord[o].branch /\ res[r].qty = ord[o].lines[n].qty
  BY DEF IInv, OrderHolds
<1> HIDE DEF r
<1>3. res'[r] # NoRow /\ res'[r].branch = ord[o].branch /\ res'[r].qty = ord[o].lines[n].qty
  BY <1>1, <1>2 DEF RowsStay, RowStays
<1>4. QED
  BY <1>3 DEF r

\* The inventory as it was.
LEMMA SameInventory ==
    ASSUME IInv, UNCHANGED inventory
    PROVE  Sound(Database)' /\ Extends(Database, Database') /\ RowsStay
<1>1. stock' = stock /\ res' = res /\ mov' = mov
  BY DEF inventory
<1>2. Sound(Database)'
  BY <1>1 DEF IInv, Database
<1>3. Extends(Database, Database')
  BY <1>1, ExtendsItself DEF Database
<1>4. QED
  BY <1>2, <1>3, RowsStayed

\* A client that is answered has nothing to fit.
LEMMA Answered ==
    ASSUME TypeOK, NEW c \in Clients, Answer(c)
    PROVE  call' \in [Clients -> Call] /\ \A x \in Clients : call'[x] = call[x] \/ CallFits(x)'
<1>1. call \in [Clients -> Call] /\ Idle \in Call /\ call' = [call EXCEPT ![c] = Idle]
  BY DEF TypeOK, Call, Answer
<1>2. call' \in [Clients -> Call] /\ call'[c] = Idle
      /\ \A x \in Clients : x # c => call'[x] = call[x]
  BY <1>1
<1>3. CallFits(c)'
  BY <1>2 DEF CallFits, QuotationFits, OrderFits, ReserveFits, Idle
<1>4. QED
  BY <1>2, <1>3

-----------------------------------------------------------------------------
(* The actions, by what they write.                                        *)

\* What every step must show of the calls.
CallsFollow ==
    /\ call' \in [Clients -> Call]
    /\ \A c \in Clients : call'[c] = call[c] \/ CallFits(c)'

\* An order that is not written keeps its promises.
LEMMA Untouched ==
    ASSUME NEW o \in Orders, ord'[o] = ord[o]
    PROVE  Lifecycle(o) /\ CancelFrees(o)
  BY DEF Lifecycle, CancelFrees

\* A step that writes no order and leaves the inventory alone.
LEMMA OrdersUntouched ==
    ASSUME IInv, TypeOK', QuotationsFollow, CallsFollow, ord' = ord, UNCHANGED inventory
    PROVE  IInv' /\ Promises
<1>1. OrdersFollow
  BY DEF OrdersFollow
<1>2. Sound(Database)' /\ Extends(Database, Database') /\ RowsStay
  BY SameInventory
<1>3. \A c \in Clients : CallFits(c)'
  BY <1>1, <1>2, CallStands DEF CallsFollow
<1>4. ASSUME NEW o \in Orders PROVE OrderComes(o)' /\ OrderHolds(o)'
  <2>1. OrderHolds(o)'
    BY <1>2, HoldsStand
  <2>2. CASE ord[o] = NoRow
    BY <2>1, <2>2 DEF OrderComes
  <2>3. CASE ord[o] # NoRow
    BY <1>1, <2>1, <2>3, OrderStands
  <2>4. QED
    BY <2>2, <2>3
<1>5. Promises
  BY <1>2, Untouched DEF Promises
<1>6. QED
  BY <1>2, <1>3, <1>4, <1>5 DEF IInv

\* A step that writes one order and leaves the inventory alone.
LEMMA OrderWritten ==
    ASSUME IInv, NEW o \in Orders, ord[o] # NoRow, NEW y, WrittenOver(ord[o], y),
           y.reserved = ord[o].reserved, ord' = [ord EXCEPT ![o] = y],
           y.status # ord[o].status =>
               /\ y.status \in OrderTransitions[ord[o].status] /\ ~ord[o].deleted
               /\ y.status = "CANCELLED" => ~ord[o].reserved,
           y.deleted # ord[o].deleted => ord[o].status = "DRAFT" /\ y.deleted,
           CallsFollow, UNCHANGED <<inventory, whActive, quo, counter>>
    PROVE  IInv' /\ Promises
<1>1. ord \in [Orders -> Order \cup {NoRow}] /\ y \in Order /\ y # NoRow
  BY NoDocumentAssumption DEF IInv, TypeOK, WrittenOver
<1>2. ord'[o] = y /\ \A p \in Orders : p # o => ord'[p] = ord[p]
  BY <1>1
<1>3. OrdersFollow /\ QuotationsFollow
  BY <1>2 DEF OrdersFollow, QuotationsFollow
<1>4. Sound(Database)' /\ Extends(Database, Database') /\ RowsStay
  BY SameInventory
<1>5. TypeOK'
  BY <1>1 DEF IInv, TypeOK, CallsFollow, inventory
<1>6. \A c \in Clients : CallFits(c)'
  BY <1>3, <1>4, CallStands DEF CallsFollow
<1>7. ASSUME NEW p \in Orders PROVE OrderComes(p)' /\ OrderHolds(p)'
  <2>1. /\ ord[p] # NoRow => /\ ord'[p].branch = ord[p].branch
                             /\ ord'[p].lines = ord[p].lines
                             /\ ord'[p].reserved => ord[p].reserved
        /\ ord[p] = NoRow => ord'[p] = NoRow
    BY <1>1, <1>2 DEF WrittenOver
  <2>2. OrderHolds(p)'
    BY <1>4, <2>1, HoldsStand
  <2>3. CASE ord[p] = NoRow
    <3>1. ord'[p] = NoRow
      BY <1>2, <2>3
    <3>2. QED
      BY <2>2, <3>1 DEF OrderComes
  <2>4. CASE ord[p] # NoRow
    BY <1>3, <2>2, <2>4, OrderStands
  <2>5. QED
    BY <2>3, <2>4
<1>8. Lifecycle(o) /\ CancelFrees(o)
  <2>1. Lifecycle(o)
    BY <1>1, <1>2 DEF Lifecycle
  <2>2. CancelFrees(o)
    BY <1>2 DEF CancelFrees
  <2>3. QED
    BY <2>1, <2>2
<1>9. Promises
  BY <1>2, <1>4, <1>8, Untouched DEF Promises
<1>10. QED
  BY <1>4, <1>5, <1>6, <1>7, <1>9 DEF IInv

\* A call that begins or reads.
LEMMA CallPlaced ==
    ASSUME TypeOK, NEW c \in Clients, NEW x \in Call, call' = [call EXCEPT ![c] = x],
           CallFits(c)'
    PROVE  CallsFollow /\ call'[c] = x
  BY DEF TypeOK, CallsFollow

-----------------------------------------------------------------------------
(* Quotations.                                                             *)

\* A quotation that is written, or made.
LEMMA QuotationPut ==
    ASSUME IInv, NEW q \in Quotations, NEW y \in Quotation, quo' = [quo EXCEPT ![q] = y],
           quo[q] # NoRow => /\ QuotedOver(quo[q], y)
                             /\ ~(quo[q].status = "ACCEPTED" /\ ~quo[q].deleted),
           CallsFollow, ord' = ord, UNCHANGED <<inventory, whActive>>,
           counter' \in [{"sales_quotation", "sales_order"} -> [Branches -> Nat]]
    PROVE  IInv' /\ Promises
<1>1. quo \in [Quotations -> Quotation \cup {NoRow}]
  BY DEF IInv, TypeOK
<1>2. quo' \in [Quotations -> Quotation \cup {NoRow}]
      /\ quo'[q] = y /\ \A p \in Quotations : p # q => quo'[p] = quo[p]
  BY <1>1
<1>3. TypeOK'
  BY <1>2 DEF IInv, TypeOK, CallsFollow, inventory
<1>4. QuotationsFollow
  BY <1>2 DEF QuotationsFollow
<1>5. QED
  BY <1>3, <1>4, OrdersUntouched

\* No call moves.
LEMMA CallsAtRest == ASSUME TypeOK, call' = call PROVE CallsFollow
  BY DEF TypeOK, CallsFollow

\* A counter goes up.
LEMMA CountsUp ==
    ASSUME TypeOK, NEW type \in {"sales_quotation", "sales_order"}, NEW b \in Branches,
           CountUp(type, b)
    PROVE  /\ counter' \in [{"sales_quotation", "sales_order"} -> [Branches -> Nat]]
           /\ NextNumber(type, b) \in Nat
<1>1. counter \in [{"sales_quotation", "sales_order"} -> [Branches -> Nat]]
  BY DEF TypeOK
<1>2. counter[type] \in [Branches -> Nat] /\ counter[type][b] \in Nat
  BY <1>1
<1>3. [counter[type] EXCEPT ![b] = counter[type][b] + 1] \in [Branches -> Nat]
  BY <1>2
<1>4. counter' = [counter EXCEPT ![type] = [counter[type] EXCEPT ![b] = counter[type][b] + 1]]
  BY DEF CountUp
<1>5. QED
  BY <1>1, <1>2, <1>3, <1>4 DEF NextNumber

\* create.
LEMMA CreateQuotationKeeps ==
    ASSUME IInv, NEW q \in Quotations, NEW b \in Branches, NEW l \in LineChoices,
           CreateQuotation(q, b, l)
    PROVE  IInv' /\ Promises
<1> DEFINE n == NextNumber("sales_quotation", b)
           x == [branch |-> b, number |-> n, status |-> "DRAFT", lines |-> <<>>,
                 version |-> 1, deleted |-> FALSE]
<1>1. /\ quo[q] = NoRow /\ CountUp("sales_quotation", b)
      /\ quo' = [quo EXCEPT ![q] = ReplaceItems(x, l)]
      /\ UNCHANGED <<inventory, whActive, ord, call>>
  BY DEF CreateQuotation, InsertQuotation
<1>2. counter' \in [{"sales_quotation", "sales_order"} -> [Branches -> Nat]] /\ n \in Nat
  BY <1>1, CountsUp DEF IInv
<1> HIDE DEF n
<1>3. ReplaceItems(x, l) \in Quotation
  BY <1>2 DEF ReplaceItems, Quotation, QuotationStatus
<1> HIDE DEF x
<1>4. CallsFollow
  BY <1>1, CallsAtRest DEF IInv
<1>5. QED
  BY <1>1, <1>2, <1>3, <1>4, QuotationPut

\* A quotation that is there is a row of its table.
LEMMA QuotationThere ==
    ASSUME IInv, NEW q \in Quotations, Live(quo, q)
    PROVE  quo[q] # NoRow /\ quo[q] \in Quotation /\ ~quo[q].deleted
  BY DEF IInv, TypeOK, Live

\* update.
LEMMA UpdateQuotationKeeps ==
    ASSUME IInv, NEW q \in Quotations, NEW l \in LineChoices, UpdateQuotation(q, l)
    PROVE  IInv' /\ Promises
<1> DEFINE y == ReplaceItems(CountVersion(quo[q]), l)
<1>1. /\ Live(quo, q) /\ quo[q].status = "DRAFT" /\ quo' = [quo EXCEPT ![q] = y]
      /\ UNCHANGED <<inventory, whActive, ord, counter, call>>
  BY DEF UpdateQuotation, WriteQuotation, Editable
<1>2. quo[q] # NoRow /\ quo[q] \in Quotation
  BY <1>1, QuotationThere
<1>3. QuotedOver(quo[q], y) /\ y \in Quotation
  <2>1. "DRAFT" \in QuotationStatus
    BY DEF QuotationStatus
  <2>2. QuotedOver(quo[q], y)
    BY <1>2, <2>1, QuotationWrites
  <2>3. QED
    BY <2>2 DEF QuotedOver
<1> HIDE DEF y
<1>4. CallsFollow
  BY <1>1, CallsAtRest DEF IInv
<1>5. counter' \in [{"sales_quotation", "sales_order"} -> [Branches -> Nat]]
  BY <1>1 DEF IInv, TypeOK
<1>6. QED
  BY <1>1, <1>2, <1>3, <1>4, <1>5, QuotationPut

\* softDelete.
LEMMA DeleteQuotationKeeps ==
    ASSUME IInv, NEW q \in Quotations, DeleteQuotation(q)
    PROVE  IInv' /\ Promises
<1> DEFINE y == CountVersion([quo[q] EXCEPT !.deleted = TRUE])
<1>1. /\ Live(quo, q) /\ quo[q].status = "DRAFT" /\ quo' = [quo EXCEPT ![q] = y]
      /\ UNCHANGED <<inventory, whActive, ord, counter, call>>
  BY DEF DeleteQuotation, Editable
<1>2. quo[q] # NoRow /\ quo[q] \in Quotation
  BY <1>1, QuotationThere
<1>3. QuotedOver(quo[q], y) /\ y \in Quotation
  <2>1. QuotedOver(quo[q], y)
    <3>1. "DRAFT" \in QuotationStatus /\ quo[q].lines \in LineChoices
      BY <1>2 DEF QuotationStatus, Quotation
    <3>2. QED
      BY <1>2, <3>1, QuotationWrites
  <2>2. QED
    BY <2>1 DEF QuotedOver
<1> HIDE DEF y
<1>4. CallsFollow
  BY <1>1, CallsAtRest DEF IInv
<1>5. counter' \in [{"sales_quotation", "sales_order"} -> [Branches -> Nat]]
  BY <1>1 DEF IInv, TypeOK
<1>6. QED
  BY <1>1, <1>2, <1>3, <1>4, <1>5, QuotationPut

\* transition: the read of the quotation.
LEMMA BeginQuotationTransitionKeeps ==
    ASSUME IInv, NEW c \in Clients, NEW q \in Quotations, NEW to \in QuotationStatus,
           BeginQuotationTransition(c, q, to)
    PROVE  IInv' /\ Promises
<1>1. PICK v \in 1 .. quo[q].version :
         call' = [call EXCEPT ![c] = [op |-> "quotation", doc |-> q, to |-> to, expected |-> v]]
  BY DEF BeginQuotationTransition
<1> DEFINE x == [op |-> "quotation", doc |-> q, to |-> to, expected |-> v]
<1>2. /\ Live(quo, q) /\ to \in QuotationTransitions[quo[q].status]
      /\ UNCHANGED <<inventory, whActive, quo, ord, counter>>
  BY DEF BeginQuotationTransition
<1>3. quo[q] # NoRow /\ quo[q].version \in Nat
  BY <1>2, QuotationThere DEF Quotation
<1>4. x \in Call /\ v \in Nat /\ v <= quo[q].version
  BY <1>3 DEF Call
<1>5. call \in [Clients -> Call]
  BY DEF IInv, TypeOK
<1>6. call'[c] = x
  BY <1>1, <1>4, <1>5
<1>7. CallFits(c)'
  BY <1>2, <1>3, <1>4, <1>6 DEF CallFits, QuotationFits, OrderFits, ReserveFits
<1> HIDE DEF x
<1>8. CallsFollow
  BY <1>1, <1>4, <1>7, CallPlaced DEF IInv, x
<1>9. TypeOK' /\ QuotationsFollow
  BY <1>2, <1>8 DEF IInv, TypeOK, CallsFollow, QuotationsFollow, inventory
<1>10. QED
  BY <1>2, <1>8, <1>9, OrdersUntouched

\* transition: the guarded UPDATE.
LEMMA EndQuotationTransitionKeeps ==
    ASSUME IInv, NEW c \in Clients, EndQuotationTransition(c)
    PROVE  IInv' /\ Promises
<1> DEFINE q  == call[c].doc
           to == call[c].to
           y  == CountVersion([quo[q] EXCEPT !.status = to])
<1>1. /\ call[c].op = "quotation" /\ Answer(c)
      /\ MoveQuotation(q, to, call[c].expected)
      /\ UNCHANGED <<inventory, whActive, ord, counter>>
  BY DEF EndQuotationTransition
<1>2. CallsFollow
  BY <1>1, Answered DEF IInv, CallsFollow
<1>3. call[c] \in Call /\ CallFits(c)
  BY DEF IInv, TypeOK
<1>4. q \in Quotations /\ to \in QuotationStatus
  BY <1>1, <1>3, CallFields
<1>5. call[c].expected = quo[q].version => to \in QuotationTransitions[quo[q].status]
  BY <1>1, <1>3 DEF CallFits, QuotationFits
<1> HIDE DEF q, to
<1>6. CASE Live(quo, q) /\ quo[q].version = call[c].expected
  <2>1. quo' = [quo EXCEPT ![q] = y]
    BY <1>1, <1>6 DEF MoveQuotation
  <2>2. quo[q] # NoRow /\ quo[q] \in Quotation
    BY <1>4, <1>6, QuotationThere
  <2>3. QuotedOver(quo[q], y) /\ y \in Quotation
    <3>1. quo[q].lines \in LineChoices
      BY <2>2 DEF Quotation
    <3>2. QuotedOver(quo[q], y)
      BY <1>4, <2>2, <3>1, QuotationWrites
    <3>3. QED
      BY <3>2 DEF QuotedOver
  <2>4. quo[q].status # "ACCEPTED"
    BY <1>5, <1>6 DEF QuotationTransitions, QuotationStatus
  <2> HIDE DEF y
  <2>5. counter' \in [{"sales_quotation", "sales_order"} -> [Branches -> Nat]]
    BY <1>1 DEF IInv, TypeOK
  <2>6. QED
    BY <1>1, <1>2, <1>4, <2>1, <2>2, <2>3, <2>4, <2>5, QuotationPut
<1>7. CASE ~(Live(quo, q) /\ quo[q].version = call[c].expected)
  <2>1. quo' = quo
    BY <1>1, <1>7 DEF MoveQuotation
  <2>2. TypeOK' /\ QuotationsFollow
    BY <1>1, <1>2, <2>1 DEF IInv, TypeOK, CallsFollow, QuotationsFollow, inventory
  <2>3. QED
    BY <1>1, <1>2, <2>2, OrdersUntouched
<1>8. QED
  BY <1>6, <1>7

-----------------------------------------------------------------------------
(* Orders.                                                                 *)

\* An order that is there is a row of its table.
LEMMA OrderThere ==
    ASSUME IInv, NEW o \in Orders, Live(ord, o)
    PROVE  ord[o] # NoRow /\ ord[o] \in Order /\ ~ord[o].deleted
  BY DEF IInv, TypeOK, Live

\* create: of an accepted quotation, with its lines.
LEMMA CreateOrderKeeps ==
    ASSUME IInv, NEW o \in Orders, NEW q \in Quotations, NEW w \in Warehouses,
           CreateOrder(o, q, w)
    PROVE  IInv' /\ Promises
<1> DEFINE b == quo[q].branch
           n == NextNumber("sales_order", b)
           y == [branch |-> b, number |-> n, quo |-> q, wh |-> w,
                 lines |-> quo[q].lines, status |-> "DRAFT", reserved |-> FALSE,
                 version |-> 1, deleted |-> FALSE]
<1>1. /\ ord[o] = NoRow /\ Live(quo, q) /\ quo[q].status = "ACCEPTED"
      /\ \A k \in DOMAIN quo[q].lines : quo[q].lines[k].item # NoRow
      /\ ord' = [ord EXCEPT ![o] = y] /\ CountUp("sales_order", b)
      /\ UNCHANGED <<inventory, whActive, quo, call>>
  BY DEF CreateOrder, InsertOrder
<1>2. quo[q] # NoRow /\ quo[q] \in Quotation /\ ~quo[q].deleted
  BY <1>1, QuotationThere
<1>3. b \in Branches /\ quo[q].lines \in LineChoices
  BY <1>2 DEF Quotation
<1>4. counter' \in [{"sales_quotation", "sales_order"} -> [Branches -> Nat]] /\ n \in Nat
  BY <1>1, <1>3, CountsUp DEF IInv
<1> HIDE DEF b, n
<1>5. y \in Order
  BY <1>3, <1>4 DEF Order, OrderStatus
<1>6. y.quo = q /\ y.lines = quo[q].lines /\ ~y.reserved
  OBVIOUS
<1> HIDE DEF y
<1>7. ord \in [Orders -> Order \cup {NoRow}]
  BY DEF IInv, TypeOK
<1>8. ord'[o] = y /\ \A p \in Orders : p # o => ord'[p] = ord[p]
  BY <1>1, <1>7
<1>9. ord' \in [Orders -> Order \cup {NoRow}]
  BY <1>1, <1>5, <1>7
<1>10. OrdersFollow /\ QuotationsFollow
  BY <1>1, <1>8 DEF OrdersFollow, QuotationsFollow
<1>11. Sound(Database)' /\ Extends(Database, Database') /\ RowsStay
  BY <1>1, SameInventory
<1>12. CallsFollow
  BY <1>1, CallsAtRest DEF IInv
<1>13. TypeOK'
  BY <1>1, <1>4, <1>9, <1>12 DEF IInv, TypeOK, CallsFollow, inventory
<1>14. \A c \in Clients : CallFits(c)'
  BY <1>10, <1>11, <1>12, CallStands DEF CallsFollow
<1>15. ASSUME NEW p \in Orders PROVE OrderComes(p)' /\ OrderHolds(p)'
  <2>1. CASE p = o
    <3>1. OrderComes(o)'
      BY <1>1, <1>2, <1>6, <1>8 DEF OrderComes
    <3>2. OrderHolds(o)'
      BY <1>1, <1>6, <1>8, <1>11, HoldsStand
    <3>3. QED
      BY <2>1, <3>1, <3>2
  <2>2. CASE p # o
    <3>1. ord'[p] = ord[p]
      BY <1>8, <2>2
    <3>2. OrderHolds(p)'
      BY <1>11, <3>1, HoldsStand
    <3>3. CASE ord[p] = NoRow
      BY <3>1, <3>2, <3>3 DEF OrderComes
    <3>4. CASE ord[p] # NoRow
      BY <1>10, <3>2, <3>4, OrderStands
    <3>5. QED
      BY <3>3, <3>4
  <2>3. QED
    BY <2>1, <2>2
<1>16. Promises
  <2>1. Lifecycle(o) /\ CancelFrees(o)
    BY <1>1 DEF Lifecycle, CancelFrees
  <2>2. QED
    BY <1>8, <1>11, <2>1, Untouched DEF Promises
<1>17. QED
  BY <1>11, <1>13, <1>14, <1>15, <1>16 DEF IInv

\* update.
LEMMA UpdateOrderKeeps ==
    ASSUME IInv, NEW o \in Orders, UpdateOrder(o)
    PROVE  IInv' /\ Promises
<1> DEFINE y == CountVersion(ord[o])
<1>1. /\ Live(ord, o) /\ ord' = [ord EXCEPT ![o] = y]
      /\ UNCHANGED <<inventory, whActive, quo, counter, call>>
  BY DEF UpdateOrder, WriteOrder
<1>2. ord[o] # NoRow /\ ord[o] \in Order
  BY <1>1, OrderThere
<1>3. WrittenAs(ord[o], y, ord[o].status, ord[o].reserved, ord[o].deleted)
  <2>1. "DRAFT" \in OrderStatus
    BY DEF OrderStatus
  <2>2. QED
    BY <1>2, <2>1, OrderWrites
<1> HIDE DEF y
<1>4. CallsFollow
  BY <1>1, CallsAtRest DEF IInv
<1>5. QED
  BY <1>1, <1>2, <1>3, <1>4, OrderWritten DEF WrittenAs

\* softDelete.
LEMMA DeleteOrderKeeps ==
    ASSUME IInv, NEW o \in Orders, DeleteOrder(o)
    PROVE  IInv' /\ Promises
<1> DEFINE y == CountVersion([ord[o] EXCEPT !.deleted = TRUE])
<1>1. /\ Live(ord, o) /\ ord[o].status = "DRAFT" /\ ord' = [ord EXCEPT ![o] = y]
      /\ UNCHANGED <<inventory, whActive, quo, counter, call>>
  BY DEF DeleteOrder
<1>2. ord[o] # NoRow /\ ord[o] \in Order
  BY <1>1, OrderThere
<1>3. WrittenAs(ord[o], y, ord[o].status, ord[o].reserved, TRUE)
  <2>1. "DRAFT" \in OrderStatus
    BY DEF OrderStatus
  <2>2. QED
    BY <1>2, <2>1, OrderWrites
<1> HIDE DEF y
<1>4. CallsFollow
  BY <1>1, CallsAtRest DEF IInv
<1>5. QED
  BY <1>1, <1>2, <1>3, <1>4, OrderWritten DEF WrittenAs

\* A call on an order is placed and nothing else is written.
LEMMA OrderRead ==
    ASSUME IInv, NEW c \in Clients, NEW x \in Call, call' = [call EXCEPT ![c] = x],
           CallFits(c)', UNCHANGED <<inventory, whActive, quo, ord, counter>>
    PROVE  IInv' /\ Promises
<1>1. CallsFollow
  BY CallPlaced DEF IInv
<1>2. TypeOK' /\ QuotationsFollow
  BY <1>1 DEF IInv, TypeOK, CallsFollow, QuotationsFollow, inventory
<1>3. QED
  BY <1>1, <1>2, OrdersUntouched

\* transition: the read of the order.
LEMMA BeginOrderTransitionKeeps ==
    ASSUME IInv, NEW c \in Clients, NEW o \in Orders, NEW to \in OrderStatus,
           BeginOrderTransition(c, o, to)
    PROVE  IInv' /\ Promises
<1> DEFINE x(v) == IF to = "CANCELLED" /\ ord[o].reserved
                   THEN [op |-> "list", doc |-> o, expected |-> v]
                   ELSE [op |-> "order", doc |-> o, to |-> to, expected |-> v]
<1>1. PICK v \in 1 .. ord[o].version : call' = [call EXCEPT ![c] = x(v)]
  BY DEF BeginOrderTransition
<1>2. /\ Live(ord, o) /\ to \in OrderTransitions[ord[o].status]
      /\ UNCHANGED <<inventory, whActive, quo, ord, counter>>
  BY DEF BeginOrderTransition
<1>3. ord[o] # NoRow /\ ord[o].version \in Nat
  BY <1>2, OrderThere DEF Order
<1>4. v \in Nat /\ v <= ord[o].version
  BY <1>3
<1>5. x(v) \in Call
  BY <1>4 DEF Call
<1>6. call \in [Clients -> Call]
  BY DEF IInv, TypeOK
<1>7. call'[c] = x(v)
  BY <1>1, <1>5, <1>6
<1>8. CallFits(c)'
  <2>1. CASE to = "CANCELLED" /\ ord[o].reserved
    <3>1. call'[c] = [op |-> "list", doc |-> o, expected |-> v]
      BY <1>7, <2>1
    <3>2. QED
      BY <1>2, <1>3, <1>4, <2>1, <3>1 DEF CallFits, QuotationFits, OrderFits, ReserveFits
  <2>2. CASE ~(to = "CANCELLED" /\ ord[o].reserved)
    <3>1. call'[c] = [op |-> "order", doc |-> o, to |-> to, expected |-> v]
      BY <1>7, <2>2
    <3>2. QED
      BY <1>2, <1>3, <1>4, <2>2, <3>1 DEF CallFits, QuotationFits, OrderFits, ReserveFits
  <2>3. QED
    BY <2>1, <2>2
<1> HIDE DEF x
<1>9. QED
  BY <1>1, <1>2, <1>5, <1>8, OrderRead

\* transition: the guarded UPDATE.
LEMMA EndOrderTransitionKeeps ==
    ASSUME IInv, NEW c \in Clients, EndOrderTransition(c)
    PROVE  IInv' /\ Promises
<1> DEFINE o  == call[c].doc
           to == call[c].to
           y  == CountVersion([ord[o] EXCEPT !.status = to])
<1>1. /\ call[c].op = "order" /\ Answer(c)
      /\ IF VersionMatches(o, call[c].expected)
         THEN ord' = [ord EXCEPT ![o] = y] ELSE UNCHANGED ord
      /\ UNCHANGED <<inventory, whActive, quo, counter>>
  BY DEF EndOrderTransition
<1>2. CallsFollow
  BY <1>1, Answered DEF IInv, CallsFollow
<1>3. call[c] \in Call /\ CallFits(c)
  BY DEF IInv, TypeOK
<1>4. o \in Orders /\ to \in OrderStatus
  BY <1>1, <1>3, CallFields
<1>5. call[c].expected = ord[o].version =>
         to \in OrderTransitions[ord[o].status] /\ (to = "CANCELLED" => ~ord[o].reserved)
  BY <1>1, <1>3 DEF CallFits, OrderFits
<1> HIDE DEF o, to
<1>6. CASE VersionMatches(o, call[c].expected)
  <2>1. /\ Live(ord, o) /\ to \in OrderTransitions[ord[o].status]
        /\ to = "CANCELLED" => ~ord[o].reserved
    BY <1>5, <1>6 DEF VersionMatches
  <2>2. ord[o] # NoRow /\ ord[o] \in Order /\ ~ord[o].deleted
    BY <1>4, <2>1, OrderThere
  <2>3. WrittenAs(ord[o], y, to, ord[o].reserved, ord[o].deleted)
    BY <1>4, <2>2, OrderWrites
  <2>4. ord' = [ord EXCEPT ![o] = y]
    BY <1>1, <1>6
  <2> HIDE DEF y
  <2>5. QED
    BY <1>1, <1>2, <1>4, <2>1, <2>2, <2>3, <2>4, OrderWritten DEF WrittenAs
<1>7. CASE ~VersionMatches(o, call[c].expected)
  <2>1. ord' = ord
    BY <1>1, <1>7
  <2>2. TypeOK' /\ QuotationsFollow
    BY <1>1, <1>2, <2>1 DEF IInv, TypeOK, CallsFollow, QuotationsFollow, inventory
  <2>3. QED
    BY <1>1, <1>2, <2>1, <2>2, OrdersUntouched
<1>8. QED
  BY <1>6, <1>7

\* The reservations of the order are listed.
LEMMA ListReservationsKeeps ==
    ASSUME IInv, NEW c \in Clients, ListReservations(c)
    PROVE  IInv' /\ Promises
<1> DEFINE o    == call[c].doc
           v    == call[c].expected
           open == {r \in {o} \X Items : /\ Lockable(Database, r, ord[o].branch)
                                         /\ res[r].status = "RESERVED"}
           x    == [op |-> "cancel", doc |-> o, expected |-> v, open |-> open]
<1>1. /\ call[c].op = "list" /\ call' = [call EXCEPT ![c] = x]
      /\ UNCHANGED <<inventory, whActive, quo, ord, counter>>
  BY DEF ListReservations
<1>2. call[c] \in Call /\ CallFits(c) /\ call \in [Clients -> Call]
  BY DEF IInv, TypeOK
<1>3. o \in Orders /\ v \in Nat
  BY <1>1, <1>2, CallFields
<1>4. /\ ord[o] # NoRow /\ v <= ord[o].version
      /\ v = ord[o].version =>
            "CANCELLED" \in OrderTransitions[ord[o].status] /\ ord[o].reserved
  BY <1>1, <1>2 DEF CallFits, OrderFits
<1> HIDE DEF o, v
<1>5. open \in SUBSET ResKey
  BY <1>3, OrdersAssumption DEF ResKey
<1>6. ord[o].reserved => KnownOpen(o, open)
  <2> SUFFICES ASSUME ord[o].reserved, NEW n \in DOMAIN ord[o].lines,
                      res[<<o, ord[o].lines[n].item>>] # NoRow,
                      res[<<o, ord[o].lines[n].item>>].status = "RESERVED"
               PROVE  <<o, ord[o].lines[n].item>> \in open
    BY DEF KnownOpen
  <2>1. res[<<o, ord[o].lines[n].item>>].branch = ord[o].branch
    BY <1>3, <1>4 DEF IInv, OrderHolds
  <2>2. ord[o].lines[n].item \in Items
    BY <1>3, <1>4, OrderLines
  <2>3. QED
    BY <2>1, <2>2 DEF Lockable, Database
<1> HIDE DEF open
<1>7. x \in Call
  BY <1>3, <1>5 DEF Call
<1>8. call'[c] = x
  BY <1>1, <1>2, <1>7
<1>9. ord[o].reserved =>
         \A n \in DOMAIN ord'[o].lines :
             LET r == <<o, ord'[o].lines[n].item>>
             IN  res'[r] # NoRow /\ res'[r].status = "RESERVED" => r \in open
  BY <1>1, <1>6 DEF KnownOpen, inventory
<1>10. CallFits(c)'
  <2>1. QuotationFits(c)' /\ ReserveFits(c)'
    BY <1>8 DEF QuotationFits, ReserveFits
  <2>2. OrderFits(c)'
    <3>1. /\ call'[c].op = "cancel" /\ call'[c].doc = o /\ call'[c].expected = v
          /\ call'[c].open = open /\ ord' = ord
      BY <1>1, <1>8
    <3>2. QED
      BY <1>4, <1>9, <3>1 DEF OrderFits, KnownOpen
  <2>3. QED
    BY <2>1, <2>2 DEF CallFits
<1> HIDE DEF x
<1>11. QED
  BY <1>1, <1>7, <1>10, OrderRead

\* reserve: the read of the order.
LEMMA BeginReserveKeeps ==
    ASSUME IInv, NEW c \in Clients, NEW o \in Orders, BeginReserve(c, o)
    PROVE  IInv' /\ Promises
<1> DEFINE x == [op |-> "reserve", doc |-> o]
<1>1. /\ Live(ord, o) /\ call' = [call EXCEPT ![c] = x]
      /\ UNCHANGED <<inventory, whActive, quo, ord, counter>>
  BY DEF BeginReserve
<1>2. ord[o] # NoRow /\ call \in [Clients -> Call]
  BY <1>1, OrderThere DEF IInv, TypeOK
<1>3. x \in Call
  BY DEF Call
<1>4. call'[c] = x
  BY <1>1, <1>2
<1>5. CallFits(c)'
  BY <1>1, <1>2, <1>4 DEF CallFits, QuotationFits, OrderFits, ReserveFits
<1> HIDE DEF x
<1>6. QED
  BY <1>1, <1>3, <1>5, OrderRead

\* A call that dies, or is refused.
LEMMA AnswerKeeps ==
    ASSUME IInv, NEW c \in Clients, Answer(c),
           UNCHANGED <<inventory, whActive, quo, ord, counter>>
    PROVE  IInv' /\ Promises
<1>1. CallsFollow
  BY Answered DEF IInv, CallsFollow
<1>2. TypeOK' /\ QuotationsFollow
  BY <1>1 DEF IInv, TypeOK, CallsFollow, QuotationsFollow, inventory
<1>3. QED
  BY <1>1, <1>2, OrdersUntouched

\* Warehouses open and close.
LEMMA SetWarehouseKeeps ==
    ASSUME IInv, NEW w \in Warehouses, NEW active \in BOOLEAN, SetWarehouse(w, active)
    PROVE  IInv' /\ Promises
<1>1. UNCHANGED <<inventory, quo, ord, counter, call>> /\ whActive' \subseteq Warehouses
  BY DEF SetWarehouse, IInv, TypeOK
<1>2. CallsFollow
  BY <1>1, CallsAtRest DEF IInv
<1>3. TypeOK' /\ QuotationsFollow
  BY <1>1, <1>2 DEF IInv, TypeOK, CallsFollow, QuotationsFollow, inventory
<1>4. QED
  BY <1>1, <1>2, <1>3, OrdersUntouched

-----------------------------------------------------------------------------
(* Steps that change the stock.                                            *)

\* What is posted goes on from what was there.
LEMMA Posted ==
    ASSUME IInv, NEW d, Sound(d), Extends(Database, d), Post(d)
    PROVE  /\ Sound(Database)' /\ Extends(Database, Database') /\ RowsStay
           /\ stock' \in [StockKey -> StockRow]
           /\ res' \in [ResKey -> ReservationRow] /\ mov' \in [OpKeys -> MovementRow]
<1>1. stock' = d.stock /\ res' = d.res /\ mov' = d.mov
  BY DEF Post
<1>2. Sound(Database')
  BY <1>1, SoundTables DEF Database
<1>3. Extends(Database, Database')
  BY <1>1 DEF Extends, Database
<1>4. /\ stock' \in [StockKey -> StockRow] /\ res' \in [ResKey -> ReservationRow]
      /\ mov' \in [OpKeys -> MovementRow]
  BY <1>1 DEF Sound, Typed
<1>5. QED
  BY <1>2, <1>3, <1>4, RowsStayed

\* Whatever others do in the inventory, for an order too, it goes on from what was there.
LEMMA InventoryUserKeeps ==
    ASSUME IInv, InventoryUser
    PROVE  IInv' /\ Promises
<1>1. PICK d \in (UNION {AddStock(Database, Registry, in, "RECEIPT") : in \in AddRequest})
             \cup (UNION {ReleaseReservation(Database, r, b) : r \in ResKey, b \in Branches})
             \cup (UNION {FulfillReservation(Database, r, b, k) :
                            r \in ResKey, b \in Branches, k \in OpKeys})
             \cup (UNION {ReserveStock(Database, Registry, in) : in \in ReserveRequest}) :
        Post(d)
  BY DEF InventoryUser
<1>2. UNCHANGED <<whActive, quo, ord, counter, call>>
  BY DEF InventoryUser
<1>3. Sound(Database)
  BY DEF IInv
<1>4. Sound(d) /\ Extends(Database, d)
  <2>1. ASSUME NEW in \in AddRequest, d \in AddStock(Database, Registry, in, "RECEIPT")
        PROVE  Sound(d) /\ Extends(Database, d)
    BY <1>3, <2>1, AddSteps
  <2>2. ASSUME NEW r \in ResKey, NEW b \in Branches, d \in ReleaseReservation(Database, r, b)
        PROVE  Sound(d) /\ Extends(Database, d)
    BY <1>3, <2>2, ReleaseSteps
  <2>3. ASSUME NEW r \in ResKey, NEW b \in Branches, NEW k \in OpKeys,
               d \in FulfillReservation(Database, r, b, k)
        PROVE  Sound(d) /\ Extends(Database, d)
    BY <1>3, <2>3, FulfillSteps
  <2>4. ASSUME NEW in \in ReserveRequest, d \in ReserveStock(Database, Registry, in)
        PROVE  Sound(d) /\ Extends(Database, d)
    BY <1>3, <2>4, ReserveSteps
  <2>5. QED
    BY <1>1, <2>1, <2>2, <2>3, <2>4
<1>5. Sound(Database)' /\ Extends(Database, Database') /\ RowsStay
  BY <1>1, <1>4, Posted
<1>6. TypeOK' /\ CallsFollow
  <2>1. CallsFollow
    BY <1>2, CallsAtRest DEF IInv
  <2>2. QED
    BY <1>1, <1>2, <1>4, <2>1, Posted DEF IInv, TypeOK, CallsFollow
<1>7. OrdersFollow /\ QuotationsFollow
  BY <1>2 DEF OrdersFollow, QuotationsFollow
<1>8. \A c \in Clients : CallFits(c)'
  BY <1>5, <1>6, <1>7, CallStands DEF CallsFollow
<1>9. ASSUME NEW o \in Orders PROVE OrderComes(o)' /\ OrderHolds(o)'
  <2>1. OrderHolds(o)'
    BY <1>2, <1>5, HoldsStand
  <2>2. OrderComes(o)'
    BY <1>2 DEF IInv, OrderComes
  <2>3. QED
    BY <2>1, <2>2
<1>10. Promises
  BY <1>2, <1>5, Untouched DEF Promises
<1>11. QED
  BY <1>5, <1>6, <1>8, <1>9, <1>10 DEF IInv

\* A step that posts to the stock and writes the order it posts for.
LEMMA OrderPosted ==
    ASSUME IInv, NEW o \in Orders, ord[o] # NoRow, NEW y, WrittenOver(ord[o], y),
           ord' = [ord EXCEPT ![o] = y],
           NEW d, Sound(d), Extends(Database, d), Post(d),
           OrderHolds(o)', Lifecycle(o), CancelFrees(o),
           CallsFollow, UNCHANGED <<whActive, quo, counter>>
    PROVE  IInv' /\ Promises
<1>1. ord \in [Orders -> Order \cup {NoRow}] /\ y \in Order
  BY DEF IInv, TypeOK, WrittenOver
<1>2. ord'[o] = y /\ \A p \in Orders : p # o => ord'[p] = ord[p]
  BY <1>1
<1>3. ord' \in [Orders -> Order \cup {NoRow}]
  BY <1>1
<1>4. OrdersFollow /\ QuotationsFollow
  BY <1>2 DEF OrdersFollow, QuotationsFollow
<1>6. RowsStay
  BY Posted
<1>7. Sound(Database)' /\ TypeOK'
  BY <1>3, Posted DEF IInv, TypeOK, CallsFollow
<1>8. \A c \in Clients : CallFits(c)'
  BY <1>4, <1>6, CallStands DEF CallsFollow
<1>9. ASSUME NEW p \in Orders PROVE OrderComes(p)' /\ OrderHolds(p)'
  <2>1. OrderHolds(p)'
    <3>1. CASE p = o
      BY <3>1
    <3>2. CASE p # o
      BY <1>2, <1>6, <3>2, HoldsStand
    <3>3. QED
      BY <3>1, <3>2
  <2>2. CASE ord[p] = NoRow
    BY <1>2, <2>1, <2>2 DEF OrderComes
  <2>3. CASE ord[p] # NoRow
    BY <1>4, <2>1, <2>3, OrderStands
  <2>4. QED
    BY <2>2, <2>3
<1>10. Promises
  <2>1. Extends(Database, Database')
    BY Posted
  <2>2. QED
    BY <1>2, <2>1, Untouched DEF Promises
<1>11. QED
  BY <1>7, <1>8, <1>9, <1>10 DEF IInv

\* The releases of a cancellation: no line stays reserved when it knew of all that were.
LEMMA ReleaseAllSteps ==
    ASSUME IInv, NEW o \in Orders, ord[o] # NoRow, ord[o].reserved,
           NEW rs, KnownOpen(o, rs), NEW e \in ReleaseAll(o, rs)
    PROVE  /\ Sound(e) /\ Extends(Database, e)
           /\ \A n \in DOMAIN ord[o].lines :
                 e.res[<<o, ord[o].lines[n].item>>].status # "RESERVED"
<1> DEFINE b       == ord[o].branch
           ways(i) == IF <<o, i>> \in rs THEN ReleaseReservation(Database, <<o, i>>, b)
                      ELSE {Database}
<1>1. Sound(Database) /\ Database.res = res /\ Database.mov = mov
  BY DEF IInv, Database
<1>2. ASSUME NEW i \in Items, NEW d \in ways(i)
      PROVE  /\ Sound(d) /\ Extends(Database, d) /\ d.mov = mov
             /\ (res[<<o, i>>].status = "RESERVED" => <<o, i>> \in rs) =>
                   d.res[<<o, i>>].status # "RESERVED"
  <2> DEFINE k == <<o, i>>
  <2>1. k \in ResKey
    BY OrderKeys
  <2>2. CASE k \in rs
    <3>1. d \in ReleaseReservation(Database, k, b)
      BY <2>2
    <3> HIDE DEF k, b
    <3>2. Sound(d) /\ Extends(Database, d)
      BY <1>1, <2>1, <3>1, ReleaseSteps
    <3>3. d.mov = Database.mov /\ d.res[k].status # "RESERVED"
      BY <1>1, <2>1, <3>1, ReleaseDoes
    <3>4. QED
      BY <1>1, <3>2, <3>3 DEF k
  <2>3. CASE k \notin rs
    <3>1. d = Database
      BY <2>3
    <3>2. QED
      BY <1>1, <2>3, <3>1, ExtendsItself
  <2>4. QED
    BY <2>2, <2>3
<1> DEFINE all == [i \in Items |-> ways(i)]
<1>3. e \in AllItems(all)
  BY DEF ReleaseAll
<1>4. \A i \in Items : all[i] = ways(i)
  OBVIOUS
<1> HIDE DEF ways
<1>9. \A i \in Items : \A d \in all[i] : Sound(d) /\ Extends(Database, d) /\ d.mov = mov
  BY <1>2, <1>4
<1> HIDE DEF all
<1>5. /\ Sound(e) /\ Extends(Database, e)
      /\ \A i \in Items : \E d \in all[i] :
            \A r \in ResKey : r[2] = i => e.res[r] = d.res[r]
  BY <1>1, <1>3, <1>9, AllItemsSteps
<1>6. ASSUME NEW n \in DOMAIN ord[o].lines
      PROVE  e.res[<<o, ord[o].lines[n].item>>].status # "RESERVED"
  <2> DEFINE i == ord[o].lines[n].item
  <2>1. i \in Items /\ res[<<o, i>>] # NoRow
    BY OrderLines DEF IInv, OrderHolds
  <2>2. res[<<o, i>>].status = "RESERVED" => <<o, i>> \in rs
    BY <2>1 DEF KnownOpen
  <2> HIDE DEF i
  <2>3. PICK d \in ways(i) : e.res[<<o, i>>] = d.res[<<o, i>>]
    BY <1>4, <1>5, <2>1, OrderKeys
  <2>4. QED
    BY <1>2, <2>1, <2>2, <2>3 DEF i
<1>7. QED
  BY <1>5, <1>6

\* The reservations of a reserve call: for every line its own, in the order's branch.
LEMMA ReserveLinesSteps ==
    ASSUME IInv, NEW o \in Orders, ord[o] # NoRow, NEW e \in ReserveLines(o)
    PROVE  /\ Sound(e) /\ Extends(Database, e)
           /\ \A n \in DOMAIN ord[o].lines :
                 LET row == e.res[<<o, ord[o].lines[n].item>>]
                 IN  /\ row # NoRow /\ row.branch = ord[o].branch
                     /\ row.qty = ord[o].lines[n].qty
<1>1. Sound(Database) /\ Database.res = res /\ Database.mov = mov
  BY DEF IInv, Database
<1>2. ASSUME NEW i \in Items, NEW d \in ReserveItem(o, i), LinesOf(o, i) = {}
      PROVE  d = Database
  BY <1>2 DEF ReserveItem
<1>3. ASSUME NEW i \in Items, NEW d \in ReserveItem(o, i), NEW x \in LinesOf(o, i)
      PROVE  /\ Sound(d) /\ Extends(Database, d) /\ d.mov = mov
             /\ d.res[<<o, i>>] # NoRow /\ d.res[<<o, i>>].branch = ord[o].branch
             /\ d.res[<<o, i>>].qty = x.qty
  <2>1. ~\E y, z \in LinesOf(o, i) : y # z
    BY <1>3 DEF ReserveItem
  <2>2. PICK y \in LinesOf(o, i) : d \in ReserveStock(Database, Registry, LineRequest(o, y))
    BY <1>3, <2>1 DEF ReserveItem
  <2>3. d \in ReserveStock(Database, Registry, LineRequest(o, x))
    BY <2>1, <2>2
  <2>4. x.item = i /\ LineRequest(o, x) \in ReserveRequest
    BY <1>3, OrderLines DEF LinesOf
  <2> DEFINE in == LineRequest(o, x)
             k  == <<o, i>>
  <2>5. /\ in \in ReserveRequest /\ d \in ReserveStock(Database, Registry, in)
        /\ k = <<in.src, in.item>> /\ in.branch = ord[o].branch /\ in.qty = x.qty
    BY <2>3, <2>4 DEF LineRequest
  <2> HIDE DEF in, k
  <2>6. Sound(d) /\ Extends(Database, d)
    BY <1>1, <2>5, ReserveSteps
  <2>7. /\ d.mov = Database.mov
        /\ d.res[k] # NoRow /\ d.res[k].branch = in.branch /\ d.res[k].qty = in.qty
    BY <1>1, <2>5, ReserveDoes
  <2>8. QED
    BY <1>1, <2>5, <2>6, <2>7 DEF k
<1>4. ASSUME NEW i \in Items, NEW d \in ReserveItem(o, i)
      PROVE  Sound(d) /\ Extends(Database, d) /\ d.mov = mov
  <2>1. CASE LinesOf(o, i) = {}
    BY <1>1, <1>2, <1>4, <2>1, ExtendsItself
  <2>2. CASE LinesOf(o, i) # {}
    <3>1. PICK x : x \in LinesOf(o, i)
      BY <2>2
    <3>2. QED
      BY <1>3, <1>4, <3>1
  <2>3. QED
    BY <2>1, <2>2
<1> DEFINE all == [i \in Items |-> ReserveItem(o, i)]
<1>5. e \in AllItems(all)
  BY DEF ReserveLines
<1>6. \A i \in Items : all[i] = ReserveItem(o, i)
  OBVIOUS
<1> HIDE DEF all
<1>7. /\ Sound(e) /\ Extends(Database, e)
      /\ \A i \in Items : \E d \in all[i] :
            \A r \in ResKey : r[2] = i => e.res[r] = d.res[r]
  BY <1>1, <1>4, <1>5, <1>6, AllItemsSteps
<1>8. ASSUME NEW n \in DOMAIN ord[o].lines
       PROVE  LET row == e.res[<<o, ord[o].lines[n].item>>]
              IN  /\ row # NoRow /\ row.branch = ord[o].branch
                  /\ row.qty = ord[o].lines[n].qty
  <2> DEFINE x == ord[o].lines[n]
             i == x.item
  <2>1. i \in Items /\ x \in LinesOf(o, i)
    BY OrderLines DEF LinesOf
  <2> HIDE DEF x, i
  <2>2. PICK d \in ReserveItem(o, i) : e.res[<<o, i>>] = d.res[<<o, i>>]
    BY <1>6, <1>7, <2>1, OrderKeys
  <2>3. d.res[<<o, i>>] # NoRow /\ d.res[<<o, i>>].branch = ord[o].branch
        /\ d.res[<<o, i>>].qty = x.qty
    BY <1>3, <2>1, <2>2
  <2>4. QED
    BY <2>2, <2>3 DEF x, i
<1>9. QED
  BY <1>7, <1>8

\* A cancellation releases what it listed; when the version is still its caller's,
\* that is every line still reserved.
LEMMA EndCancelKeeps ==
    ASSUME IInv, NEW c \in Clients, EndCancel(c)
    PROVE  IInv' /\ Promises
<1>1. call[c].op = "cancel" /\ Answer(c) /\ UNCHANGED <<whActive, quo, counter>>
  BY DEF EndCancel
<1>2. CallsFollow
  BY <1>1, Answered DEF IInv, CallsFollow
<1>3. call[c] \in Call /\ CallFits(c)
  BY DEF IInv, TypeOK
<1>4. PICK o \in Orders : o = call[c].doc
  BY <1>1, <1>3, CallFields
<1>5. call[c].expected = ord[o].version =>
         /\ "CANCELLED" \in OrderTransitions[ord[o].status] /\ ord[o].reserved
         /\ KnownOpen(o, call[c].open)
  BY <1>1, <1>3, <1>4 DEF CallFits, OrderFits
<1> DEFINE y == CountVersion([CountVersion([ord[o] EXCEPT !.reserved = FALSE])
                                EXCEPT !.status = "CANCELLED"])
<1>9. \/ /\ VersionMatches(o, call[c].expected)
         /\ \E d \in ReleaseAll(o, call[c].open) : Post(d)
         /\ ord' = [ord EXCEPT ![o] = y]
      \/ UNCHANGED <<inventory, ord>>
  BY <1>4 DEF EndCancel
<1>6. CASE UNCHANGED <<inventory, ord>>
  BY <1>1, <1>6, AnswerKeeps
<1>7. ASSUME VersionMatches(o, call[c].expected), NEW d \in ReleaseAll(o, call[c].open), Post(d),
             ord' = [ord EXCEPT ![o] = y]
      PROVE  IInv' /\ Promises
  <2>1. /\ Live(ord, o) /\ "CANCELLED" \in OrderTransitions[ord[o].status]
        /\ ord[o].reserved /\ KnownOpen(o, call[c].open)
    BY <1>5, <1>7 DEF VersionMatches
  <2>2. ord[o] # NoRow /\ ord[o] \in Order /\ ~ord[o].deleted
    BY <1>4, <2>1, OrderThere
  <2>3. WrittenAs(ord[o], y, "CANCELLED", FALSE, ord[o].deleted)
    <3>1. "CANCELLED" \in OrderStatus
      BY DEF OrderStatus
    <3>2. QED
      BY <2>2, <3>1, OrderWrites
  <2> HIDE DEF y
  <2>4. /\ Sound(d) /\ Extends(Database, d)
        /\ \A n \in DOMAIN ord[o].lines :
              d.res[<<o, ord[o].lines[n].item>>].status # "RESERVED"
    BY <1>4, <1>7, <2>1, <2>2, ReleaseAllSteps
  <2>5. res' = d.res
    BY <1>7 DEF Post
  <2>6. ord \in [Orders -> Order \cup {NoRow}] /\ y # NoRow
    BY <2>3, NoDocumentAssumption DEF IInv, TypeOK, WrittenAs, WrittenOver
  <2>7. ord'[o] = y
    BY <1>4, <1>7, <2>6
  <2>8. OrderHolds(o)'
    BY <2>3, <2>7 DEF OrderHolds, WrittenAs
  <2>9. Lifecycle(o)
    BY <2>1, <2>2, <2>3, <2>6, <2>7 DEF Lifecycle, WrittenAs
  <2>10. CancelFrees(o)
    BY <2>4, <2>5 DEF CancelFrees
  <2>11. QED
    BY <1>1, <1>2, <1>4, <1>7, <2>2, <2>3, <2>4, <2>8, <2>9, <2>10, OrderPosted DEF WrittenAs
<1>8. QED
  BY <1>6, <1>7, <1>9

\* A reservation call reserves every line of its order, or nothing.
LEMMA EndReserveKeeps ==
    ASSUME IInv, NEW c \in Clients, EndReserve(c)
    PROVE  IInv' /\ Promises
<1>1. call[c].op = "reserve" /\ Answer(c) /\ UNCHANGED <<whActive, quo, counter>>
  BY DEF EndReserve
<1>2. CallsFollow
  BY <1>1, Answered DEF IInv, CallsFollow
<1>3. call[c] \in Call /\ CallFits(c)
  BY DEF IInv, TypeOK
<1>4. PICK o \in Orders : o = call[c].doc /\ ord[o] # NoRow
  BY <1>1, <1>3, CallFields DEF CallFits, ReserveFits
<1> DEFINE y == CountVersion([ord[o] EXCEPT !.reserved = TRUE])
<1>8. \/ (\E d \in ReserveLines(o) : Post(d)) /\ ord' = [ord EXCEPT ![o] = y]
      \/ UNCHANGED <<inventory, ord>>
  BY <1>4 DEF EndReserve
<1>5. CASE UNCHANGED <<inventory, ord>>
  BY <1>1, <1>5, AnswerKeeps
<1>6. ASSUME NEW d \in ReserveLines(o), Post(d), ord' = [ord EXCEPT ![o] = y]
      PROVE  IInv' /\ Promises
  <2>1. ord \in [Orders -> Order \cup {NoRow}] /\ ord[o] \in Order
    BY <1>4 DEF IInv, TypeOK
  <2>2. WrittenAs(ord[o], y, ord[o].status, TRUE, ord[o].deleted)
    <3>1. "DRAFT" \in OrderStatus
      BY DEF OrderStatus
    <3>2. QED
      BY <2>1, <3>1, OrderWrites
  <2> HIDE DEF y
  <2>3. /\ Sound(d) /\ Extends(Database, d)
        /\ \A n \in DOMAIN ord[o].lines :
              LET row == d.res[<<o, ord[o].lines[n].item>>]
              IN  /\ row # NoRow /\ row.branch = ord[o].branch
                  /\ row.qty = ord[o].lines[n].qty
    BY <1>4, <1>6, ReserveLinesSteps
  <2>4. res' = d.res /\ y # NoRow
    BY <1>6, <2>2, NoDocumentAssumption DEF Post, WrittenAs, WrittenOver
  <2>5. ord'[o] = y
    BY <1>4, <1>6, <2>1
  <2>6. OrderHolds(o)'
    <3>1. y.branch = ord[o].branch /\ y.lines = ord[o].lines
      BY <2>2 DEF WrittenAs, WrittenOver
    <3>2. QED
      BY <2>3, <2>4, <2>5, <3>1 DEF OrderHolds
  <2>7. Lifecycle(o) /\ CancelFrees(o)
    BY <2>2, <2>4, <2>5 DEF Lifecycle, CancelFrees, WrittenAs
  <2>8. QED
    BY <1>1, <1>2, <1>4, <1>6, <2>2, <2>3, <2>6, <2>7, OrderPosted DEF WrittenAs
<1>7. QED
  BY <1>5, <1>6, <1>8

-----------------------------------------------------------------------------
(* The theorems.                                                           *)

\* There are no documents and no calls, and the inventory is empty.
LEMMA InitSound == Init => IInv
<1> SUFFICES ASSUME Init PROVE IInv
  OBVIOUS
<1>1. Sound(Database)
  BY EmptySound DEF Init, Database
<1>2. stock \in [StockKey -> StockRow] /\ res \in [ResKey -> ReservationRow]
      /\ mov \in [OpKeys -> MovementRow]
  BY <1>1 DEF Sound, Typed, Database
<1>3. call = [c \in Clients |-> Idle] /\ Idle \in Call
  BY DEF Init, Call
<1>4. TypeOK
  BY <1>2, <1>3 DEF Init, TypeOK
<1>5. \A c \in Clients : CallFits(c)
  BY <1>3 DEF CallFits, QuotationFits, OrderFits, ReserveFits, Idle
<1>6. \A o \in Orders : OrderComes(o) /\ OrderHolds(o)
  BY OrderKeys DEF Init, OrderComes, OrderHolds
<1>7. QED
  BY <1>1, <1>4, <1>5, <1>6 DEF IInv

\* Every step preserves the invariant and keeps the promises.
LEMMA NextKeeps ==
    ASSUME IInv, [Next]_vars
    PROVE  IInv' /\ Promises
<1>1. ASSUME NEW q \in Quotations, NEW b \in Branches, NEW l \in LineChoices,
             CreateQuotation(q, b, l)
      PROVE  IInv' /\ Promises
  BY <1>1, CreateQuotationKeeps
<1>2. ASSUME NEW q \in Quotations, NEW l \in LineChoices, UpdateQuotation(q, l)
      PROVE  IInv' /\ Promises
  BY <1>2, UpdateQuotationKeeps
<1>3. ASSUME NEW q \in Quotations, DeleteQuotation(q) PROVE IInv' /\ Promises
  BY <1>3, DeleteQuotationKeeps
<1>4. ASSUME NEW o \in Orders, NEW q \in Quotations, NEW w \in Warehouses, CreateOrder(o, q, w)
      PROVE  IInv' /\ Promises
  BY <1>4, CreateOrderKeeps
<1>5. ASSUME NEW o \in Orders, UpdateOrder(o) \/ DeleteOrder(o) PROVE IInv' /\ Promises
  BY <1>5, UpdateOrderKeeps, DeleteOrderKeeps
<1>6. ASSUME NEW c \in Clients, NEW q \in Quotations, NEW to \in QuotationStatus,
             BeginQuotationTransition(c, q, to)
      PROVE  IInv' /\ Promises
  BY <1>6, BeginQuotationTransitionKeeps
<1>7. ASSUME NEW c \in Clients, NEW o \in Orders, NEW to \in OrderStatus,
             BeginOrderTransition(c, o, to)
      PROVE  IInv' /\ Promises
  BY <1>7, BeginOrderTransitionKeeps
<1>8. ASSUME NEW c \in Clients, NEW o \in Orders, BeginReserve(c, o) PROVE IInv' /\ Promises
  BY <1>8, BeginReserveKeeps
<1>9. ASSUME NEW c \in Clients, EndCall(c) PROVE IInv' /\ Promises
  <2>1. CASE EndQuotationTransition(c)
    BY <2>1, EndQuotationTransitionKeeps
  <2>2. CASE EndOrderTransition(c)
    BY <2>2, EndOrderTransitionKeeps
  <2>3. CASE ListReservations(c)
    BY <2>3, ListReservationsKeeps
  <2>4. CASE EndCancel(c)
    BY <2>4, EndCancelKeeps
  <2>5. CASE EndReserve(c)
    BY <2>5, EndReserveKeeps
  <2>6. CASE Fail(c)
    BY <2>6, AnswerKeeps DEF Fail
  <2>7. QED
    BY <1>9, <2>1, <2>2, <2>3, <2>4, <2>5, <2>6 DEF EndCall
<1>10. CASE InventoryUser
  BY <1>10, InventoryUserKeeps
<1>11. ASSUME NEW w \in Warehouses, NEW active \in BOOLEAN, SetWarehouse(w, active)
       PROVE  IInv' /\ Promises
  BY <1>11, SetWarehouseKeeps
<1>12. CASE UNCHANGED vars
  <2>1. UNCHANGED <<inventory, whActive, quo, ord, counter, call>>
    BY <1>12 DEF vars, inventory
  <2>2. CallsFollow
    BY <2>1, CallsAtRest DEF IInv
  <2>3. TypeOK' /\ QuotationsFollow
    BY <2>1, <2>2 DEF IInv, TypeOK, CallsFollow, QuotationsFollow, inventory
  <2>4. QED
    BY <2>1, <2>2, <2>3, OrdersUntouched
<1>13. QED
  BY <1>1, <1>2, <1>3, <1>4, <1>5, <1>6, <1>7, <1>8, <1>9, <1>10, <1>11, <1>12 DEF Next

\* Documents, calls and stock always fit each other.
THEOREM Invariance == Spec => []IInv
<1>1. IInv /\ [Next]_vars => IInv'
  BY NextKeeps
<1>2. QED
  BY <1>1, InitSound, PTL DEF Spec

\* Every row holds values of its columns, and every call what a caller can have read.
THEOREM TypeCorrect == Spec => []TypeOK
<1>1. IInv => TypeOK
  BY DEF IInv
<1>2. QED
  BY <1>1, Invariance, PTL

\* Whatever calls overlap, an order comes from an accepted quotation that nobody has
\* deleted since, and has its lines (ADR-0026).
THEOREM OrdersComeFromQuotations == Spec => []OrderMatchesQuotation
<1>1. IInv => OrderMatchesQuotation
  BY DEF IInv, OrderComes, OrderMatchesQuotation
<1>2. QED
  BY <1>1, Invariance, PTL

\* Whatever calls overlap, an order's status only takes the transitions of the table,
\* from the status the order really has; only a draft is deleted.
THEOREM OrdersFollowTransitions == Spec => OrderLifecycle
<1>1. IInv /\ [Next]_vars =>
        [\A o \in Orders : ord[o] # NoRow =>
          /\ ord'[o] # NoRow
          /\ ord'[o].status # ord[o].status =>
                /\ ord'[o].status \in OrderTransitions[ord[o].status]
                /\ ~ord[o].deleted
          /\ ord'[o].deleted # ord[o].deleted =>
                ord[o].status = "DRAFT" /\ ord'[o].deleted]_vars
  BY NextKeeps DEF Promises, Lifecycle
<1>2. QED
  BY <1>1, Invariance, PTL DEF Spec, OrderLifecycle

\* The commit that cancels a reserved order leaves none of its lines reserved.  Its call
\* listed the reservations without a lock; if others reserved, released or fulfilled for
\* the order since, through its own call the version has moved on and the call is refused,
\* and past it they could only end what was listed, since each line had its row already.
THEOREM CancellingReleases == Spec => CancelReleases
<1>1. IInv /\ [Next]_vars =>
        [\A o \in Orders :
          (ord[o] # NoRow /\ ord[o].reserved
             /\ ord[o].status # "CANCELLED" /\ ord'[o].status = "CANCELLED")
          => \A n \in DOMAIN ord[o].lines :
                res'[<<o, ord[o].lines[n].item>>].status # "RESERVED"]_vars
  BY NextKeeps DEF Promises, CancelFrees
<1>2. QED
  BY <1>1, Invariance, PTL DEF Spec, CancelReleases

\* An order that says it is reserved has a reservation for every line of it, in its
\* branch and of the line's quantity, also when some were made past the order before.
THEOREM ReservingIsWhole == Spec => []ReservedWhole
<1>1. IInv => ReservedWhole
  BY DEF IInv, OrderHolds, ReservedWhole
<1>2. QED
  BY <1>1, Invariance, PTL

\* Orders that reserve and release several items in one transaction keep the counters
\* of every stock row what its reservations and movements add up to, and never promise
\* more than there is.
THEOREM OrdersKeepStockSound == Spec => []Sound(Database)
<1>1. IInv => Sound(Database)
  BY DEF IInv
<1>2. QED
  BY <1>1, Invariance, PTL

\* The abstract ledger, on the same two tables.
Ledger == INSTANCE StockLedger
ImplementsLedger == Ledger!LedgerSpec

\* The ledger's rows and totals, under the names they have here.
LEMMA SameRows ==
    /\ Ledger!ResKey = ResKey /\ Ledger!ReservationRow = ReservationRow
    /\ Ledger!MovementRow = MovementRow
    /\ \A a, b : Ledger!ReservationStep(a, b) <=> ReservationStep(a, b)
    /\ \A a, b : Ledger!MovementStep(a, b) <=> MovementStep(a, b)
    /\ Ledger!Solvent(res', mov') <=> Solvent(res', mov')
    /\ Ledger!IssuedOnce(res', mov') <=> IssuedOnce(res', mov')
<1>1. Ledger!ResKey = ResKey /\ Ledger!StockKey = StockKey /\ Ledger!Qty = Qty
  BY DEF ResKey, Ledger!ResKey, StockKey, Ledger!StockKey, Qty, Ledger!Qty
<1>2. Ledger!ReservationRow = ReservationRow
  BY <1>1 DEF ReservationRow, Ledger!ReservationRow, Reservation, Ledger!Reservation
<1>3. Ledger!MovementRow = MovementRow
  BY <1>1 DEF MovementRow, Ledger!MovementRow, Movement, Ledger!Movement
<1>4. \A a, b : Ledger!ReservationStep(a, b) <=> ReservationStep(a, b)
  BY DEF ReservationStep, Ledger!ReservationStep
<1>5. \A a, b : Ledger!MovementStep(a, b) <=> MovementStep(a, b)
  BY DEF MovementStep, Ledger!MovementStep
<1>0. \A S : Ledger!Cardinality(S) = Cardinality(S)
  BY DEF Ledger!Cardinality, Cardinality, Ledger!IsFiniteSet, IsFiniteSet
<1>6. \A s : Ledger!Held(res', s) = Held(res', s)
  <2>1. \A s : Ledger!HeldUnits(res', s) = HeldUnits(res', s)
    BY <1>1 DEF HeldUnits, Ledger!HeldUnits
  <2>2. QED
    BY <1>0, <2>1 DEF Held, Ledger!Held
<1>7. \A s : Ledger!Issued(mov', s) = Issued(mov', s) /\ Ledger!Incoming(mov', s) = Incoming(mov', s)
  <2>1. \A s, types : Ledger!MovedUnits(mov', s, types) = MovedUnits(mov', s, types)
    BY <1>1 DEF MovedUnits, Ledger!MovedUnits
  <2>2. QED
    BY <1>0, <2>1 DEF Issued, Ledger!Issued, Incoming, Ledger!Incoming
<1>8. Ledger!Solvent(res', mov') <=> Solvent(res', mov')
  BY <1>1, <1>6, <1>7 DEF Solvent, Ledger!Solvent
<1>9. Ledger!IssuedOnce(res', mov') <=> IssuedOnce(res', mov')
  BY <1>1 DEF IssuedOnce, Ledger!IssuedOnce, IsIssueOf, Ledger!IsIssueOf
<1>10. QED
  BY <1>1, <1>2, <1>3, <1>4, <1>5, <1>8, <1>9

\* Quotations and orders use the inventory as the ledger promises: transactions that
\* reserve or release several items at once, of orders whose calls overlap, only add to
\* the history and never promise stock twice.
THEOREM LedgerRefinement == Spec => ImplementsLedger
<1>1. Init => Ledger!LedgerInit
  BY SameRows DEF Init, Ledger!LedgerInit
<1>2. IInv /\ IInv' /\ [Next]_vars => [Ledger!Post]_(Ledger!ledgerVars)
  <2> SUFFICES ASSUME IInv, IInv', [Next]_vars PROVE Ledger!Post
    OBVIOUS
  <2>1. Extends(Database, Database')
    BY NextKeeps DEF Promises
  <2>2. \A r \in ResKey : ReservationStep(res[r], res'[r])
    BY <2>1 DEF Extends, Database
  <2>3. \A k \in OpKeys : MovementStep(mov[k], mov'[k])
    BY <2>1 DEF Extends, Database
  <2>4. res' \in [ResKey -> ReservationRow] /\ mov' \in [OpKeys -> MovementRow]
        /\ IssuedOnce(res', mov')
    BY DEF IInv, Sound, Typed, Database
  <2>5. Solvent(res', mov')
    <3>1. Sound(Database') /\ Database'.res = res' /\ Database'.mov = mov'
      BY DEF IInv, Database
    <3>2. QED
      BY <3>1, SoundIsSolvent
  <2>6. QED
    BY <2>2, <2>3, <2>4, <2>5, SameRows DEF Ledger!Post
<1>3. QED
  BY <1>1, <1>2, Invariance, PTL DEF Spec, ImplementsLedger, Ledger!LedgerSpec

=============================================================================
