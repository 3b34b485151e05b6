---------------------------- MODULE InventoryOps -----------------------------
(***************************************************************************)
(* The methods of PostgresInventoryRepository that change stock, each as a *)
(* function from the database a transaction sees to the set of databases   *)
(* it may leave: one element when the method returns, none when it throws  *)
(* (the transaction is then rolled back).  A caller that performs several  *)
(* of them in one transaction feeds each result to the next.               *)
(*                                                                         *)
(* A database is [stock, res, mov]; a stock row that was never inserted    *)
(* counts as the row of zeros that ensureStock inserts before any use.     *)
(* The registry reg gives the state of each warehouse and item.            *)
(***************************************************************************)
EXTENDS StockTypes

\* What callers ask of receiveStock and returnStock, and of reserveStock.
AddRequest == [branch : Branches, wh : Warehouses, item : Items, qty : Qty, key : OpKeys]
ReserveRequest == [branch : Branches, wh : Warehouses, item : Items, qty : Qty, src : Sources]

\* assertWarehouseAndItem: the warehouse is ACTIVE, the item ACTIVE, sales
\* eligible and not deleted.
Usable(reg, w, i) == reg.wh[w] = "ACTIVE" /\ reg.item[i] = "SELLABLE"

Put(f, k, v) == [f EXCEPT ![k] = v]

\* UPDATE inventory_stock SET on_hand = on_hand + dOn, reserved = reserved + dRes
Adjust(stock, s, dOn, dRes) ==
    [stock EXCEPT ![s] = [onHand   |-> stock[s].onHand + dOn,
                          reserved |-> stock[s].reserved + dRes]]

\* What receiveStock and returnStock write.
Added(d, in, type) ==
    [stock |-> Adjust(d.stock, <<in.wh, in.item>>, in.qty, 0),
     res   |-> d.res,
     mov   |-> Put(d.mov, in.key,
                   [branch |-> in.branch, stock |-> <<in.wh, in.item>>,
                    qty |-> in.qty, type |-> type, res |-> NoRow])]

AddStockOverKey(d, reg, in, type) ==  \* mutant: findMovement and the unique key are gone
    IF ~Usable(reg, in.wh, in.item) THEN {} ELSE {Added(d, in, type)}

\* receiveStock and returnStock.  A known operation key is answered without any
\* effect, but the key of another branch collides with its unique index.
AddStock(d, reg, in, type) ==
    IF d.mov[in.key] # NoRow
    THEN IF d.mov[in.key].branch = in.branch THEN {d} ELSE {}
    ELSE IF ~Usable(reg, in.wh, in.item) THEN {}
    ELSE {Added(d, in, type)}

AvailableOnHand(stock, s) == stock[s].onHand  \* mutant: reserved quantity counts as free

Available(stock, s) == stock[s].onHand - stock[s].reserved

\* What reserveStock writes.
Reserved(d, in) ==
    [stock |-> Adjust(d.stock, <<in.wh, in.item>>, 0, in.qty),
     res   |-> Put(d.res, <<in.src, in.item>>,
                   [branch |-> in.branch, wh |-> in.wh, qty |-> in.qty,
                    status |-> "RESERVED"]),
     mov   |-> d.mov]

\* reserveStock.  Any earlier reservation of the source and item, whatever became
\* of it, answers a request of the same branch and quantity.
ReserveStock(d, reg, in) ==
    LET prior == d.res[<<in.src, in.item>>]
    IN  IF prior # NoRow
        THEN IF prior.branch = in.branch /\ prior.qty = in.qty THEN {d} ELSE {}
        ELSE IF \/ ~Usable(reg, in.wh, in.item)
                \/ Available(d.stock, <<in.wh, in.item>>) < in.qty
        THEN {}
        ELSE {Reserved(d, in)}

\* lockReservation finds the row only in the branch it was made in.
Lockable(d, r, branch) == d.res[r] # NoRow /\ d.res[r].branch = branch

\* The stock row a reservation holds stock of.
RowOf(d, r) == <<d.res[r].wh, r[2]>>

SetStatus(res, r, status) == [res EXCEPT ![r] = [res[r] EXCEPT !.status = status]]

\* What releaseReservation writes.
Released(d, r) ==
    [stock |-> Adjust(d.stock, RowOf(d, r), 0, -d.res[r].qty),
     res   |-> SetStatus(d.res, r, "RELEASED"),
     mov   |-> d.mov]

ReleaseTwice(d, r, branch) ==  \* mutant: a retried release is not recognised
    IF ~Lockable(d, r, branch) \/ d.res[r].status = "FULFILLED" THEN {} ELSE {Released(d, r)}

\* releaseReservation
ReleaseReservation(d, r, branch) ==
    IF ~Lockable(d, r, branch) \/ d.res[r].status = "FULFILLED" THEN {}
    ELSE IF d.res[r].status = "RELEASED" THEN {d}
    ELSE {Released(d, r)}

IssuedUnreserved(d, r, key) ==  \* mutant: reserved is not taken down with on_hand
    [stock |-> Adjust(d.stock, RowOf(d, r), -d.res[r].qty, 0),
     res   |-> SetStatus(d.res, r, "FULFILLED"),
     mov   |-> Put(d.mov, key, [branch |-> d.res[r].branch, stock |-> RowOf(d, r),
                                qty |-> d.res[r].qty, type |-> "ISSUE", res |-> r])]

\* What fulfillReservation writes; the guard of its UPDATE is Issuable.
Fulfilled(d, r, key) ==
    [stock |-> Adjust(d.stock, RowOf(d, r), -d.res[r].qty, -d.res[r].qty),
     res   |-> SetStatus(d.res, r, "FULFILLED"),
     mov   |-> Put(d.mov, key, [branch |-> d.res[r].branch, stock |-> RowOf(d, r),
                                qty |-> d.res[r].qty, type |-> "ISSUE", res |-> r])]

Issuable(d, r) ==
    LET row == d.stock[RowOf(d, r)]
    IN  row.onHand >= d.res[r].qty /\ row.reserved >= d.res[r].qty

FulfillTwice(d, r, branch, key) ==  \* mutant: a fulfilled reservation is issued again
    IF ~Lockable(d, r, branch) \/ d.res[r].status = "RELEASED" THEN {}
    ELSE IF d.mov[key] # NoRow
         THEN IF d.mov[key].branch = branch THEN {d} ELSE {}
    ELSE IF Issuable(d, r) THEN {Fulfilled(d, r, key)} ELSE {}

\* fulfillReservation.  An operation key already used in the branch returns the
\* reservation as it stands, still RESERVED.  The warehouse is not looked at.
FulfillReservation(d, r, branch, key) ==
    IF ~Lockable(d, r, branch) \/ d.res[r].status = "RELEASED" THEN {}
    ELSE IF d.res[r].status = "FULFILLED" THEN {d}
    ELSE IF d.mov[key] # NoRow
         THEN IF d.mov[key].branch = branch THEN {d} ELSE {}
    ELSE IF Issuable(d, r) THEN {Fulfilled(d, r, key)} ELSE {}

=============================================================================
