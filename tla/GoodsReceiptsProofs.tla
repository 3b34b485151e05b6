------------------------ MODULE GoodsReceiptsProofs -------------------------
(***************************************************************************)
(* Theorems about GoodsReceipts, for any number of orders, receipts, items,*)
(* warehouses and overlapping calls.                                       *)
(***************************************************************************)
EXTENDS GoodsReceipts, InventoryOpsProofs

\* No operation key is used for receipts of two orders.
KeysApart == \A p, q \in Pos : p # q => KeysOf[p] \cap KeysOf[q] = {}

\* What a call in progress holds: createReceipt its order, completeReceipt its
\* receipt, which stays a draft, and from the check on the order as well.
Holds(c) ==
    /\ call[c].op = "create" =>
          /\ call[c].row.status = "DRAFT" /\ call[c].key \in KeysOf[call[c].row.po]
          /\ lock[call[c].row.po] = c
    /\ call[c].op \in {"check", "post"} =>
          /\ rec[call[c].key] # NoRow /\ rec[call[c].key].status = "DRAFT"
          /\ lock[call[c].key] = c
    /\ call[c].op = "post" => lock[rec[call[c].key].po] = c

\* The lines of receipt k are outstanding, as WithinOutstanding says.
LinesFit(k) ==
    \A p \in Pos, i \in Items :
        rec[k].po = p /\ rec[k].lines[i] > 0 => rec[k].lines[i] <= Ordered[p][i] - Received(p, i)

\* What a call in progress has found stays true: the key it creates a receipt
\* under is free, the lines it is going to post are outstanding.
FoundStands(c) ==
    /\ call[c].op = "create" => rec[call[c].key] = NoRow
    /\ call[c].op = "post" => LinesFit(call[c].key)

\* What is true as long as every order has keys of its own.
Exact ==
    /\ \A c \in Clients : FoundStands(c)
    /\ NeverOverReceived
    /\ CompletedMeansPosted

\* The inductive invariant.
IInv ==
    /\ TypeOK
    /\ \A c \in Clients : Holds(c)
    /\ KeysApart => Exact

\* What ReceiptLifecycle says of one step.
Lifecycle ==
    \A k \in ReceiptKeys : (rec[k] # NoRow /\ rec'[k] # rec[k]) =>
        /\ rec'[k].po = rec[k].po /\ rec'[k].wh = rec[k].wh
        /\ rec[k].status # rec'[k].status =>
              rec[k].status = "DRAFT" /\ rec'[k].status \in {"COMPLETED", "CANCELLED"}

-----------------------------------------------------------------------------
(* What has been received.                                                 *)

\* A receipt counts for order p.
CountsFor(row, p) == row # NoRow /\ row.po = p /\ row.status = "COMPLETED"

\* What has been received changes only with the receipts that count.
LEMMA ReceivedStands ==
    ASSUME NEW p \in Pos, NEW i \in Items,
           \A k \in ReceiptKeys : \/ rec'[k] = rec[k]
                                  \/ ~CountsFor(rec[k], p) /\ ~CountsFor(rec'[k], p)
    PROVE  Received(p, i)' = Received(p, i)
<1>1. ReceivedUnits(p, i)' = ReceivedUnits(p, i)
  BY DEF ReceivedUnits, CountsFor
<1>2. QED
  BY <1>1 DEF Received

\* A completed receipt adds its lines to what has been received of its order.
LEMMA ReceivedGrows ==
    ASSUME NEW p \in Pos, NEW i \in Items, NEW k \in ReceiptKeys,
           \A x \in ReceiptKeys \ {k} : rec'[x] = rec[x],
           ~CountsFor(rec[k], p), CountsFor(rec'[k], p), rec'[k].lines[i] \in 0 .. MaxQty
    PROVE  /\ Received(p, i) \in Nat
           /\ Received(p, i)' = Received(p, i) + rec'[k].lines[i]
<1> DEFINE U == ReceivedUnits(p, i)
           V == ReceivedUnits(p, i)'
           n == rec'[k].lines[i]
<1>1. IsFiniteSet(ReceiptKeys)
  BY ReceiptAssumption
<1>2. U \in SUBSET (ReceiptKeys \X Qty) /\ V \in SUBSET (ReceiptKeys \X Qty)
  BY DEF ReceivedUnits
<1>3. \A q \in Qty : <<k, q>> \in U <=> q <= 0
  BY MaxQtyAssumption DEF ReceivedUnits, CountsFor, Qty
<1>4. \A q \in Qty : <<k, q>> \in V <=> q <= n
  BY CountsFor(rec'[k], p) DEF ReceivedUnits, CountsFor
<1>5. {u \in U : u[1] # k} = {u \in V : u[1] # k}
  <2>1. \A u \in ReceiptKeys \X Qty : u[1] # k => (u \in U <=> u \in V)
    BY DEF ReceivedUnits
  <2>2. QED
    BY <1>2, <2>1
<1>6. 0 \in 0 .. MaxQty /\ n \in 0 .. MaxQty
  BY MaxQtyAssumption
<1>7. Received(p, i) = Cardinality(U) /\ Received(p, i)' = Cardinality(V)
  BY DEF Received
<1> DEFINE none == 0
           Rest == {u \in U : u[1] # k}
<1>8. none \in 0 .. MaxQty /\ \A q \in Qty : <<k, q>> \in U <=> q <= none
  BY <1>3, <1>6
<1>9. Rest = {u \in V : u[1] # k}
  BY <1>5
<1> HIDE DEF U, V, n, none
<1>10. Cardinality(Rest) \in Nat /\ Cardinality(U) = Cardinality(Rest) + none
  BY <1>1, <1>2, <1>8, UnitSplit
<1>11. Cardinality(V) = Cardinality({u \in V : u[1] # k}) + n
  BY <1>1, <1>2, <1>4, <1>6, UnitSplit
<1> HIDE DEF Rest
<1>12. Cardinality(V) = Cardinality(Rest) + n
  BY <1>9, <1>11
<1>13. Received(p, i) \in Nat /\ Received(p, i)' = Received(p, i) + n
  BY <1>7, <1>10, <1>12 DEF none
<1>14. QED
  BY <1>13 DEF n

-----------------------------------------------------------------------------
(* Calls and locks.                                                        *)

\* What a call is made of.
LEMMA CallParts ==
    ASSUME TypeOK, NEW c \in Clients
    PROVE  /\ call[c] = Idle <=> call[c].op \notin {"create", "check", "post"}
           /\ call[c].op = "create" => call[c].key \in ReceiptKeys /\ call[c].row \in Receipt
           /\ call[c].op \in {"check", "post"} => call[c].key \in ReceiptKeys
<1>1. call[c] \in Call
  BY DEF TypeOK
<1>2. QED
  BY <1>1 DEF Call, Idle

\* A row of the table, which is not "no row".
LEMMA ReceiptRow ==
    ASSUME TypeOK, NEW k \in ReceiptKeys, rec[k] # NoRow
    PROVE  /\ rec[k] \in Receipt /\ rec[k].po \in Pos /\ rec[k].wh \in Warehouses
           /\ rec[k].lines \in Quantities
           /\ rec[k].status \in {"DRAFT", "COMPLETED", "CANCELLED"}
  BY DEF TypeOK, Receipt

\* The call and the locks of d stand.
Stands(d) == call'[d] = call[d] /\ \A x \in LockableRows : lock[x] = d => lock'[x] = d

\* The lock table after a step.
LockTable ==
    /\ call \in [Clients -> Call]
    /\ lock \in [LockableRows -> Clients \cup {Nobody}]
    /\ \A x \in LockableRows : lock[x] # Nobody => call[lock[x]] # Idle

\* Commit and rollback free the rows of the call and of no other.
LEMMA EndCallFrees ==
    ASSUME TypeOK, NEW c \in Clients, EndCall(c)
    PROVE  LockTable' /\ call'[c] = Idle /\ \A d \in Clients \ {c} : Stands(d)
<1>1. call' \in [Clients -> Call] /\ call'[c] = Idle
      /\ \A d \in Clients \ {c} : call'[d] = call[d]
  BY DEF EndCall, Goto, TypeOK, Call
<1>2. lock' \in [LockableRows -> Clients \cup {Nobody}]
      /\ \A x \in LockableRows : lock'[x] = IF lock[x] = c THEN Nobody ELSE lock[x]
  BY DEF EndCall, TypeOK
<1>3. \A x \in LockableRows : lock'[x] # Nobody => call'[lock'[x]] # Idle
  BY <1>1, <1>2 DEF TypeOK
<1>4. QED
  BY <1>1, <1>2, <1>3, ReceiptAssumption DEF LockTable, Stands

\* A call that locks a free row and goes on.
LEMMA LockTaken ==
    ASSUME TypeOK, NEW c \in Clients, NEW x \in LockableRows, NEW state \in Call,
           state # Idle, CanLock(x), LockRow(c, x), Goto(c, state)
    PROVE  /\ LockTable' /\ call'[c] = state /\ lock'[x] = c
           /\ \A y \in LockableRows : lock[y] = c => lock'[y] = c
           /\ \A d \in Clients \ {c} : Stands(d)
<1>1. call' \in [Clients -> Call] /\ call'[c] = state
      /\ \A d \in Clients \ {c} : call'[d] = call[d]
  BY DEF Goto, TypeOK
<1>2. lock' \in [LockableRows -> Clients \cup {Nobody}] /\ lock[x] = Nobody
      /\ \A y \in LockableRows : lock'[y] = IF y = x THEN c ELSE lock[y]
  BY DEF LockRow, CanLock, TypeOK
<1>3. \A y \in LockableRows : lock'[y] # Nobody => call'[lock'[y]] # Idle
  BY <1>1, <1>2 DEF TypeOK
<1>4. QED
  BY <1>1, <1>2, <1>3, ReceiptAssumption DEF LockTable, Stands

\* A locked receipt that a step leaves alone.
RowKept(d) == \A k \in ReceiptKeys : rec[k] # NoRow /\ lock[k] = d => rec'[k] = rec[k]

\* A call holds what it held as long as nobody moves its receipt.
LEMMA HoldsStill ==
    ASSUME TypeOK, NEW d \in Clients, Holds(d), Stands(d), RowKept(d)
    PROVE  Holds(d)'
<1>1. /\ call[d].op = "create" => call[d].key \in ReceiptKeys /\ call[d].row \in Receipt
      /\ call[d].op \in {"check", "post"} => call[d].key \in ReceiptKeys
  BY CallParts
<1>2. call'[d] = call[d] /\ \A x \in LockableRows : lock[x] = d => lock'[x] = d
  BY DEF Stands
<1>3. call[d].op = "create" => lock'[call[d].row.po] = d
  BY <1>1, <1>2 DEF Holds, Receipt, LockableRows
<1>4. call[d].op \in {"check", "post"} =>
          rec'[call[d].key] = rec[call[d].key] /\ lock'[call[d].key] = d
  BY <1>1, <1>2 DEF Holds, RowKept, LockableRows
<1>5. call[d].op = "post" => lock'[rec[call[d].key].po] = d
  BY <1>1, <1>2, ReceiptRow DEF Holds, LockableRows
<1>6. QED
  BY <1>2, <1>3, <1>4, <1>5 DEF Holds

\* What counts for the orders that d has locked stands.
CountKept(d) ==
    \A k \in ReceiptKeys, p \in Pos :
        lock[p] = d => \/ rec'[k] = rec[k]
                       \/ ~CountsFor(rec[k], p) /\ ~CountsFor(rec'[k], p)

\* What a call found stands as long as its key stays free, and nothing else is
\* received of its order.
LEMMA FoundStill ==
    ASSUME TypeOK, NEW d \in Clients, Holds(d), FoundStands(d), Stands(d), RowKept(d),
           CountKept(d), call[d].op = "create" => rec'[call[d].key] = NoRow
    PROVE  FoundStands(d)'
<1>1. call'[d] = call[d]
  BY DEF Stands
<1>2. ASSUME call[d].op = "post"
      PROVE  \A p \in Pos, i \in Items :
                 rec'[call[d].key].po = p /\ rec'[call[d].key].lines[i] > 0
                 => rec'[call[d].key].lines[i] <= Ordered[p][i] - Received(p, i)'
  <2> DEFINE k == call[d].key
  <2>1. k \in ReceiptKeys /\ rec[k] # NoRow /\ lock[k] = d /\ lock[rec[k].po] = d
    BY <1>2, CallParts DEF Holds
  <2>2. rec'[k] = rec[k]
    BY <2>1 DEF RowKept
  <2>3. LinesFit(k)
    BY <1>2 DEF FoundStands
  <2> HIDE DEF k
  <2>4. SUFFICES ASSUME NEW p \in Pos, NEW i \in Items, rec[k].po = p, rec[k].lines[i] > 0
                 PROVE  rec[k].lines[i] <= Ordered[p][i] - Received(p, i)'
    BY <2>2 DEF k
  <2>5. Received(p, i)' = Received(p, i)
    <3>1. \A x \in ReceiptKeys : \/ rec'[x] = rec[x]
                                 \/ ~CountsFor(rec[x], p) /\ ~CountsFor(rec'[x], p)
      BY <2>1, <2>4 DEF CountKept
    <3>2. QED
      BY <3>1, ReceivedStands
  <2>6. QED
    BY <2>3, <2>4, <2>5 DEF LinesFit
<1>3. QED
  BY <1>1, <1>2 DEF FoundStands, LinesFit

-----------------------------------------------------------------------------
(* Steps that leave receipts and stock alone.                              *)

\* A call that comes to hold, and to know, what it needs.
MovesOn(d) == Holds(d)' /\ FoundStands(d)'

\* A step that only moves a lock table along.
LEMMA Quiet ==
    ASSUME IInv, UNCHANGED <<stock, mov, rec>>, LockTable',
           whActive' \subseteq Warehouses, approved' \subseteq Pos,
           \A d \in Clients : Stands(d) \/ MovesOn(d)
    PROVE  IInv' /\ Lifecycle
<1>1. TypeOK'
  BY DEF IInv, TypeOK, LockTable
<1>2. ASSUME NEW d \in Clients, Stands(d)
      PROVE  Holds(d)' /\ (KeysApart => FoundStands(d)')
  <2>1. RowKept(d) /\ CountKept(d)
    BY DEF RowKept, CountKept
  <2>2. TypeOK /\ Holds(d)
    BY DEF IInv
  <2>3. Holds(d)'
    BY <1>2, <2>1, <2>2, HoldsStill
  <2>4. ASSUME KeysApart PROVE FoundStands(d)'
    <3>1. FoundStands(d)
      BY <2>4 DEF IInv, Exact
    <3>2. call[d].op = "create" => rec'[call[d].key] = NoRow
      BY <3>1 DEF FoundStands
    <3>3. QED
      BY <1>2, <2>1, <2>2, <3>1, <3>2, FoundStill
  <2>5. QED
    BY <2>3, <2>4
<1>3. \A d \in Clients : Holds(d)' /\ (KeysApart => FoundStands(d)')
  BY <1>2 DEF MovesOn
<1>4. ASSUME KeysApart PROVE NeverOverReceived' /\ CompletedMeansPosted'
  <2>1. NeverOverReceived /\ CompletedMeansPosted
    BY <1>4 DEF IInv, Exact
  <2>2. CompletedMeansPosted'
    BY <2>1 DEF CompletedMeansPosted
  <2>3. ASSUME NEW p \in Pos, NEW i \in Items PROVE Received(p, i)' = Received(p, i)
    BY ReceivedStands
  <2>4. NeverOverReceived'
    BY <2>1, <2>3 DEF NeverOverReceived
  <2>5. QED
    BY <2>2, <2>4
<1>5. Lifecycle
  BY DEF Lifecycle
<1>6. QED
  BY <1>1, <1>3, <1>4, <1>5 DEF IInv, Exact

\* A call that holds nothing.
LEMMA IdleHolds ==
    ASSUME NEW c \in Clients, call'[c] = Idle PROVE MovesOn(c)
  BY DEF MovesOn, Holds, FoundStands, Idle

\* A call that ends without having changed anything.
LEMMA FailKeeps ==
    ASSUME IInv, NEW c \in Clients, EndCall(c), UNCHANGED <<inventory, whActive, approved, rec>>
    PROVE  IInv' /\ Lifecycle
<1>1. TypeOK
  BY DEF IInv
<1>2. LockTable' /\ call'[c] = Idle /\ \A d \in Clients \ {c} : Stands(d)
  BY <1>1, EndCallFrees
<1>3. MovesOn(c)
  BY <1>2, IdleHolds
<1>4. whActive' \subseteq Warehouses /\ approved' \subseteq Pos /\ UNCHANGED <<stock, mov, rec>>
  BY <1>1 DEF TypeOK, inventory
<1>5. QED
  BY <1>2, <1>3, <1>4, Quiet

\* createReceipt holds the order from its check of the key on.
LEMMA BeginCreateKeeps ==
    ASSUME IInv, NEW c \in Clients, NEW p \in Pos, NEW w \in Warehouses,
           NEW lines \in LineChoices, NEW k \in KeysOf[p], BeginCreate(c, p, k, w, lines)
    PROVE  IInv' /\ Lifecycle
<1> DEFINE row == [po |-> p, wh |-> w, lines |-> lines, status |-> "DRAFT"]
           state == [op |-> "create", key |-> k, row |-> row]
<1>1. TypeOK
  BY DEF IInv
<1>2. k \in ReceiptKeys /\ lines \in Quantities /\ p \in LockableRows
  BY ReceiptAssumption DEF LockableRows
<1>3. row \in Receipt /\ row.po = p /\ row.status = "DRAFT"
  BY <1>2 DEF Receipt
<1>4. /\ CanLock(p) /\ LockRow(c, p) /\ Goto(c, state) /\ rec[k] = NoRow
      /\ UNCHANGED <<inventory, whActive, approved, rec>>
  BY DEF BeginCreate
<1> HIDE DEF row
<1>5. state \in Call /\ state # Idle
  BY <1>2, <1>3 DEF Call, Idle
<1>6. LockTable' /\ call'[c] = state /\ lock'[p] = c /\ \A d \in Clients \ {c} : Stands(d)
  BY <1>1, <1>2, <1>4, <1>5, LockTaken
<1>7. MovesOn(c)
  BY <1>3, <1>4, <1>6 DEF MovesOn, Holds, FoundStands
<1>8. whActive' \subseteq Warehouses /\ approved' \subseteq Pos /\ UNCHANGED <<stock, mov, rec>>
  BY <1>1, <1>4 DEF TypeOK, inventory
<1>9. QED
  BY <1>6, <1>7, <1>8, Quiet

\* completeReceipt holds the receipt ...
LEMMA BeginCompleteKeeps ==
    ASSUME IInv, NEW c \in Clients, NEW k \in ReceiptKeys, BeginComplete(c, k)
    PROVE  IInv' /\ Lifecycle
<1> DEFINE state == [op |-> "check", key |-> k]
<1>1. TypeOK
  BY DEF IInv
<1>2. /\ CanLock(k) /\ LockRow(c, k) /\ Goto(c, state) /\ k \in LockableRows
      /\ rec[k] # NoRow /\ rec[k].status = "DRAFT"
      /\ UNCHANGED <<inventory, whActive, approved, rec>>
  BY DEF BeginComplete, LockableRows
<1>3. state \in Call /\ state # Idle
  BY DEF Call, Idle
<1>4. LockTable' /\ call'[c] = state /\ lock'[k] = c /\ \A d \in Clients \ {c} : Stands(d)
  BY <1>1, <1>2, <1>3, LockTaken
<1>5. MovesOn(c)
  BY <1>2, <1>4 DEF MovesOn, Holds, FoundStands
<1>6. whActive' \subseteq Warehouses /\ approved' \subseteq Pos /\ UNCHANGED <<stock, mov, rec>>
  BY <1>1, <1>2 DEF TypeOK, inventory
<1>7. QED
  BY <1>4, <1>5, <1>6, Quiet

\* ... and, once the lines are found to be outstanding, the order too.
LEMMA CheckKeeps ==
    ASSUME IInv, NEW c \in Clients, CheckOutstanding(c)
    PROVE  IInv' /\ Lifecycle
<1> DEFINE k == call[c].key
           p == rec[k].po
           state == [op |-> "post", key |-> k]
<1>1. TypeOK /\ Holds(c)
  BY DEF IInv
<1>2. /\ call[c].op = "check" /\ CanLock(p) /\ UNCHANGED <<inventory, whActive, approved, rec>>
      /\ IF p \in approved /\ WithinOutstanding(p, rec[k].lines)
         THEN LockRow(c, p) /\ Goto(c, state) ELSE EndCall(c)
  BY DEF CheckOutstanding
<1>3. k \in ReceiptKeys /\ rec[k] # NoRow /\ rec[k].status = "DRAFT" /\ lock[k] = c
  BY <1>1, <1>2, CallParts DEF Holds
<1>4. p \in Pos /\ p \in LockableRows /\ k \in LockableRows
  BY <1>1, <1>3, ReceiptRow DEF LockableRows
<1>5. CASE ~(p \in approved /\ WithinOutstanding(p, rec[k].lines))
  BY <1>2, <1>5, FailKeeps
<1>6. CASE WithinOutstanding(p, rec[k].lines) /\ p \in approved
  <2>1. state \in Call /\ state # Idle
    BY <1>3 DEF Call, Idle
  <2>2. LockRow(c, p) /\ Goto(c, state)
    BY <1>2, <1>6
  <2>3. /\ LockTable' /\ call'[c] = state /\ lock'[p] = c /\ lock'[k] = c
        /\ \A d \in Clients \ {c} : Stands(d)
    BY <1>1, <1>2, <1>3, <1>4, <2>1, <2>2, LockTaken
  <2>4. UNCHANGED <<stock, mov, rec>>
    BY <1>2 DEF inventory
  <2>5. Holds(c)'
    BY <1>3, <2>3, <2>4 DEF Holds
  <2>6. FoundStands(c)'
    <3>1. ASSUME NEW q \in Pos, NEW i \in Items, rec'[k].po = q, rec'[k].lines[i] > 0
          PROVE  rec'[k].lines[i] <= Ordered[q][i] - Received(q, i)'
      <4>1. Received(q, i)' = Received(q, i)
        BY <2>4, ReceivedStands
      <4>2. p = q /\ rec'[k].lines = rec[k].lines
        BY <2>4, <3>1
      <4>3. WithinOutstanding(q, rec[k].lines)
        BY <1>6, <4>2
      <4>4. QED
        BY <3>1, <4>1, <4>2, <4>3 DEF WithinOutstanding
    <3> HIDE DEF k
    <3>2. call'[c].op = "post" /\ call'[c].key = k
      BY <2>3
    <3>3. QED
      BY <3>1, <3>2 DEF FoundStands, LinesFit
  <2>7. whActive' \subseteq Warehouses /\ approved' \subseteq Pos
    BY <1>1, <1>2 DEF TypeOK
  <2>8. QED
    BY <2>3, <2>4, <2>5, <2>6, <2>7, Quiet DEF MovesOn
<1>7. QED
  BY <1>5, <1>6

-----------------------------------------------------------------------------
(* Steps that make or cancel a receipt.                                    *)

\* One receipt gets a row, and is posted neither before nor after.
LEMMA ReceiptMoves ==
    ASSUME IInv, NEW k \in ReceiptKeys, NEW row \in Receipt, rec' = [rec EXCEPT ![k] = row],
           UNCHANGED <<inventory, whActive, approved>>, LockTable',
           \A d \in Clients : Stands(d) \/ MovesOn(d),
           \/ rec[k] = NoRow
           \/ /\ lock[k] = Nobody /\ row.po = rec[k].po /\ row.wh = rec[k].wh
              /\ row.status # rec[k].status => rec[k].status = "DRAFT" /\ row.status = "CANCELLED",
           KeysApart =>
              /\ row.status # "COMPLETED" /\ (rec[k] = NoRow \/ rec[k].status # "COMPLETED")
              /\ \A d \in Clients :
                    \/ MovesOn(d)
                    \/ call[d].op # "create" \/ call[d].key # k
    PROVE  IInv' /\ Lifecycle
<1>1. TypeOK /\ UNCHANGED <<stock, mov>>
  BY DEF IInv, inventory
<1>2. rec' \in [ReceiptKeys -> Receipt \cup {NoRow}] /\ rec'[k] = row
      /\ \A x \in ReceiptKeys \ {k} : rec'[x] = rec[x]
  BY <1>1 DEF TypeOK
<1>3. TypeOK'
  BY <1>1, <1>2 DEF TypeOK, LockTable
<1>4. row # NoRow
  BY NoReceiptAssumption
<1>5. ASSUME NEW d \in Clients PROVE RowKept(d)
  BY <1>2, ReceiptAssumption DEF RowKept
<1>6. ASSUME NEW d \in Clients, Stands(d) PROVE Holds(d)'
  BY <1>1, <1>5, <1>6, HoldsStill DEF IInv
<1>7. \A d \in Clients : Holds(d)'
  BY <1>6 DEF MovesOn
<1>8. ASSUME KeysApart PROVE Exact'
  <2>1. /\ NeverOverReceived /\ CompletedMeansPosted /\ \A d \in Clients : FoundStands(d)
    BY <1>8 DEF IInv, Exact
  <2>2. \A p \in Pos : ~CountsFor(rec[k], p) /\ ~CountsFor(rec'[k], p)
    BY <1>2, <1>8 DEF CountsFor
  <2>3. ASSUME NEW p \in Pos, NEW i \in Items PROVE Received(p, i)' = Received(p, i)
    <3>1. \A x \in ReceiptKeys : \/ rec'[x] = rec[x]
                                 \/ ~CountsFor(rec[x], p) /\ ~CountsFor(rec'[x], p)
      BY <1>2, <2>2
    <3>2. QED
      BY <3>1, ReceivedStands
  <2>4. NeverOverReceived'
    BY <2>1, <2>3 DEF NeverOverReceived
  <2>5. CompletedMeansPosted'
    <3>1. \A i \in Items : mov[<<k, i>>] = NoRow
      BY <1>8, <2>1 DEF CompletedMeansPosted
    <3>2. QED
      BY <1>1, <1>2, <1>8, <2>1, <3>1 DEF CompletedMeansPosted
  <2>6. ASSUME NEW d \in Clients, ~MovesOn(d) PROVE FoundStands(d)'
    <3>1. Stands(d) /\ FoundStands(d) /\ Holds(d) /\ RowKept(d)
      BY <1>5, <2>1, <2>6 DEF IInv
    <3>2. CountKept(d)
      BY <1>2, <2>2 DEF CountKept
    <3>3. call[d].op = "create" => call[d].key \in ReceiptKeys
      BY <1>1, CallParts
    <3>4. call[d].op = "create" => rec'[call[d].key] = NoRow
      BY <1>2, <1>8, <2>6, <3>1, <3>3 DEF FoundStands
    <3>5. QED
      BY <1>1, <3>1, <3>2, <3>4, FoundStill
  <2>7. \A d \in Clients : FoundStands(d)'
    BY <2>6 DEF MovesOn
  <2>8. QED
    BY <2>4, <2>5, <2>7 DEF Exact
<1>9. Lifecycle
  BY <1>2 DEF Lifecycle
<1>10. QED
  BY <1>3, <1>7, <1>8, <1>9 DEF IInv

\* createReceipt inserts, or takes the receipt that another call has created
\* under the key meanwhile, which needs a second order with that key.
LEMMA EndCreateKeeps ==
    ASSUME IInv, NEW c \in Clients, EndCreate(c)
    PROVE  IInv' /\ Lifecycle
<1> DEFINE k == call[c].key
           row == call[c].row
<1>1. TypeOK /\ Holds(c) /\ call[c].op = "create"
  BY DEF IInv, EndCreate
<1>2. k \in ReceiptKeys /\ row \in Receipt /\ row.po \in Pos
      /\ row.status = "DRAFT" /\ k \in KeysOf[row.po] /\ lock[row.po] = c
  BY <1>1, CallParts DEF Holds, Receipt
<1>3. LockTable' /\ call'[c] = Idle /\ \A d \in Clients \ {c} : Stands(d)
  BY <1>1, EndCallFrees DEF EndCreate
<1>4. MovesOn(c)
  BY <1>3, IdleHolds
<1>5. \A d \in Clients : Stands(d) \/ MovesOn(d)
  BY <1>3, <1>4
<1>6. UNCHANGED <<inventory, whActive, approved>>
  BY DEF EndCreate
<1>7. CASE rec[k] = NoRow
  <2>1. rec' = [rec EXCEPT ![k] = row]
    BY <1>7 DEF EndCreate
  <2>2. ASSUME KeysApart, NEW d \in Clients, d # c, call[d].op = "create"
        PROVE  call[d].key # k
    <3>1. /\ call[d].row.po \in Pos /\ call[d].key \in KeysOf[call[d].row.po]
          /\ lock[call[d].row.po] = d
      BY <1>1, <2>2, CallParts DEF IInv, Holds, Receipt
    <3>2. QED
      BY <1>2, <2>2, <3>1 DEF KeysApart
  <2> HIDE DEF k, row
  <2>3. KeysApart => \A d \in Clients : MovesOn(d) \/ call[d].op # "create" \/ call[d].key # k
    BY <1>4, <2>2
  <2>4. row.status # "COMPLETED"
    BY <1>2
  <2>5. QED
    BY <1>2, <1>3, <1>5, <1>6, <1>7, <2>1, <2>3, <2>4, ReceiptMoves
<1>8. CASE rec[k] # NoRow
  <2> DEFINE new == [rec[k] EXCEPT !.lines = LinesUpserted(@, row.lines)]
  <2>1. CanLock(k) /\ rec' = [rec EXCEPT ![k].lines = LinesUpserted(@, row.lines)]
    BY <1>8 DEF EndCreate
  <2>2. ~KeysApart
    BY <1>1, <1>8 DEF IInv, Exact, FoundStands
  <2>3. rec[k] \in Receipt
    BY <1>1, <1>2, <1>8, ReceiptRow
  <2>4. LinesUpserted(rec[k].lines, row.lines) \in Quantities
    BY <1>2, <2>3 DEF LinesUpserted, Quantities, Receipt
  <2>5. /\ new \in Receipt /\ new.po = rec[k].po /\ new.wh = rec[k].wh
        /\ new.status = rec[k].status
    BY <2>3, <2>4 DEF Receipt
  <2>6. rec' = [rec EXCEPT ![k] = new]
    BY <2>1
  <2>7. lock[k] = Nobody
    BY <2>1 DEF CanLock
  <2> HIDE DEF k, row, new
  <2>8. QED
    BY <1>2, <1>3, <1>5, <1>6, <1>8, <2>2, <2>5, <2>6, <2>7, ReceiptMoves
<1>9. QED
  BY <1>7, <1>8

\* cancelReceipt waits for a completion that has the receipt.
LEMMA CancelKeeps ==
    ASSUME IInv, NEW k \in ReceiptKeys, CancelReceipt(k)
    PROVE  IInv' /\ Lifecycle
<1> DEFINE new == [rec[k] EXCEPT !.status = "CANCELLED"]
<1>1. /\ TypeOK /\ rec[k] # NoRow /\ rec[k].status = "DRAFT" /\ lock[k] = Nobody
      /\ rec' = [rec EXCEPT ![k].status = "CANCELLED"]
      /\ UNCHANGED <<inventory, whActive, approved, lock, call>>
  BY DEF IInv, CancelReceipt, Cancellable, CanLock
<1>2. rec[k] \in Receipt
  BY <1>1, ReceiptRow
<1>3. /\ new \in Receipt /\ new.po = rec[k].po /\ new.wh = rec[k].wh
      /\ new.status = "CANCELLED" /\ rec' = [rec EXCEPT ![k] = new]
  BY <1>1, <1>2 DEF Receipt
<1> HIDE DEF new
<1>4. LockTable' /\ \A d \in Clients : Stands(d)
  BY <1>1 DEF TypeOK, LockTable, Stands
<1>5. KeysApart => \A d \in Clients : call[d].op # "create" \/ call[d].key # k
  BY <1>1 DEF IInv, Exact, FoundStands
<1>6. QED
  BY <1>1, <1>3, <1>4, <1>5, ReceiptMoves

-----------------------------------------------------------------------------
(* Posting.                                                                *)

\* The movement that posts item i of receipt k.
LineMovement(k, i) ==
    [branch |-> BranchOf[rec[k].po], stock |-> <<rec[k].wh, i>>,
     qty |-> rec[k].lines[i], type |-> "RECEIPT", res |-> NoRow]

\* What receiveStock leaves of a line's stock row and movement.
LEMMA LineOutcome ==
    ASSUME TypeOK, NEW k \in ReceiptKeys, rec[k] # NoRow, NEW i \in ItemsOf(k),
           ReceiveLine(k, i) # {}
    PROVE  /\ LineReceived(k, i).stock[<<rec[k].wh, i>>] \in StockRow
           /\ LineReceived(k, i).mov[<<k, i>>] \in MovementRow
           /\ mov[<<k, i>>] = NoRow => LineReceived(k, i).mov[<<k, i>>] = LineMovement(k, i)
<1> DEFINE in == [branch |-> BranchOf[rec[k].po], wh |-> rec[k].wh, item |-> i,
                  qty |-> rec[k].lines[i], key |-> <<k, i>>]
           s == <<rec[k].wh, i>>
           x == <<k, i>>
           e == Added(Database, in, "RECEIPT")
<1>1. /\ rec[k].po \in Pos /\ rec[k].wh \in Warehouses /\ i \in Items
      /\ rec[k].lines[i] \in Qty /\ rec[k].lines[i] \in Nat
      /\ BranchOf[rec[k].po] \in Branches
  BY ReceiptRow, MaxQtyAssumption, ReceiptAssumption DEF ItemsOf, Quantities, Qty
<1>2. s \in StockKey /\ x \in OpKeys
  BY <1>1, ReceiptAssumption DEF StockKey
<1>3. Database.stock = stock /\ Database.mov = mov
  BY DEF Database
<1>4. stock \in [StockKey -> StockRow] /\ mov \in [OpKeys -> MovementRow]
  BY DEF TypeOK
<1>5. stock[s].onHand \in Nat /\ stock[s].reserved \in Nat
  BY <1>2, <1>4 DEF StockRow
<1>6. e.stock = Adjust(stock, s, rec[k].lines[i], 0) /\ e.mov = Put(mov, x, LineMovement(k, i))
  BY <1>3 DEF Added, LineMovement
<1>7. e.stock[s] \in StockRow
  <2>1. Adjust(stock, s, rec[k].lines[i], 0)[s]
            = [onHand |-> stock[s].onHand + rec[k].lines[i], reserved |-> stock[s].reserved + 0]
    BY <1>2, <1>4 DEF Adjust
  <2>2. QED
    BY <1>1, <1>5, <1>6, <2>1 DEF StockRow
<1>8. LineMovement(k, i) \in MovementRow
  BY <1>1, <1>2 DEF LineMovement, MovementRow, Movement
<1>9. e.mov[x] = LineMovement(k, i)
  BY <1>2, <1>4, <1>6 DEF Put
<1>10. ReceiveLine(k, i) \subseteq {Database, e} /\ (mov[x] = NoRow => ReceiveLine(k, i) \subseteq {e})
  BY <1>3 DEF ReceiveLine, AddStock
<1> HIDE DEF e, s, x
<1>11. LineReceived(k, i) \in ReceiveLine(k, i)
  BY DEF LineReceived
<1>12. stock[s] \in StockRow /\ mov[x] \in MovementRow
  BY <1>2, <1>4
<1>13. CASE LineReceived(k, i) = e
  BY <1>7, <1>8, <1>9, <1>13 DEF s, x
<1>14. CASE LineReceived(k, i) = Database /\ mov[x] # NoRow
  BY <1>3, <1>12, <1>14 DEF s, x
<1>15. QED
  BY <1>10, <1>11, <1>13, <1>14

\* What posting the lines of a receipt leaves of the tables: each line whose
\* key was free has its movement, and no other key is used.
LEMMA LinesPosted ==
    ASSUME TypeOK, NEW k \in ReceiptKeys, rec[k] # NoRow,
           NEW d \in PostLines(k), stock' = d.stock, mov' = d.mov
    PROVE  /\ stock' \in [StockKey -> StockRow] /\ mov' \in [OpKeys -> MovementRow]
           /\ \A x \in OpKeys : x \notin {k} \X ItemsOf(k) => mov'[x] = mov[x]
           /\ \A i \in ItemsOf(k) : mov[<<k, i>>] = NoRow => mov'[<<k, i>>] = LineMovement(k, i)
<1>1. /\ stock \in [StockKey -> StockRow] /\ mov \in [OpKeys -> MovementRow]
      /\ rec[k].wh \in Warehouses
  BY ReceiptRow DEF TypeOK
<1>2. d = LinesReceived(k, ItemsOf(k)) /\ \A i \in ItemsOf(k) : ReceiveLine(k, i) # {}
  BY DEF PostLines
<1>3. \A i \in ItemsOf(k) :
          /\ LineReceived(k, i).stock[<<rec[k].wh, i>>] \in StockRow
          /\ LineReceived(k, i).mov[<<k, i>>] \in MovementRow
          /\ mov[<<k, i>>] = NoRow => LineReceived(k, i).mov[<<k, i>>] = LineMovement(k, i)
  BY <1>2, LineOutcome
<1> DEFINE Row(s) == IF s \in {rec[k].wh} \X ItemsOf(k)
                     THEN LineReceived(k, s[2]).stock[s] ELSE stock[s]
           Entry(x) == IF x \in {k} \X ItemsOf(k)
                       THEN LineReceived(k, x[2]).mov[x] ELSE mov[x]
<1>4. stock' = [s \in StockKey |-> Row(s)] /\ mov' = [x \in OpKeys |-> Entry(x)]
  BY <1>2 DEF LinesReceived
<1>5. ASSUME NEW s \in StockKey PROVE Row(s) \in StockRow
  <2>1. CASE s \in {rec[k].wh} \X ItemsOf(k)
    <3>1. PICK i \in ItemsOf(k) : s = <<rec[k].wh, i>>
      BY <2>1
    <3>2. Row(s) = LineReceived(k, i).stock[<<rec[k].wh, i>>]
      BY <3>1
    <3>3. QED
      BY <1>3, <3>2
  <2>2. CASE s \notin {rec[k].wh} \X ItemsOf(k)
    BY <1>1, <2>2
  <2>3. QED
    BY <2>1, <2>2
<1>6. ASSUME NEW x \in OpKeys PROVE Entry(x) \in MovementRow
  <2>1. CASE x \in {k} \X ItemsOf(k)
    <3>1. PICK i \in ItemsOf(k) : x = <<k, i>>
      BY <2>1
    <3>2. Entry(x) = LineReceived(k, i).mov[<<k, i>>]
      BY <3>1
    <3>3. QED
      BY <1>3, <3>2
  <2>2. CASE x \notin {k} \X ItemsOf(k)
    BY <1>1, <2>2
  <2>3. QED
    BY <2>1, <2>2
<1>7. \A x \in OpKeys : mov'[x] = IF x \in {k} \X ItemsOf(k)
                                  THEN LineReceived(k, x[2]).mov[x] ELSE mov[x]
  BY <1>4
<1> HIDE DEF Row, Entry
<1>8. stock' \in [StockKey -> StockRow] /\ mov' \in [OpKeys -> MovementRow]
  BY <1>4, <1>5, <1>6
<1>9. \A i \in ItemsOf(k) : <<k, i>> \in OpKeys
  BY ReceiptAssumption DEF ItemsOf
<1>10. QED
  BY <1>3, <1>7, <1>8, <1>9

\* completeReceipt from its UPDATE on.
LEMMA CompleteKeeps ==
    ASSUME IInv, NEW c \in Clients, EndComplete(c)
    PROVE  IInv' /\ Lifecycle
<1> DEFINE k == call[c].key
           p == rec[k].po
           new == [rec[k] EXCEPT !.status = "COMPLETED"]
<1>1. /\ TypeOK /\ Holds(c) /\ call[c].op = "post" /\ EndCall(c)
      /\ UNCHANGED <<whActive, approved>>
  BY DEF IInv, EndComplete
<1>2. CASE UNCHANGED <<inventory, rec>>
  BY <1>1, <1>2, FailKeeps
<1>3. CASE \E d \in PostLines(k) : stock' = d.stock /\ mov' = d.mov /\ MarkCompleted(k)
  <2>1. /\ k \in ReceiptKeys /\ rec[k] # NoRow /\ rec[k].status = "DRAFT"
        /\ lock[k] = c /\ lock[p] = c
    BY <1>1, CallParts DEF Holds
  <2>2. rec[k] \in Receipt /\ p \in Pos /\ rec[k].lines \in Quantities
    BY <1>1, <2>1, ReceiptRow
  <2> HIDE DEF k
  <2>3. PICK d \in PostLines(k) : stock' = d.stock /\ mov' = d.mov /\ MarkCompleted(k)
    BY <1>3
  <2>4. /\ stock' \in [StockKey -> StockRow] /\ mov' \in [OpKeys -> MovementRow]
        /\ \A x \in OpKeys : x \notin {k} \X ItemsOf(k) => mov'[x] = mov[x]
        /\ \A i \in ItemsOf(k) : mov[<<k, i>>] = NoRow => mov'[<<k, i>>] = LineMovement(k, i)
    BY <1>1, <2>1, <2>3, LinesPosted
  <2>5. /\ new \in Receipt /\ new.po = p /\ new.wh = rec[k].wh /\ new.lines = rec[k].lines
        /\ new.status = "COMPLETED" /\ rec' = [rec EXCEPT ![k] = new]
    BY <2>2, <2>3 DEF Receipt, MarkCompleted
  <2> HIDE DEF new
  <2>6. rec' \in [ReceiptKeys -> Receipt \cup {NoRow}] /\ rec'[k] = new /\ new # NoRow
        /\ \A x \in ReceiptKeys \ {k} : rec'[x] = rec[x]
    BY <1>1, <2>1, <2>5, NoReceiptAssumption DEF TypeOK
  <2>7. LockTable' /\ call'[c] = Idle /\ \A e \in Clients \ {c} : Stands(e)
    BY <1>1, EndCallFrees
  <2>8. MovesOn(c)
    BY <2>7, IdleHolds
  <2>9. TypeOK'
    BY <1>1, <2>4, <2>6, <2>7 DEF TypeOK, LockTable
  <2>10. \A e \in Clients \ {c} : RowKept(e) /\ Stands(e) /\ Holds(e)
    BY <2>1, <2>6, <2>7 DEF RowKept, IInv
  <2>11. \A e \in Clients : Holds(e)'
    BY <1>1, <2>8, <2>10, HoldsStill DEF MovesOn
  <2>12. ASSUME KeysApart PROVE Exact'
    <3>1. /\ NeverOverReceived /\ CompletedMeansPosted /\ \A e \in Clients : FoundStands(e)
      BY <2>12 DEF IInv, Exact
    <3>2. LinesFit(k)
      BY <1>1, <3>1 DEF FoundStands, k
    <3>3. ASSUME NEW e \in Clients \ {c} PROVE FoundStands(e)'
      <4>1. FoundStands(e) /\ RowKept(e) /\ Stands(e) /\ Holds(e)
        BY <2>10, <3>1
      <4>2. CountKept(e)
        BY <2>1, <2>2, <2>5, <2>6 DEF CountKept, CountsFor
      <4>3. call[e].op = "create" => call[e].key \in ReceiptKeys
        BY <1>1, CallParts
      <4>4. call[e].op = "create" => rec'[call[e].key] = NoRow
        BY <2>1, <2>6, <4>1, <4>3 DEF FoundStands
      <4>5. QED
        BY <1>1, <4>1, <4>2, <4>4, FoundStill
    <3>4. \A e \in Clients : FoundStands(e)'
      BY <2>8, <3>3 DEF MovesOn
    <3>5. ASSUME NEW q \in Pos, NEW i \in Items PROVE Received(q, i)' <= Ordered[q][i]
      <4>1. CASE q # p
        <5>1. \A x \in ReceiptKeys : \/ rec'[x] = rec[x]
                                     \/ ~CountsFor(rec[x], q) /\ ~CountsFor(rec'[x], q)
          BY <2>1, <2>5, <2>6, <4>1 DEF CountsFor
        <5>2. Received(q, i)' = Received(q, i)
          BY <5>1, ReceivedStands
        <5>3. QED
          BY <3>1, <5>2 DEF NeverOverReceived
      <4>2. CASE q = p
        <5>1. new.lines[i] \in 0 .. MaxQty
          BY <2>2, <2>5 DEF Quantities
        <5>2. /\ \A x \in ReceiptKeys \ {k} : rec'[x] = rec[x]
              /\ ~CountsFor(rec[k], q) /\ CountsFor(rec'[k], q) /\ rec'[k].lines[i] \in 0 .. MaxQty
          BY <2>1, <2>5, <2>6, <4>2, <5>1 DEF CountsFor
        <5>3. Received(q, i) \in Nat /\ Received(q, i)' = Received(q, i) + rec'[k].lines[i]
          BY <2>1, <5>2, ReceivedGrows
        <5>4. rec'[k].lines[i] = rec[k].lines[i]
          BY <2>5, <2>6
        <5>5. Received(q, i) <= Ordered[q][i] /\ Ordered[q][i] \in Nat
          BY <3>1, MaxQtyAssumption, ReceiptAssumption DEF NeverOverReceived, Quantities
        <5>6. rec[k].lines[i] > 0 => rec[k].lines[i] <= Ordered[q][i] - Received(q, i)
          BY <3>2, <4>2 DEF LinesFit
        <5>7. rec[k].lines[i] \in Nat
          BY <5>1, <2>5, MaxQtyAssumption
        <5>8. QED
          BY <5>3, <5>4, <5>5, <5>6, <5>7
      <4>3. QED
        BY <4>1, <4>2
    <3>6. NeverOverReceived'
      BY <3>5 DEF NeverOverReceived
    <3>7. CompletedMeansPosted'
      <4>1. ASSUME NEW x \in ReceiptKeys, NEW i \in Items
            PROVE  IF rec'[x] # NoRow /\ rec'[x].status = "COMPLETED" /\ rec'[x].lines[i] > 0
                   THEN mov'[<<x, i>>] = [branch |-> BranchOf[rec'[x].po],
                                          stock |-> <<rec'[x].wh, i>>,
                                          qty |-> rec'[x].lines[i], type |-> "RECEIPT", res |-> NoRow]
                   ELSE mov'[<<x, i>>] = NoRow
        <5>1. <<x, i>> \in OpKeys
          BY ReceiptAssumption
        <5>2. CASE x # k
          <6>1. mov'[<<x, i>>] = mov[<<x, i>>] /\ rec'[x] = rec[x]
            BY <2>4, <2>6, <5>1, <5>2
          <6>2. QED
            BY <3>1, <6>1 DEF CompletedMeansPosted
        <5>3. CASE x = k
          <6>1. mov[<<k, i>>] = NoRow
            BY <2>1, <3>1 DEF CompletedMeansPosted
          <6>2. CASE i \in ItemsOf(k)
            <7>1. mov'[<<k, i>>] = LineMovement(k, i)
              BY <2>4, <6>1, <6>2
            <7>2. rec[k].lines[i] > 0
              BY <6>2 DEF ItemsOf
            <7>3. QED
              BY <2>5, <2>6, <5>3, <7>1, <7>2 DEF LineMovement
          <6>3. CASE i \notin ItemsOf(k)
            <7>1. ~(rec[k].lines[i] > 0)
              BY <6>3 DEF ItemsOf
            <7>2. mov'[<<k, i>>] = NoRow
              BY <2>4, <5>1, <5>3, <6>1, <6>3
            <7>3. QED
              BY <2>5, <2>6, <5>3, <7>1, <7>2
          <6>4. QED
            BY <6>2, <6>3
        <5>4. QED
          BY <5>2, <5>3
      <4>2. QED
        BY <4>1 DEF CompletedMeansPosted
    <3>8. QED
      BY <3>4, <3>6, <3>7 DEF Exact
  <2>13. Lifecycle
    BY <2>1, <2>5, <2>6 DEF Lifecycle
  <2>14. QED
    BY <2>9, <2>11, <2>12, <2>13 DEF IInv
<1>4. QED
  BY <1>2, <1>3 DEF EndComplete

-----------------------------------------------------------------------------
(* The specification.                                                      *)

\* No receipts, no movements and no calls at first.
LEMMA InitHolds == Init => IInv
<1> SUFFICES ASSUME Init PROVE IInv
  OBVIOUS
<1>1. TypeOK
  BY DEF Init, TypeOK, Call, StockRow, MovementRow
<1>2. \A c \in Clients : Holds(c) /\ FoundStands(c)
  BY DEF Init, Holds, FoundStands, Idle
<1>3. CompletedMeansPosted
  BY ReceiptAssumption DEF Init, CompletedMeansPosted
<1>4. ASSUME NEW p \in Pos, NEW i \in Items PROVE Received(p, i) <= Ordered[p][i]
  <2>1. ReceivedUnits(p, i) = {}
    BY DEF Init, ReceivedUnits
  <2>2. Received(p, i) = 0
    BY <2>1, FS_EmptySet DEF Received
  <2>3. Ordered[p][i] \in 0 .. MaxQty
    BY ReceiptAssumption DEF Quantities
  <2>4. QED
    BY <2>2, <2>3, MaxQtyAssumption
<1>5. QED
  BY <1>1, <1>2, <1>3, <1>4 DEF IInv, Exact, NeverOverReceived

\* A step of nobody's call, on an order or a warehouse.
LEMMA RegistryKeeps ==
    ASSUME IInv, UNCHANGED <<stock, mov, rec, lock, call>>,
           whActive' \subseteq Warehouses, approved' \subseteq Pos
    PROVE  IInv' /\ Lifecycle
<1>1. LockTable' /\ \A d \in Clients : Stands(d)
  BY DEF IInv, TypeOK, LockTable, Stands
<1>2. QED
  BY <1>1, Quiet

\* Every step keeps the invariant, and receipts end once.
LEMMA NextKeeps == ASSUME IInv, [Next]_vars PROVE IInv' /\ Lifecycle
<1> USE DEF inventory
<1>1. whActive \subseteq Warehouses /\ approved \subseteq Pos
  BY DEF IInv, TypeOK
<1>2. ASSUME NEW p \in Pos, Approve(p) PROVE IInv' /\ Lifecycle
  BY <1>1, <1>2, RegistryKeeps DEF Approve
<1>3. ASSUME NEW c \in Clients, NEW p \in Pos, NEW w \in Warehouses, NEW lines \in LineChoices,
             NEW k \in KeysOf[p], BeginCreate(c, p, k, w, lines)
      PROVE  IInv' /\ Lifecycle
  BY <1>3, BeginCreateKeeps
<1>4. ASSUME NEW c \in Clients, NEW k \in ReceiptKeys, BeginComplete(c, k) PROVE IInv' /\ Lifecycle
  BY <1>4, BeginCompleteKeeps
<1>5. ASSUME NEW c \in Clients, EndCreate(c) PROVE IInv' /\ Lifecycle
  BY <1>5, EndCreateKeeps
<1>6. ASSUME NEW c \in Clients, CheckOutstanding(c) PROVE IInv' /\ Lifecycle
  BY <1>6, CheckKeeps
<1>7. ASSUME NEW c \in Clients, EndComplete(c) PROVE IInv' /\ Lifecycle
  BY <1>7, CompleteKeeps
<1>8. ASSUME NEW c \in Clients, Fail(c) PROVE IInv' /\ Lifecycle
  BY <1>8, FailKeeps DEF Fail
<1>9. ASSUME NEW k \in ReceiptKeys, CancelReceipt(k) PROVE IInv' /\ Lifecycle
  BY <1>9, CancelKeeps
<1>10. ASSUME NEW w \in Warehouses, NEW active \in BOOLEAN, SetWarehouse(w, active)
       PROVE  IInv' /\ Lifecycle
  BY <1>1, <1>10, RegistryKeeps DEF SetWarehouse
<1>11. CASE UNCHANGED vars
  BY <1>1, <1>11, RegistryKeeps DEF vars
<1>12. QED
  BY <1>2, <1>3, <1>4, <1>5, <1>6, <1>7, <1>8, <1>9, <1>10, <1>11 DEF Next

\* The inductive invariant: the locks that calls hold, and, where orders do not
\* share operation keys, what calls have found under them.
THEOREM Invariance == Spec => []IInv
<1>1. IInv /\ [Next]_vars => IInv'
  BY NextKeeps
<1>2. QED
  BY InitHolds, <1>1, PTL DEF Spec

\* The tables hold rows of their columns, and only a call in progress has a
\* row locked.
THEOREM TypeCorrect == Spec => []TypeOK
<1>1. IInv => TypeOK
  BY DEF IInv
<1>2. QED
  BY Invariance, <1>1, PTL

\* Completions that overlap never receive more than was ordered, as long as no
\* operation key is used for two orders (completeReceipt, lockPurchaseOrder).
THEOREM ReceivedWithinOrder == ASSUME KeysApart PROVE Spec => []NeverOverReceived
<1>1. IInv => NeverOverReceived
  BY DEF IInv, Exact
<1>2. QED
  BY Invariance, <1>1, PTL

\* A receipt is COMPLETED exactly when its lines are in stock, on the same
\* condition (completeReceipt, receiveStock).
THEOREM PostedWithCompletion == ASSUME KeysApart PROVE Spec => []CompletedMeansPosted
<1>1. IInv => CompletedMeansPosted
  BY DEF IInv, Exact
<1>2. QED
  BY Invariance, <1>1, PTL

\* A receipt ends once and never changes its order or warehouse, whatever keys
\* callers use (completeReceipt, cancelReceipt).
THEOREM ReceiptsEndOnce == Spec => ReceiptLifecycle
<1>1. IInv /\ [Next]_vars =>
          [\A k \in ReceiptKeys : (rec[k] # NoRow /\ rec'[k] # rec[k]) =>
              /\ rec'[k].po = rec[k].po /\ rec'[k].wh = rec[k].wh
              /\ rec[k].status # rec'[k].status =>
                    rec[k].status = "DRAFT" /\ rec'[k].status \in {"COMPLETED", "CANCELLED"}]_vars
  BY NextKeeps DEF Lifecycle
<1>2. QED
  BY Invariance, <1>1, PTL DEF Spec, ReceiptLifecycle

=============================================================================
