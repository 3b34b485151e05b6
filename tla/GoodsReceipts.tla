---------------------------- MODULE GoodsReceipts ----------------------------
(***************************************************************************)
(* Goods receipts: createReceipt, completeReceipt and cancelReceipt of     *)
(* ProcurementService and its repository, over the inventory they post to. *)
(*                                                                         *)
(* A receipt is identified by its operation key, unique in the tenant, and *)
(* has a quantity per item (0: no line).  createReceipt locks the purchase *)
(* order, looks for a receipt with the key, checks what is outstanding and *)
(* only then inserts; completeReceipt locks the receipt, then the order,   *)
(* then posts every line to stock.  The locks last until the transaction   *)
(* ends.  updateReceipt always fails in SQL and is no step.  The movement  *)
(* keys of receipts are not used by anyone else.                           *)
(*                                                                         *)
(* A purchase order that is APPROVED stays so (PurchaseOrders), and its    *)
(* lines never change.                                                     *)
(***************************************************************************)
EXTENDS InventoryOps

CONSTANTS Pos,          \* purchase order identifiers
          ReceiptKeys,  \* operation keys of receipts
          KeysOf,       \* the keys callers use for receipts of each purchase order
          Clients,      \* concurrent calls
          Ordered,      \* the quantity of each item on each purchase order
          BranchOf,     \* the branch of each purchase order
          LineChoices,  \* the quantities per item users enter
          Nobody        \* owner of a row no transaction has locked

VARIABLES stock, mov,  \* inventory_stock and inventory_movements
          whActive,    \* the warehouses that are ACTIVE
          approved,    \* the purchase orders that are APPROVED
          rec,         \* procurement_receipts with their lines, by operation key
          lock,        \* who has locked each order and receipt row
          call         \* where each client's call is, and what it was asked

inventory == <<stock, mov>>
vars == <<stock, mov, whActive, approved, rec, lock, call>>

Quantities == [Items -> 0 .. MaxQty]
LockableRows == Pos \cup ReceiptKeys

ASSUME ReceiptAssumption ==
    /\ ReceiptKeys \X Items \subseteq OpKeys /\ IsFiniteSet(ReceiptKeys)
    /\ KeysOf \in [Pos -> SUBSET ReceiptKeys]
    /\ Pos \cap ReceiptKeys = {}
    /\ Nobody \notin Clients
    /\ Ordered \in [Pos -> Quantities]
    /\ BranchOf \in [Pos -> Branches]
    /\ LineChoices \subseteq Quantities
    /\ \A l \in LineChoices : \E i \in Items : l[i] > 0

Receipt == [po : Pos, wh : Warehouses, lines : Quantities,
            status : {"DRAFT", "COMPLETED", "CANCELLED"}]

ASSUME NoReceiptAssumption == NoRow \notin Receipt

Idle == [op |-> "idle"]
Call == {Idle} \cup [op : {"create"}, key : ReceiptKeys, row : Receipt]
               \cup [op : {"check", "post"}, key : ReceiptKeys]

\* Receiving goods makes no reservation.
Database == [stock |-> stock, mov |-> mov, res |-> [r \in ResKey |-> NoRow]]
Registry == [wh   |-> [w \in Warehouses |-> IF w \in whActive THEN "ACTIVE" ELSE "INACTIVE"],
             item |-> [i \in Items |-> "SELLABLE"]]

Init ==
    /\ stock = [s \in StockKey |-> [onHand |-> 0, reserved |-> 0]]
    /\ mov = [k \in OpKeys |-> NoRow]
    /\ whActive = Warehouses
    /\ approved = {}
    /\ rec = [k \in ReceiptKeys |-> NoRow]
    /\ lock = [x \in LockableRows |-> Nobody]
    /\ call = [c \in Clients |-> Idle]

-----------------------------------------------------------------------------
(* Locks, and what has been received                                       *)

CanLockAlways(x) == TRUE  \* mutant: SELECT without FOR UPDATE

CanLock(x) == lock[x] = Nobody

LockRow(c, x) == lock' = [lock EXCEPT ![x] = c]

Goto(c, state) == call' = [call EXCEPT ![c] = state]

\* Commit or rollback: the locks go, and the call is answered.
EndCall(c) ==
    /\ lock' = [x \in LockableRows |-> IF lock[x] = c THEN Nobody ELSE lock[x]]
    /\ Goto(c, Idle)

\* SUM(quantity) of the COMPLETED receipts of an order: one element per unit.
ReceivedUnits(p, i) ==
    {u \in ReceiptKeys \X Qty :
        /\ rec[u[1]] # NoRow /\ rec[u[1]].po = p /\ rec[u[1]].status = "COMPLETED"
        /\ u[2] <= rec[u[1]].lines[i]}
Received(p, i) == Cardinality(ReceivedUnits(p, i))

\* Every line is within what is still outstanding of the order; an item that is not on
\* the order has nothing outstanding.
WithinOutstanding(p, lines) ==
    \A i \in Items : lines[i] > 0 => lines[i] <= Ordered[p][i] - Received(p, i)

-----------------------------------------------------------------------------
\* An order reaches APPROVED (PurchaseOrders), and may be received from then on.
Approve(p) ==
    /\ p \notin approved
    /\ approved' = approved \cup {p}
    /\ UNCHANGED <<inventory, whActive, rec, lock, call>>

\* createReceipt up to its INSERT: the order is locked, the key is not in use, the
\* lines are outstanding.  A key in use is answered with its receipt, whatever order
\* that belongs to, and a call that throws here changes nothing: neither is a step.
BeginCreate(c, p, k, w, lines) ==
    /\ call[c] = Idle
    /\ p \in approved /\ CanLock(p)
    /\ rec[k] = NoRow
    /\ WithinOutstanding(p, lines)
    /\ LockRow(c, p)
    /\ Goto(c, [op |-> "create", key |-> k,
                row |-> [po |-> p, wh |-> w, lines |-> lines, status |-> "DRAFT"]])
    /\ UNCHANGED <<inventory, whActive, approved, rec>>

\* INSERT ... ON CONFLICT(receipt_id, item_id) DO UPDATE SET quantity, line by line.
LinesUpserted(old, new) == [i \in Items |-> IF new[i] > 0 THEN new[i] ELSE old[i]]

\* INSERT ... ON CONFLICT(tenant_id, operation_key) DO UPDATE: a receipt that another
\* call has created under the key since, for whatever order and by now in whatever
\* status, is taken for the new one and gets the lines.
EndCreate(c) ==
    /\ call[c].op = "create"
    /\ LET k == call[c].key
           row == call[c].row
       IN  IF rec[k] = NoRow
           THEN rec' = [rec EXCEPT ![k] = row]
           ELSE CanLock(k) /\ rec' = [rec EXCEPT ![k].lines = LinesUpserted(@, row.lines)]
    /\ EndCall(c)
    /\ UNCHANGED <<inventory, whActive, approved>>

\* completeReceipt: lock the receipt, then read its lines.
BeginComplete(c, k) ==
    /\ call[c] = Idle
    /\ rec[k] # NoRow /\ rec[k].status = "DRAFT" /\ CanLock(k)
    /\ LockRow(c, k)
    /\ Goto(c, [op |-> "check", key |-> k])
    /\ UNCHANGED <<inventory, whActive, approved, rec>>

\* Lock the order and check the lines against what is outstanding under that lock.
CheckOutstanding(c) ==
    /\ call[c].op = "check"
    /\ LET k == call[c].key
           p == rec[k].po
       IN  /\ CanLock(p)
           /\ IF p \in approved /\ WithinOutstanding(p, rec[k].lines)
              THEN LockRow(c, p) /\ Goto(c, [op |-> "post", key |-> k])
              ELSE EndCall(c)
    /\ UNCHANGED <<inventory, whActive, approved, rec>>

\* The items of a receipt's lines.
ItemsOf(k) == {i \in Items : rec[k].lines[i] > 0}

\* receiveStock for item i of receipt k: no database when it throws, else one.
ReceiveLine(k, i) ==
    AddStock(Database, Registry,
             [branch |-> BranchOf[rec[k].po], wh |-> rec[k].wh, item |-> i,
              qty |-> rec[k].lines[i], key |-> <<k, i>>], "RECEIPT")
LineReceived(k, i) == CHOOSE d \in ReceiveLine(k, i) : TRUE

\* Several lines of a receipt, in one transaction.  Each has a stock row and a movement
\* key of its own, so none sees what another did.
LinesReceived(k, items) ==
    [stock |-> [s \in StockKey |-> IF s \in {rec[k].wh} \X items
                                   THEN LineReceived(k, s[2]).stock[s] ELSE stock[s]],
     mov   |-> [x \in OpKeys |-> IF x \in {k} \X items
                                 THEN LineReceived(k, x[2]).mov[x] ELSE mov[x]]]

\* mutant: a line that is refused is skipped
PostLinesSkipping(k) == {LinesReceived(k, {i \in ItemsOf(k) : ReceiveLine(k, i) # {}})}

\* The lines of a receipt: the databases they may leave, none when one is refused.
PostLines(k) ==
    IF \E i \in ItemsOf(k) : ReceiveLine(k, i) = {} THEN {} ELSE {LinesReceived(k, ItemsOf(k))}

\* The repository's last UPDATE of completeReceipt, under the lock of BeginComplete.
MarkCompleted(k) == rec' = [rec EXCEPT ![k].status = "COMPLETED"]

\* completeReceipt from its UPDATE on: the status, the stock, and the commit; or a line
\* is refused and all of it is rolled back.
EndComplete(c) ==
    /\ call[c].op = "post"
    /\ LET k == call[c].key
           ds == PostLines(k)
       IN  \/ /\ \E d \in ds : stock' = d.stock /\ mov' = d.mov
              /\ MarkCompleted(k)
           \/ /\ ds = {}
              /\ UNCHANGED <<inventory, rec>>
    /\ EndCall(c)
    /\ UNCHANGED <<whActive, approved>>

CancellableAlways(k) == rec[k] # NoRow  \* mutant: UPDATE without status='DRAFT'

Cancellable(k) == rec[k] # NoRow /\ rec[k].status = "DRAFT"

\* cancelReceipt, and the receipt's transition to CANCELLED: one guarded UPDATE, which
\* waits for the row.
CancelReceipt(k) ==
    /\ Cancellable(k) /\ CanLock(k)
    /\ rec' = [rec EXCEPT ![k].status = "CANCELLED"]
    /\ UNCHANGED <<inventory, whActive, approved, lock, call>>

\* A crash, a lost connection, a timeout or a deadlock victim: rolled back.
Fail(c) ==
    /\ call[c] # Idle
    /\ EndCall(c)
    /\ UNCHANGED <<inventory, whActive, approved, rec>>

\* updateWarehouse, by other users.
SetWarehouse(w, active) ==
    /\ whActive' = IF active THEN whActive \cup {w} ELSE whActive \ {w}
    /\ UNCHANGED <<inventory, approved, rec, lock, call>>

Next ==
    \/ \E p \in Pos : Approve(p)
    \/ \E c \in Clients, p \in Pos, w \in Warehouses, lines \in LineChoices :
          \E k \in KeysOf[p] : BeginCreate(c, p, k, w, lines)
    \/ \E c \in Clients, k \in ReceiptKeys : BeginComplete(c, k)
    \/ \E c \in Clients :
          EndCreate(c) \/ CheckOutstanding(c) \/ EndComplete(c) \/ Fail(c)
    \/ \E k \in ReceiptKeys : CancelReceipt(k)
    \/ \E w \in Warehouses, active \in BOOLEAN : SetWarehouse(w, active)

Spec == Init /\ [][Next]_vars

-----------------------------------------------------------------------------
\* The tables hold rows, and only a call in progress has rows locked.
TypeOK ==
    /\ stock \in [StockKey -> StockRow]
    /\ mov \in [OpKeys -> MovementRow]
    /\ whActive \subseteq Warehouses /\ approved \subseteq Pos
    /\ rec \in [ReceiptKeys -> Receipt \cup {NoRow}]
    /\ call \in [Clients -> Call]
    /\ lock \in [LockableRows -> Clients \cup {Nobody}]
    /\ \A x \in LockableRows : lock[x] # Nobody => call[lock[x]] # Idle

\* Completions that overlap never receive more of an order than was ordered, as long as
\* no operation key is used for two orders: each one checks what is outstanding under
\* the lock of the order, and keeps the lock until its own lines count.
NeverOverReceived == \A p \in Pos, i \in Items : Received(p, i) <= Ordered[p][i]

\* A receipt is COMPLETED exactly when its lines are in stock: each of them by one
\* movement, of its quantity, into its warehouse and for the branch of its order.
CompletedMeansPosted ==
    \A k \in ReceiptKeys, i \in Items :
        IF rec[k] # NoRow /\ rec[k].status = "COMPLETED" /\ rec[k].lines[i] > 0
        THEN mov[<<k, i>>] = [branch |-> BranchOf[rec[k].po], stock |-> <<rec[k].wh, i>>,
                              qty |-> rec[k].lines[i], type |-> "RECEIPT", res |-> NoRow]
        ELSE mov[<<k, i>>] = NoRow

\* A receipt ends once: what a completion overlaps with, a cancellation or another
\* completion, does not move it again, and it never changes its order or warehouse.
ReceiptLifecycle ==
    [][\A k \in ReceiptKeys : (rec[k] # NoRow /\ rec'[k] # rec[k]) =>
          /\ rec'[k].po = rec[k].po /\ rec'[k].wh = rec[k].wh
          /\ rec[k].status # rec'[k].status =>
                rec[k].status = "DRAFT" /\ rec'[k].status \in {"COMPLETED", "CANCELLED"}]_vars

\* docs/08-business-modules/04: "Completed and cancelled receipts are immutable."  Two
\* orders with one operation key break it (ReceiptKeyRace.cfg).
FinishedReceiptsImmutable ==
    [][\A k \in ReceiptKeys :
         (rec[k] # NoRow /\ rec[k].status # "DRAFT") => rec'[k] = rec[k]]_vars

=============================================================================
