------------------------------ MODULE Inventory ------------------------------
(***************************************************************************)
(* The inventory component, one action per operation of InventoryService   *)
(* and of the item master, each operation one database transaction.  A     *)
(* call that throws changes nothing and is no step of its own.             *)
(* That transactions may be taken one at a time is what InventoryTx shows. *)
(***************************************************************************)
EXTENDS InventoryOps

VARIABLES stock,  \* inventory_stock: on_hand and reserved quantity
          res,    \* inventory_reservations
          mov,    \* inventory_movements
          reg     \* state of inventory_warehouses and inventory_items

vars == <<stock, res, mov, reg>>

Registry == [wh   : [Warehouses -> {"NONE", "ACTIVE", "INACTIVE"}],
             item : [Items -> {"NONE", "SELLABLE", "NOT_ELIGIBLE", "DELETED"}]]

Database == [stock |-> stock, res |-> res, mov |-> mov]

Commit(d) ==
    /\ stock' = d.stock /\ res' = d.res /\ mov' = d.mov
    /\ UNCHANGED reg

Init ==
    /\ stock = [s \in StockKey |-> [onHand |-> 0, reserved |-> 0]]
    /\ res = [r \in ResKey |-> NoRow]
    /\ mov = [k \in OpKeys |-> NoRow]
    /\ reg = [wh   |-> [w \in Warehouses |-> "NONE"],
              item |-> [i \in Items |-> "NONE"]]

Receive(in) == \E d \in AddStock(Database, reg, in, "RECEIPT") : Commit(d)
Return(in)  == \E d \in AddStock(Database, reg, in, "RETURN") : Commit(d)
Reserve(in) == \E d \in ReserveStock(Database, reg, in) : Commit(d)
Release(r, b) == \E d \in ReleaseReservation(Database, r, b) : Commit(d)
Fulfill(r, b, k) == \E d \in FulfillReservation(Database, r, b, k) : Commit(d)

\* createWarehouse, and updateWarehouse by the caller that read the current version.
CreateWarehouse(w) ==
    /\ reg.wh[w] = "NONE"
    /\ reg' = [reg EXCEPT !.wh[w] = "ACTIVE"]
    /\ UNCHANGED <<stock, res, mov>>
UpdateWarehouse(w, status) ==
    /\ reg.wh[w] # "NONE"
    /\ reg' = [reg EXCEPT !.wh[w] = status]
    /\ UNCHANGED <<stock, res, mov>>

\* ItemMasterService.create, update (by the caller with the current version) and
\* softDelete, none of which looks at stock.
CreateItem(i, eligibility) ==
    /\ reg.item[i] = "NONE"
    /\ reg' = [reg EXCEPT !.item[i] = eligibility]
    /\ UNCHANGED <<stock, res, mov>>
UpdateItem(i, eligibility) ==
    /\ reg.item[i] \in {"SELLABLE", "NOT_ELIGIBLE"}
    /\ reg' = [reg EXCEPT !.item[i] = eligibility]
    /\ UNCHANGED <<stock, res, mov>>
DeleteItem(i) ==
    /\ reg.item[i] \in {"SELLABLE", "NOT_ELIGIBLE"}
    /\ reg' = [reg EXCEPT !.item[i] = "DELETED"]
    /\ UNCHANGED <<stock, res, mov>>

MasterData ==
    \/ \E w \in Warehouses : CreateWarehouse(w)
    \/ \E w \in Warehouses, status \in {"ACTIVE", "INACTIVE"} : UpdateWarehouse(w, status)
    \/ \E i \in Items, e \in {"SELLABLE", "NOT_ELIGIBLE"} : CreateItem(i, e) \/ UpdateItem(i, e)
    \/ \E i \in Items : DeleteItem(i)

Next ==
    \/ \E in \in AddRequest : Receive(in) \/ Return(in)
    \/ \E in \in ReserveRequest : Reserve(in)
    \/ \E r \in ResKey, b \in Branches : Release(r, b)
    \/ \E r \in ResKey, b \in Branches, k \in OpKeys : Fulfill(r, b, k)
    \/ MasterData

Spec == Init /\ [][Next]_vars

-----------------------------------------------------------------------------
\* Every row holds values of its columns.
TypeOK ==
    /\ stock \in [StockKey -> StockRow]
    /\ res \in [ResKey -> ReservationRow]
    /\ mov \in [OpKeys -> MovementRow]
    /\ reg \in Registry

\* The counters of a stock row are never adrift of the rows they summarise: reserved
\* is what the open reservations hold, on_hand is what came in less what was issued.
\* The code updates them side by side in four methods and never recomputes them.
CountersMatchLedger ==
    \A s \in StockKey :
        /\ stock[s].reserved = Held(res, s)
        /\ stock[s].onHand + Issued(mov, s) = Incoming(mov, s)

\* ADR-0034: on_hand and reserved are never negative, and reserved cannot exceed
\* on_hand, so no stock is promised twice.
NeverOversold == \A s \in StockKey : 0 <= stock[s].reserved /\ stock[s].reserved <= stock[s].onHand

\* A reservation is issued by one movement at most, whole, and is FULFILLED exactly
\* then: retries of fulfillReservation under the same or another key add nothing.
OneIssuePerReservation == IssuedOnce(res, mov)

Ledger == INSTANCE StockLedger

\* The inventory tables evolve as the ledger promises: rows are only added, a
\* reservation only ends, and every commit leaves the ledger solvent.
ImplementsLedger == Ledger!LedgerSpec

\* ADR-0034: "Inactive warehouses cannot [...] fulfill reservations".  One deactivated
\* while a reservation is open breaks it (InventoryInactive.cfg).
FulfilOnlyFromActiveWarehouse ==
    [][\A r \in ResKey :
         (res[r] # NoRow /\ res'[r] # NoRow
            /\ res[r].status = "RESERVED" /\ res'[r].status = "FULFILLED")
         => reg.wh[res[r].wh] = "ACTIVE"]_vars

=============================================================================
