----------------------------- MODULE StockTypes ------------------------------
(***************************************************************************)
(* The rows of the inventory tables, and what a table of them adds up to.  *)
(* Only the columns that decide an outcome are kept.  A reservation row is *)
(* identified by its source document and item, as by the unique constraint *)
(* uq_inventory_reservation_source_item; a movement row by its operation   *)
(* key, unique within the tenant.  One tenant is modelled: row level       *)
(* security and the tenant_id predicate of every statement separate them.  *)
(***************************************************************************)
EXTENDS Integers, FiniteSets

CONSTANTS Warehouses,  \* warehouse identifiers
          Items,       \* item master identifiers
          Sources,     \* source documents a reservation is made for
          Branches,    \* working contexts: a branch with its financial year
          OpKeys,      \* operation keys of stock movements
          MaxQty,      \* the largest quantity of one line
          NoRow        \* "no such row"

StockKey == Warehouses \X Items
ResKey   == Sources \X Items
Qty      == 1 .. MaxQty

Reservation == [branch : Branches, wh : Warehouses, qty : Qty,
                status : {"RESERVED", "RELEASED", "FULFILLED"}]
Movement == [branch : Branches, stock : StockKey, qty : Qty,
             type : {"RECEIPT", "RETURN", "ISSUE"},
             res : ResKey \cup {NoRow}]
\* The CHECK constraints on a stock row are not modelled: that no statement of the
\* code ever meets one is what the type and NeverOversold say.
StockRow == [onHand : Nat, reserved : Nat]

ReservationRow == Reservation \cup {NoRow}
MovementRow    == Movement \cup {NoRow}

ASSUME FiniteAssumption ==
    /\ IsFiniteSet(Warehouses) /\ IsFiniteSet(Items) /\ IsFiniteSet(Sources)
    /\ IsFiniteSet(Branches) /\ IsFiniteSet(OpKeys)

ASSUME MaxQtyAssumption == MaxQty \in Nat \ {0}

ASSUME NoRowAssumption ==
    NoRow \notin Reservation /\ NoRow \notin Movement /\ NoRow \notin ResKey

-----------------------------------------------------------------------------
(* One element per unit of quantity, so that a total is a cardinality.     *)

HeldUnits(r, s) ==
    {u \in ResKey \X Qty :
        /\ r[u[1]] # NoRow
        /\ r[u[1]].status = "RESERVED"
        /\ <<r[u[1]].wh, u[1][2]>> = s
        /\ u[2] <= r[u[1]].qty}

MovedUnits(m, s, types) ==
    {u \in OpKeys \X Qty :
        /\ m[u[1]] # NoRow
        /\ m[u[1]].stock = s
        /\ m[u[1]].type \in types
        /\ u[2] <= m[u[1]].qty}

Held(r, s)     == Cardinality(HeldUnits(r, s))
Incoming(m, s) == Cardinality(MovedUnits(m, s, {"RECEIPT", "RETURN"}))
Issued(m, s)   == Cardinality(MovedUnits(m, s, {"ISSUE"}))

\* Nothing is held, or has left, that did not come in.
Solvent(r, m) == \A s \in StockKey : Held(r, s) + Issued(m, s) <= Incoming(m, s)

\* Movement k is an issue of reservation r.
IsIssueOf(m, k, r) == m[k] # NoRow /\ m[k].type = "ISSUE" /\ m[k].res = r

\* A reservation is FULFILLED exactly when one movement issued it, for its whole
\* quantity and from its own stock row.
IssuedOnce(rs, m) ==
    /\ \A r \in ResKey :
          (rs[r] # NoRow /\ rs[r].status = "FULFILLED")
             <=> \E k \in OpKeys : IsIssueOf(m, k, r)
    /\ \A k \in OpKeys, r \in ResKey :
          IsIssueOf(m, k, r) => /\ m[k].qty = rs[r].qty
                                /\ m[k].stock = <<rs[r].wh, r[2]>>
    /\ \A k, l \in OpKeys, r \in ResKey :
          IsIssueOf(m, k, r) /\ IsIssueOf(m, l, r) => k = l

\* A reservation only ever ends, and keeps what it was made for.
ReservationStep(before, after) ==
    \/ after = before
    \/ before = NoRow
    \/ /\ before # NoRow /\ after # NoRow
       /\ before.status = "RESERVED"
       /\ after = [before EXCEPT !.status = after.status]

\* A movement row is never changed or removed.
MovementStep(before, after) == after = before \/ before = NoRow

=============================================================================
