----------------------------- MODULE StockLedger -----------------------------
(***************************************************************************)
(* What the inventory component promises, with no stock counter in sight.  *)
(*                                                                         *)
(* The durable history of stock is a table of reservations and a table of  *)
(* movements; physical stock and held stock are what those rows add up to. *)
(* A committed transaction may add rows, and may end a reservation, but it *)
(* never rewrites history, never issues a reservation twice and never      *)
(* leaves more stock held than there is.                                   *)
(***************************************************************************)
EXTENDS StockTypes

VARIABLES res,  \* inventory_reservations, by source document and item
          mov   \* inventory_movements, by operation key

ledgerVars == <<res, mov>>

LedgerInit ==
    /\ res = [r \in ResKey |-> NoRow]
    /\ mov = [k \in OpKeys |-> NoRow]

\* One committed database transaction, whatever operations it is made of.
Post ==
    /\ res' \in [ResKey -> ReservationRow]
    /\ mov' \in [OpKeys -> MovementRow]
    /\ \A r \in ResKey : ReservationStep(res[r], res'[r])
    /\ \A k \in OpKeys : MovementStep(mov[k], mov'[k])
    /\ Solvent(res', mov')
    /\ IssuedOnce(res', mov')

LedgerSpec == LedgerInit /\ [][Post]_ledgerVars

=============================================================================
