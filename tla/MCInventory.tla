----------------------------- MODULE MCInventory -----------------------------
(***************************************************************************)
(* TLC instance of Inventory: two source documents compete for one stock   *)
(* row, two branches share the operation keys, and there are keys enough   *)
(* for a receipt, an issue and a return.  Sources, branches and keys are   *)
(* interchangeable.                                                        *)
(***************************************************************************)
EXTENDS Inventory, TLC

Symmetric == Permutations(Sources) \cup Permutations(Branches) \cup Permutations(OpKeys)

=============================================================================
