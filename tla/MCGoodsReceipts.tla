--------------------------- MODULE MCGoodsReceipts ---------------------------
(***************************************************************************)
(* TLC instance of GoodsReceipts: one order of two items with two receipts *)
(* that do not both fit, an order with one receipt, two warehouses and two *)
(* overlapping calls.                                                      *)
(***************************************************************************)
EXTENDS GoodsReceipts, TLC

CONSTANTS p1, p2, i1, i2, k1, k2, k3, b1

MCOrdered == (p1 :> (i1 :> 2 @@ i2 :> 1)) @@ (p2 :> (i1 :> 2 @@ i2 :> 0))

MCBranchOf == [p \in Pos |-> b1]

MCLines == {i1 :> 2 @@ i2 :> 0, i1 :> 1 @@ i2 :> 1}

MCOpKeys == ReceiptKeys \X Items

\* Callers that use a key for one order only, and callers that do not.
OwnKeys    == p1 :> {k1, k2} @@ p2 :> {k3}
SharedKeys == [p \in Pos |-> ReceiptKeys]

Symmetric == Permutations(Clients) \cup Permutations({k1, k2})

=============================================================================
