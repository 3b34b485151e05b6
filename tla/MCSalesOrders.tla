---------------------------- MODULE MCSalesOrders ----------------------------
(***************************************************************************)
(* TLC instance of SalesOrders: the calls of one order, two of which       *)
(* overlap, and other users of the inventory, who reserve, release and     *)
(* fulfil for the same order, share the stock of two items, received or    *)
(* issued under three keys at most.  The quotation has a line per item,    *)
(* the same item twice, or a line without an item.                         *)
(***************************************************************************)
EXTENDS SalesOrders, TLC

CONSTANTS i1, i2

MCLines == {<<[item |-> i1, qty |-> 1], [item |-> i2, qty |-> 1]>>,
            <<[item |-> i1, qty |-> 1], [item |-> i1, qty |-> 1]>>,
            <<[item |-> i1, qty |-> 1], [item |-> NoRow, qty |-> 1]>>}

Symmetric == Permutations(Clients) \cup Permutations(Branches) \cup Permutations(OpKeys)

=============================================================================
