---------------------------- MODULE MCInventoryTx ----------------------------
(***************************************************************************)
(* TLC instance of InventoryTx: two transactions at a time over one        *)
(* warehouse and two items.  Order o1 reserves both items in one           *)
(* transaction and o2 in the other order, which makes the locks cross; a   *)
(* receipt is retried under its key; o1's reservation of i1 is released    *)
(* and fulfilled, by two branches and under two keys.                      *)
(***************************************************************************)
EXTENDS InventoryTx

CONSTANTS w1, i1, i2, o1, o2, b1, b2, k1, k2, k3

Oper(type, item, src, key, branch, qty) ==
    [type |-> type, branch |-> branch, wh |-> w1, item |-> item, qty |-> qty,
     src |-> src, key |-> key]

MCRequests == {
    <<Oper("RECEIPT", i1, o1, k1, b1, 1), Oper("RECEIPT", i2, o1, k2, b1, 1)>>,
    <<Oper("RETURN", i1, o1, k3, b1, 1)>>,
    <<Oper("RESERVE", i1, o1, k1, b1, 1), Oper("RESERVE", i2, o1, k1, b1, 1)>>,
    <<Oper("RESERVE", i2, o2, k1, b1, 1), Oper("RESERVE", i1, o2, k1, b1, 1)>>,
    <<Oper("RELEASE", i1, o1, k1, b1, 1)>>,
    <<Oper("FULFIL", i1, o1, k3, b1, 1)>>,
    <<Oper("FULFIL", i1, o1, k2, b2, 1)>> }

=============================================================================
