--------------------------- MODULE MCPurchaseOrders ---------------------------
(***************************************************************************)
(* TLC instance of PurchaseOrders: one order, two overlapping calls, and   *)
(* definitions that ask for no approval, for all of two approvers, for any *)
(* of two on one level and for one of them again on the other, and for one *)
(* approver beside a level that has none.                                  *)
(***************************************************************************)
EXTENDS PurchaseOrders, TLC

CONSTANTS u1, u2

MCDefinitions ==
    {[required |-> FALSE, levels |-> <<>>],
     [required |-> TRUE, levels |-> <<[policy |-> "ALL", approvers |-> {u1, u2}]>>],
     [required |-> TRUE, levels |-> <<[policy |-> "ANY", approvers |-> {u1, u2}],
                                      [policy |-> "ALL", approvers |-> {u1}]>>],
     [required |-> TRUE, levels |-> <<[policy |-> "ALL", approvers |-> {u1}],
                                      [policy |-> "ALL", approvers |-> {}]>>]}

Symmetric == Permutations(Clients)

=============================================================================
