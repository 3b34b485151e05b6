------------------------- MODULE MCCommercialRecords -------------------------
(***************************************************************************)
(* A record of each kind, edited by three clients of which one does not    *)
(* send the version it read where it is optional; four days of prices.     *)
(* The contents are interchangeable.                                       *)
(***************************************************************************)
EXTENDS CommercialRecords, TLC

Interchangeable == Permutations(Terms) \cup Permutations(Details)
==============================================================================
