-------------------------- MODULE MCAccountSecurity --------------------------
(***************************************************************************)
(* Two requests at a time, two enrollments with two recovery codes each,   *)
(* three links of each kind.                                               *)
(***************************************************************************)
EXTENDS AccountSecurity, TLC

Symmetry == Permutations(Tasks) \cup Permutations(BatchCodes)
==============================================================================
