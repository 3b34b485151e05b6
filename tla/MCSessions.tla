----------------------------- MODULE MCSessions -----------------------------
(***************************************************************************)
(* TLC instance of Sessions: two requests sign in for an identity with one *)
(* tenant and one platform membership, so that a login may be answered     *)
(* directly or with a challenge, and both may select from the same one.    *)
(* Requests are interchangeable, and so are sessions.                      *)
(***************************************************************************)
EXTENDS Sessions, TLC

CONSTANTS r1, r2, s1, s2

Interchangeable == Permutations({r1, r2}) \cup Permutations({s1, s2})

=============================================================================
