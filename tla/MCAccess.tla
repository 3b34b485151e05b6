------------------------------ MODULE MCAccess ------------------------------
(***************************************************************************)
(* The access of one user: two roles, one permission, one branch, one      *)
(* request of the user and one of an administrator that needs several      *)
(* statements, with every other change of an administrator in between.     *)
(* The names of roles and codes are interchangeable.                       *)
(***************************************************************************)
EXTENDS Access, TLC

Interchangeable == Permutations(Roles) \cup Permutations(Codes)
==============================================================================
