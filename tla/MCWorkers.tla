------------------------------ MODULE MCWorkers ------------------------------
(***************************************************************************)
(* TLC instance of Workers: two workers share two rows, so that a batch    *)
(* has two events and a worker can lose its lease to the other; the last   *)
(* of two attempts is reached.  One row is an event, the other may be of   *)
(* any kind.                                                               *)
(***************************************************************************)
EXTENDS Workers, TLC

CONSTANTS r1, r2

MCKinds == {r1 :> a @@ r2 :> "event" : a \in {"once", "recurring", "notification", "event"}}

=============================================================================
