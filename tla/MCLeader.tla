------------------------------ MODULE MCLeader ------------------------------
(* Two agents with one and two cores for model checking Leader.  The rates *)
(* are divisible by every sum of cores, so that shares are exact as they   *)
(* are in the code's floating point.                                       *)
EXTENDS Leader, TLC

CONSTANTS a, b

TwoNodes == <<a, b>>
TwoCores == (a :> 1) @@ (b :> 2)
=============================================================================
