---------------------------- MODULE MCEventPath -----------------------------
(* The event path with words of three bits: 2^3 stands for 2^32. *)
EXTENDS EventPath

MCScale == [num |-> 3, den |-> 2]
=============================================================================
