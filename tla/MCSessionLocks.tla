--------------------------- MODULE MCSessionLocks ---------------------------
(* Instance of SessionLocks for TLC: two threads of each of two             *)
(* processes.                                                               *)
EXTENDS SessionLocks, TLC

CONSTANTS p1, p2, t1, t2, t3, t4

TwoProcesses == (t1 :> p1) @@ (t2 :> p1) @@ (t3 :> p2) @@ (t4 :> p2)

Symmetry == Permutations({t1, t2}) \cup Permutations({t3, t4}) \cup Permutations(Sessions)
            \cup Permutations(Directories)
=============================================================================
