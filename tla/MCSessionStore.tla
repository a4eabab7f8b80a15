--------------------------- MODULE MCSessionStore ---------------------------
(* TLC instances of SessionStore.                                           *)
EXTENDS SessionStore, TLC

Symmetry == Permutations(Procs) \cup Permutations(Ids) \cup Permutations(Paths)
              \cup Permutations(StagedPaths) \cup Permutations(Bytes)

=============================================================================
