---------------------------- MODULE MCRetention ----------------------------
(* Instances of Retention for TLC. *)
EXTENDS Retention, TLC

Symmetry == Permutations(Directories) \cup Permutations(Plans)
=============================================================================
