------------------------- MODULE MCControllerDriver -------------------------
(* Instances of ControllerDriver for TLC. *)
EXTENDS ControllerDriver, TLC

Symmetry == Permutations(Procs)

AnyRequest == AllRequests
CmmRequest == {Req("start", "cmm")}
NormalRequests == {Req("configure", "none"), Req("start", "none")}
=============================================================================
