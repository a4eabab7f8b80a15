-------------------------- MODULE MCControllerHost --------------------------
(* Instances of ControllerHost: the bounds are chosen in the configurations. *)
EXTENDS ControllerHost
MCV2Sessions == {1}
MCMaxTransactions == <<8, 3>>
=============================================================================
