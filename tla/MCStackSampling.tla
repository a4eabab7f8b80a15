-------------------------- MODULE MCStackSampling ---------------------------
(* Instance of StackSampling for TLC.                                       *)
EXTENDS StackSampling

MCTxs == 1..2
=============================================================================
