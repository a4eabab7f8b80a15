----------------------------- MODULE MCSampling -----------------------------
(* Instance of Sampling for TLC.                                            *)
EXTENDS Sampling

MCTxs == 1..2
MCOld == {0}

\* a journal with room for exactly one more transaction
MCNearlyFull == {18}
=============================================================================
