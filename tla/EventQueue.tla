----------------------------- MODULE EventQueue -----------------------------
(***************************************************************************)
(* What the SPSC RAM transport of the C SDK promises (sdk/c/README.md,     *)
(* "SPSC RAM transport"): a bounded first-in first-out queue of records    *)
(* between one producer and one consumer.  EventPath implements it.        *)
(***************************************************************************)
EXTENDS Naturals, SequencesExt

CONSTANTS Records, Capacity

VARIABLE queue

Init == queue = <<>>

\* A record is added behind the ones held, which it leaves alone.
Put ==
    /\ Len(queue) < Capacity
    /\ Len(queue') = Len(queue) + 1
    /\ Front(queue') = queue
    /\ Last(queue') \in Records

Take ==
    /\ queue # <<>>
    /\ queue' = Tail(queue)

Next == Put \/ Take

Spec == Init /\ [][Next]_queue
=============================================================================
