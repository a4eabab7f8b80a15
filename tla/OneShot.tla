------------------------------ MODULE OneShot ------------------------------
(***************************************************************************)
(* What a crash journal promises about effects outside the host that can   *)
(* be neither undone nor asked about.  An effect is allowed by a durable   *)
(* intent, and only the command that recorded the intent may perform it.   *)
(* If that command is lost the permission is lost with it: whether the     *)
(* effect happened is then unknown for ever, and it is not tried again.    *)
(* A durable observation is possible only after the effect.                *)
(***************************************************************************)
EXTENDS Naturals

CONSTANT Effects

VARIABLES
    intended,   \* effects whose durable intent exists
    armed,      \* of these, the ones whose command lives and has not used it
    count,      \* how often each effect has happened
    observed    \* effects whose durable observation exists

vars == <<intended, armed, count, observed>>

Init ==
    /\ intended = {}
    /\ armed = {}
    /\ count = [e \in Effects |-> 0]
    /\ observed = {}

\* The intent is recorded; this happens once.
Intend(e) ==
    /\ e \notin intended
    /\ intended' = intended \cup {e}
    /\ armed' = armed \cup {e}
    /\ UNCHANGED <<count, observed>>

\* The effect uses up the permission.
Perform(e) ==
    /\ e \in armed
    /\ armed' = armed \ {e}
    /\ count' = [count EXCEPT ![e] = @ + 1]
    /\ UNCHANGED <<intended, observed>>

\* The command that was allowed to perform the effect is gone.
Lose(e) ==
    /\ e \in armed
    /\ armed' = armed \ {e}
    /\ UNCHANGED <<intended, count, observed>>

\* The observation is recorded.
Observe(e) ==
    /\ count[e] > 0
    /\ e \notin observed
    /\ observed' = observed \cup {e}
    /\ UNCHANGED <<intended, armed, count>>

Next == \E e \in Effects : Intend(e) \/ Perform(e) \/ Lose(e) \/ Observe(e)

Spec == Init /\ [][Next]_vars
=============================================================================
