----------------------------- MODULE LockTable -----------------------------
(***************************************************************************)
(* What the Session locks of an artifact root promise, without saying how: *)
(* a table with at most one owner per Session and at most one master of    *)
(* the namespace.  Only the master changes which directory a Session name  *)
(* designates, and never while the Session has an owner; a Session that    *)
(* has an owner exists.  The death of a process takes with it what its     *)
(* threads hold, and nothing else.                                         *)
(***************************************************************************)
CONSTANTS Threads, Sessions, Directories, None

VARIABLES
    owner,      \* the thread that owns each Session, or None
    master,     \* the thread that owns the namespace, or None
    place       \* the directory each Session name designates, or None

vars == <<owner, master, place>>

Init ==
    /\ owner = [s \in Sessions |-> None]
    /\ master = None
    /\ place = [s \in Sessions |-> None]

Acquire(t, s) ==
    /\ owner[s] = None
    /\ place[s] # None
    /\ master \in {None, t}
    /\ owner' = [owner EXCEPT ![s] = t]
    /\ UNCHANGED <<master, place>>

Release(t, s) ==
    /\ owner[s] = t
    /\ owner' = [owner EXCEPT ![s] = None]
    /\ UNCHANGED <<master, place>>

Enter(t) ==
    /\ master = None
    /\ \A s \in Sessions : owner[s] = None
    /\ master' = t
    /\ UNCHANGED <<owner, place>>

Leave(t) ==
    /\ master = t
    /\ master' = None
    /\ UNCHANGED <<owner, place>>

(* A Session is published under a free name, or its directory moves away.  *)
Rename(t, s, d) ==
    /\ master = t
    /\ owner[s] = None
    /\ place[s] = None \/ d = None
    /\ place' = [place EXCEPT ![s] = d]
    /\ UNCHANGED <<owner, master>>

Die(dead) ==
    /\ owner' = [s \in Sessions |-> IF owner[s] \in dead THEN None ELSE owner[s]]
    /\ master' = IF master \in dead THEN None ELSE master
    /\ UNCHANGED place

Next ==
    \/ \E t \in Threads :
         \/ Enter(t) \/ Leave(t)
         \/ \E s \in Sessions :
              \/ Acquire(t, s) \/ Release(t, s)
              \/ \E d \in Directories \cup {None} : Rename(t, s, d)
    \/ \E dead \in SUBSET Threads : Die(dead)

Spec == Init /\ [][Next]_vars
=============================================================================
