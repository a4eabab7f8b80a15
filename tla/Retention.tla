----------------------------- MODULE Retention -----------------------------
(***************************************************************************)
(* Recoverable quarantine of whole Sessions: maintenance retention and      *)
(* maintenance abandon (src/operations.rs).                                 *)
(*                                                                          *)
(* A plan binds the exact contents of the Sessions it names.  apply moves   *)
(* each of them, by one rename, from the artifact root to the quarantine    *)
(* of the plan; restore moves one back.  Both may stop anywhere and are     *)
(* repeated; what happened is read from the directories, and a journal of   *)
(* create-new events records it.                                            *)
(*                                                                          *)
(* One command at a time holds the maintenance lock, so a single job stands *)
(* for all processes that run maintenance.  Beside it other commands create *)
(* Sessions and work in them, and an external capture process may still     *)
(* have a staging file of a Session open.                                   *)
(***************************************************************************)
EXTENDS Naturals, FiniteSets

CONSTANTS
    Sessions,       \* Session names: numbers, in the order of the names
    Directories,    \* Session directories that can ever be created
    Exposed,        \* directories in which a capture process keeps a file open
    Plans,          \* identities of plans
    Commands,       \* the commands operators use on plans
    Calm,           \* whether attempts may be chosen to meet no interruption
    MaxVersion,     \* bound on the changes hosts make to one Session
    None

ASSUME SessionsAssumption == Sessions \subseteq Nat

ASSUME CommandsAssumption == Commands \subseteq {"apply", "restore"} /\ Calm \subseteq BOOLEAN

ASSUME ExposedAssumption == Exposed \subseteq Directories

ASSUME VersionAssumption == MaxVersion \in Nat \ {0}

ASSUME NoneAssumption == None \notin Directories

VARIABLES
    active,     \* the directory at root/<session>, or None
    shelf,      \* by plan: the directory at quarantine/<plan>/<session>, or None
    book,       \* by directory: its files, as far as inventories tell them apart
    pending,    \* directories with a pending Controller transaction
    plans,      \* by plan: the plan document, or None
    journal,    \* by plan: the recorded events
    residue,    \* plans whose journal holds an abandoned atomic temporary
    job         \* the command that holds the maintenance lock, or None

vars == <<active, shelf, book, pending, plans, journal, residue, job>>

(* complete: the Session is sealed; version: what hosts have written, from  *)
(* 1 at its creation; extra: staging that an external process has written.  *)
Book == [complete : BOOLEAN, version : 0 .. MaxVersion, extra : BOOLEAN]

(* What a plan entry binds: identity (request and creation are part of the  *)
(* documents), state and the inventory of all files.                        *)
Entry == [dir : Directories, complete : BOOLEAN, version : 0 .. MaxVersion,
          extra : BOOLEAN]

Snapshot(d) ==
    [dir |-> d, complete |-> book[d].complete, version |-> book[d].version,
     extra |-> book[d].extra]

Kinds == {"retention", "abandon"}

Plan == [kind : Kinds, entries : UNION {[S -> Entry] : S \in SUBSET Sessions}]

Event == [action : {"moved", "restored"}, session : Sessions]

Stages == {"look", "lock", "examine", "rename", "verify", "record"}

(* names: the Sessions whose execution leases the command holds; todo: the  *)
(* entries it has still to treat; seen: the existence checks of source and  *)
(* destination that were made before the namespace locks; calm: this        *)
(* attempt meets no crash and no failing call (only fairness speaks of it). *)
Job == [command : {"apply", "restore"}, plan : Plans, names : SUBSET Sessions,
        todo : SUBSET Sessions, seen : [from : BOOLEAN, to : BOOLEAN],
        calm : BOOLEAN, at : Stages]

TypeOK ==
    /\ active \in [Sessions -> Directories \cup {None}]
    /\ shelf \in [Plans -> [Sessions -> Directories \cup {None}]]
    /\ book \in [Directories -> Book]
    /\ pending \subseteq Directories
    /\ plans \in [Plans -> Plan \cup {None}]
    /\ journal \in [Plans -> SUBSET Event]
    /\ residue \subseteq Plans
    /\ job \in Job \cup {None}

Init ==
    /\ active = [s \in Sessions |-> None]
    /\ shelf = [p \in Plans |-> [s \in Sessions |-> None]]
    /\ book = [d \in Directories |-> [complete |-> FALSE, version |-> 0, extra |-> FALSE]]
    /\ pending = {}
    /\ plans = [p \in Plans |-> None]
    /\ journal = [p \in Plans |-> {}]
    /\ residue = {}
    /\ job = None

(* The exclusive namespace leases of the root and of the quarantine root    *)
(* are held from "examine" on, the execution leases from the start.         *)
RootLocked == job # None /\ job.at \notin {"look", "lock"}
Leases == IF job = None THEN {} ELSE job.names

-----------------------------------------------------------------------------
(* Other commands, and the external process.                                *)

(* A Session is created under the exclusive namespace lease.  session       *)
(* create and perf_run hold its execution lease too, but sampling prepare   *)
(* and stack prepare do not.                                                *)
CreateSession(s, d) ==
    /\ ~RootLocked
    /\ active[s] = None
    /\ book[d].version = 0
    /\ active' = [active EXCEPT ![s] = d]
    /\ book' = [book EXCEPT ![d].version = 1]
    /\ UNCHANGED <<shelf, pending, plans, journal, residue, job>>

(* A host operation on an unsealed Session, under its execution lease, the  *)
(* Session lock and a shared namespace lease.                               *)
Work(s) ==
    LET d == active[s] IN
    /\ ~RootLocked
    /\ s \notin Leases
    /\ d # None
    /\ ~book[d].complete
    /\ book[d].version < MaxVersion
    /\ \/ /\ book' = [book EXCEPT ![d].version = @ + 1]
          /\ pending' \in {pending \cup {d}, pending \ {d}}
       \/ /\ d \notin pending
          /\ book' = [book EXCEPT ![d].version = @ + 1, ![d].complete = TRUE]
          /\ UNCHANGED pending
    /\ UNCHANGED <<active, shelf, plans, journal, residue, job>>

(* The capture process writes through a descriptor it has kept, wherever    *)
(* the directory is by now.                                                 *)
ExternalWrite(d) ==
    /\ d \in Exposed
    /\ book[d].version > 0
    /\ ~book[d].extra
    /\ book' = [book EXCEPT ![d].extra = TRUE]
    /\ UNCHANGED <<active, shelf, pending, plans, journal, residue, job>>

-----------------------------------------------------------------------------
(* Planning.                                                                *)

(* snapshot_complete_session: sealed, and deep-healthy, which excludes      *)
(* staging left behind.                                                     *)
Retainable(d) == book[d].complete /\ ~book[d].extra

(* Mutant: a pending transaction does not count.                            *)
ReleasableAlways(d) == TRUE

(* ensure_controller_session_releasable.                                    *)
Releasable(d) == d \notin pending

(* snapshot_abandonable_session, after Releasable.                          *)
Abandonable(d) == ~book[d].complete

WritePlan(p, kind, S) ==
    /\ plans' = [plans EXCEPT ![p] =
                    [kind |-> kind, entries |-> [s \in S |-> Snapshot(active[s])]]]
    /\ UNCHANGED <<active, shelf, book, pending, journal, residue, job>>

(* retention_plan: sealed Sessions do not change while it takes the         *)
(* snapshots one by one, and nothing moves under the maintenance lock.      *)
RetentionPlan(p, S) ==
    /\ job = None
    /\ plans[p] = None
    /\ S # {}
    /\ \A s \in S : active[s] # None /\ Retainable(active[s])
    /\ WritePlan(p, "retention", S)

AbandonPlan(p, s) ==
    /\ job = None
    /\ plans[p] = None
    /\ active[s] # None
    /\ Releasable(active[s])
    /\ Abandonable(active[s])
    /\ WritePlan(p, "abandon", {s})

-----------------------------------------------------------------------------
(* apply and restore.                                                       *)

(* The Session in hand: entries are treated in the order of their names.    *)
Current(j) == CHOOSE s \in j.todo : \A r \in j.todo : s <= r

Source(j, s) == IF j.command = "apply" THEN active[s] ELSE shelf[j.plan][s]
Target(j, s) == IF j.command = "apply" THEN shelf[j.plan][s] ELSE active[s]

Advance(stage) == job' = [job EXCEPT !.at = stage]

(* An error, a refusal or the end: all locks are released.                  *)
Return == job' = None

(* Maintenance lock, plan, confirmation, execution leases.  retention_apply *)
(* looks at the directories later, one entry at a time.                     *)
Begin(p, command, S, calm) ==
    /\ job = None
    /\ plans[p] # None
    /\ command \in Commands
    /\ IF command = "apply" THEN S = DOMAIN plans[p].entries
                            ELSE \E s \in DOMAIN plans[p].entries : S = {s}
    /\ job' = [command |-> command, plan |-> p, names |-> S, todo |-> S,
               seen |-> [from |-> FALSE, to |-> FALSE], calm |-> calm,
               at |-> IF plans[p].kind = "retention" /\ command = "apply"
                      THEN "lock" ELSE "look"]
    /\ UNCHANGED <<active, shelf, book, pending, plans, journal, residue>>

(* Mutant: restore looks in the direction of apply.                         *)
LookAsApply(s) ==
    /\ job # None /\ job.at = "look" /\ s = Current(job)
    /\ job' = [job EXCEPT !.at = "lock",
                          !.seen = [from |-> active[s] # None,
                                    to |-> shelf[job.plan][s] # None]]
    /\ UNCHANGED <<active, shelf, book, pending, plans, journal, residue>>

(* Existence of source and destination, before the namespace locks.         *)
Look(s) ==
    /\ job # None /\ job.at = "look" /\ s = Current(job)
    /\ job' = [job EXCEPT !.at = "lock",
                          !.seen = [from |-> Source(job, s) # None,
                                    to |-> Target(job, s) # None]]
    /\ UNCHANGED <<active, shelf, book, pending, plans, journal, residue>>

(* The namespace leases, then the journal directory: every file in it must  *)
(* be a canonical event of the plan, and an abandoned temporary is none.    *)
LockNamespaces(s) ==
    /\ job # None /\ job.at = "lock" /\ s = Current(job)
    /\ IF job.plan \in residue THEN Return ELSE Advance("examine")
    /\ UNCHANGED <<active, shelf, book, pending, plans, journal, residue>>

(* Mutant: apply trusts the plan and does not compare again.                *)
MatchesByName(d, entry) == TRUE

(* validate_plan_entry, validate_abandon_entry.                             *)
Matches(d, entry) == Snapshot(d) = entry

(* abandon_apply asks again for pending transactions before it moves.       *)
Movable(j, d) ==
    plans[j.plan].kind = "abandon" /\ j.command = "apply" => Releasable(d)

Exist(j, s) ==
    IF plans[j.plan].kind = "retention" /\ j.command = "apply"
    THEN [from |-> Source(j, s) # None, to |-> Target(j, s) # None]
    ELSE j.seen

(* The four cases of source and destination.  A copy at the destination is  *)
(* validated and counts as done; both or none is an error.                  *)
Examine(s) ==
    /\ job # None /\ job.at = "examine" /\ s = Current(job)
    /\ LET exist == Exist(job, s)
           from == Source(job, s)
           to == Target(job, s)
           entry == plans[job.plan].entries[s]
           move == /\ exist.from /\ ~exist.to
                   /\ from # None /\ Movable(job, from) /\ Matches(from, entry)
           done == ~exist.from /\ exist.to /\ to # None /\ Matches(to, entry) IN
       IF move THEN Advance("rename") ELSE IF done THEN Advance("record") ELSE Return
    /\ UNCHANGED <<active, shelf, book, pending, plans, journal, residue>>

(* fs::rename of a directory fails when a directory with files is there.    *)
RenamePossible(from, to) == from # None /\ to = None

Move(s) ==
    IF job.command = "apply"
    THEN /\ active' = [active EXCEPT ![s] = None]
         /\ shelf' = [shelf EXCEPT ![job.plan][s] = active[s]]
    ELSE /\ active' = [active EXCEPT ![s] = shelf[job.plan][s]]
         /\ shelf' = [shelf EXCEPT ![job.plan][s] = None]

(* The Session lock has been dropped; the namespace leases have not.        *)
Rename(s) ==
    /\ job # None /\ job.at = "rename" /\ s = Current(job)
    /\ \/ /\ RenamePossible(Source(job, s), Target(job, s))
          /\ Move(s)
          /\ Advance("verify")
       \/ /\ ~RenamePossible(Source(job, s), Target(job, s))
          /\ Return
          /\ UNCHANGED <<active, shelf>>
    /\ UNCHANGED <<book, pending, plans, journal, residue>>

(* The moved Session is locked and validated where it is now.               *)
Verify(s) ==
    /\ job # None /\ job.at = "verify" /\ s = Current(job)
    /\ IF Matches(Target(job, s), plans[job.plan].entries[s])
       THEN Advance("record") ELSE Return
    /\ UNCHANGED <<active, shelf, book, pending, plans, journal, residue>>

(* "quarantined" or "abandoned", and "restored".                            *)
EventOf(j, s) ==
    [action |-> IF j.command = "apply" THEN "moved" ELSE "restored", session |-> s]

(* Mutant: an event that exists is an error instead of an earlier success.  *)
RecordOnce(s) ==
    /\ job # None /\ job.at = "record" /\ s = Current(job)
    /\ IF EventOf(job, s) \in journal[job.plan]
       THEN Return /\ UNCHANGED journal
       ELSE /\ journal' = [journal EXCEPT ![job.plan] = @ \cup {EventOf(job, s)}]
            /\ IF job.todo = {s} THEN Return
               ELSE job' = [job EXCEPT !.todo = @ \ {s}, !.at = "examine"]
    /\ UNCHANGED <<active, shelf, book, pending, plans, residue>>

(* write_journal_event is create-new and accepts an equal event.            *)
Record(s) ==
    /\ job # None /\ job.at = "record" /\ s = Current(job)
    /\ journal' = [journal EXCEPT ![job.plan] = @ \cup {EventOf(job, s)}]
    /\ IF job.todo = {s} THEN Return
       ELSE job' = [job EXCEPT !.todo = @ \ {s}, !.at = "examine"]
    /\ UNCHANGED <<active, shelf, book, pending, plans, residue>>

(* The command ends early: it crashes, or a call of its fails.              *)
Interrupt ==
    /\ job # None /\ ~job.calm
    /\ Return
    /\ UNCHANGED <<active, shelf, book, pending, plans, journal, residue>>

(* A crash while a new event is written leaves the temporary of the atomic  *)
(* write in the journal directory.                                          *)
CrashInRecord ==
    /\ job # None /\ job.at = "record" /\ ~job.calm
    /\ EventOf(job, Current(job)) \notin journal[job.plan]
    /\ Return
    /\ residue' = residue \cup {job.plan}
    /\ UNCHANGED <<active, shelf, book, pending, plans, journal>>

Step(s) ==
    \/ Look(s) \/ LockNamespaces(s) \/ Examine(s)
    \/ Rename(s) \/ Verify(s) \/ Record(s)

Next ==
    \/ \E s \in Sessions : Work(s) \/ Step(s) \/ \E d \in Directories : CreateSession(s, d)
    \/ \E d \in Directories : ExternalWrite(d)
    \/ \E p \in Plans :
         \/ \E S \in SUBSET Sessions : RetentionPlan(p, S)
         \/ \E s \in Sessions : AbandonPlan(p, s)
         \/ \E c \in Commands, S \in SUBSET Sessions, calm \in Calm : Begin(p, c, S, calm)
    \/ Interrupt
    \/ CrashInRecord

Spec == Init /\ [][Next]_vars

(* An operator repeats a command for each Session of a plan, a command that *)
(* runs does not stop by itself, and not every attempt is interrupted.      *)
Fairness ==
    /\ WF_vars(\E s \in Sessions : Step(s))
    /\ \A p \in Plans, c \in Commands, s \in Sessions :
         SF_vars(\E S \in SUBSET Sessions : s \in S /\ Begin(p, c, S, TRUE))

FairSpec == Spec /\ Fairness

-----------------------------------------------------------------------------
(* Properties.                                                              *)

(* What is in a plan's quarantine is the Session the plan binds, in the     *)
(* state the plan binds, although its lock was given up before the rename   *)
(* and a new Session may have taken the name since the plan was made.  No   *)
(* directory is lost, copied or overwritten on the way: it is in one place, *)
(* its name or one plan's quarantine.                                       *)
QuarantineMatchesPlan ==
    /\ \A p \in Plans, s \in Sessions :
          LET d == shelf[p][s] IN
          d # None => /\ plans[p] # None
                      /\ s \in DOMAIN plans[p].entries
                      /\ LET e == plans[p].entries[s] IN
                         /\ e.dir = d
                         /\ e.complete = book[d].complete
                         /\ e.version = book[d].version
    /\ \A d \in Directories :
          book[d].version > 0 =>
              Cardinality({s \in Sessions : active[s] = d})
                + Cardinality({x \in Plans \X Sessions : shelf[x[1]][x[2]] = d}) = 1

(* A Session that still owns the TRACE32 endpoint stays in the root, where  *)
(* the search for the owner finds it.                                       *)
PendingStaysActive ==
    \A p \in Plans, s \in Sessions : shelf[p][s] \notin pending

PlanOf(p) == IF plans[p] = None THEN {} ELSE DOMAIN plans[p].entries

(* The plan can no longer be carried out as it was made: a Session has been *)
(* written to, or another directory has its name.                           *)
Overtaken(p, s) ==
    LET e == plans[p].entries[s] IN
    \/ Snapshot(e.dir) # e
    \/ active[s] \notin {None, e.dir}

(* A plan that apply has begun is carried out in the end by repeating       *)
(* apply, whatever the interruptions, unless it was overtaken or an event   *)
(* was torn: all of its Sessions are in quarantine and recorded.            *)
ApplyFinishes ==
    \A p \in Plans :
        (\E s \in PlanOf(p) : shelf[p][s] # None)
          ~> \/ \A s \in PlanOf(p) :
                  /\ shelf[p][s] # None
                  /\ [action |-> "moved", session |-> s] \in journal[p]
             \/ \E s \in PlanOf(p) : Overtaken(p, s)
             \/ p \in residue

(* A Session in quarantine comes back by repeating restore, unless it was   *)
(* written to, its name is in use, or an event was torn.                    *)
RestoreFinishes ==
    \A p \in Plans, s \in Sessions :
        s \in PlanOf(p) /\ shelf[p][s] # None
          ~> shelf[p][s] = None \/ Overtaken(p, s) \/ p \in residue

(* docs/security.md, on abandon: "restore can restore it completely".       *)
(* Every Session in quarantine comes back by repeating restore, unless it   *)
(* was written to or its name is in use.                                    *)
RestoreAlwaysPossible ==
    \A p \in Plans, s \in Sessions :
        s \in PlanOf(p) /\ shelf[p][s] # None
          ~> shelf[p][s] = None \/ Overtaken(p, s)
=============================================================================
