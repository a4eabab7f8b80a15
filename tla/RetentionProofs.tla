-------------------------- MODULE RetentionProofs --------------------------
(***************************************************************************)
(* What a plan's quarantine holds, proved for every set of Sessions,        *)
(* directories and plans, and every number of changes hosts make.           *)
(*                                                                          *)
(* The invariants the runs check are not inductive: that a moved Session is *)
(* the one the plan binds rests on the comparison Examine made before the   *)
(* rename, that no two names share a directory, and that a sealed Session   *)
(* has no pending transaction.  IInv adds these.                            *)
(***************************************************************************)
EXTENDS Retention, FiniteSetTheorems, WellFoundedInduction, TLAPS

Bound(e, d) ==
    /\ e.dir = d
    /\ e.complete = book[d].complete
    /\ e.version = book[d].version

(* A directory that exists is in one place, and only such directories are.  *)
Placed ==
    /\ \A s \in Sessions : active[s] # None => book[active[s]].version # 0
    /\ \A p \in Plans, s \in Sessions : shelf[p][s] # None => book[shelf[p][s]].version # 0
    /\ \A s, r \in Sessions : active[s] # None /\ active[s] = active[r] => s = r
    /\ \A p \in Plans, s, r \in Sessions : active[s] # None => active[s] # shelf[p][r]
    /\ \A p, q \in Plans, s, r \in Sessions :
          shelf[p][s] # None /\ shelf[p][s] = shelf[q][r] => p = q /\ s = r

(* No directory that exists is nowhere.                                     *)
Found ==
    \A d \in Directories :
        book[d].version # 0 => \/ \E s \in Sessions : active[s] = d
                               \/ \E p \in Plans, s \in Sessions : shelf[p][s] = d

(* A Session is sealed only when nothing is pending in it.                  *)
SealedIsSettled == \A d \in pending : ~book[d].complete

(* A plan names a Session, and retention_plan takes sealed ones only.       *)
PlanSound ==
    \A p \in Plans :
        plans[p] # None =>
            /\ DOMAIN plans[p].entries # {}
            /\ plans[p].kind = "retention" =>
                 \A s \in DOMAIN plans[p].entries : plans[p].entries[s].complete

Shelved ==
    \A p \in Plans, s \in Sessions :
        shelf[p][s] # None => /\ plans[p] # None
                              /\ s \in DOMAIN plans[p].entries
                              /\ Bound(plans[p].entries[s], shelf[p][s])

(* A command works on entries of its plan.  From the comparison to the      *)
(* rename the Session in hand is the one its entry binds, and one that      *)
(* apply moves has nothing pending.                                         *)
JobSound ==
    job # None =>
        /\ plans[job.plan] # None
        /\ job.todo # {}
        /\ job.todo \subseteq DOMAIN plans[job.plan].entries
        /\ job.at = "rename" =>
             LET s == Current(job) d == Source(job, s) IN
             /\ d # None
             /\ Bound(plans[job.plan].entries[s], d)
             /\ job.command = "apply" => d \notin pending

IInv ==
    /\ TypeOK
    /\ Placed
    /\ Found
    /\ SealedIsSettled
    /\ PlanSound
    /\ Shelved
    /\ JobSound
    /\ PendingStaysActive

-----------------------------------------------------------------------------
(* Every nonempty set of naturals has a least element.                      *)
LEMMA LeastNatural ==
    ASSUME NEW T \in SUBSET Nat, T # {}
    PROVE  \E x \in T : \A y \in T : x <= y
<1> DEFINE R == OpToRel(<, Nat)
<1>1. IsWellFoundedOn(R, Nat)
    BY NatLessThanWellFounded, Zenon
<1>2. R = {ss \in Nat \X Nat : ss[1] < ss[2]}
    BY DEF OpToRel
<1> HIDE DEF R
<1>3. PICK x \in T : \A y \in T : ~(<<y, x>> \in R)
    BY <1>1, WFMin
<1>4. ASSUME NEW y \in T PROVE x <= y
    <2>1. <<y, x>> \in Nat \X Nat /\ <<y, x>>[1] = y /\ <<y, x>>[2] = x
        OBVIOUS
    <2>2. ~(y < x)
        BY <1>2, <1>3, <2>1, Zenon
    <2> QED
        BY <2>2
<1> QED
    BY <1>4

(* The Session in hand is one of those still to treat.                      *)
LEMMA CurrentIsListed ==
    ASSUME NEW j \in Job, j.todo # {}
    PROVE  Current(j) \in j.todo
<1>1. j.todo \in SUBSET Nat
    BY SessionsAssumption DEF Job
<1>2. \E x \in j.todo : \A y \in j.todo : x <= y
    BY <1>1, LeastNatural
<1> QED
    BY <1>2 DEF Current

(* A plan binds entries to some of the Sessions.                            *)
LEMMA PlanTyped ==
    ASSUME TypeOK, NEW p \in Plans, plans[p] # None
    PROVE  /\ plans[p] \in Plan
           /\ DOMAIN plans[p].entries \subseteq Sessions
           /\ \A s \in DOMAIN plans[p].entries : plans[p].entries[s] \in Entry
<1>1. plans[p] \in Plan
    BY DEF TypeOK
<1>2. PICK S \in SUBSET Sessions : plans[p].entries \in [S -> Entry]
    BY <1>1 DEF Plan
<1> QED
    BY <1>1, <1>2

LEMMA InitEstablishes == Init => IInv
<1> SUFFICES ASSUME Init PROVE IInv
    OBVIOUS
<1>1. TypeOK
    BY VersionAssumption DEF Init, TypeOK, Book
<1>2. Placed /\ Found /\ Shelved
    BY DEF Init, Placed, Found, Shelved
<1>3. SealedIsSettled /\ PlanSound /\ JobSound /\ PendingStaysActive
    BY DEF Init, SealedIsSettled, PlanSound, JobSound, PendingStaysActive
<1> QED
    BY <1>1, <1>2, <1>3 DEF IInv

(* A step that touches no directory, no plan and no transaction has to keep *)
(* the types and the command only.                                          *)
LEMMA BesideDirectories ==
    ASSUME IInv, UNCHANGED <<active, shelf, book, pending, plans>>, TypeOK', JobSound'
    PROVE  IInv'
<1>1. Placed' /\ Found' /\ Shelved'
    BY DEF IInv, Placed, Found, Shelved, Bound
<1>2. SealedIsSettled' /\ PlanSound' /\ PendingStaysActive'
    BY DEF IInv, SealedIsSettled, PlanSound, PendingStaysActive
<1> QED
    BY <1>1, <1>2 DEF IInv

(* A command that only goes on to a stage other than the rename.            *)
LEMMA StageKeepsJob ==
    ASSUME IInv, UNCHANGED <<active, shelf, book, pending, plans>>,
           job # None, job' \in Job, job'.plan = job.plan, job'.todo # {},
           job'.todo \subseteq job.todo, job'.at # "rename"
    PROVE  JobSound'
BY DEF IInv, JobSound

LEMMA BeginKeeps ==
    ASSUME IInv, NEW p \in Plans, NEW c \in Commands, NEW S \in SUBSET Sessions,
           NEW calm \in Calm, Begin(p, c, S, calm)
    PROVE  IInv'
<1>1. job' \in Job
    BY CommandsAssumption DEF Begin, Job, Stages
<1>2. TypeOK'
    BY <1>1 DEF Begin, TypeOK, IInv
<1>3. S # {} /\ S \subseteq DOMAIN plans[p].entries /\ plans[p] # None
    BY DEF Begin, IInv, PlanSound
<1>4. job'.plan = p /\ job'.todo = S /\ job'.at # "rename"
    BY DEF Begin
<1>5. JobSound'
    BY <1>3, <1>4 DEF JobSound, Begin
<1> QED
    BY <1>2, <1>5, BesideDirectories DEF Begin

LEMMA ReturnKeeps ==
    ASSUME IInv, UNCHANGED <<active, shelf, book, pending, plans>>, Return,
           journal' \in [Plans -> SUBSET Event], residue' \subseteq Plans
    PROVE  IInv'
<1>1. TypeOK' /\ JobSound'
    BY DEF IInv, TypeOK, Return, JobSound
<1> QED
    BY <1>1, BesideDirectories

(* Look, LockNamespaces, Verify and Record do not lead to the rename.       *)
LEMMA StageKeeps ==
    ASSUME IInv, NEW s \in Sessions,
           Look(s) \/ LockNamespaces(s) \/ Verify(s) \/ Record(s)
    PROVE  IInv'
<1> USE DEF IInv
<1>1. /\ job # None /\ job \in Job
      /\ UNCHANGED <<active, shelf, book, pending, plans, residue>>
    BY DEF Look, LockNamespaces, Verify, Record, TypeOK
<1>2. job.todo # {} /\ s \in job.todo
    <2>1. job.todo # {}
        BY <1>1 DEF JobSound
    <2> QED
        BY <1>1, <2>1, CurrentIsListed DEF Look, LockNamespaces, Verify, Record
<1>3. journal' \in [Plans -> SUBSET Event] /\ residue' \subseteq Plans
    <2>1. EventOf(job, s) \in Event
        BY DEF EventOf, Event
    <2>2. journal' = journal \/ journal' = [journal EXCEPT ![job.plan] = @ \cup {EventOf(job, s)}]
        BY DEF Look, LockNamespaces, Verify, Record
    <2> QED
        BY <1>1, <2>1, <2>2 DEF TypeOK, Job
<1>4. CASE Return
    BY <1>1, <1>3, <1>4, ReturnKeeps
<1>5. CASE ~Return
    <2>1. /\ job' \in Job /\ job'.plan = job.plan /\ job'.at # "rename"
          /\ job'.todo = job.todo \/ (job'.todo = job.todo \ {s} /\ job.todo # {s})
        <3>1. CASE Look(s)
            BY <1>1, <3>1 DEF Look, Job, Stages
        <3>2. CASE LockNamespaces(s)
            BY <1>1, <1>5, <3>2 DEF LockNamespaces, Advance, Job, Stages
        <3>3. CASE Verify(s)
            BY <1>1, <1>5, <3>3 DEF Verify, Advance, Job, Stages
        <3>4. CASE Record(s)
            <4>1. job.todo # {s} /\ job' = [job EXCEPT !.todo = job.todo \ {s}, !.at = "examine"]
                BY <1>5, <3>4 DEF Record
            <4>2. job.todo \ {s} \in SUBSET Sessions
                BY <1>1 DEF Job
            <4> QED
                BY <1>1, <4>1, <4>2 DEF Job, Stages
        <3> QED
            BY <3>1, <3>2, <3>3, <3>4
    <2>2. job'.todo # {} /\ job'.todo \subseteq job.todo
        BY <1>2, <2>1
    <2>3. JobSound'
        BY <1>1, <2>1, <2>2, StageKeepsJob
    <2>4. TypeOK'
        BY <1>1, <1>3, <2>1 DEF TypeOK
    <2> QED
        BY <1>1, <2>3, <2>4, BesideDirectories
<1> QED
    BY <1>4, <1>5

(* Examine compares before it lets the rename happen.  What a retention     *)
(* plan binds is sealed, so nothing is pending in it; abandon asks again.   *)
LEMMA ExamineKeeps ==
    ASSUME IInv, NEW s \in Sessions, Examine(s)
    PROVE  IInv'
<1> USE DEF IInv
<1>1. /\ job # None /\ job \in Job /\ s = Current(job)
      /\ UNCHANGED <<active, shelf, book, pending, plans, journal, residue>>
    BY DEF Examine, TypeOK
<1>2. job.todo # {} /\ s \in job.todo /\ plans[job.plan] # None
      /\ job.todo \subseteq DOMAIN plans[job.plan].entries /\ job.plan \in Plans
    <2>1. job.todo # {} /\ plans[job.plan] # None /\ job.todo \subseteq DOMAIN plans[job.plan].entries
        BY <1>1 DEF JobSound
    <2> QED
        BY <1>1, <2>1, CurrentIsListed DEF Job
<1>3. journal' \in [Plans -> SUBSET Event] /\ residue' \subseteq Plans
    BY <1>1 DEF TypeOK
<1>4. CASE Return
    BY <1>1, <1>3, <1>4, ReturnKeeps
<1>5. CASE Advance("record")
    <2>1. job' \in Job /\ job'.plan = job.plan /\ job'.at # "rename" /\ job'.todo = job.todo
        BY <1>1, <1>5 DEF Advance, Job, Stages
    <2>2. JobSound'
        BY <1>1, <1>2, <2>1, StageKeepsJob
    <2>3. TypeOK'
        BY <1>1, <2>1 DEF TypeOK
    <2> QED
        BY <1>1, <2>2, <2>3, BesideDirectories
<1>6. CASE /\ Advance("rename")
           /\ Source(job, s) # None
           /\ Movable(job, Source(job, s))
           /\ Matches(Source(job, s), plans[job.plan].entries[s])
    <2> DEFINE d == Source(job, s)
               e == plans[job.plan].entries[s]
    <2>1. /\ job' \in Job /\ job'.plan = job.plan /\ job'.at = "rename"
          /\ job'.todo = job.todo /\ job'.command = job.command
        BY <1>1, <1>6 DEF Advance, Job, Stages
    <2>2. Current(job)' = s /\ Source(job, s)' = d
        BY <1>1, <2>1 DEF Current, Source
    <2>3. Bound(e, d)
        BY <1>6 DEF Matches, Snapshot, Bound
    <2>4. ASSUME job.command = "apply" PROVE d \notin pending
        <3>1. CASE plans[job.plan].kind = "retention"
            <4>1. e.complete
                BY <1>2, <3>1 DEF PlanSound
            <4> QED
                BY <2>3, <4>1 DEF SealedIsSettled, Bound
        <3>2. CASE plans[job.plan].kind = "abandon"
            BY <1>6, <2>4, <3>2 DEF Movable, Releasable
        <3> QED
            BY <1>2, <3>1, <3>2, PlanTyped DEF Plan, Kinds
    <2>5. Bound(plans[job.plan].entries[s], Source(job, s))'
        BY <1>1, <2>1, <2>2, <2>3 DEF Bound
    <2>6. JobSound'
        BY <1>1, <1>2, <1>6, <2>1, <2>2, <2>4, <2>5 DEF JobSound
    <2>7. TypeOK'
        BY <1>1, <2>1 DEF TypeOK
    <2> QED
        BY <1>1, <2>6, <2>7, BesideDirectories
<1> QED
    BY <1>4, <1>5, <1>6 DEF Examine

(* The rename moves the one directory the entry binds to a free place.      *)
LEMMA RenameKeeps ==
    ASSUME IInv, NEW s \in Sessions, Rename(s)
    PROVE  IInv'
<1> USE DEF IInv
<1>1. /\ job # None /\ job \in Job /\ job.at = "rename" /\ s = Current(job)
      /\ UNCHANGED <<book, pending, plans, journal, residue>>
    BY DEF Rename, TypeOK
<1>2. /\ job.todo # {} /\ s \in job.todo /\ plans[job.plan] # None
      /\ job.todo \subseteq DOMAIN plans[job.plan].entries /\ job.plan \in Plans
      /\ Source(job, s) # None
      /\ Bound(plans[job.plan].entries[s], Source(job, s))
      /\ job.command = "apply" => Source(job, s) \notin pending
    <2>1. /\ job.todo # {} /\ plans[job.plan] # None
          /\ job.todo \subseteq DOMAIN plans[job.plan].entries
          /\ Source(job, s) # None
          /\ Bound(plans[job.plan].entries[s], Source(job, s))
          /\ job.command = "apply" => Source(job, s) \notin pending
        BY <1>1 DEF JobSound
    <2> QED
        BY <1>1, <2>1, CurrentIsListed DEF Job
<1>3. CASE Return /\ UNCHANGED <<active, shelf>>
    BY <1>1, <1>3, ReturnKeeps DEF TypeOK
<1>4. CASE /\ Target(job, s) = None
           /\ Move(s)
           /\ Advance("verify")
    <2> DEFINE p == job.plan
               d == Source(job, s)
    <2>1. p \in Plans /\ d # None /\ d \in Directories
        BY <1>1, <1>2 DEF Source, TypeOK
    <2>2. job' \in Job /\ job'.plan = p /\ job'.at # "rename" /\ job'.todo = job.todo
        BY <1>1, <1>4 DEF Advance, Job, Stages
    <2>3. JobSound'
        BY <1>1, <1>2, <2>2 DEF JobSound
    <2>4. CASE job.command = "apply"
        <3>1. /\ d = active[s] /\ shelf[p][s] = None
              /\ active' = [active EXCEPT ![s] = None]
              /\ shelf' = [shelf EXCEPT ![p][s] = d]
            BY <1>4, <2>4 DEF Move, Source, Target
        <3> HIDE DEF d, p
        <3>2. /\ active' \in [Sessions -> Directories \cup {None}]
              /\ shelf' \in [Plans -> [Sessions -> Directories \cup {None}]]
            BY <2>1, <3>1 DEF TypeOK
        <3>3. /\ \A r \in Sessions : active'[r] = (IF r = s THEN None ELSE active[r])
              /\ \A q \in Plans, r \in Sessions :
                    shelf'[q][r] = (IF q = p /\ r = s THEN d ELSE shelf[q][r])
            BY <2>1, <3>1 DEF TypeOK
        <3>4. TypeOK'
            BY <1>1, <2>2, <3>2 DEF TypeOK
        <3>5. Placed'
            BY <1>1, <2>1, <3>1, <3>3 DEF Placed
        <3>6. Found'
            BY <1>1, <2>1, <3>1, <3>3 DEF Found
        <3>7. Shelved'
            BY <1>1, <1>2, <2>1, <3>1, <3>3 DEF Shelved, Bound, p, d
        <3>8. SealedIsSettled' /\ PlanSound'
            BY <1>1 DEF SealedIsSettled, PlanSound
        <3>9. PendingStaysActive'
            BY <1>1, <1>2, <2>4, <3>3 DEF PendingStaysActive, d
        <3> QED
            BY <2>3, <3>4, <3>5, <3>6, <3>7, <3>8, <3>9
    <2>5. CASE job.command # "apply"
        <3>1. /\ d = shelf[p][s] /\ active[s] = None
              /\ active' = [active EXCEPT ![s] = d]
              /\ shelf' = [shelf EXCEPT ![p][s] = None]
            BY <1>4, <2>5 DEF Move, Source, Target
        <3> HIDE DEF d, p
        <3>2. /\ active' \in [Sessions -> Directories \cup {None}]
              /\ shelf' \in [Plans -> [Sessions -> Directories \cup {None}]]
            BY <2>1, <3>1 DEF TypeOK
        <3>3. /\ \A r \in Sessions : active'[r] = (IF r = s THEN d ELSE active[r])
              /\ \A q \in Plans, r \in Sessions :
                    shelf'[q][r] = (IF q = p /\ r = s THEN None ELSE shelf[q][r])
            BY <2>1, <3>1 DEF TypeOK
        <3>4. TypeOK'
            BY <1>1, <2>2, <3>2 DEF TypeOK
        <3>5. Placed'
            BY <1>1, <2>1, <3>1, <3>3 DEF Placed
        <3>6. Found'
            BY <1>1, <2>1, <3>1, <3>3 DEF Found
        <3>7. Shelved'
            BY <1>1, <3>3 DEF Shelved, Bound
        <3>8. SealedIsSettled' /\ PlanSound'
            BY <1>1 DEF SealedIsSettled, PlanSound
        <3>9. PendingStaysActive'
            BY <1>1, <3>3, NoneAssumption DEF PendingStaysActive, TypeOK
        <3> QED
            BY <2>3, <3>4, <3>5, <3>6, <3>7, <3>8, <3>9
    <2> QED
        BY <2>4, <2>5
<1> QED
    BY <1>3, <1>4 DEF Rename, RenamePossible

(* A plan is written where there was none, so its quarantine is empty.      *)
LEMMA WritePlanKeeps ==
    ASSUME IInv, NEW p \in Plans, NEW kind \in Kinds, NEW S \in SUBSET Sessions,
           job = None, plans[p] = None, S # {},
           \A s \in S : active[s] # None,
           kind = "retention" => \A s \in S : book[active[s]].complete,
           WritePlan(p, kind, S)
    PROVE  IInv'
<1> USE DEF IInv
<1> DEFINE f == [s \in S |-> Snapshot(active[s])]
           new == [kind |-> kind, entries |-> f]
<1>1. /\ plans' = [plans EXCEPT ![p] = new]
      /\ UNCHANGED <<active, shelf, book, pending, journal, residue, job>>
    BY DEF WritePlan
<1>2. f \in [S -> Entry]
    BY DEF Snapshot, Entry, TypeOK, Book
<1>3. \A s \in S : f[s].complete = book[active[s]].complete
    BY DEF Snapshot
<1> HIDE DEF f
<1>4. new \in Plan
    BY <1>2 DEF Plan
<1>5. new.kind = kind /\ new.entries = f
    OBVIOUS
<1> HIDE DEF new
<1>6. \A q \in Plans : plans'[q] = (IF q = p THEN new ELSE plans[q])
    BY <1>1 DEF TypeOK
<1>7. TypeOK'
    BY <1>1, <1>4 DEF TypeOK
<1>8. Placed' /\ Found' /\ SealedIsSettled' /\ PendingStaysActive' /\ JobSound'
    BY <1>1 DEF Placed, Found, SealedIsSettled, PendingStaysActive, JobSound
<1>9. PlanSound'
    <2>1. DOMAIN new.entries = S
        BY <1>2, <1>5
    <2> QED
        BY <1>3, <1>5, <1>6, <2>1 DEF PlanSound
<1>10. Shelved'
    BY <1>1, <1>6 DEF Shelved, Bound
<1> QED
    BY <1>7, <1>8, <1>9, <1>10

(* A new Session takes a directory that is nowhere.                         *)
LEMMA CreateKeeps ==
    ASSUME IInv, NEW s \in Sessions, NEW d \in Directories, CreateSession(s, d)
    PROVE  IInv'
<1> USE DEF IInv
<1>1. /\ active[s] = None /\ book[d].version = 0
      /\ active' = [active EXCEPT ![s] = d]
      /\ book' = [book EXCEPT ![d].version = 1]
      /\ UNCHANGED <<shelf, pending, plans, journal, residue, job>>
    BY DEF CreateSession
<1>2. d # None
    BY NoneAssumption
<1>3. TypeOK'
    BY <1>1, VersionAssumption DEF TypeOK, Book
<1>4. /\ \A r \in Sessions : active'[r] = (IF r = s THEN d ELSE active[r])
      /\ \A c \in Directories : c # d => book'[c] = book[c]
      /\ book'[d].version = 1 /\ book'[d].complete = book[d].complete
    BY <1>1 DEF TypeOK, Book
<1>5. /\ \A r \in Sessions : active[r] # d
      /\ \A p \in Plans, r \in Sessions : shelf[p][r] # d
    BY <1>1, <1>2 DEF Placed
<1>6. Placed'
    BY <1>1, <1>2, <1>4, <1>5 DEF Placed, TypeOK
<1>7. Found'
    <2> SUFFICES ASSUME NEW c \in Directories, book'[c].version # 0
                 PROVE  \/ \E r \in Sessions : active'[r] = c
                        \/ \E p \in Plans, r \in Sessions : shelf'[p][r] = c
        BY DEF Found
    <2>1. CASE c = d
        BY <1>4, <2>1
    <2>2. CASE c # d
        <3>1. book[c].version # 0 /\ c # None
            BY <1>4, <2>2, NoneAssumption
        <3>2. CASE \E r \in Sessions : active[r] = c
            BY <1>1, <1>4, <3>1, <3>2
        <3>3. CASE \E p \in Plans, r \in Sessions : shelf[p][r] = c
            BY <1>1, <3>3
        <3> QED
            BY <3>1, <3>2, <3>3 DEF Found
    <2> QED
        BY <2>1, <2>2
<1>8. SealedIsSettled' /\ PlanSound' /\ PendingStaysActive'
    BY <1>1, <1>4 DEF SealedIsSettled, PlanSound, PendingStaysActive, TypeOK
<1>9. Shelved'
    BY <1>1, <1>4, <1>5 DEF Shelved, Bound, TypeOK
<1>10. JobSound'
    BY <1>1 DEF JobSound, CreateSession, RootLocked
<1> QED
    BY <1>3, <1>6, <1>7, <1>8, <1>9, <1>10

(* Hosts work in Sessions that have their name, never in quarantined ones.  *)
LEMMA WorkKeeps ==
    ASSUME IInv, NEW s \in Sessions, Work(s)
    PROVE  IInv'
<1> USE DEF IInv
<1> DEFINE d == active[s]
<1>1. /\ d # None /\ d \in Directories /\ ~book[d].complete /\ book[d].version < MaxVersion
      /\ UNCHANGED <<active, shelf, plans, journal, residue, job>>
    BY DEF Work, TypeOK
<1>2. book[d].version \in 0 .. MaxVersion /\ book[d] \in Book
    BY <1>1 DEF TypeOK, Book
<1>3. PICK b \in Book :
          /\ book' = [book EXCEPT ![d] = b]
          /\ b.version = book[d].version + 1
          /\ \/ ~b.complete /\ pending' \in {pending \cup {d}, pending \ {d}}
             \/ d \notin pending /\ pending' = pending
    <2>1. CASE /\ book' = [book EXCEPT ![d].version = @ + 1]
               /\ pending' \in {pending \cup {d}, pending \ {d}}
        <3> DEFINE b == [book[d] EXCEPT !.version = book[d].version + 1]
        <3>1. b \in Book /\ b.version = book[d].version + 1 /\ ~b.complete
            BY <1>1, <1>2, VersionAssumption DEF Book
        <3>2. book' = [book EXCEPT ![d] = b]
            BY <2>1
        <3> QED
            BY <2>1, <3>1, <3>2
    <2>2. CASE /\ book' = [book EXCEPT ![d].version = @ + 1, ![d].complete = TRUE]
               /\ d \notin pending /\ pending' = pending
        <3> DEFINE v == book[d].version + 1
                   b == [book[d] EXCEPT !.version = v, !.complete = TRUE]
        <3>0. v \in 0 .. MaxVersion
            BY <1>1, <1>2, VersionAssumption
        <3> HIDE DEF v
        <3>1. b \in Book /\ b.version = v
            BY <1>2, <3>0 DEF Book
        <3>2. book' = [book EXCEPT ![d] = b]
            BY <1>1, <1>2, <2>2 DEF TypeOK, Book, v
        <3> QED
            BY <2>2, <3>1, <3>2 DEF v
    <2> QED
        BY <2>1, <2>2 DEF Work
<1> HIDE DEF d
<1>4. TypeOK'
    BY <1>1, <1>3 DEF TypeOK
<1>5. /\ \A c \in Directories : c # d => book'[c] = book[c]
      /\ book'[d] = b /\ b.version # 0
    BY <1>1, <1>2, <1>3 DEF TypeOK
<1>6. /\ d = active[s] /\ book[d].version # 0
      /\ \A p \in Plans, r \in Sessions : shelf[p][r] # d
    BY <1>1 DEF Placed, d
<1>7. Placed'
    <2>1. \A c \in Directories : book[c].version # 0 => book'[c].version # 0
        BY <1>5
    <2>2. /\ \A r \in Sessions : active[r] # None => active[r] \in Directories
          /\ \A p \in Plans, r \in Sessions : shelf[p][r] # None => shelf[p][r] \in Directories
        BY DEF TypeOK
    <2> QED
        BY <1>1, <2>1, <2>2 DEF Placed
<1>8. Found'
    BY <1>1, <1>5, <1>6 DEF Found
<1>9. SealedIsSettled'
    BY <1>1, <1>3, <1>5 DEF SealedIsSettled, TypeOK
<1>10. PlanSound' /\ PendingStaysActive'
    BY <1>1, <1>3, <1>6 DEF PlanSound, PendingStaysActive
<1>11. Shelved'
    BY <1>1, <1>5, <1>6 DEF Shelved, Bound, TypeOK
<1>12. JobSound'
    BY <1>1 DEF JobSound, Work, RootLocked
<1> QED
    BY <1>4, <1>7, <1>8, <1>9, <1>10, <1>11, <1>12

(* The external process changes only what no comparison of IInv looks at.   *)
LEMMA ExternalKeeps ==
    ASSUME IInv, NEW d \in Directories, ExternalWrite(d)
    PROVE  IInv'
<1> USE DEF IInv
<1>1. /\ book' = [book EXCEPT ![d].extra = TRUE]
      /\ UNCHANGED <<active, shelf, pending, plans, journal, residue, job>>
    BY DEF ExternalWrite
<1>2. TypeOK'
    BY <1>1 DEF TypeOK, Book
<1>3. \A c \in Directories : /\ book'[c].version = book[c].version
                             /\ book'[c].complete = book[c].complete
    BY <1>1 DEF TypeOK, Book
<1>4. Placed' /\ Found' /\ SealedIsSettled'
    BY <1>1, <1>3 DEF Placed, Found, SealedIsSettled, TypeOK
<1>5. PlanSound' /\ PendingStaysActive'
    BY <1>1 DEF PlanSound, PendingStaysActive
<1>6. Shelved'
    BY <1>1, <1>3 DEF Shelved, Bound, TypeOK
<1>7. JobSound'
    <2> SUFFICES ASSUME job # None PROVE JobSound'
        BY <1>1 DEF JobSound
    <2>1. job \in Job
        BY DEF TypeOK
    <2>2. job.todo # {} => Current(job) \in Sessions
        BY <2>1, CurrentIsListed DEF Job
    <2>3. job.todo # {} => Source(job, Current(job)) \in Directories \cup {None}
        BY <2>1, <2>2 DEF Source, TypeOK, Job
    <2>4. Current(job)' = Current(job) /\ Source(job, Current(job))' = Source(job, Current(job))
        BY <1>1 DEF Current, Source
    <2> QED
        BY <1>1, <1>3, <2>3, <2>4 DEF JobSound, Bound
<1> QED
    BY <1>2, <1>4, <1>5, <1>6, <1>7

LEMMA NextKeeps == IInv /\ [Next]_vars => IInv'
<1> SUFFICES ASSUME IInv, [Next]_vars PROVE IInv'
    OBVIOUS
<1>1. ASSUME NEW s \in Sessions, Step(s) PROVE IInv'
    BY <1>1, StageKeeps, ExamineKeeps, RenameKeeps DEF Step
<1>2. ASSUME NEW p \in Plans, NEW S \in SUBSET Sessions, RetentionPlan(p, S) PROVE IInv'
    BY <1>2, WritePlanKeeps DEF RetentionPlan, Retainable, Kinds
<1>3. ASSUME NEW p \in Plans, NEW s \in Sessions, AbandonPlan(p, s) PROVE IInv'
    BY <1>3, WritePlanKeeps DEF AbandonPlan, Kinds
<1>4. CASE Interrupt
    BY <1>4, ReturnKeeps DEF Interrupt, IInv, TypeOK
<1>5. CASE CrashInRecord
    BY <1>5, ReturnKeeps DEF CrashInRecord, IInv, TypeOK, Job
<1>6. CASE UNCHANGED vars
    <2>1. TypeOK' /\ JobSound'
        BY <1>6 DEF vars, IInv, TypeOK, JobSound, Current, Source, Bound
    <2> QED
        BY <1>6, <2>1, BesideDirectories DEF vars
<1> QED
    BY <1>1, <1>2, <1>3, <1>4, <1>5, <1>6, BeginKeeps, CreateKeeps, WorkKeeps, ExternalKeeps
    DEF Next

(* A directory that exists is counted once.                                 *)
LEMMA OnePlace ==
    ASSUME IInv, NEW d \in Directories, book[d].version # 0
    PROVE  Cardinality({s \in Sessions : active[s] = d})
             + Cardinality({x \in Plans \X Sessions : shelf[x[1]][x[2]] = d}) = 1
<1> USE DEF IInv
<1> DEFINE A == {s \in Sessions : active[s] = d}
           Q == {x \in Plans \X Sessions : shelf[x[1]][x[2]] = d}
<1>1. d # None
    BY NoneAssumption
<1>2. CASE \E s \in Sessions : active[s] = d
    <2>1. PICK s \in Sessions : active[s] = d
        BY <1>2
    <2>2. A = {s}
        BY <1>1, <2>1 DEF Placed
    <2>3. Q = {}
        BY <1>1, <2>1 DEF Placed
    <2> HIDE DEF A, Q
    <2>4. Cardinality(A) = 1 /\ Cardinality(Q) = 0
        BY <2>2, <2>3, FS_Singleton, FS_EmptySet
    <2> QED
        BY <2>4 DEF A, Q
<1>3. CASE /\ ~\E s \in Sessions : active[s] = d
           /\ \E p \in Plans, s \in Sessions : shelf[p][s] = d
    <2>1. PICK p \in Plans, s \in Sessions : shelf[p][s] = d
        BY <1>3
    <2>2. A = {}
        BY <1>3
    <2>3. <<p, s>> \in Q
        BY <2>1
    <2>4. ASSUME NEW x \in Q PROVE x = <<p, s>>
        <3>1. /\ x = <<x[1], x[2]>> /\ x[1] \in Plans /\ x[2] \in Sessions
              /\ shelf[x[1]][x[2]] = d
            BY <2>4
        <3>2. x[1] = p /\ x[2] = s
            BY <1>1, <2>1, <3>1 DEF Placed
        <3> QED
            BY <3>1, <3>2
    <2> HIDE DEF A, Q
    <2>5. Q = {<<p, s>>}
        BY <2>3, <2>4
    <2>6. Cardinality(A) = 0 /\ Cardinality(Q) = 1
        BY <2>2, <2>5, FS_Singleton, FS_EmptySet
    <2> QED
        BY <2>6 DEF A, Q
<1> QED
    BY <1>2, <1>3 DEF Found

-----------------------------------------------------------------------------
(* What the maintenance commands read and keep, whatever Sessions, plans    *)
(* and interruptions there are.                                             *)
THEOREM RetentionInvariant == Spec => []IInv
BY InitEstablishes, NextKeeps, PTL DEF Spec

(* What apply has moved to a plan's quarantine is the Session the plan      *)
(* binds, as it was bound, and every Session directory is in one place.     *)
THEOREM QuarantineAlwaysMatches == Spec => []QuarantineMatchesPlan
<1>1. IInv => QuarantineMatchesPlan
    <2> SUFFICES ASSUME IInv PROVE QuarantineMatchesPlan
        OBVIOUS
    <2>1. \A d \in Directories : book[d].version > 0 => book[d].version # 0
        BY DEF IInv, TypeOK, Book
    <2> QED
        BY <2>1, OnePlace DEF QuarantineMatchesPlan, IInv, Shelved, Bound
<1> QED
    BY <1>1, RetentionInvariant, PTL

(* apply never takes a Session with a pending Controller transaction out of *)
(* the root, and none becomes pending in quarantine.                        *)
THEOREM PendingAlwaysActive == Spec => []PendingStaysActive
<1>1. IInv => PendingStaysActive
    BY DEF IInv
<1> QED
    BY <1>1, RetentionInvariant, PTL
=============================================================================
