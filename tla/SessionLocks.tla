---------------------------- MODULE SessionLocks ----------------------------
(***************************************************************************)
(* The two-level locks of an artifact root                                  *)
(* (crates/t32perf-session/src/session.rs).                                 *)
(*                                                                          *)
(* An operation on a Session takes a shared lease of the root namespace and *)
(* then the Session's own lock; publishing a new Session, or moving one to  *)
(* quarantine, takes the namespace lease exclusively and may lock Sessions  *)
(* inside it.  Each of the two locks is a reservation in a registry of the  *)
(* process followed by an advisory lock of a file, which the operating      *)
(* system drops when the process dies.  Every attempt is a try: it fails,   *)
(* and undoes what it reserved, instead of waiting.                         *)
(*                                                                          *)
(* A thread is at most in one attempt.  Its steps are the accesses to the   *)
(* shared state: a registry, a lock file, a directory.                      *)
(***************************************************************************)
EXTENDS Naturals, FiniteSets

CONSTANTS
    Procs,          \* host processes
    Threads,        \* threads of these processes
    Home,           \* the process of each thread
    Sessions,       \* Session names of the root
    Directories,    \* Session directories that can ever be created
    None

ASSUME HomeAssumption == Home \in [Threads -> Procs]

ASSUME ThreadsAssumption == IsFiniteSet(Threads)

(* NamespaceLockMode.                                                       *)
Modes == {"shared", "exclusive"}

ASSUME NoneAssumption == None \notin Threads \cup Sessions \cup Directories \cup Modes

VARIABLES
    dir,        \* the directory at root/<session>, or None
    used,       \* the directories created so far
    step,       \* where each thread is in its attempt
    mode,       \* the NamespaceLockMode of the attempt, or None
    target,     \* the Session the attempt is locking or has locked, or None
    file,       \* the directory whose .session.lock file is open, or None
    shared,     \* ROOT_NAMESPACE_LOCKS: threads counted as shared, by process
    exclusive,  \* ROOT_NAMESPACE_LOCKS: threads recorded as exclusive
    registry,   \* PROCESS_LOCKS: Session paths, by process
    rootOS,     \* OS lock of .artifact-root.lock held by each thread, or None
    fileOS      \* directory whose .session.lock each thread has OS-locked

vars == <<dir, used, step, mode, target, file, shared, exclusive, registry,
          rootOS, fileOS>>

(* The steps of an attempt that has its lease of the namespace.             *)
Leased == {"leased", "reserved", "opened", "locked", "held", "unlocked"}

Steps == {"idle", "root_reserved", "root_locked", "root_unlocked"} \cup Leased

TypeOK ==
    /\ dir \in [Sessions -> Directories \cup {None}]
    /\ used \in SUBSET Directories
    /\ step \in [Threads -> Steps]
    /\ mode \in [Threads -> Modes \cup {None}]
    /\ target \in [Threads -> Sessions \cup {None}]
    /\ file \in [Threads -> Directories \cup {None}]
    /\ shared \in [Procs -> Nat]
    /\ exclusive \in [Procs -> BOOLEAN]
    /\ registry \in [Procs -> SUBSET Sessions]
    /\ rootOS \in [Threads -> Modes \cup {None}]
    /\ fileOS \in [Threads -> Directories \cup {None}]

Init ==
    /\ dir = [s \in Sessions |-> None]
    /\ used = {}
    /\ step = [t \in Threads |-> "idle"]
    /\ mode = [t \in Threads |-> None]
    /\ target = [t \in Threads |-> None]
    /\ file = [t \in Threads |-> None]
    /\ shared = [p \in Procs |-> 0]
    /\ exclusive = [p \in Procs |-> FALSE]
    /\ registry = [p \in Procs |-> {}]
    /\ rootOS = [t \in Threads |-> None]
    /\ fileOS = [t \in Threads |-> None]

-----------------------------------------------------------------------------
(* The namespace lease.                                                     *)

(* reserve_root_namespace_process_lock: a refused reservation is an error   *)
(* that changes nothing.                                                    *)
Reserve(t, m) ==
    LET p == Home[t] IN
    /\ ~exclusive[p]
    /\ m = "exclusive" => shared[p] = 0
    /\ shared' = IF m = "shared" THEN [shared EXCEPT ![p] = @ + 1] ELSE shared
    /\ exclusive' = IF m = "exclusive" THEN [exclusive EXCEPT ![p] = TRUE] ELSE exclusive

(* release_root_namespace_process_lock, with its saturating subtraction.    *)
Unreserve(t) ==
    LET p == Home[t] IN
    /\ shared' = IF mode[t] = "shared" /\ shared[p] > 0
                 THEN [shared EXCEPT ![p] = @ - 1] ELSE shared
    /\ exclusive' = IF mode[t] = "exclusive"
                    THEN [exclusive EXCEPT ![p] = FALSE] ELSE exclusive

(* Session::try_lock on an open handle; the directory may be gone by now.   *)
TryLock(t, s) ==
    /\ step[t] = "idle"
    /\ Reserve(t, "shared")
    /\ step' = [step EXCEPT ![t] = "root_reserved"]
    /\ mode' = [mode EXCEPT ![t] = "shared"]
    /\ target' = [target EXCEPT ![t] = s]
    /\ UNCHANGED <<dir, used, file, registry, rootOS, fileOS>>

(* ArtifactRoot::try_namespace_lock.                                        *)
TryNamespaceLock(t) ==
    /\ step[t] = "idle"
    /\ Reserve(t, "exclusive")
    /\ step' = [step EXCEPT ![t] = "root_reserved"]
    /\ mode' = [mode EXCEPT ![t] = "exclusive"]
    /\ UNCHANGED <<dir, used, target, file, registry, rootOS, fileOS>>

(* Mutant: an exclusive request looks only for another exclusive one.       *)
RootContendedByExclusive(t) ==
    \E u \in Threads \ {t} : rootOS[u] = "exclusive"

(* The OS grants a shared lock beside shared ones and an exclusive lock     *)
(* alone.  Two descriptors conflict in one process as in two.               *)
RootContended(t) ==
    \E u \in Threads \ {t} :
        /\ rootOS[u] # None
        /\ mode[t] = "exclusive" \/ rootOS[u] = "exclusive"

LockRoot(t) ==
    /\ step[t] = "root_reserved"
    /\ ~RootContended(t)
    /\ rootOS' = [rootOS EXCEPT ![t] = mode[t]]
    /\ step' = [step EXCEPT ![t] = "root_locked"]
    /\ UNCHANGED <<dir, used, mode, target, file, shared, exclusive, registry, fileOS>>

(* Mutant: a failed OS lock forgets to release the reservation.             *)
LockRootFailsKeepsReservation(t) ==
    /\ step[t] = "root_reserved"
    /\ step' = [step EXCEPT ![t] = "idle"]
    /\ mode' = [mode EXCEPT ![t] = None]
    /\ target' = [target EXCEPT ![t] = None]
    /\ UNCHANGED <<dir, used, file, shared, exclusive, registry, rootOS, fileOS>>

(* The lock file cannot be opened, or its OS lock is contended or fails.    *)
LockRootFails(t) ==
    /\ step[t] = "root_reserved"
    /\ Unreserve(t)
    /\ step' = [step EXCEPT ![t] = "idle"]
    /\ mode' = [mode EXCEPT ![t] = None]
    /\ target' = [target EXCEPT ![t] = None]
    /\ UNCHANGED <<dir, used, file, registry, rootOS, fileOS>>

(* ensure_opened_file_identity on the root lock file, which stays in place: *)
(* the check can only fail for an I/O error.                                *)
RootIdentity(t) ==
    /\ step[t] = "root_locked"
    /\ \/ /\ step' = [step EXCEPT ![t] = "leased"]
          /\ UNCHANGED <<target, rootOS>>
       \/ /\ step' = [step EXCEPT ![t] = "root_unlocked"]
          /\ target' = [target EXCEPT ![t] = None]
          /\ rootOS' = [rootOS EXCEPT ![t] = None]
    /\ UNCHANGED <<dir, used, mode, file, shared, exclusive, registry, fileOS>>

(* NamespaceLease::drop, first half: the OS lock.                           *)
DropLease(t) ==
    /\ step[t] = "leased"
    /\ target[t] = None
    /\ rootOS' = [rootOS EXCEPT ![t] = None]
    /\ step' = [step EXCEPT ![t] = "root_unlocked"]
    /\ UNCHANGED <<dir, used, mode, target, file, shared, exclusive, registry, fileOS>>

(* NamespaceLease::drop, second half: the registry of the process.          *)
ReleaseRoot(t) ==
    /\ step[t] = "root_unlocked"
    /\ Unreserve(t)
    /\ step' = [step EXCEPT ![t] = "idle"]
    /\ mode' = [mode EXCEPT ![t] = None]
    /\ UNCHANGED <<dir, used, target, file, registry, rootOS, fileOS>>

-----------------------------------------------------------------------------
(* The Session lock, under a lease.                                         *)

(* try_lock_in_namespace: the holder of the exclusive lease locks a         *)
(* Session.  Under a shared lease the target was chosen by TryLock.         *)
TryLockInNamespace(t, s) ==
    /\ step[t] = "leased"
    /\ mode[t] = "exclusive"
    /\ target[t] = None
    /\ target' = [target EXCEPT ![t] = s]
    /\ UNCHANGED <<dir, used, step, mode, file, shared, exclusive, registry, rootOS, fileOS>>

(* process_locks().insert.                                                  *)
ReserveSession(t) ==
    LET p == Home[t] IN
    /\ step[t] = "leased"
    /\ target[t] # None
    /\ \/ /\ target[t] \notin registry[p]
          /\ registry' = [registry EXCEPT ![p] = @ \cup {target[t]}]
          /\ step' = [step EXCEPT ![t] = "reserved"]
          /\ UNCHANGED target
       \/ /\ target[t] \in registry[p]
          /\ target' = [target EXCEPT ![t] = None]
          /\ UNCHANGED <<step, registry>>
    /\ UNCHANGED <<dir, used, mode, file, shared, exclusive, rootOS, fileOS>>

OpenLockFile(t) ==
    /\ step[t] = "reserved"
    /\ dir[target[t]] # None
    /\ file' = [file EXCEPT ![t] = dir[target[t]]]
    /\ step' = [step EXCEPT ![t] = "opened"]
    /\ UNCHANGED <<dir, used, mode, target, shared, exclusive, registry, rootOS, fileOS>>

(* Mutant: the contention error of the Session lock file is ignored.        *)
FileNeverContended(t) == FALSE

FileContended(t) == \E u \in Threads \ {t} : fileOS[u] = file[t]

(* Mutant: the lease is not part of the SessionLock and is dropped once the *)
(* Session lock file is locked.                                             *)
LockFileDropsLease(t) ==
    /\ step[t] = "opened"
    /\ ~FileContended(t)
    /\ fileOS' = [fileOS EXCEPT ![t] = file[t]]
    /\ rootOS' = [rootOS EXCEPT ![t] = None]
    /\ step' = [step EXCEPT ![t] = "locked"]
    /\ UNCHANGED <<dir, used, mode, target, file, shared, exclusive, registry>>

LockFile(t) ==
    /\ step[t] = "opened"
    /\ ~FileContended(t)
    /\ fileOS' = [fileOS EXCEPT ![t] = file[t]]
    /\ step' = [step EXCEPT ![t] = "locked"]
    /\ UNCHANGED <<dir, used, mode, target, file, shared, exclusive, registry, rootOS>>

(* Back to the lease: the process lock is removed and the file closed.      *)
RemoveProcessLock(t) ==
    /\ registry' = [registry EXCEPT ![Home[t]] = @ \ {target[t]}]
    /\ step' = [step EXCEPT ![t] = "leased"]
    /\ target' = [target EXCEPT ![t] = None]
    /\ file' = [file EXCEPT ![t] = None]
    /\ UNCHANGED <<dir, used, mode, shared, exclusive, rootOS, fileOS>>

(* The lock file is missing or cannot be opened, or it is contended.        *)
LockSessionFails(t) ==
    /\ step[t] \in {"reserved", "opened"}
    /\ RemoveProcessLock(t)

(* ensure_opened_file_identity: the path still names the locked file.  It   *)
(* also fails for an I/O error.                                             *)
FileIdentity(t) ==
    /\ step[t] = "locked"
    /\ \/ /\ dir[target[t]] = file[t]
          /\ step' = [step EXCEPT ![t] = "held"]
          /\ UNCHANGED fileOS
       \/ /\ step' = [step EXCEPT ![t] = "unlocked"]
          /\ fileOS' = [fileOS EXCEPT ![t] = None]
    /\ UNCHANGED <<dir, used, mode, target, file, shared, exclusive, registry, rootOS>>

(* SessionLock::drop: the OS lock, then the registry; its share of the      *)
(* lease goes last.                                                         *)
Unlock(t) ==
    /\ step[t] = "held"
    /\ fileOS' = [fileOS EXCEPT ![t] = None]
    /\ step' = [step EXCEPT ![t] = "unlocked"]
    /\ UNCHANGED <<dir, used, mode, target, file, shared, exclusive, registry, rootOS>>

ReleaseSession(t) ==
    /\ step[t] = "unlocked"
    /\ RemoveProcessLock(t)

-----------------------------------------------------------------------------
(* What the exclusive lease is for.                                         *)

(* create_session_with_id: the initialised private directory is renamed to  *)
(* a name that is free.                                                     *)
Publish(t, s, d) ==
    /\ step[t] = "leased"
    /\ mode[t] = "exclusive"
    /\ target[t] = None
    /\ dir[s] = None
    /\ d \notin used
    /\ dir' = [dir EXCEPT ![s] = d]
    /\ used' = used \cup {d}
    /\ UNCHANGED <<step, mode, target, file, shared, exclusive, registry, rootOS, fileOS>>

(* The rename of retention_apply and abandon_apply; the mover has dropped   *)
(* the Session lock, which a rename on Windows does not survive.            *)
MoveAway(t, s) ==
    /\ step[t] = "leased"
    /\ mode[t] = "exclusive"
    /\ target[t] = None
    /\ dir[s] # None
    /\ dir' = [dir EXCEPT ![s] = None]
    /\ UNCHANGED <<used, step, mode, target, file, shared, exclusive, registry, rootOS, fileOS>>

(* The process dies: its threads, its registries and its OS locks go.       *)
Crash(p) ==
    LET wiped(f, v) == [t \in Threads |-> IF Home[t] = p THEN v ELSE f[t]] IN
    /\ step' = wiped(step, "idle")
    /\ mode' = wiped(mode, None)
    /\ target' = wiped(target, None)
    /\ file' = wiped(file, None)
    /\ rootOS' = wiped(rootOS, None)
    /\ fileOS' = wiped(fileOS, None)
    /\ shared' = [shared EXCEPT ![p] = 0]
    /\ exclusive' = [exclusive EXCEPT ![p] = FALSE]
    /\ registry' = [registry EXCEPT ![p] = {}]
    /\ UNCHANGED <<dir, used>>

Attempt(t) ==
    \/ TryNamespaceLock(t)
    \/ LockRoot(t)
    \/ LockRootFails(t)
    \/ RootIdentity(t)
    \/ DropLease(t)
    \/ ReleaseRoot(t)
    \/ ReserveSession(t)
    \/ OpenLockFile(t)
    \/ LockFile(t)
    \/ LockSessionFails(t)
    \/ FileIdentity(t)
    \/ Unlock(t)
    \/ ReleaseSession(t)
    \/ \E s \in Sessions :
         \/ TryLock(t, s)
         \/ TryLockInNamespace(t, s)
         \/ MoveAway(t, s)
         \/ \E d \in Directories : Publish(t, s, d)

Next ==
    \/ \E t \in Threads : Attempt(t)
    \/ \E p \in Procs : Crash(p)

Spec == Init /\ [][Next]_vars

-----------------------------------------------------------------------------
(* Properties.                                                              *)

Owns(t, s) == step[t] = "held" /\ target[t] = s

Masters(t) == step[t] \in Leased /\ mode[t] = "exclusive"

(* At most one thread, of all the processes, owns a Session, although the   *)
(* directory behind its name can be moved away and replaced between the     *)
(* opening of the handle, the opening of the lock file and its OS lock.     *)
OneOwner ==
    \A s \in Sessions : \A t, u \in Threads : Owns(t, s) /\ Owns(u, s) => t = u

(* While a Session is owned its name designates the directory whose lock    *)
(* file the owner locked: no retention move takes it from under a writer.   *)
OwnedStaysInPlace ==
    \A t \in Threads : step[t] = "held" => file[t] # None /\ dir[target[t]] = file[t]

(* A thread with the exclusive lease is alone in the root: no other thread  *)
(* has a lease of any kind, so publishing and moving race with nothing.     *)
MasterIsAlone ==
    \A t, u \in Threads : Masters(t) /\ step[u] \in Leased => t = u

(* The registries hold what living attempts reserved and no more: whatever  *)
(* attempts failed, at whatever step, no Session and no root stays locked   *)
(* behind them, and none is freed under an owner.                           *)
RegistriesExact ==
    \A p \in Procs :
        LET mine == {t \in Threads : Home[t] = p /\ step[t] # "idle"} IN
        /\ shared[p] = Cardinality({t \in mine : mode[t] = "shared"})
        /\ exclusive[p] <=> \E t \in mine : mode[t] = "exclusive"
        /\ registry[p] = {target[t] : t \in {u \in mine :
                              step[u] \in Leased \ {"leased"}}}

(* The files, registries and steps above implement the lock table.          *)
OwnerOf ==
    [s \in Sessions |-> IF \E t \in Threads : Owns(t, s)
                        THEN CHOOSE t \in Threads : Owns(t, s) ELSE None]

MasterOf ==
    IF \E t \in Threads : Masters(t) THEN CHOOSE t \in Threads : Masters(t) ELSE None

Table == INSTANCE LockTable WITH owner <- OwnerOf, master <- MasterOf, place <- dir

(* Every behaviour of the locks, with any interleaving, failure and crash   *)
(* of attempts, is a behaviour of the lock table: ownership is taken and    *)
(* given back in one indivisible step, and only a sole master renames.      *)
ImplementsTable == Table!Spec
=============================================================================
