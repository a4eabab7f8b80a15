------------------------- MODULE SessionLocksProofs -------------------------
(***************************************************************************)
(* The Session locks are exclusive for every number of processes, threads, *)
(* Sessions and directories, and implement the lock table.                 *)
(*                                                                         *)
(* The argument rests on the operating system's locks alone: the           *)
(* registries only make an attempt fail earlier.  What is inductive is     *)
(* that each thread's OS locks are the ones its step says it has, that no  *)
(* two of them conflict, and that the owner of a Session, who still has a  *)
(* lease, keeps every master out and with it every rename.                 *)
(***************************************************************************)
EXTENDS SessionLocks, FiniteSetTheorems, TLAPS

(* The OS lock of the root is held from its grant to the drop of the lease. *)
RootOSMatches ==
    \A t \in Threads :
        /\ step[t] # "idle" => mode[t] \in Modes
        /\ rootOS[t] = IF step[t] \in Leased \cup {"root_locked"} THEN mode[t] ELSE None

RootOSCompatible ==
    \A t, u \in Threads : t # u /\ rootOS[t] = "exclusive" => rootOS[u] = None

(* The OS lock of a Session's file is held from its grant to the unlock.    *)
FileOSMatches ==
    \A t \in Threads :
        /\ step[t] \in Leased \ {"leased"} => target[t] \in Sessions
        /\ step[t] \in {"opened", "locked", "held"} => file[t] \in Directories
        /\ fileOS[t] = IF step[t] \in {"locked", "held"} THEN file[t] ELSE None

FileOSCompatible ==
    \A t, u \in Threads : t # u /\ fileOS[t] # None => fileOS[u] # fileOS[t]

IInv ==
    /\ TypeOK
    /\ RootOSMatches
    /\ RootOSCompatible
    /\ FileOSMatches
    /\ FileOSCompatible
    /\ OwnedStaysInPlace

-----------------------------------------------------------------------------
(* The initial state satisfies the invariant: nothing is held anywhere.     *)
LEMMA InitInv == Init => IInv
BY HomeAssumption, NoneAssumption
DEF Init, IInv, TypeOK, Steps, Leased, Modes, RootOSMatches, RootOSCompatible,
    FileOSMatches, FileOSCompatible, OwnedStaysInPlace

(* Every step keeps the variables within their types; what a registry       *)
(* counts stays a natural number because the release saturates.             *)
LEMMA TypeStep == IInv /\ [Next]_vars => TypeOK'
<1> SUFFICES ASSUME IInv, [Next]_vars PROVE TypeOK'
  OBVIOUS
<1> USE HomeAssumption DEF IInv, TypeOK, Steps, Leased
<1>1. ASSUME NEW t \in Threads, TryNamespaceLock(t) PROVE TypeOK'
  BY <1>1 DEF TryNamespaceLock, Reserve, Modes
<1>2. ASSUME NEW t \in Threads, LockRoot(t) PROVE TypeOK'
  BY <1>2 DEF LockRoot
<1>3. ASSUME NEW t \in Threads, LockRootFails(t) PROVE TypeOK'
  BY <1>3 DEF LockRootFails, Unreserve
<1>4. ASSUME NEW t \in Threads, RootIdentity(t) PROVE TypeOK'
  BY <1>4 DEF RootIdentity
<1>5. ASSUME NEW t \in Threads, DropLease(t) PROVE TypeOK'
  BY <1>5 DEF DropLease
<1>6. ASSUME NEW t \in Threads, ReleaseRoot(t) PROVE TypeOK'
  BY <1>6 DEF ReleaseRoot, Unreserve
<1>7. ASSUME NEW t \in Threads, ReserveSession(t) PROVE TypeOK'
  BY <1>7 DEF ReserveSession
<1>8. ASSUME NEW t \in Threads, OpenLockFile(t) PROVE TypeOK'
  BY <1>8 DEF OpenLockFile, FileOSMatches
<1>9. ASSUME NEW t \in Threads, LockFile(t) PROVE TypeOK'
  BY <1>9 DEF LockFile
<1>10. ASSUME NEW t \in Threads, LockSessionFails(t) PROVE TypeOK'
  BY <1>10 DEF LockSessionFails, RemoveProcessLock
<1>11. ASSUME NEW t \in Threads, FileIdentity(t) PROVE TypeOK'
  BY <1>11 DEF FileIdentity
<1>12. ASSUME NEW t \in Threads, Unlock(t) PROVE TypeOK'
  BY <1>12 DEF Unlock
<1>13. ASSUME NEW t \in Threads, ReleaseSession(t) PROVE TypeOK'
  BY <1>13 DEF ReleaseSession, RemoveProcessLock
<1>14. ASSUME NEW t \in Threads, NEW s \in Sessions, TryLock(t, s) PROVE TypeOK'
  BY <1>14 DEF TryLock, Reserve, Modes
<1>15. ASSUME NEW t \in Threads, NEW s \in Sessions, TryLockInNamespace(t, s)
       PROVE TypeOK'
  BY <1>15 DEF TryLockInNamespace
<1>16. ASSUME NEW t \in Threads, NEW s \in Sessions, MoveAway(t, s) PROVE TypeOK'
  BY <1>16 DEF MoveAway
<1>17. ASSUME NEW t \in Threads, NEW s \in Sessions, NEW d \in Directories,
              Publish(t, s, d)
       PROVE TypeOK'
  BY <1>17 DEF Publish
<1>18. ASSUME NEW p \in Procs, Crash(p) PROVE TypeOK'
  BY <1>18 DEF Crash
<1>19. CASE UNCHANGED vars
  BY <1>19 DEF vars
<1>20. QED
  BY <1>1, <1>2, <1>3, <1>4, <1>5, <1>6, <1>7, <1>8, <1>9, <1>10, <1>11, <1>12,
     <1>13, <1>14, <1>15, <1>16, <1>17, <1>18, <1>19 DEF Next, Attempt

(* The other conjuncts of the invariant, which say what the OS locks mean.  *)
OSInv ==
    /\ RootOSMatches
    /\ RootOSCompatible
    /\ FileOSMatches
    /\ FileOSCompatible
    /\ OwnedStaysInPlace

(* Every step preserves them.  A grant needs the absence of a conflicting   *)
(* lock; a rename is made by a master, whose OS lock excludes the lease of  *)
(* every owner; a crash only takes locks away.                              *)
LEMMA OSStep == IInv /\ [Next]_vars => OSInv'
<1> SUFFICES ASSUME IInv, [Next]_vars PROVE OSInv'
  OBVIOUS
<1> USE HomeAssumption, NoneAssumption
    DEF IInv, OSInv, TypeOK, Leased, Steps, Modes, RootOSMatches, RootOSCompatible,
        FileOSMatches, FileOSCompatible, OwnedStaysInPlace
<1>1. ASSUME NEW t \in Threads, TryNamespaceLock(t)
      PROVE OSInv'
  BY <1>1 DEF TryNamespaceLock, Reserve
<1>2. ASSUME NEW t \in Threads, LockRoot(t)
      PROVE OSInv'
  BY <1>2 DEF LockRoot, RootContended
<1>3. ASSUME NEW t \in Threads, LockRootFails(t)
      PROVE OSInv'
  BY <1>3 DEF LockRootFails, Unreserve
<1>4. ASSUME NEW t \in Threads, RootIdentity(t)
      PROVE OSInv'
  BY <1>4 DEF RootIdentity
<1>5. ASSUME NEW t \in Threads, DropLease(t)
      PROVE OSInv'
  BY <1>5 DEF DropLease
<1>6. ASSUME NEW t \in Threads, ReleaseRoot(t)
      PROVE OSInv'
  BY <1>6 DEF ReleaseRoot, Unreserve
<1>7. ASSUME NEW t \in Threads, ReserveSession(t)
      PROVE OSInv'
  BY <1>7 DEF ReserveSession
<1>8. ASSUME NEW t \in Threads, OpenLockFile(t)
      PROVE OSInv'
  BY <1>8 DEF OpenLockFile
<1>9. ASSUME NEW t \in Threads, LockFile(t)
      PROVE OSInv'
  BY <1>9 DEF LockFile, FileContended
<1>10. ASSUME NEW t \in Threads, LockSessionFails(t)
       PROVE OSInv'
  BY <1>10 DEF LockSessionFails, RemoveProcessLock
<1>11. ASSUME NEW t \in Threads, FileIdentity(t)
       PROVE OSInv'
  BY <1>11 DEF FileIdentity
<1>12. ASSUME NEW t \in Threads, Unlock(t)
       PROVE OSInv'
  BY <1>12 DEF Unlock
<1>13. ASSUME NEW t \in Threads, ReleaseSession(t)
       PROVE OSInv'
  BY <1>13 DEF ReleaseSession, RemoveProcessLock
<1>14. ASSUME NEW t \in Threads, NEW s \in Sessions, TryLock(t, s)
       PROVE OSInv'
  BY <1>14 DEF TryLock, Reserve
<1>15. ASSUME NEW t \in Threads, NEW s \in Sessions, TryLockInNamespace(t, s)
       PROVE OSInv'
  BY <1>15 DEF TryLockInNamespace
<1>16. ASSUME NEW t \in Threads, NEW s \in Sessions, MoveAway(t, s)
       PROVE OSInv'
  BY <1>16 DEF MoveAway
<1>17. ASSUME NEW t \in Threads, NEW s \in Sessions, NEW d \in Directories,
Publish(t, s, d)
       PROVE OSInv'
  BY <1>17 DEF Publish
<1>18. ASSUME NEW p \in Procs, Crash(p)
       PROVE OSInv'
  BY <1>18 DEF Crash
<1>19. CASE UNCHANGED vars
  BY <1>19 DEF vars
<1>20. QED
  BY <1>1, <1>2, <1>3, <1>4, <1>5, <1>6, <1>7, <1>8, <1>9, <1>10, <1>11, <1>12,
      <1>13, <1>14, <1>15, <1>16, <1>17, <1>18, <1>19 DEF Next, Attempt

(* The three facts of the inductive argument, combined.                     *)
LEMMA InvHolds == Spec => []IInv
<1>1. IInv /\ [Next]_vars => IInv'
  BY TypeStep, OSStep DEF IInv, OSInv
<1>2. QED
  BY InitInv, <1>1, PTL DEF Spec

(* At most one thread owns a Session: two owners would have the lock file   *)
(* of one directory OS-locked twice.                                        *)
LEMMA InvOneOwner == IInv => OneOwner
BY NoneAssumption
DEF IInv, TypeOK, FileOSMatches, FileOSCompatible, OwnedStaysInPlace, OneOwner, Owns

(* A master is alone in the root.                                           *)
LEMMA InvMasterIsAlone == IInv => MasterIsAlone
BY NoneAssumption
DEF IInv, TypeOK, RootOSMatches, RootOSCompatible, MasterIsAlone, Masters, Leased, Modes

(* try_lock never gives one Session to two threads, of any processes.       *)
THEOREM SessionLockExclusive == Spec => []OneOwner
BY InvHolds, InvOneOwner, PTL

(* No owned Session is moved or replaced under its owner.                   *)
THEOREM OwnedNeverMoves == Spec => []OwnedStaysInPlace
<1>1. IInv => OwnedStaysInPlace
  BY DEF IInv
<1>2. QED
  BY InvHolds, <1>1, PTL

(* try_namespace_lock excludes every other lease of the root.               *)
THEOREM NamespaceExclusive == Spec => []MasterIsAlone
BY InvHolds, InvMasterIsAlone, PTL

-----------------------------------------------------------------------------
(* The refinement.                                                          *)

(* The mapped owner of a Session is the thread that owns it.                *)
OwnerMapped ==
    /\ OwnerOf \in [Sessions -> Threads \cup {None}]
    /\ \A s \in Sessions, t \in Threads : OwnerOf[s] = t <=> Owns(t, s)

(* The mapped master is the thread with the exclusive lease.                *)
MasterMapped ==
    /\ MasterOf \in Threads \cup {None}
    /\ \A t \in Threads : MasterOf = t <=> Masters(t)

(* Since owners are unique, the choice in OwnerOf is no choice.             *)
LEMMA OwnerIs == IInv => OwnerMapped
<1> SUFFICES ASSUME IInv PROVE OwnerMapped
  OBVIOUS
<1>1. ASSUME NEW s \in Sessions
      PROVE  /\ OwnerOf[s] \in Threads \cup {None}
             /\ \A t \in Threads : OwnerOf[s] = t <=> Owns(t, s)
  <2>1. CASE \E t \in Threads : Owns(t, s)
    <3> DEFINE c == CHOOSE t \in Threads : Owns(t, s)
    <3>1. c \in Threads /\ Owns(c, s)
      BY <2>1
    <3>2. OwnerOf[s] = c
      BY <2>1 DEF OwnerOf
    <3> HIDE DEF c
    <3>3. QED
      BY <3>1, <3>2, InvOneOwner DEF OneOwner
  <2>2. CASE ~\E t \in Threads : Owns(t, s)
    BY <2>2, NoneAssumption DEF OwnerOf
  <2>3. QED
    BY <2>1, <2>2
<1>2. QED
  BY <1>1 DEF OwnerOf, OwnerMapped

(* Since masters are unique, the choice in MasterOf is no choice.           *)
LEMMA MasterIs == IInv => MasterMapped
<1> SUFFICES ASSUME IInv PROVE MasterMapped
  OBVIOUS
<1>1. CASE \E t \in Threads : Masters(t)
  <2> DEFINE c == CHOOSE t \in Threads : Masters(t)
  <2>1. c \in Threads /\ Masters(c)
    BY <1>1
  <2>2. MasterOf = c
    BY <1>1 DEF MasterOf
  <2> HIDE DEF c
  <2>3. QED
    BY <2>1, <2>2, InvMasterIsAlone DEF MasterIsAlone, Masters, MasterMapped
<1>2. CASE ~\E t \in Threads : Masters(t)
  BY <1>2, NoneAssumption DEF MasterOf, MasterMapped
<1>3. QED
  BY <1>1, <1>2

(* Every step of the locks maps to a step of the table, or to none.  Most   *)
(* change neither who owns nor who masters.                                 *)
LEMMA TableStep ==
    OwnerMapped /\ OwnerMapped' /\ MasterMapped /\ MasterMapped' /\ IInv /\ IInv'
      /\ [Next]_vars
    => [Table!Next]_(Table!vars)
<1> SUFFICES ASSUME OwnerMapped, OwnerMapped', MasterMapped, MasterMapped', IInv, IInv',
                    [Next]_vars
             PROVE  [Table!Next]_(Table!vars)
  OBVIOUS
<1>1. ASSUME UNCHANGED dir,
             \A t \in Threads : Masters(t)' <=> Masters(t),
             \A t \in Threads, s \in Sessions : Owns(t, s)' <=> Owns(t, s)
      PROVE  UNCHANGED Table!vars
  <2>1. ASSUME NEW s \in Sessions PROVE OwnerOf'[s] = OwnerOf[s]
    BY <1>1, NoneAssumption DEF OwnerMapped
  <2>2. OwnerOf' = OwnerOf
    BY <2>1 DEF OwnerMapped
  <2>3. MasterOf' = MasterOf
    BY <1>1, NoneAssumption DEF MasterMapped
  <2>4. QED
    BY <1>1, <2>2, <2>3 DEF Table!vars
<1>2. ASSUME NEW t \in Threads, TryNamespaceLock(t) PROVE UNCHANGED Table!vars
  BY <1>1, <1>2, NoneAssumption DEF TryNamespaceLock, IInv, TypeOK, FileOSMatches,
      Owns, Masters, Leased
<1>3. ASSUME NEW t \in Threads, LockRoot(t) PROVE UNCHANGED Table!vars
  BY <1>1, <1>3, NoneAssumption DEF LockRoot, IInv, TypeOK, FileOSMatches, Owns,
      Masters, Leased
<1>4. ASSUME NEW t \in Threads, LockRootFails(t) PROVE UNCHANGED Table!vars
  BY <1>1, <1>4, NoneAssumption DEF LockRootFails, IInv, TypeOK, FileOSMatches, Owns,
      Masters, Leased
<1>5. ASSUME NEW t \in Threads, ReleaseRoot(t) PROVE UNCHANGED Table!vars
  BY <1>1, <1>5, NoneAssumption DEF ReleaseRoot, IInv, TypeOK, FileOSMatches, Owns,
      Masters, Leased
<1>6. ASSUME NEW t \in Threads, ReserveSession(t) PROVE UNCHANGED Table!vars
  BY <1>1, <1>6, NoneAssumption DEF ReserveSession, IInv, TypeOK, FileOSMatches,
      Owns, Masters, Leased
<1>7. ASSUME NEW t \in Threads, OpenLockFile(t) PROVE UNCHANGED Table!vars
  BY <1>1, <1>7, NoneAssumption DEF OpenLockFile, IInv, TypeOK, FileOSMatches, Owns,
      Masters, Leased
<1>8. ASSUME NEW t \in Threads, LockFile(t) PROVE UNCHANGED Table!vars
  BY <1>1, <1>8, NoneAssumption DEF LockFile, IInv, TypeOK, FileOSMatches, Owns,
      Masters, Leased
<1>9. ASSUME NEW t \in Threads, LockSessionFails(t) PROVE UNCHANGED Table!vars
  BY <1>1, <1>9, NoneAssumption DEF LockSessionFails, RemoveProcessLock, IInv,
      TypeOK, FileOSMatches, Owns, Masters, Leased
<1>10. ASSUME NEW t \in Threads, ReleaseSession(t) PROVE UNCHANGED Table!vars
  BY <1>1, <1>10, NoneAssumption DEF ReleaseSession, RemoveProcessLock, IInv, TypeOK,
      FileOSMatches, Owns, Masters, Leased
<1>11. ASSUME NEW t \in Threads, NEW s \in Sessions, TryLock(t, s)
       PROVE UNCHANGED Table!vars
  BY <1>1, <1>11, NoneAssumption DEF TryLock, IInv, TypeOK, FileOSMatches, Owns,
      Masters, Leased
<1>12. ASSUME NEW t \in Threads, NEW s \in Sessions, TryLockInNamespace(t, s)
       PROVE UNCHANGED Table!vars
  BY <1>1, <1>12, NoneAssumption DEF TryLockInNamespace, IInv, TypeOK, FileOSMatches,
      Owns, Masters, Leased
<1>13. ASSUME NEW t \in Threads, RootIdentity(t) PROVE [Table!Next]_(Table!vars)
  <2> USE DEF IInv, TypeOK, RootOSMatches, RootOSCompatible, Leased, Owns, Masters
  <2>1. CASE step'[t] = "leased" /\ mode[t] = "exclusive"
    <3>1. MasterOf = None /\ MasterOf' = t
      BY <1>13, <2>1 DEF RootIdentity, MasterMapped, Modes
    <3>2. \A s \in Sessions : OwnerOf[s] = None /\ OwnerOf'[s] = None
      BY <1>13, <2>1, NoneAssumption DEF RootIdentity, OwnerMapped, Modes
    <3>3. OwnerOf' = OwnerOf
      BY <3>2 DEF OwnerMapped
    <3>4. QED
      BY <1>13, <3>1, <3>2, <3>3 DEF RootIdentity, Table!Next, Table!Enter
  <2>2. CASE ~(step'[t] = "leased" /\ mode[t] = "exclusive")
    BY <1>1, <1>13, <2>2 DEF RootIdentity
  <2>3. QED
    BY <2>1, <2>2
<1>14. ASSUME NEW t \in Threads, DropLease(t) PROVE [Table!Next]_(Table!vars)
  <2> USE DEF IInv, TypeOK, Leased, Owns, Masters
  <2>1. CASE mode[t] = "exclusive"
    <3>1. MasterOf = t /\ MasterOf' = None
      BY <1>14, <2>1 DEF DropLease, MasterMapped
    <3>2. \A s \in Sessions : OwnerOf'[s] = OwnerOf[s]
      BY <1>14, NoneAssumption DEF DropLease, OwnerMapped
    <3>3. OwnerOf' = OwnerOf
      BY <3>2 DEF OwnerMapped
    <3>4. QED
      BY <1>14, <3>1, <3>3 DEF DropLease, Table!Next, Table!Leave
  <2>2. CASE mode[t] # "exclusive"
    BY <1>1, <1>14, <2>2 DEF DropLease
  <2>3. QED
    BY <2>1, <2>2
<1>15. ASSUME NEW t \in Threads, FileIdentity(t) PROVE [Table!Next]_(Table!vars)
  <2> USE DEF IInv, TypeOK, FileOSMatches, Leased, Owns, Masters
  <2>1. CASE step'[t] = "held"
    <3> DEFINE s == target[t]
    <3>1. s \in Sessions /\ dir[s] # None
      BY <1>15, <2>1, NoneAssumption DEF FileIdentity
    <3>2. OwnerOf'[s] = t
      BY <1>15, <2>1, <3>1 DEF FileIdentity, OwnerMapped
    <3>3. OwnerOf[s] = None
      <4>1. ASSUME NEW u \in Threads, Owns(u, s) PROVE FALSE
        BY <1>15, <2>1, <3>1, <4>1, NoneAssumption
        DEF FileIdentity, FileOSCompatible, OwnedStaysInPlace
      <4>2. QED
        BY <3>1, <4>1 DEF OwnerMapped
    <3>4. \A r \in Sessions \ {s} : OwnerOf'[r] = OwnerOf[r]
      BY <1>15, <3>1, NoneAssumption DEF FileIdentity, OwnerMapped
    <3>5. OwnerOf' = [OwnerOf EXCEPT ![s] = t]
      BY <3>1, <3>2, <3>4 DEF OwnerMapped
    <3>6. MasterOf' = MasterOf
      BY <1>15, NoneAssumption DEF FileIdentity, MasterMapped
    <3>7. MasterOf \in {None, t}
      BY <1>15, InvMasterIsAlone DEF FileIdentity, MasterMapped, MasterIsAlone
    <3>8. UNCHANGED dir
      BY <1>15 DEF FileIdentity
    <3> HIDE DEF s
    <3>9. QED
      BY <3>1, <3>3, <3>5, <3>6, <3>7, <3>8 DEF Table!Next, Table!Acquire
  <2>2. CASE step'[t] # "held"
    BY <1>1, <1>15, <2>2 DEF FileIdentity
  <2>3. QED
    BY <2>1, <2>2
<1>16. ASSUME NEW t \in Threads, Unlock(t) PROVE Table!Next
  <2> USE DEF IInv, TypeOK, FileOSMatches, Leased, Owns, Masters
  <2> DEFINE s == target[t]
  <2>1. s \in Sessions
    BY <1>16 DEF Unlock
  <2>2. OwnerOf[s] = t /\ \A u \in Threads : Owns(u, s) => u = t
    BY <1>16, <2>1, InvOneOwner DEF Unlock, OwnerMapped, OneOwner
  <2>3. OwnerOf'[s] = None
    BY <1>16, <2>1, <2>2 DEF Unlock, OwnerMapped
  <2>4. \A r \in Sessions \ {s} : OwnerOf'[r] = OwnerOf[r]
    BY <1>16, <2>1, NoneAssumption DEF Unlock, OwnerMapped
  <2>5. OwnerOf' = [OwnerOf EXCEPT ![s] = None]
    BY <2>1, <2>3, <2>4 DEF OwnerMapped
  <2>6. MasterOf' = MasterOf /\ UNCHANGED dir
    BY <1>16, NoneAssumption DEF Unlock, MasterMapped
  <2> HIDE DEF s
  <2>7. QED
    BY <2>1, <2>2, <2>5, <2>6 DEF Table!Next, Table!Release
<1>17. ASSUME NEW t \in Threads, NEW s \in Sessions, NEW d \in Directories \cup {None},
             step[t] = "leased", mode[t] = "exclusive", dir[s] = None \/ d = None,
             dir' = [dir EXCEPT ![s] = d], UNCHANGED <<step, mode, target>>
      PROVE  Table!Next
  <2> USE DEF IInv, TypeOK, Leased, Owns, Masters
  <2>1. MasterOf = t /\ MasterOf' = t
    BY <1>17 DEF MasterMapped
  <2>2. OwnerOf[s] = None
    BY <1>17, InvMasterIsAlone DEF OwnerMapped, MasterIsAlone
  <2>3. \A r \in Sessions : OwnerOf'[r] = OwnerOf[r]
    BY <1>17, NoneAssumption DEF OwnerMapped
  <2>4. OwnerOf' = OwnerOf
    BY <2>3 DEF OwnerMapped
  <2>5. QED
    BY <1>17, <2>1, <2>2, <2>4 DEF Table!Next, Table!Rename
<1>18. ASSUME NEW t \in Threads, NEW s \in Sessions, MoveAway(t, s) PROVE Table!Next
  BY <1>17, <1>18 DEF MoveAway
<1>19. ASSUME NEW t \in Threads, NEW s \in Sessions, NEW d \in Directories,
             Publish(t, s, d)
      PROVE  Table!Next
  BY <1>17, <1>19 DEF Publish
<1>20. ASSUME NEW p \in Procs, Crash(p) PROVE Table!Next
  <2> USE DEF IInv, TypeOK, Leased, Owns, Masters
  <2> DEFINE dead == {t \in Threads : Home[t] = p}
  <2>1. \A t \in Threads : Masters(t)' <=> Masters(t) /\ t \notin dead
    BY <1>20, NoneAssumption DEF Crash
  <2>2. \A t \in Threads, s \in Sessions : Owns(t, s)' <=> Owns(t, s) /\ t \notin dead
    BY <1>20 DEF Crash
  <2>3. UNCHANGED dir
    BY <1>20 DEF Crash
  <2>4. dead \in SUBSET Threads
    OBVIOUS
  <2> HIDE DEF dead, Masters, Owns
  <2>5. MasterOf' = IF MasterOf \in dead THEN None ELSE MasterOf
    BY <2>1, <2>4, NoneAssumption DEF MasterMapped
  <2>6. ASSUME NEW s \in Sessions
        PROVE  OwnerOf'[s] = IF OwnerOf[s] \in dead THEN None ELSE OwnerOf[s]
    BY <2>2, <2>4, NoneAssumption DEF OwnerMapped
  <2>7. OwnerOf' = [s \in Sessions |-> IF OwnerOf[s] \in dead THEN None ELSE OwnerOf[s]]
    BY <2>6 DEF OwnerMapped
  <2>8. QED
    BY <2>3, <2>4, <2>5, <2>7 DEF Table!Next, Table!Die
<1>21. CASE UNCHANGED vars
  BY <1>1, <1>21 DEF vars, Owns, Masters
<1>22. QED
  BY <1>2, <1>3, <1>4, <1>5, <1>6, <1>7, <1>8, <1>9, <1>10, <1>11, <1>12, <1>13,
      <1>14, <1>15, <1>16, <1>18, <1>19, <1>20, <1>21
  DEF Next, Attempt

(* The lock files, the registries and the order in which they are taken and *)
(* given back implement the lock table, for any number of processes.        *)
THEOREM LocksImplementTable == Spec => ImplementsTable
<1>1. Init => Table!Init
  <2> SUFFICES ASSUME Init PROVE Table!Init
    OBVIOUS
  <2>1. \A t \in Threads : ~Masters(t) /\ \A s \in Sessions : ~Owns(t, s)
    BY DEF Init, Masters, Owns, Leased
  <2>2. OwnerOf = [s \in Sessions |-> None]
    BY <2>1 DEF OwnerOf
  <2>3. MasterOf = None
    BY <2>1 DEF MasterOf
  <2>4. QED
    BY <2>2, <2>3 DEF Init, Table!Init
<1>2. QED
  BY <1>1, InvHolds, OwnerIs, MasterIs, TableStep, PTL
  DEF Spec, ImplementsTable, Table!Spec

-----------------------------------------------------------------------------
(* The registries.                                                          *)

(* The threads of a process in an attempt, those among them that count as   *)
(* shared, and those that have reserved a Session.                          *)
Mine(p) == {t \in Threads : Home[t] = p /\ step[t] # "idle"}
Sharers(p) == {t \in Mine(p) : mode[t] = "shared"}
Reserving == Leased \ {"leased"}
Reservers(p) == {t \in Mine(p) : step[t] \in Reserving}

(* Beside what RegistriesExact says: an exclusive reservation is the only   *)
(* one of its process, and a Session is reserved by one of its threads.     *)
RegistryOwners ==
    /\ \A t, u \in Threads :
          /\ Home[t] = Home[u] /\ step[t] # "idle" /\ step[u] # "idle"
          /\ mode[t] = "exclusive"
          => t = u
    /\ \A t, u \in Threads :
          /\ Home[t] = Home[u] /\ step[t] \in Reserving /\ step[u] \in Reserving
          /\ target[t] = target[u]
          => t = u

Counted(p) ==
    /\ shared[p] = Cardinality(Sharers(p))
    /\ exclusive[p] <=> \E t \in Mine(p) : mode[t] = "exclusive"
    /\ registry[p] = {target[t] : t \in Reservers(p)}

RegInv ==
    /\ RegistryOwners
    /\ \A p \in Procs : Counted(p)

LEMMA SharersFinite ==
    ASSUME NEW p
    PROVE  IsFiniteSet(Sharers(p))
BY ThreadsAssumption, FS_Subset DEF Sharers, Mine

LEMMA InitRegistries == Init => RegInv
<1> SUFFICES ASSUME Init PROVE RegInv
  OBVIOUS
<1>1. RegistryOwners
  BY DEF Init, RegistryOwners, Reserving, Leased
<1>2. ASSUME NEW p \in Procs PROVE Counted(p)
  <2>1. Mine(p) = {}
    BY DEF Init, Mine
  <2>2. Sharers(p) = {} /\ Reservers(p) = {}
    BY <2>1 DEF Sharers, Reservers
  <2>3. QED
    BY <2>1, <2>2, FS_EmptySet DEF Init, Counted
<1>3. QED
  BY <1>1, <1>2 DEF RegInv

(* A step that ends no attempt, begins none, and reserves no Session.       *)
LEMMA RegistriesBeside ==
    ASSUME RegInv, UNCHANGED <<mode, shared, exclusive, registry>>,
           \A t \in Threads : step'[t] = "idle" <=> step[t] = "idle",
           \A t \in Threads : step'[t] \in Reserving <=> step[t] \in Reserving,
           \A t \in Threads : step[t] \in Reserving => target'[t] = target[t]
    PROVE  RegInv'
<1>1. RegistryOwners'
  BY DEF RegInv, RegistryOwners
<1>2. ASSUME NEW p \in Procs PROVE Counted(p)'
  <2>1. Mine(p)' = Mine(p)
    BY DEF Mine
  <2>2. Sharers(p)' = Sharers(p)
    BY <2>1 DEF Sharers
  <2>3. Reservers(p)' = Reservers(p)
    BY <2>1 DEF Reservers, Mine
  <2>4. {target'[t] : t \in Reservers(p)'} = {target[t] : t \in Reservers(p)}
    BY <2>3 DEF Reservers, Mine
  <2>5. QED
    BY <2>1, <2>2, <2>4 DEF RegInv, Counted
<1>3. QED
  BY <1>1, <1>2 DEF RegInv

(* A reservation in the registry of the root is refused beside an exclusive *)
(* one, and an exclusive one beside any.                                    *)
LEMMA RegistriesReserve ==
    ASSUME IInv, RegInv, NEW t \in Threads, NEW m \in Modes,
           step[t] = "idle", Reserve(t, m),
           step' = [step EXCEPT ![t] = "root_reserved"],
           mode' = [mode EXCEPT ![t] = m],
           \A u \in Threads \ {t} : target'[u] = target[u],
           UNCHANGED registry
    PROVE  RegInv'
<1> DEFINE h == Home[t]
<1>1. h \in Procs
  BY HomeAssumption
<1>2. /\ \A u \in Threads : step'[u] = (IF u = t THEN "root_reserved" ELSE step[u])
      /\ \A u \in Threads : mode'[u] = (IF u = t THEN m ELSE mode[u])
  BY DEF IInv, TypeOK
<1>3. \A p \in Procs : p # h => shared'[p] = shared[p] /\ exclusive'[p] = exclusive[p]
  BY <1>1 DEF Reserve, IInv, TypeOK
<1>4. ~exclusive[h] /\ (m = "exclusive" => shared[h] = 0)
  BY DEF Reserve
<1>5. \A u \in Mine(h) : mode[u] = "shared"
  BY <1>1, <1>4 DEF RegInv, Counted, Mine, IInv, RootOSMatches, Modes
<1>6. m = "exclusive" => Mine(h) = {}
  <2> SUFFICES ASSUME m = "exclusive" PROVE Mine(h) = {}
    OBVIOUS
  <2>1. Cardinality(Sharers(h)) = 0
    BY <1>1, <1>4 DEF RegInv, Counted
  <2>2. Sharers(h) = {}
    BY <2>1, SharersFinite, FS_EmptySet
  <2>3. QED
    BY <1>5, <2>2 DEF Sharers
<1>7. RegistryOwners'
  <2>1. \A u \in Threads : step'[u] \in Reserving <=> (u # t /\ step[u] \in Reserving)
    BY <1>2 DEF Reserving, Leased
  <2>2. \A u, v \in Threads :
          /\ Home[u] = Home[v] /\ step'[u] \in Reserving /\ step'[v] \in Reserving
          /\ target'[u] = target'[v]
          => u = v
    BY <2>1 DEF RegInv, RegistryOwners
  <2>3. \A u, v \in Threads :
          /\ Home[u] = Home[v] /\ step'[u] # "idle" /\ step'[v] # "idle"
          /\ mode'[u] = "exclusive"
          => u = v
    <3> SUFFICES ASSUME NEW u \in Threads, NEW v \in Threads, Home[u] = Home[v],
                        step'[u] # "idle", step'[v] # "idle", mode'[u] = "exclusive", u # v
                 PROVE  FALSE
      OBVIOUS
    <3>1. CASE u = t
      BY <1>2, <1>6, <3>1 DEF Mine
    <3>2. CASE v = t
      BY <1>2, <1>5, <3>2 DEF Mine
    <3>3. CASE u # t /\ v # t
      BY <1>2, <3>3 DEF RegInv, RegistryOwners
    <3>4. QED
      BY <3>1, <3>2, <3>3
  <2>4. QED
    BY <2>2, <2>3 DEF RegistryOwners
<1>8. ASSUME NEW p \in Procs PROVE Counted(p)'
  <2>1. Mine(p)' = IF p = h THEN Mine(p) \cup {t} ELSE Mine(p)
    BY <1>2 DEF Mine
  <2>2. t \notin Mine(p)
    BY DEF Mine
  <2>3. Reservers(p)' = Reservers(p)
    BY <1>2 DEF Reservers, Mine, Reserving, Leased
  <2>4. {target'[u] : u \in Reservers(p)'} = {target[u] : u \in Reservers(p)}
    BY <2>2, <2>3 DEF Reservers, Mine
  <2>5. registry'[p] = {target'[u] : u \in Reservers(p)'}
    BY <2>4 DEF RegInv, Counted
  <2>6. CASE p # h
    <3>1. Sharers(p)' = Sharers(p)
      BY <1>2, <2>1, <2>2, <2>6 DEF Sharers
    <3>2. (\E u \in Mine(p)' : mode'[u] = "exclusive") <=> (\E u \in Mine(p) : mode[u] = "exclusive")
      BY <1>2, <2>1, <2>2, <2>6 DEF Mine
    <3>3. QED
      BY <1>3, <2>5, <2>6, <3>1, <3>2 DEF RegInv, Counted
  <2>7. CASE p = h /\ m = "shared"
    <3>1. Sharers(p)' = Sharers(p) \cup {t} /\ t \notin Sharers(p)
      BY <1>2, <2>1, <2>2, <2>7 DEF Sharers, Mine
    <3>2. Cardinality(Sharers(p)') = Cardinality(Sharers(p)) + 1
      BY <3>1, SharersFinite, FS_AddElement
    <3>3. shared'[p] = shared[p] + 1 /\ exclusive'[p] = FALSE
      BY <1>1, <1>4, <2>7 DEF Reserve, IInv, TypeOK
    <3>4. ~\E u \in Mine(p)' : mode'[u] = "exclusive"
      BY <1>2, <1>5, <2>1, <2>7 DEF Mine
    <3>5. QED
      BY <2>5, <3>2, <3>3, <3>4 DEF RegInv, Counted
  <2>8. CASE p = h /\ m = "exclusive"
    <3>1. Mine(p)' = {t} /\ Sharers(p) = {}
      BY <1>6, <2>1, <2>8 DEF Sharers
    <3>2. Sharers(p)' = {}
      BY <1>2, <2>8, <3>1 DEF Sharers
    <3>3. shared'[p] = shared[p] /\ exclusive'[p] = TRUE
      BY <1>1, <2>8 DEF Reserve, IInv, TypeOK
    <3>4. \E u \in Mine(p)' : mode'[u] = "exclusive"
      BY <1>2, <2>8, <3>1
    <3>5. QED
      BY <2>5, <3>1, <3>2, <3>3, <3>4 DEF RegInv, Counted
  <2>9. QED
    BY <2>6, <2>7, <2>8 DEF Modes
<1>9. QED
  BY <1>7, <1>8 DEF RegInv

(* What is given back is what the thread had reserved: the subtraction of   *)
(* the release never saturates.                                             *)
LEMMA RegistriesUnreserve ==
    ASSUME IInv, RegInv, NEW t \in Threads,
           step[t] \in {"root_reserved", "root_unlocked"}, Unreserve(t),
           step' = [step EXCEPT ![t] = "idle"],
           mode' = [mode EXCEPT ![t] = None],
           \A u \in Threads \ {t} : target'[u] = target[u],
           UNCHANGED registry
    PROVE  RegInv'
<1> DEFINE h == Home[t]
<1>1. h \in Procs /\ t \in Mine(h) /\ mode[t] \in Modes
  BY HomeAssumption DEF Mine, IInv, RootOSMatches
<1>2. /\ \A u \in Threads : step'[u] = (IF u = t THEN "idle" ELSE step[u])
      /\ \A u \in Threads : mode'[u] = (IF u = t THEN None ELSE mode[u])
  BY DEF IInv, TypeOK
<1>3. \A p \in Procs : p # h => shared'[p] = shared[p] /\ exclusive'[p] = exclusive[p]
  BY <1>1 DEF Unreserve, IInv, TypeOK
<1>4. mode[t] = "exclusive" => Mine(h) = {t}
  BY <1>1 DEF RegInv, RegistryOwners, Mine
<1>5. \A u \in Threads : step'[u] \in Reserving <=> step[u] \in Reserving
  BY <1>2 DEF Reserving, Leased
<1>6. \A u \in Threads : step[u] \in Reserving => u # t
  BY DEF Reserving, Leased
<1>7. RegistryOwners'
  BY <1>2, <1>5, <1>6, NoneAssumption DEF RegInv, RegistryOwners, Modes
<1>8. ASSUME NEW p \in Procs PROVE Counted(p)'
  <2>1. Mine(p)' = Mine(p) \ {t}
    BY <1>2 DEF Mine
  <2>2. Reservers(p)' = Reservers(p)
    BY <1>5, <1>6, <2>1 DEF Reservers, Mine
  <2>3. {target'[u] : u \in Reservers(p)'} = {target[u] : u \in Reservers(p)}
    BY <1>6, <2>2 DEF Reservers, Mine
  <2>4. registry'[p] = {target'[u] : u \in Reservers(p)'}
    BY <2>3 DEF RegInv, Counted
  <2>5. Sharers(p)' = Sharers(p) \ {t}
    BY <1>2, <2>1 DEF Sharers, Mine
  <2>6. CASE p # h
    <3>1. t \notin Mine(p)
      BY <2>6 DEF Mine
    <3>2. Sharers(p)' = Sharers(p)
      BY <2>5, <3>1 DEF Sharers
    <3>3. (\E u \in Mine(p)' : mode'[u] = "exclusive") <=> (\E u \in Mine(p) : mode[u] = "exclusive")
      BY <1>2, <2>1, <3>1 DEF Mine
    <3>4. QED
      BY <1>3, <2>4, <2>6, <3>2, <3>3 DEF RegInv, Counted
  <2>7. CASE p = h /\ mode[t] = "shared"
    <3>1. t \in Sharers(p)
      BY <1>1, <2>7 DEF Sharers
    <3>2. Cardinality(Sharers(p)') = Cardinality(Sharers(p)) - 1
      BY <2>5, <3>1, SharersFinite, FS_RemoveElement
    <3>3. shared[p] = Cardinality(Sharers(p)) /\ shared[p] \in Nat
      BY DEF RegInv, Counted, IInv, TypeOK
    <3>4. shared[p] # 0
      BY <3>1, <3>3, SharersFinite, FS_EmptySet
    <3>5. shared'[p] = shared[p] - 1 /\ exclusive'[p] = exclusive[p]
      BY <1>1, <2>7, <3>3, <3>4 DEF Unreserve, IInv, TypeOK
    <3>6. (\E u \in Mine(p)' : mode'[u] = "exclusive") <=> (\E u \in Mine(p) : mode[u] = "exclusive")
      BY <1>2, <2>1, <2>7 DEF Mine
    <3>7. QED
      BY <2>4, <3>2, <3>3, <3>5, <3>6 DEF RegInv, Counted
  <2>8. CASE p = h /\ mode[t] = "exclusive"
    <3>1. Mine(p)' = {} /\ Sharers(p)' = {} /\ Sharers(p) = {}
      BY <1>4, <2>1, <2>8 DEF Sharers
    <3>2. shared'[p] = shared[p] /\ exclusive'[p] = FALSE
      BY <1>1, <2>8 DEF Unreserve, IInv, TypeOK
    <3>3. QED
      BY <2>4, <3>1, <3>2 DEF RegInv, Counted
  <2>9. QED
    BY <1>1, <2>6, <2>7, <2>8 DEF Modes
<1>9. QED
  BY <1>7, <1>8 DEF RegInv

(* process_locks().insert: the name was free in the process.                *)
LEMMA RegistriesReserveSession ==
    ASSUME IInv, RegInv, NEW t \in Threads, ReserveSession(t)
    PROVE  RegInv'
<1> DEFINE h == Home[t]
           s == target[t]
<1>1. h \in Procs /\ step[t] = "leased" /\ UNCHANGED <<mode, shared, exclusive>>
  BY HomeAssumption DEF ReserveSession
<1>2. CASE s \in registry[h]
  <2>1. step' = step /\ registry' = registry /\ target' = [target EXCEPT ![t] = None]
    BY <1>2 DEF ReserveSession
  <2>2. \A u \in Threads : step[u] \in Reserving => target'[u] = target[u]
    BY <1>1, <2>1 DEF Reserving, Leased, IInv, TypeOK
  <2>3. QED
    BY <1>1, <2>1, <2>2, RegistriesBeside
<1>3. CASE s \notin registry[h]
  <2>1. /\ registry' = [registry EXCEPT ![h] = registry[h] \cup {s}]
        /\ step' = [step EXCEPT ![t] = "reserved"] /\ target' = target
    BY <1>3 DEF ReserveSession
  <2>2. \A u \in Threads : step'[u] = (IF u = t THEN "reserved" ELSE step[u])
    BY <2>1 DEF IInv, TypeOK
  <2>3. \A u \in Threads : step'[u] \in Reserving <=> (u = t \/ step[u] \in Reserving)
    BY <2>2 DEF Reserving, Leased
  <2>4. \A u \in Threads : Home[u] = h /\ step[u] \in Reserving => target[u] # s
    <3>1. \A u \in Threads : Home[u] = h /\ step[u] \in Reserving => u \in Reservers(h)
      BY DEF Reservers, Mine, Reserving, Leased
    <3>2. QED
      BY <1>1, <1>3, <3>1 DEF RegInv, Counted
  <2>5. RegistryOwners'
    BY <1>1, <2>1, <2>2, <2>3, <2>4 DEF RegInv, RegistryOwners
  <2>6. ASSUME NEW p \in Procs PROVE Counted(p)'
    <3>1. Mine(p)' = Mine(p)
      BY <1>1, <2>2 DEF Mine
    <3>2. Sharers(p)' = Sharers(p)
      BY <1>1, <3>1 DEF Sharers
    <3>3. Reservers(p)' = IF p = h THEN Reservers(p) \cup {t} ELSE Reservers(p)
      BY <1>1, <2>3, <3>1 DEF Reservers, Mine
    <3>4. registry'[p] = IF p = h THEN registry[p] \cup {s} ELSE registry[p]
      BY <1>1, <2>1 DEF IInv, TypeOK
    <3>5. registry[p] = {target[u] : u \in Reservers(p)}
      BY DEF RegInv, Counted
    <3>6. registry'[p] = {target'[u] : u \in Reservers(p)'}
      BY <2>1, <3>3, <3>4, <3>5
    <3>7. QED
      BY <1>1, <3>1, <3>2, <3>6 DEF RegInv, Counted
  <2>7. QED
    BY <2>5, <2>6 DEF RegInv
<1>4. QED
  BY <1>2, <1>3

(* The name that is removed is reserved by this thread and by no other.     *)
LEMMA RegistriesRemove ==
    ASSUME IInv, RegInv, NEW t \in Threads, step[t] \in Reserving, RemoveProcessLock(t)
    PROVE  RegInv'
<1> DEFINE h == Home[t]
           s == target[t]
<1>1. h \in Procs /\ UNCHANGED <<mode, shared, exclusive>>
  BY HomeAssumption DEF RemoveProcessLock
<1>2. /\ registry' = [registry EXCEPT ![h] = registry[h] \ {s}]
      /\ step' = [step EXCEPT ![t] = "leased"]
      /\ target' = [target EXCEPT ![t] = None]
  BY DEF RemoveProcessLock
<1>3. /\ \A u \in Threads : step'[u] = (IF u = t THEN "leased" ELSE step[u])
      /\ \A u \in Threads : u # t => target'[u] = target[u]
  BY <1>2 DEF IInv, TypeOK
<1>4. \A u \in Threads : step'[u] \in Reserving <=> (u # t /\ step[u] \in Reserving)
  BY <1>3 DEF Reserving, Leased
<1>5. step[t] # "idle"
  BY DEF Reserving, Leased
<1>6. RegistryOwners'
  BY <1>1, <1>3, <1>4, <1>5 DEF RegInv, RegistryOwners
<1>7. ASSUME NEW p \in Procs PROVE Counted(p)'
  <2>1. Mine(p)' = Mine(p)
    BY <1>3, <1>5 DEF Mine
  <2>2. Sharers(p)' = Sharers(p)
    BY <1>1, <2>1 DEF Sharers
  <2>3. Reservers(p)' = Reservers(p) \ {t}
    BY <1>4, <2>1 DEF Reservers, Mine
  <2>4. registry'[p] = IF p = h THEN registry[p] \ {s} ELSE registry[p]
    BY <1>1, <1>2 DEF IInv, TypeOK
  <2>5. registry[p] = {target[u] : u \in Reservers(p)}
    BY DEF RegInv, Counted
  <2>6. {target'[u] : u \in Reservers(p)'} = {target[u] : u \in Reservers(p) \ {t}}
    BY <1>3, <2>3 DEF Reservers, Mine
  <2>7. p # h => t \notin Reservers(p)
    BY DEF Reservers, Mine
  <2>8. p = h => t \in Reservers(p) /\ \A u \in Reservers(p) : target[u] = s => u = t
    BY <1>5 DEF Reservers, Mine, RegInv, RegistryOwners
  <2>9. registry'[p] = {target'[u] : u \in Reservers(p)'}
    <3> HIDE DEF h, s
    <3>1. CASE p # h
      BY <2>4, <2>5, <2>6, <2>7, <3>1
    <3>2. CASE p = h
      <4>1. {target[u] : u \in Reservers(p) \ {t}} = {target[u] : u \in Reservers(p)} \ {s}
        BY <2>8, <3>2 DEF s
      <4>2. QED
        BY <2>4, <2>5, <2>6, <3>2, <4>1
    <3>3. QED
      BY <3>1, <3>2
  <2>10. QED
    BY <1>1, <2>1, <2>2, <2>9 DEF RegInv, Counted
<1>8. QED
  BY <1>6, <1>7 DEF RegInv

(* A crash empties the registries of its process and of no other.           *)
LEMMA RegistriesCrash ==
    ASSUME IInv, RegInv, NEW c \in Procs, Crash(c)
    PROVE  RegInv'
<1>1. \A t \in Threads :
         /\ step'[t] = (IF Home[t] = c THEN "idle" ELSE step[t])
         /\ Home[t] # c => mode'[t] = mode[t] /\ target'[t] = target[t]
  BY DEF Crash
<1>2. \A t \in Threads : step'[t] \in Reserving <=> (Home[t] # c /\ step[t] \in Reserving)
  BY <1>1 DEF Reserving, Leased
<1>3. RegistryOwners'
  BY <1>1, <1>2 DEF RegInv, RegistryOwners
<1>4. ASSUME NEW p \in Procs PROVE Counted(p)'
  <2>1. CASE p = c
    <3>1. Mine(p)' = {}
      BY <1>1, <2>1 DEF Mine
    <3>2. Sharers(p)' = {} /\ Reservers(p)' = {}
      BY <3>1 DEF Sharers, Reservers
    <3>3. shared'[p] = 0 /\ exclusive'[p] = FALSE /\ registry'[p] = {}
      BY <2>1 DEF Crash, IInv, TypeOK
    <3>4. QED
      BY <3>1, <3>2, <3>3, FS_EmptySet DEF Counted
  <2>2. CASE p # c
    <3>1. Mine(p)' = Mine(p)
      BY <1>1, <2>2 DEF Mine
    <3>2. Sharers(p)' = Sharers(p)
      BY <1>1, <2>2, <3>1 DEF Sharers, Mine
    <3>3. Reservers(p)' = Reservers(p)
      BY <1>2, <2>2, <3>1 DEF Reservers, Mine
    <3>4. {target'[u] : u \in Reservers(p)'} = {target[u] : u \in Reservers(p)}
      BY <1>1, <2>2, <3>3 DEF Reservers, Mine
    <3>5. /\ shared'[p] = shared[p] /\ exclusive'[p] = exclusive[p]
          /\ registry'[p] = registry[p]
      BY <2>2 DEF Crash, IInv, TypeOK
    <3>6. (\E u \in Mine(p)' : mode'[u] = "exclusive") <=> (\E u \in Mine(p) : mode[u] = "exclusive")
      BY <1>1, <2>2, <3>1 DEF Mine
    <3>7. QED
      BY <3>2, <3>4, <3>5, <3>6 DEF RegInv, Counted
  <2>3. QED
    BY <2>1, <2>2
<1>5. QED
  BY <1>3, <1>4 DEF RegInv

LEMMA RegistriesStep == IInv /\ RegInv /\ [Next]_vars => RegInv'
<1> SUFFICES ASSUME IInv, RegInv, [Next]_vars PROVE RegInv'
  OBVIOUS
<1>1. ASSUME NEW t \in Threads, NEW s \in Sessions, TryLock(t, s) PROVE RegInv'
  BY <1>1, RegistriesReserve DEF TryLock, Modes, IInv, TypeOK
<1>2. ASSUME NEW t \in Threads, TryNamespaceLock(t) PROVE RegInv'
  BY <1>2, RegistriesReserve DEF TryNamespaceLock, Modes
<1>3. ASSUME NEW t \in Threads, LockRootFails(t) \/ ReleaseRoot(t) PROVE RegInv'
  BY <1>3, RegistriesUnreserve DEF LockRootFails, ReleaseRoot, IInv, TypeOK
<1>4. ASSUME NEW t \in Threads, LockSessionFails(t) \/ ReleaseSession(t) PROVE RegInv'
  BY <1>4, RegistriesRemove DEF LockSessionFails, ReleaseSession, Reserving, Leased
<1>5. ASSUME NEW t \in Threads,
             \/ LockRoot(t) \/ RootIdentity(t) \/ DropLease(t)
             \/ OpenLockFile(t) \/ LockFile(t) \/ FileIdentity(t) \/ Unlock(t)
      PROVE  RegInv'
  <2>1. /\ UNCHANGED <<mode, shared, exclusive, registry>>
        /\ \A u \in Threads \ {t} : step'[u] = step[u] /\ target'[u] = target[u]
        /\ step[t] # "idle" /\ step'[t] # "idle"
        /\ step'[t] \in Reserving <=> step[t] \in Reserving
        /\ step[t] \in Reserving => target'[t] = target[t]
    BY <1>5 DEF LockRoot, RootIdentity, DropLease, OpenLockFile, LockFile, FileIdentity,
                Unlock, Reserving, Leased, IInv, TypeOK
  <2>2. QED
    BY <2>1, RegistriesBeside
<1>6. ASSUME NEW t \in Threads, NEW s \in Sessions,
             \/ TryLockInNamespace(t, s) \/ MoveAway(t, s)
             \/ \E d \in Directories : Publish(t, s, d)
      PROVE  RegInv'
  <2>1. /\ UNCHANGED <<step, mode, shared, exclusive, registry>>
        /\ \A u \in Threads : step[u] \in Reserving => target'[u] = target[u]
    BY <1>6 DEF TryLockInNamespace, MoveAway, Publish, Reserving, Leased, IInv, TypeOK
  <2>2. QED
    BY <2>1, RegistriesBeside
<1>7. CASE UNCHANGED vars
  BY <1>7, RegistriesBeside DEF vars
<1>8. QED
  BY <1>1, <1>2, <1>3, <1>4, <1>5, <1>6, <1>7, RegistriesReserveSession, RegistriesCrash
  DEF Next, Attempt

(* The registries of a process count exactly the attempts of its living     *)
(* threads, whatever failed, was released or crashed before.                *)
THEOREM RegistriesAlwaysExact == Spec => []RegistriesExact
<1>1. ASSUME RegInv PROVE RegistriesExact
  <2> SUFFICES ASSUME NEW p \in Procs
               PROVE  LET mine == {t \in Threads : Home[t] = p /\ step[t] # "idle"} IN
                      /\ shared[p] = Cardinality({t \in mine : mode[t] = "shared"})
                      /\ exclusive[p] <=> \E t \in mine : mode[t] = "exclusive"
                      /\ registry[p] = {target[t] : t \in {u \in mine :
                                            step[u] \in Leased \ {"leased"}}}
    BY DEF RegistriesExact
  <2>1. QED
    BY <1>1 DEF RegInv, Counted, Sharers, Reservers, Mine, Reserving
<1>2. QED
  BY <1>1, InvHolds, InitRegistries, RegistriesStep, PTL DEF Spec
=============================================================================
