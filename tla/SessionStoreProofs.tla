------------------------- MODULE SessionStoreProofs -------------------------
(***************************************************************************)
(* Proofs about SessionStore, for every set of processes, ids, paths and    *)
(* contents.  TypeOK /\ StoreInv is inductive: TypeOK alone is not, because *)
(* FinalizeState relies on the revision check made before the manifest was  *)
(* written, and none of the parts of StoreInv is preserved without the      *)
(* others.                                                                  *)
(***************************************************************************)
EXTENDS SessionStore, TLAPS

IInv == TypeOK /\ StoreInv

Sealed == status = "complete" => manifest = catalog /\ NoIngestIntents

-----------------------------------------------------------------------------
(* Initial states: a fresh Session, or one with a v1 intent.                *)
LEMMA InitInv == Init => IInv
  <1> SUFFICES ASSUME Init PROVE IInv
    OBVIOUS
  <1>1. OperationCoherent /\ SourcesReadable /\ SourcesNotReused
    BY DEF Init, OperationCoherent, SourcesReadable, SourcesNotReused, BoundToAnother
  <1>2. CASE NoLegacy
    <2>1. TypeOK
      BY <1>2, BoundsAssumption DEF Init, NoLegacy, TypeOK, Statuses, File
    <2>2. ForeignClaimed /\ HostOwnedIntact /\ AtMostOneIntent /\ ReadyIntentBacked
      BY <1>2 DEF NoLegacy, ForeignClaimed, HostOwnedIntact, AtMostOneIntent,
                  ReadyIntentBacked
    <2> QED
      BY <1>1, <1>2, <2>1, <2>2 DEF IInv, StoreInv, NoLegacy
  <1>3. CASE LegacyIntent
    <2>1. PICK id \in Ids, path \in Paths, s \in StagedPaths, bytes \in Bytes,
               renamed \in BOOLEAN, cataloged \in BOOLEAN :
             /\ cataloged => renamed
             /\ intent = [i \in Ids |-> IF i = id
                             THEN [path |-> path, staged |-> s, bytes |-> bytes,
                                   phase |-> "ready", legacy |-> TRUE]
                             ELSE None]
             /\ catalog = [i \in Ids |-> IF i = id /\ cataloged
                             THEN [path |-> path, bytes |-> bytes] ELSE None]
             /\ dest = [q \in Paths |-> IF q = path /\ renamed THEN bytes ELSE None]
             /\ staged = [t \in StagedPaths |->
                             IF t = s /\ ~renamed THEN bytes ELSE None]
             /\ foreign = IF renamed THEN {path} ELSE {}
             /\ status \in {"created", "capturing", "captured"}
      BY <1>3, Zenon DEF LegacyIntent
    <2>2. [path |-> path, staged |-> s, bytes |-> bytes, phase |-> "ready",
           legacy |-> TRUE] \in IngestIntent
      BY DEF IngestIntent
    <2>3. intent \in [Ids -> IngestIntent \cup {None}]
      BY <2>1, <2>2
    <2>4. catalog \in [Ids -> Artifact \cup {None}]
      BY <2>1 DEF Artifact
    <2>5. dest \in [Paths -> File] /\ staged \in [StagedPaths -> File]
      BY <2>1 DEF File
    <2>6. foreign \in SUBSET Paths /\ status \in Statuses
      BY <2>1 DEF Statuses
    <2>7. TypeOK
      BY <2>3, <2>4, <2>5, <2>6, BoundsAssumption DEF Init, TypeOK, File
    <2>8. ForeignClaimed
      BY <2>1, <2>2, NoneAssumption, NoneIsNoDocument DEF ForeignClaimed
    <2>9. HostOwnedIntact /\ AtMostOneIntent /\ ReadyIntentBacked
      BY <2>1 DEF HostOwnedIntact, AtMostOneIntent, ReadyIntentBacked
    <2> QED
      BY <1>1, <2>1, <2>7, <2>8, <2>9 DEF IInv, StoreInv
  <1> QED
    BY <1>2, <1>3 DEF Init

-----------------------------------------------------------------------------
(* Every step keeps the types.                                              *)
LEMMA TypeStep == IInv /\ [Next]_vars => TypeOK'
  <1> SUFFICES ASSUME TypeOK, OperationCoherent, [Next]_vars PROVE TypeOK'
    BY DEF IInv, StoreInv
  <1> USE DEF TypeOK
  <1>1. CASE UNCHANGED vars
    BY <1>1 DEF vars
  <1>2. ASSUME NEW p \in Procs, Failure(p) PROVE TypeOK'
    BY <1>2 DEF Failure, Crash, OperationFails, durable
  <1>3. CASE CaptureStep
    BY <1>3 DEF CaptureStep, StageExternally, WriteForeignInode, File
  <1>4. ASSUME NEW p \in Procs, TryLock(p) \/ DropLock(p) PROVE TypeOK'
    BY <1>4 DEF TryLock, DropLock, durable
  <1>5. ASSUME NEW p \in Procs, NEW next \in Statuses, Transition(p, next) PROVE TypeOK'
    BY <1>5, BoundsAssumption DEF Transition, RevisionFits
  <1>6. ASSUME NEW p \in Procs, FinalizeManifest(p) PROVE TypeOK'
    BY <1>6 DEF FinalizeManifest, Operation
  <1>7. ASSUME NEW p \in Procs, FinalizeState(p) PROVE TypeOK'
    BY <1>7, BoundsAssumption DEF FinalizeState, OperationCoherent, RevisionFits, Statuses
  <1>8. ASSUME NEW p \in Procs, NEW id \in Ids, NEW path \in Paths, NEW bytes \in Bytes,
               CreateArtifact(p, id, path, bytes) PROVE TypeOK'
    BY <1>8 DEF CreateArtifact, ArtifactWriter, durable
  <1>9. ASSUME NEW p \in Procs, DropWriter(p) PROVE TypeOK'
    BY <1>9 DEF DropWriter, durable
  <1>10. ASSUME NEW p \in Procs, CommitArtifact(p) PROVE TypeOK'
    BY <1>10 DEF CommitArtifact, ArtifactWriter, Operation, File
  <1>11. ASSUME NEW p \in Procs, CommitRegister(p) PROVE TypeOK'
    <2>1. op.id \in Ids /\ [path |-> op.path, bytes |-> op.bytes] \in Artifact
      BY <1>11 DEF CommitRegister, Operation, Artifact
    <2>2. catalog' \in [Ids -> Artifact \cup {None}]
      BY <1>11, <2>1 DEF CommitRegister, RegisterArtifact
    <2> QED
      BY <1>11, <2>2 DEF CommitRegister
  <1>12. ASSUME NEW p \in Procs, NEW s \in StagedPaths, NEW bytes \in Bytes,
                EnsureStagedExact(p, s, bytes) PROVE TypeOK'
    BY <1>12 DEF EnsureStagedExact, File
  <1>13. ASSUME NEW p \in Procs, NEW id \in Ids, NEW path \in Paths, NEW s \in StagedPaths,
                IngestStart(p, id, path, s) PROVE TypeOK'
    BY <1>13 DEF IngestStart, Operation, IngestSteps, IngestIntent, File
  <1>14. ASSUME NEW p \in Procs, NEW id \in Ids, NEW path \in Paths, NEW s \in StagedPaths,
                IngestResume(p, id, path, s) PROVE TypeOK'
    BY <1>14 DEF IngestResume, Operation, IngestSteps, durable
  <1>15. ASSUME NEW p \in Procs, PrepareSkip(p) \/ Assess(p) PROVE TypeOK'
    BY <1>15 DEF PrepareSkip, Assess, AtStep, GoTo, MigrateFirst, Operation, IngestSteps,
                 durable
  <1>16. ASSUME NEW p \in Procs, PrepareCopy(p) \/ PublishCopy(p) PROVE TypeOK'
    BY <1>16 DEF PrepareCopy, PublishCopy, CopyStaged, AtStep, GoTo, Operation,
                 OperationCoherent, IngestSteps, IngestIntent, File
  <1>17. ASSUME NEW p \in Procs, Promote(p) PROVE TypeOK'
    BY <1>17 DEF Promote, AtStep, GoTo, OperationCoherent, Operation, IngestSteps, IngestIntent
  <1>18. ASSUME NEW p \in Procs, Publish(p) PROVE TypeOK'
    BY <1>18 DEF Publish, AtStep, GoTo, OperationCoherent, Operation, IngestSteps, File
  <1>19. ASSUME NEW p \in Procs, MigrateLegacy(p) PROVE TypeOK'
    BY <1>19 DEF MigrateLegacy, AtStep, GoTo, Operation, IngestSteps
  <1>20. ASSUME NEW p \in Procs, IngestRegister(p) PROVE TypeOK'
    <2>1. op.id \in Ids /\ intent[op.id] \in IngestIntent
      BY <1>20 DEF IngestRegister, AtStep, Operation, OperationCoherent
    <2>2. [path |-> intent[op.id].path, bytes |-> intent[op.id].bytes] \in Artifact
      BY <2>1 DEF IngestIntent, Artifact
    <2>3. catalog' \in [Ids -> Artifact \cup {None}]
      BY <1>20, <2>1, <2>2 DEF IngestRegister, RegisterArtifact
    <2>4. op' \in Operation
      BY <1>20 DEF IngestRegister, AtStep, GoTo, Operation, IngestSteps
    <2> QED
      BY <1>20, <2>3, <2>4 DEF IngestRegister
  <1>21. ASSUME NEW p \in Procs, Cleanup(p) PROVE TypeOK'
    BY <1>21 DEF Cleanup, AtStep, GoTo, OperationCoherent, Operation, IngestSteps,
                 IngestIntent, CommittedStagingSource
  <1>22. ASSUME NEW p \in Procs, RemoveIntent(p) PROVE TypeOK'
    BY <1>22 DEF RemoveIntent, AtStep, Operation
  <1> QED
    BY <1>1, <1>2, <1>3, <1>4, <1>5, <1>6, <1>7, <1>8, <1>9, <1>10, <1>11, <1>12,
       <1>13, <1>14, <1>15, <1>16, <1>17, <1>18, <1>19, <1>20, <1>21, <1>22
       DEF Next, HostStep

-----------------------------------------------------------------------------
(* StoreInv, step by step.  All lemmas below have the invariant as their    *)
(* hypothesis and speak of one action.                                      *)

(* Steps that touch no document and no host-owned file keep StoreInv as     *)
(* soon as the operation they leave behind is coherent.                     *)
LEMMA DocumentsUnchanged ==
  ASSUME StoreInv, OperationCoherent',
         UNCHANGED <<status, manifest, catalog, dest, foreign, private, intent, source>>
  PROVE  StoreInv'
  BY DEF StoreInv, ForeignClaimed, HostOwnedIntact, AtMostOneIntent, ReadyIntentBacked,
         SourcesReadable, SourcesNotReused, BoundToAnother, NoIngestIntents

LEMMA QuietStep ==
  ASSUME StoreInv, op' \in {op, None},
         UNCHANGED <<status, revision, manifest, catalog, dest, foreign, private,
                     intent, source>>
  PROVE  StoreInv'
  <1>1. OperationCoherent'
    BY DEF StoreInv, OperationCoherent, Terminal, NoIngestIntents, RevisionFits,
           ExactlyCataloged, NotCataloged, Cataloged
  <1> QED
    BY <1>1, DocumentsUnchanged

LEMMA TransitionStep ==
  ASSUME IInv, NEW p \in Procs, NEW next \in Statuses, Transition(p, next)
  PROVE  StoreInv'
  <1>1. OperationCoherent'
    BY DEF Transition, Idle, OperationCoherent
  <1>2. status' # "complete"
    BY DEF Transition
  <1>3. UNCHANGED <<manifest, catalog, dest, foreign, private, intent, source>>
    BY DEF Transition
  <1> QED
    BY <1>1, <1>2, <1>3 DEF IInv, StoreInv, ForeignClaimed, HostOwnedIntact,
       AtMostOneIntent, ReadyIntentBacked, SourcesReadable, SourcesNotReused, BoundToAnother

LEMMA FinalizeManifestStep ==
  ASSUME IInv, NEW p \in Procs, FinalizeManifest(p)
  PROVE  StoreInv'
  <1>1. OperationCoherent'
    BY DEF FinalizeManifest, CanFinalize, OperationCoherent, Terminal, NoIngestIntents,
           RevisionFits
  <1>2. UNCHANGED <<status, catalog, dest, foreign, private, intent, source>>
    BY DEF FinalizeManifest
  <1>3. status' # "complete"
    BY DEF FinalizeManifest
  <1> QED
    BY <1>1, <1>2, <1>3 DEF IInv, StoreInv, ForeignClaimed, HostOwnedIntact,
       AtMostOneIntent, ReadyIntentBacked, SourcesReadable, SourcesNotReused, BoundToAnother

LEMMA FinalizeStateStep ==
  ASSUME IInv, NEW p \in Procs, FinalizeState(p)
  PROVE  StoreInv'
  <1>1. OperationCoherent'
    BY DEF FinalizeState, OperationCoherent
  <1>2. UNCHANGED <<manifest, catalog, dest, foreign, private, intent, source>>
    BY DEF FinalizeState
  <1>3. (manifest = catalog /\ NoIngestIntents)'
    BY <1>2 DEF FinalizeState, IInv, StoreInv, OperationCoherent, NoIngestIntents
  <1> QED
    BY <1>1, <1>2, <1>3 DEF IInv, StoreInv, ForeignClaimed, HostOwnedIntact,
       AtMostOneIntent, ReadyIntentBacked, SourcesReadable, SourcesNotReused, BoundToAnother

(* A file that is written where none was disturbs no committed one.         *)
LEMMA CommitArtifactStep ==
  ASSUME IInv, NEW p \in Procs, CommitArtifact(p)
  PROVE  StoreInv'
  <1> USE DEF IInv, StoreInv
  <1>1. writer[p] \in ArtifactWriter /\ dest[writer[p].path] = None
    BY DEF CommitArtifact, DestinationFree, TypeOK
  <1>2. writer[p].path \notin foreign
    BY <1>1 DEF ForeignClaimed
  <1>3. OperationCoherent'
    BY <1>1, <1>2 DEF CommitArtifact, OperationCoherent, Terminal, TypeOK, ArtifactWriter
  <1>4. ForeignClaimed'
    BY <1>2 DEF CommitArtifact, ForeignClaimed, TypeOK
  <1>5. HostOwnedIntact'
    BY <1>1, NoneAssumption DEF CommitArtifact, HostOwnedIntact, TypeOK, Artifact
  <1>6. ReadyIntentBacked'
    BY <1>1, NoneAssumption DEF CommitArtifact, ReadyIntentBacked, TypeOK, IngestIntent
  <1>7. AtMostOneIntent' /\ SourcesReadable' /\ SourcesNotReused' /\ Sealed'
    BY DEF CommitArtifact, AtMostOneIntent, SourcesReadable, SourcesNotReused,
           BoundToAnother, Sealed, Terminal
  <1> QED
    BY <1>3, <1>4, <1>5, <1>6, <1>7 DEF Sealed

LEMMA CommitRegisterStep ==
  ASSUME IInv, NEW p \in Procs, CommitRegister(p)
  PROVE  StoreInv'
  <1> USE DEF IInv, StoreInv
  <1>1. /\ op.id \in Ids /\ op.path \in Paths
        /\ dest[op.path] = op.bytes
        /\ op.path \notin foreign
        /\ ~Terminal
    BY DEF CommitRegister, OperationCoherent, TypeOK, Operation
  <1>2. /\ op' = None
        /\ UNCHANGED <<status, manifest, dest, foreign, private, intent, source>>
    BY DEF CommitRegister
  <1>3. \/ UNCHANGED catalog
        \/ /\ catalog[op.id] = None
           /\ catalog' = [catalog EXCEPT ![op.id] = [path |-> op.path, bytes |-> op.bytes]]
    BY DEF CommitRegister, RegisterArtifact, MayRegister, CatalogSlot
  <1>4. OperationCoherent'
    BY <1>2 DEF OperationCoherent
  <1>5. ForeignClaimed'
    BY <1>1, <1>2, <1>3 DEF ForeignClaimed, TypeOK
  <1>6. HostOwnedIntact'
    BY <1>1, <1>2, <1>3 DEF HostOwnedIntact, TypeOK
  <1>7. SourcesReadable'
    <2>1. source[op.id] # None => catalog[op.id] # None
      BY <1>1, NoneIsNoDocument DEF SourcesReadable, TypeOK, CommittedStagingSource, Artifact
    <2> QED
      BY <1>1, <1>2, <1>3, <2>1 DEF SourcesReadable, TypeOK
  <1>8. AtMostOneIntent' /\ ReadyIntentBacked' /\ SourcesNotReused' /\ Sealed'
    BY <1>1, <1>2 DEF AtMostOneIntent, ReadyIntentBacked, SourcesNotReused, BoundToAnother,
           Sealed, Terminal
  <1> QED
    BY <1>4, <1>5, <1>6, <1>7, <1>8 DEF Sealed

(* The capture process writes v1 inodes only, and no record vouches for     *)
(* those.                                                                   *)
LEMMA WriteForeignInodeStep ==
  ASSUME IInv, NEW path \in Paths, NEW bytes \in Bytes, WriteForeignInode(path, bytes)
  PROVE  StoreInv'
  <1> USE DEF IInv, StoreInv
  <1>1. OperationCoherent'
    BY NoneAssumption DEF WriteForeignInode, OperationCoherent, ForeignClaimed, TypeOK,
       Terminal, NoIngestIntents, RevisionFits, ExactlyCataloged, NotCataloged, Cataloged,
       Operation, IngestIntent
  <1>2. ForeignClaimed'
    BY NoneAssumption DEF WriteForeignInode, ForeignClaimed, TypeOK
  <1>3. HostOwnedIntact'
    BY DEF WriteForeignInode, HostOwnedIntact, TypeOK
  <1>4. ReadyIntentBacked'
    BY DEF WriteForeignInode, ReadyIntentBacked, ForeignClaimed, TypeOK
  <1>5. AtMostOneIntent' /\ SourcesReadable' /\ SourcesNotReused' /\ Sealed'
    BY DEF WriteForeignInode, AtMostOneIntent, SourcesReadable, SourcesNotReused,
           BoundToAnother, Sealed, NoIngestIntents
  <1> QED
    BY <1>1, <1>2, <1>3, <1>4, <1>5 DEF Sealed

-----------------------------------------------------------------------------
(* The steps of a staged ingest.                                            *)

LEMMA IngestStartStep ==
  ASSUME IInv, NEW p \in Procs, NEW id \in Ids, NEW path \in Paths, NEW s \in StagedPaths,
         IngestStart(p, id, path, s)
  PROVE  StoreInv'
  <1> USE DEF IInv, StoreInv
  <1>1. /\ \A other \in Ids : intent[other] = None
        /\ ~BoundToAnother(id, s)
        /\ ~Terminal
        /\ dest[path] = None
    BY DEF IngestStart, IngestAdmitted, OnlyRequestedIntent, DestinationFree
  <1>2. UNCHANGED <<status, revision, manifest, catalog, dest, foreign, private, source>>
    BY DEF IngestStart
  <1> DEFINE claim == [path |-> path, staged |-> s, bytes |-> staged[s],
                       phase |-> "preparing", legacy |-> FALSE]
  <1>3. claim \in IngestIntent
    BY DEF IngestStart, TypeOK, File, IngestIntent
  <1>4. intent' = [intent EXCEPT ![id] = claim]
    BY DEF IngestStart
  <1>5. intent'[id] = claim /\ \A other \in Ids \ {id} : intent'[other] = None
    BY <1>1, <1>4 DEF TypeOK
  <1>6. path \notin foreign
    BY <1>1 DEF ForeignClaimed
  <1>7. OperationCoherent'
    BY <1>1, <1>2, <1>3, <1>5, NoneIsNoDocument DEF IngestStart, OperationCoherent, Terminal
  <1>8. ForeignClaimed'
    BY <1>1, <1>2, <1>5, <1>6 DEF ForeignClaimed
  <1>9. HostOwnedIntact' /\ SourcesReadable'
    BY <1>2 DEF HostOwnedIntact, SourcesReadable
  <1>10. AtMostOneIntent' /\ ReadyIntentBacked'
    BY <1>5 DEF AtMostOneIntent, ReadyIntentBacked
  <1>11. SourcesNotReused'
    BY <1>1, <1>2, <1>5 DEF SourcesNotReused, BoundToAnother
  <1>12. Sealed'
    BY <1>1, <1>2 DEF Sealed, Terminal
  <1> QED
    BY <1>7, <1>8, <1>9, <1>10, <1>11, <1>12 DEF Sealed

LEMMA IngestResumeStep ==
  ASSUME IInv, NEW p \in Procs, NEW id \in Ids, NEW path \in Paths, NEW s \in StagedPaths,
         IngestResume(p, id, path, s)
  PROVE  StoreInv'
  <1>1. OperationCoherent'
    BY DEF IngestResume, IngestAdmitted, OperationCoherent, Terminal, durable
  <1> QED
    BY <1>1, DocumentsUnchanged DEF IngestResume, durable, IInv

(* What AtStep says of the operation, given the invariant.                  *)
LEMMA AtStepFacts ==
  ASSUME IInv, NEW p \in Procs, NEW step, AtStep(p, step)
  PROVE  /\ op.id \in Ids
         /\ intent[op.id] # None
         /\ intent[op.id] \in IngestIntent
         /\ intent[op.id].path \in Paths
         /\ intent[op.id].bytes \in Bytes
         /\ ~Terminal
  BY DEF IInv, StoreInv, AtStep, OperationCoherent, TypeOK, Operation, IngestIntent

LEMMA PrepareSkipStep ==
  ASSUME IInv, NEW p \in Procs, PrepareSkip(p)
  PROVE  StoreInv'
  <1>1. OperationCoherent'
    BY DEF PrepareSkip, AtStep, GoTo, IInv, StoreInv, OperationCoherent, Terminal, durable,
           TypeOK, Operation
  <1> QED
    BY <1>1, DocumentsUnchanged DEF PrepareSkip, durable, IInv

(* The copy concerns a preparing intent, which nothing relies on yet.       *)
LEMMA PrepareCopyStep ==
  ASSUME IInv, NEW p \in Procs, PrepareCopy(p)
  PROVE  StoreInv'
  <1> USE DEF IInv, StoreInv
  <1>1. /\ op.id \in Ids
        /\ intent[op.id] # None
        /\ ~Terminal
        /\ intent[op.id].phase = "preparing"
    BY AtStepFacts DEF PrepareCopy
  <1>2. UNCHANGED <<status, revision, manifest, catalog, dest, foreign, intent, source>>
    BY DEF PrepareCopy
  <1>3. private' = [private EXCEPT ![op.id] = staged[intent[op.id].staged]]
    BY DEF PrepareCopy, CopyStaged
  <1>4. OperationCoherent'
    BY <1>1, <1>2, <1>3 DEF PrepareCopy, CopyStaged, AtStep, GoTo, OperationCoherent,
       Terminal, TypeOK, Operation
  <1>5. ReadyIntentBacked'
    BY <1>1, <1>2, <1>3 DEF ReadyIntentBacked, TypeOK
  <1>6. /\ ForeignClaimed' /\ HostOwnedIntact' /\ AtMostOneIntent'
        /\ SourcesReadable' /\ SourcesNotReused' /\ Sealed'
    BY <1>2 DEF ForeignClaimed, HostOwnedIntact, AtMostOneIntent, SourcesReadable,
       SourcesNotReused, BoundToAnother, Sealed, NoIngestIntents
  <1> QED
    BY <1>4, <1>5, <1>6 DEF Sealed

LEMMA PromoteStep ==
  ASSUME IInv, NEW p \in Procs, Promote(p)
  PROVE  StoreInv'
  <1> USE DEF IInv, StoreInv
  <1>1. /\ op.id \in Ids
        /\ intent[op.id] \in IngestIntent
        /\ ~Terminal
        /\ private[op.id] = intent[op.id].bytes
    BY AtStepFacts DEF Promote, AtStep, OperationCoherent
  <1>2. UNCHANGED <<status, revision, manifest, catalog, dest, foreign, private, source>>
    BY DEF Promote
  <1>3. /\ intent' = [intent EXCEPT ![op.id] = [intent[op.id] EXCEPT !.phase = "ready"]]
        /\ intent'[op.id] = [intent[op.id] EXCEPT !.phase = "ready"]
        /\ \A other \in Ids \ {op.id} : intent'[other] = intent[other]
    BY <1>1 DEF Promote, TypeOK
  <1>4. /\ intent'[op.id] \in IngestIntent
        /\ intent'[op.id].phase = "ready"
        /\ intent'[op.id].path = intent[op.id].path
        /\ intent'[op.id].staged = intent[op.id].staged
        /\ intent'[op.id].bytes = intent[op.id].bytes
        /\ intent'[op.id].legacy = intent[op.id].legacy
    BY <1>1, <1>3 DEF IngestIntent
  <1>5. intent[op.id] # None /\ intent'[op.id] # None
    BY <1>1, <1>4, NoneIsNoDocument
  <1>6. OperationCoherent'
    BY <1>1, <1>2, <1>4, <1>5 DEF Promote, AtStep, GoTo, OperationCoherent, Terminal,
       TypeOK, Operation
  <1>7. ForeignClaimed'
    BY <1>2, <1>3, <1>4, <1>5 DEF ForeignClaimed
  <1>8. AtMostOneIntent'
    BY <1>3, <1>5 DEF AtMostOneIntent
  <1>9. ReadyIntentBacked'
    BY <1>1, <1>2, <1>3, <1>4 DEF ReadyIntentBacked
  <1>10. SourcesNotReused'
    BY <1>2, <1>3, <1>4, <1>5 DEF SourcesNotReused, BoundToAnother
  <1>11. HostOwnedIntact' /\ SourcesReadable' /\ Sealed'
    BY <1>1, <1>2 DEF HostOwnedIntact, SourcesReadable, Sealed, Terminal
  <1> QED
    BY <1>6, <1>7, <1>8, <1>9, <1>10, <1>11 DEF Sealed

LEMMA AssessStep ==
  ASSUME IInv, NEW p \in Procs, Assess(p)
  PROVE  StoreInv'
  <1> USE DEF IInv, StoreInv
  <1>1. /\ op.id \in Ids
        /\ intent[op.id] # None
        /\ intent[op.id].path \in Paths
        /\ intent[op.id].bytes \in Bytes
        /\ ~Terminal
        /\ intent[op.id].phase = "ready"
    BY AtStepFacts DEF Assess, AtStep, OperationCoherent
  <1>2. AssessIntent(op.id) = "pending" => dest[intent[op.id].path] = None
    BY DEF AssessIntent, Evidence
  <1>3. AssessIntent(op.id) \in {"resumable", "committed_stale"} =>
           dest[intent[op.id].path] = intent[op.id].bytes
    BY DEF AssessIntent, Evidence
  <1>4. /\ AssessIntent(op.id) = "committed_stale" => ExactlyCataloged(op.id)
        /\ AssessIntent(op.id) = "resumable" => NotCataloged(op.id)
    BY DEF AssessIntent, Evidence
  <1>5. ~intent[op.id].legacy => intent[op.id].path \notin foreign
    BY <1>1 DEF ForeignClaimed
  <1>6. UNCHANGED durable
    BY DEF Assess
  <1>7. OperationCoherent'
    BY <1>1, <1>2, <1>3, <1>4, <1>5, <1>6 DEF Assess, AtStep, GoTo, MigrateFirst, durable,
       OperationCoherent, Terminal, ExactlyCataloged, NotCataloged, Cataloged, TypeOK,
       Operation
  <1> QED
    BY <1>6, <1>7, DocumentsUnchanged DEF durable

(* Only a v1 intent can reach the publication without a private copy.       *)
LEMMA PublishCopyStep ==
  ASSUME IInv, NEW p \in Procs, PublishCopy(p)
  PROVE  StoreInv'
  <1> USE DEF IInv, StoreInv
  <1>1. /\ op.id \in Ids
        /\ intent[op.id] # None
        /\ intent[op.id].bytes \in Bytes
        /\ ~Terminal
        /\ intent[op.id].phase = "ready"
        /\ dest[intent[op.id].path] = None
        /\ private[op.id] = None
    BY AtStepFacts DEF PublishCopy, AtStep, OperationCoherent
  <1>2. UNCHANGED <<status, revision, manifest, catalog, dest, foreign, intent, source>>
    BY DEF PublishCopy
  <1>3. private' = [private EXCEPT ![op.id] = staged[intent[op.id].staged]]
    BY DEF PublishCopy, CopyStaged
  <1>4. intent[op.id].legacy
    BY <1>1, NoneAssumption DEF ReadyIntentBacked
  <1>5. OperationCoherent'
    BY <1>1, <1>2 DEF PublishCopy, CopyStaged, AtStep, GoTo, OperationCoherent, Terminal,
       TypeOK, Operation
  <1>6. ReadyIntentBacked'
    BY <1>1, <1>2, <1>3, <1>4 DEF ReadyIntentBacked, TypeOK
  <1>7. /\ ForeignClaimed' /\ HostOwnedIntact' /\ AtMostOneIntent'
        /\ SourcesReadable' /\ SourcesNotReused' /\ Sealed'
    BY <1>2 DEF ForeignClaimed, HostOwnedIntact, AtMostOneIntent, SourcesReadable,
       SourcesNotReused, BoundToAnother, Sealed, NoIngestIntents
  <1> QED
    BY <1>5, <1>6, <1>7 DEF Sealed

(* The rename lands on a path where the assessment found no file and where, *)
(* under the lock, none can have appeared.                                  *)
LEMMA PublishStep ==
  ASSUME IInv, NEW p \in Procs, Publish(p)
  PROVE  StoreInv'
  <1> USE DEF IInv, StoreInv
  <1>1. OperationCoherent'
    BY DEF TypeOK, Publish, AtStep, GoTo, Operation, IngestIntent, OperationCoherent,
           Terminal, ExactlyCataloged
  <1>2. ForeignClaimed'
    BY NoneAssumption DEF TypeOK, Publish, AtStep, GoTo, Operation, IngestIntent,
       OperationCoherent, ForeignClaimed
  <1>3. HostOwnedIntact'
    BY NoneAssumption DEF TypeOK, Publish, AtStep, GoTo, Operation, IngestIntent, Artifact,
       OperationCoherent, ForeignClaimed, HostOwnedIntact
  <1>4. ReadyIntentBacked'
    BY NoneAssumption DEF TypeOK, Publish, AtStep, GoTo, Operation, IngestIntent,
       OperationCoherent, ReadyIntentBacked
  <1>5. AtMostOneIntent' /\ SourcesReadable' /\ SourcesNotReused' /\ Sealed'
    BY DEF Publish, AtMostOneIntent, SourcesReadable, SourcesNotReused, BoundToAnother,
           Sealed, NoIngestIntents
  <1> QED
    BY <1>1, <1>2, <1>3, <1>4, <1>5 DEF Sealed

(* The inode the capture process holds is gone once the migration is done.  *)
LEMMA MigrateLegacyStep ==
  ASSUME IInv, NEW p \in Procs, MigrateLegacy(p)
  PROVE  StoreInv'
  <1> USE DEF IInv, StoreInv
  <1>1. /\ op.id \in Ids
        /\ intent[op.id] # None
        /\ ~Terminal
        /\ intent[op.id].phase = "ready"
        /\ dest[intent[op.id].path] = intent[op.id].bytes
        /\ ExactlyCataloged(op.id) \/ NotCataloged(op.id)
    BY AtStepFacts DEF MigrateLegacy, AtStep, OperationCoherent
  <1>2. /\ UNCHANGED <<status, revision, manifest, catalog, dest, private, intent, source>>
        /\ foreign' = foreign \ {intent[op.id].path}
    BY DEF MigrateLegacy
  <1>3. OperationCoherent'
    BY <1>1, <1>2 DEF MigrateLegacy, AtStep, GoTo, OperationCoherent, Terminal,
       ExactlyCataloged, TypeOK, Operation
  <1>4. ForeignClaimed'
    BY <1>2 DEF ForeignClaimed
  <1>5. HostOwnedIntact'
    <2> SUFFICES ASSUME NEW id \in Ids, catalog[id] # None, catalog[id].path \notin foreign'
                 PROVE  dest[catalog[id].path] = catalog[id].bytes
      BY <1>2 DEF HostOwnedIntact
    <2>1. CASE catalog[id].path \notin foreign
      BY <2>1 DEF HostOwnedIntact
    <2>2. CASE catalog[id].path \in foreign
      <3>1. catalog[id].path = intent[op.id].path
        BY <1>2, <2>2
      <3>2. id = op.id
        BY <1>1, <2>2 DEF ForeignClaimed, AtMostOneIntent
      <3>3. catalog[op.id].bytes = intent[op.id].bytes
        BY <1>1, <3>2 DEF ExactlyCataloged, NotCataloged
      <3> QED
        BY <1>1, <3>1, <3>2, <3>3
    <2> QED
      BY <2>1, <2>2
  <1>6. /\ ReadyIntentBacked' /\ AtMostOneIntent' /\ SourcesReadable'
        /\ SourcesNotReused' /\ Sealed'
    BY <1>2 DEF ReadyIntentBacked, AtMostOneIntent, SourcesReadable, SourcesNotReused,
       BoundToAnother, Sealed, NoIngestIntents
  <1> QED
    BY <1>3, <1>4, <1>5, <1>6 DEF Sealed

(* The record is written for a host-owned file whose bytes were checked.    *)
LEMMA IngestRegisterStep ==
  ASSUME IInv, NEW p \in Procs, IngestRegister(p)
  PROVE  StoreInv'
  <1> USE DEF IInv, StoreInv
  <1> DEFINE record == [path |-> intent[op.id].path, bytes |-> intent[op.id].bytes]
  <1>1. /\ op.id \in Ids
        /\ intent[op.id] # None
        /\ ~Terminal
        /\ intent[op.id].phase = "ready"
        /\ dest[intent[op.id].path] = intent[op.id].bytes
        /\ intent[op.id].path \notin foreign
    BY AtStepFacts DEF IngestRegister, AtStep, OperationCoherent
  <1>2. UNCHANGED <<status, revision, manifest, dest, foreign, private, intent, source>>
    BY DEF IngestRegister
  <1>3. \/ catalog[op.id] = record /\ UNCHANGED catalog
        \/ catalog[op.id] = None /\ catalog' = [catalog EXCEPT ![op.id] = record]
    BY DEF IngestRegister, RegisterArtifact, MayRegister, CatalogSlot
  <1>4. catalog'[op.id] = record /\ \A other \in Ids \ {op.id} : catalog'[other] = catalog[other]
    BY <1>1, <1>3 DEF TypeOK
  <1>5. OperationCoherent'
    BY <1>1, <1>2, <1>4 DEF IngestRegister, AtStep, GoTo, OperationCoherent, Terminal,
       ExactlyCataloged, TypeOK, Operation
  <1>6. ForeignClaimed'
    BY <1>1, <1>2, <1>4 DEF ForeignClaimed
  <1>7. HostOwnedIntact'
    BY <1>1, <1>2, <1>4 DEF HostOwnedIntact
  <1>8. SourcesReadable'
    <2>1. source[op.id] # None => catalog[op.id] # None
      BY <1>1, NoneIsNoDocument DEF SourcesReadable, TypeOK, CommittedStagingSource, Artifact
    <2> QED
      BY <1>1, <1>2, <1>3, <2>1 DEF SourcesReadable, TypeOK
  <1>9. AtMostOneIntent' /\ ReadyIntentBacked' /\ SourcesNotReused' /\ Sealed'
    BY <1>1, <1>2 DEF AtMostOneIntent, ReadyIntentBacked, SourcesNotReused, BoundToAnother,
       Sealed, Terminal
  <1> QED
    BY <1>5, <1>6, <1>7, <1>8, <1>9 DEF Sealed

(* No other record binds the staging path, because no other ingest is       *)
(* unfinished and this one was refused a path bound to another artifact.    *)
LEMMA CleanupStep ==
  ASSUME IInv, NEW p \in Procs, Cleanup(p)
  PROVE  StoreInv'
  <1> USE DEF IInv, StoreInv
  <1> DEFINE record == [staged |-> intent[op.id].staged, path |-> intent[op.id].path,
                        bytes |-> intent[op.id].bytes]
  <1>1. /\ op.id \in Ids
        /\ intent[op.id] # None
        /\ ~Terminal
        /\ ExactlyCataloged(op.id)
    BY AtStepFacts DEF Cleanup
  <1>2. UNCHANGED <<status, revision, manifest, catalog, dest, foreign, private, intent>>
    BY DEF Cleanup
  <1>3. \/ UNCHANGED source
        \/ /\ source'[op.id] = record
           /\ \A other \in Ids \ {op.id} : source'[other] = source[other]
    BY <1>1 DEF Cleanup, TypeOK
  <1>4. OperationCoherent'
    BY <1>1, <1>2 DEF Cleanup, AtStep, GoTo, OperationCoherent, Terminal, ExactlyCataloged,
       TypeOK, Operation
  <1>5. SourcesReadable'
    BY <1>1, <1>2, <1>3 DEF SourcesReadable, SourcesNotReused, BoundToAnother,
       ExactlyCataloged
  <1>6. SourcesNotReused'
    BY <1>1, <1>2, <1>3 DEF SourcesNotReused, BoundToAnother, AtMostOneIntent
  <1>7. /\ ForeignClaimed' /\ HostOwnedIntact' /\ AtMostOneIntent' /\ ReadyIntentBacked'
        /\ Sealed'
    BY <1>1, <1>2 DEF ForeignClaimed, HostOwnedIntact, AtMostOneIntent, ReadyIntentBacked,
       Sealed, Terminal
  <1> QED
    BY <1>4, <1>5, <1>6, <1>7 DEF Sealed

LEMMA RemoveIntentStep ==
  ASSUME IInv, NEW p \in Procs, RemoveIntent(p)
  PROVE  StoreInv'
  <1> USE DEF IInv, StoreInv
  <1>1. /\ op.id \in Ids
        /\ ~Terminal
        /\ intent[op.id].path \notin foreign
    BY AtStepFacts DEF RemoveIntent, AtStep, OperationCoherent
  <1>2. /\ UNCHANGED <<status, manifest, catalog, dest, foreign, private, source>>
        /\ op' = None
    BY DEF RemoveIntent
  <1>3. intent'[op.id] = None /\ \A other \in Ids \ {op.id} : intent'[other] = intent[other]
    BY <1>1 DEF RemoveIntent, TypeOK
  <1>4. OperationCoherent'
    BY <1>2 DEF OperationCoherent
  <1>5. ForeignClaimed'
    BY <1>1, <1>2, <1>3 DEF ForeignClaimed
  <1>6. AtMostOneIntent' /\ ReadyIntentBacked' /\ SourcesNotReused'
    BY <1>2, <1>3 DEF AtMostOneIntent, ReadyIntentBacked, SourcesNotReused, BoundToAnother
  <1>7. HostOwnedIntact' /\ SourcesReadable' /\ Sealed'
    BY <1>1, <1>2 DEF HostOwnedIntact, SourcesReadable, Sealed, Terminal
  <1> QED
    BY <1>4, <1>5, <1>6, <1>7 DEF Sealed

-----------------------------------------------------------------------------
LEMMA NextInv == IInv /\ [Next]_vars => IInv'
  <1> SUFFICES ASSUME IInv, [Next]_vars PROVE StoreInv'
    BY TypeStep DEF IInv
  <1>1. CASE UNCHANGED vars
    BY <1>1, QuietStep DEF vars, IInv
  <1>2. ASSUME NEW p \in Procs, Failure(p) PROVE StoreInv'
    BY <1>2, QuietStep DEF Failure, Crash, OperationFails, durable, IInv
  <1>3. CASE CaptureStep
    <2>1. ASSUME NEW s \in StagedPaths, NEW file \in File, StageExternally(s, file)
          PROVE  StoreInv'
      BY <2>1, QuietStep DEF StageExternally, IInv
    <2> QED
      BY <1>3, <2>1, WriteForeignInodeStep DEF CaptureStep
  <1>4. ASSUME NEW p \in Procs, HostStep(p) PROVE StoreInv'
    <2>1. CASE TryLock(p) \/ DropLock(p) \/ DropWriter(p)
      BY <2>1, QuietStep DEF TryLock, DropLock, DropWriter, durable, IInv
    <2>2. ASSUME NEW id \in Ids, NEW path \in Paths, NEW bytes \in Bytes,
                 CreateArtifact(p, id, path, bytes) PROVE StoreInv'
      BY <2>2, QuietStep DEF CreateArtifact, durable, IInv
    <2>3. ASSUME NEW s \in StagedPaths, NEW bytes \in Bytes,
                 EnsureStagedExact(p, s, bytes) PROVE StoreInv'
      BY <2>3, QuietStep DEF EnsureStagedExact, IInv
    <2> QED
      BY <1>4, <2>1, <2>2, <2>3, TransitionStep, FinalizeManifestStep, FinalizeStateStep,
         CommitArtifactStep, CommitRegisterStep, IngestStartStep, IngestResumeStep,
         PrepareSkipStep, PrepareCopyStep, PromoteStep, AssessStep, PublishCopyStep,
         PublishStep, MigrateLegacyStep, IngestRegisterStep, CleanupStep, RemoveIntentStep
         DEF HostStep
  <1> QED
    BY <1>1, <1>2, <1>3, <1>4 DEF Next

(* Every reachable state is well typed and satisfies the whole invariant of *)
(* the store.                                                               *)
THEOREM StoreCorrect == Spec => [](TypeOK /\ StoreInv)
  <1>1. Init => IInv
    BY InitInv
  <1>2. IInv /\ [Next]_vars => IInv'
    BY NextInv
  <1> QED
    BY <1>1, <1>2, PTL DEF Spec, IInv

(* Committed artifacts stay intact and host-owned, whatever crashes, errors *)
(* and rewrites of the staging area happen.                                 *)
THEOREM ArtifactsIntact == Spec => []CommittedArtifactsIntact
  <1>1. StoreInv => CommittedArtifactsIntact
    BY DEF StoreInv, CommittedArtifactsIntact, HostOwnedIntact, ForeignClaimed
  <1> QED
    BY <1>1, StoreCorrect, PTL

(* The source records never block a later ingest.                           *)
THEOREM SourcesUsable == Spec => []SourceRecordsUsable
  <1>1. StoreInv => SourceRecordsUsable
    BY DEF StoreInv, SourceRecordsUsable
  <1> QED
    BY <1>1, StoreCorrect, PTL

(* A ready v2 ingest never depends on the staging area again.               *)
THEOREM ReadyBacked == Spec => []ReadyIntentBacked
  <1>1. StoreInv => ReadyIntentBacked
    BY DEF StoreInv
  <1> QED
    BY <1>1, StoreCorrect, PTL

(* A complete Session is sealed.                                            *)
THEOREM CompleteSealed == Spec => []CompleteSessionSealed
  <1>1. StoreInv => CompleteSessionSealed
    BY DEF StoreInv, CompleteSessionSealed, HostOwnedIntact, ForeignClaimed, NoIngestIntents,
           Cataloged
  <1> QED
    BY <1>1, StoreCorrect, PTL

-----------------------------------------------------------------------------
(* What is published stays: the action property, from the invariant in the  *)
(* state before the step.                                                   *)
RecordsKept == \A id \in Ids : catalog[id] # None => catalog'[id] = catalog[id]

ManifestKept == manifest # None => manifest' = manifest

FilesKept == \A id \in Ids : catalog[id] # None /\ catalog[id].path \notin foreign =>
                 dest'[catalog[id].path] = dest[catalog[id].path]

TerminalKept == Terminal => status' = status /\ catalog' = catalog

LEMMA RegisterKeepsRecords ==
  ASSUME IInv, NEW p \in Procs, NEW id \in Ids, NEW artifact, RegisterArtifact(p, id, artifact)
  PROVE  RecordsKept
  BY DEF RegisterArtifact, MayRegister, CatalogSlot, RecordsKept, IInv, TypeOK

AllKept == RecordsKept /\ ManifestKept /\ FilesKept /\ TerminalKept

LEMMA PublishedStep == IInv /\ [Next]_vars => AllKept
  <1> SUFFICES ASSUME IInv, [Next]_vars PROVE AllKept
    OBVIOUS
  <1>1. UNCHANGED <<status, manifest, catalog, dest>> => AllKept
    BY DEF AllKept, RecordsKept, ManifestKept, FilesKept, TerminalKept
  <1>2. op # None => ~Terminal
    BY DEF IInv, StoreInv, OperationCoherent
  <1>3. CASE UNCHANGED vars
    BY <1>1, <1>3 DEF vars
  <1>4. ASSUME NEW p \in Procs, Failure(p) PROVE AllKept
    BY <1>1, <1>4 DEF Failure, Crash, OperationFails, durable
  <1>5. CASE CaptureStep
    <2>1. ASSUME NEW path \in Paths, NEW bytes \in Bytes, WriteForeignInode(path, bytes)
          PROVE  AllKept
      BY <2>1 DEF WriteForeignInode, AllKept, RecordsKept, ManifestKept, FilesKept,
         TerminalKept, IInv, TypeOK
    <2>2. ASSUME NEW s \in StagedPaths, NEW file \in File, StageExternally(s, file)
          PROVE  AllKept
      BY <1>1, <2>2 DEF StageExternally
    <2> QED
      BY <1>5, <2>1, <2>2 DEF CaptureStep
  <1>6. ASSUME NEW p \in Procs, HostStep(p) PROVE AllKept
    <2>1. ASSUME NEW next \in Statuses, Transition(p, next) PROVE AllKept
      BY <2>1 DEF Transition, AllKept, RecordsKept, ManifestKept, FilesKept, TerminalKept
    <2>2. CASE FinalizeManifest(p)
      BY <2>2 DEF FinalizeManifest, AllKept, RecordsKept, ManifestKept, FilesKept, TerminalKept
    <2>3. CASE FinalizeState(p)
      BY <1>2, <2>3 DEF FinalizeState, AllKept, RecordsKept, ManifestKept, FilesKept,
         TerminalKept
    <2>4. CASE CommitArtifact(p)
      <3>1. writer[p].path \in Paths /\ dest[writer[p].path] = None
        BY <2>4 DEF CommitArtifact, DestinationFree, IInv, TypeOK, ArtifactWriter
      <3>2. FilesKept
        BY <2>4, <3>1, NoneAssumption DEF CommitArtifact, FilesKept, IInv, StoreInv,
           HostOwnedIntact, TypeOK, Artifact
      <3> QED
        BY <2>4, <3>2 DEF CommitArtifact, AllKept, RecordsKept, ManifestKept, TerminalKept
    <2>5. CASE CommitRegister(p)
      <3>1. op.id \in Ids /\ ~Terminal
        BY <1>2, <2>5 DEF CommitRegister, IInv, TypeOK, Operation
      <3>2. RecordsKept
        BY <2>5, <3>1, RegisterKeepsRecords DEF CommitRegister
      <3> QED
        BY <2>5, <3>1, <3>2 DEF CommitRegister, AllKept, ManifestKept, FilesKept, TerminalKept
    <2>6. CASE IngestRegister(p)
      <3>1. op.id \in Ids /\ ~Terminal
        BY <2>6, AtStepFacts DEF IngestRegister
      <3>2. RecordsKept
        BY <2>6, <3>1, RegisterKeepsRecords DEF IngestRegister
      <3> QED
        BY <2>6, <3>1, <3>2 DEF IngestRegister, AllKept, ManifestKept, FilesKept, TerminalKept
    <2>7. CASE Publish(p)
      <3>1. /\ intent[op.id].path \in Paths
            /\ dest[intent[op.id].path] = None
        BY <2>7, AtStepFacts DEF Publish, AtStep, IInv, StoreInv, OperationCoherent
      <3>2. FilesKept
        BY <2>7, <3>1, NoneAssumption DEF Publish, FilesKept, IInv, StoreInv,
           HostOwnedIntact, TypeOK, Artifact
      <3> QED
        BY <2>7, <3>2 DEF Publish, AllKept, RecordsKept, ManifestKept, TerminalKept
    <2>8. CASE \/ TryLock(p) \/ DropLock(p) \/ DropWriter(p) \/ PrepareSkip(p)
               \/ PrepareCopy(p) \/ Promote(p) \/ Assess(p) \/ PublishCopy(p)
               \/ MigrateLegacy(p) \/ Cleanup(p) \/ RemoveIntent(p)
      BY <1>1, <2>8 DEF TryLock, DropLock, DropWriter, PrepareSkip, PrepareCopy, Promote,
         Assess, PublishCopy, MigrateLegacy, Cleanup, RemoveIntent, durable
    <2>9. ASSUME NEW id \in Ids, NEW path \in Paths, NEW bytes \in Bytes,
                 CreateArtifact(p, id, path, bytes) PROVE AllKept
      BY <1>1, <2>9 DEF CreateArtifact, durable
    <2>10. ASSUME NEW s \in StagedPaths, NEW bytes \in Bytes, EnsureStagedExact(p, s, bytes)
           PROVE  AllKept
      BY <1>1, <2>10 DEF EnsureStagedExact
    <2>11. ASSUME NEW id \in Ids, NEW path \in Paths, NEW s \in StagedPaths,
                  IngestStart(p, id, path, s) \/ IngestResume(p, id, path, s)
           PROVE  AllKept
      BY <1>1, <2>11 DEF IngestStart, IngestResume, durable
    <2> QED
      BY <1>6, <2>1, <2>2, <2>3, <2>4, <2>5, <2>6, <2>7, <2>8, <2>9, <2>10, <2>11
         DEF HostStep
  <1> QED
    BY <1>3, <1>4, <1>5, <1>6 DEF Next

(* Catalog records, the manifest, committed files and terminal states are   *)
(* never rewritten by any step of any process.                              *)
THEOREM PublishedForever == Spec => PublishedStays
  <1>1. TypeOK /\ StoreInv /\ [Next]_vars =>
          [/\ \A id \in Ids : catalog[id] # None => catalog'[id] = catalog[id]
           /\ manifest # None => manifest' = manifest
           /\ \A id \in Ids : catalog[id] # None /\ catalog[id].path \notin foreign =>
                  dest'[catalog[id].path] = dest[catalog[id].path]
           /\ Terminal => status' = status /\ catalog' = catalog]_vars
    BY PublishedStep DEF IInv, AllKept, RecordsKept, ManifestKept, FilesKept, TerminalKept
  <1> QED
    BY <1>1, StoreCorrect, PTL DEF Spec, PublishedStays

=============================================================================
