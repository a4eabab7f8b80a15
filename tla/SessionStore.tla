---------------------------- MODULE SessionStore ----------------------------
(***************************************************************************)
(* The durable store of one T32Perf Session                                 *)
(* (crates/t32perf-session/src/session.rs and artifact.rs).                 *)
(*                                                                          *)
(* A Session is a directory.  Its documents (state.json, artifact-index/,   *)
(* ingest-intents/, committed-staging-sources/, manifest.json), the         *)
(* artifact files and the staging area are the durable variables below.     *)
(* Host processes mutate them one operation at a time under the Session     *)
(* lock; every operation is split at its durable writes, so that a crash or *)
(* an I/O error can fall between any two of them.  An external capture      *)
(* process owns the staging area and writes it whenever it likes.           *)
(*                                                                          *)
(* File contents are opaque values: size and SHA-256 together identify      *)
(* them.  All contents have the same size, the worst case for the shallow   *)
(* (size-only) checks, which therefore test existence only.                 *)
(***************************************************************************)
EXTENDS Integers, FiniteSets

CONSTANTS
    Procs,          \* host processes that open the Session
    Ids,            \* artifact ids, up to the portable case folding
    Paths,          \* Session-relative artifact destinations
    StagedPaths,    \* paths below capture/staging
    Bytes,          \* file contents
    None,           \* an absent file, document, process or operation
    MaxArtifacts,   \* MAX_MANIFEST_ARTIFACTS
    MaxRevision     \* the largest value of the u64 state revision

ASSUME BoundsAssumption ==
    /\ MaxArtifacts \in Nat
    /\ MaxRevision \in Nat

ASSUME NoneAssumption == None \notin Bytes

VARIABLES
    status,     \* state.json: lifecycle status
    revision,   \* state.json: revision
    manifest,   \* manifest.json: None, or the catalog it snapshots
    catalog,    \* artifact-index/<id>.json
    dest,       \* artifact files by destination path
    foreign,    \* destinations whose inode an external process can still write
    staged,     \* capture/staging files
    private,    \* capture/.ingest-private/<id>.payload
    intent,     \* ingest-intents/<id>.json
    source,     \* committed-staging-sources/<id>.json
    lock,       \* process that holds .session.lock
    op,         \* the operation in progress under the lock
    writer      \* the open ArtifactWriter of each process (ACTIVE_WRITERS)

durable == <<status, revision, manifest, catalog, dest, foreign, staged,
             private, intent, source>>
vars == <<status, revision, manifest, catalog, dest, foreign, staged, private,
          intent, source, lock, op, writer>>

Statuses == {"created", "capturing", "captured", "processing", "complete", "failed"}

File == Bytes \cup {None}

(* What a catalog record binds: destination, and size plus digest.          *)
Artifact == [path : Paths, bytes : Bytes]

(* legacy: a v1 intent (or a v2 one without private fields), written by a   *)
(* host that renamed the staging inode itself into the artifact namespace.  *)
IngestIntent == [path : Paths, staged : StagedPaths, bytes : Bytes,
                 phase : {"preparing", "ready"}, legacy : BOOLEAN]

(* An absent document is not a document.                                    *)
ASSUME NoneIsNoDocument == None \notin IngestIntent /\ None \notin Artifact

CommittedStagingSource == [staged : StagedPaths, path : Paths, bytes : Bytes]

ArtifactWriter == [id : Ids, path : Paths, bytes : Bytes]

IngestSteps == {"prepare", "promote", "assess", "publish", "migrate",
                "register", "cleanup", "remove"}

Operation ==
    [kind : {"ingest"}, id : Ids, step : IngestSteps]
      \cup [kind : {"commit"}, id : Ids, path : Paths, bytes : Bytes]
      \cup [kind : {"finalize"}]

TypeOK ==
    /\ status \in Statuses
    /\ revision \in 0..MaxRevision
    /\ catalog \in [Ids -> Artifact \cup {None}]
    /\ manifest \in [Ids -> Artifact \cup {None}] \cup {None}
    /\ dest \in [Paths -> File]
    /\ foreign \in SUBSET Paths
    /\ staged \in [StagedPaths -> File]
    /\ private \in [Ids -> File]
    /\ intent \in [Ids -> IngestIntent \cup {None}]
    /\ source \in [Ids -> CommittedStagingSource \cup {None}]
    /\ lock \in Procs \cup {None}
    /\ op \in Operation \cup {None}
    /\ writer \in [Procs -> ArtifactWriter \cup {None}]

-----------------------------------------------------------------------------
(* Guards shared by the operations.                                         *)

(* Mutant: a complete Session is still open to mutation.                    *)
TerminalOnlyFailed == status = "failed"

Terminal == status \in {"complete", "failed"}

(* can_transition_to: a non-terminal status may be rewritten in place.      *)
CanTransitionTo(next) ==
    \/ next = status /\ ~Terminal
    \/ <<status, next>> \in { <<"created", "capturing">>, <<"created", "failed">>,
                              <<"capturing", "captured">>, <<"capturing", "failed">>,
                              <<"captured", "processing">>, <<"captured", "failed">>,
                              <<"processing", "failed">> }

(* build_next_state: checked_add on the u64 revision.                       *)
RevisionFits == revision < MaxRevision

CanFinalize == status \in {"captured", "processing", "complete"}

NoIngestIntents == \A id \in Ids : intent[id] = None

Cataloged == {id \in Ids : catalog[id] # None}

(* ensure_artifact_catalog_slot: room for one more record, and neither the  *)
(* id nor the destination is taken.                                         *)
CatalogSlot(id, path) ==
    /\ Cardinality(Cataloged) + 1 <= MaxArtifacts
    /\ catalog[id] = None
    /\ \A other \in Cataloged : catalog[other].path # path

(* Mutant: the existence check before publication is dropped.               *)
DestinationIgnored(path) == path \in Paths

(* Nothing is ever published over an existing file.                         *)
DestinationFree(path) == dest[path] = None

(* registered_artifacts(deep): every cataloged file exists, and a deep      *)
(* verification finds the recorded bytes.                                   *)
RegisteredArtifactsVerified(deep) ==
    \A id \in Cataloged :
        IF deep THEN dest[catalog[id].path] = catalog[id].bytes
                ELSE dest[catalog[id].path] # None

(* The process may start an operation: it has the lock and is not inside    *)
(* another operation.                                                       *)
Idle(p) == lock = p /\ op = None

(* ensure_no_active_writer: the registry is local to the process.           *)
NoActiveWriter(p) == writer[p] = None

-----------------------------------------------------------------------------
(* The Session lock.  Only mutual exclusion matters here: how try_lock and  *)
(* its drop obtain it is the subject of module SessionLocks.                *)

TryLock(p) ==
    /\ lock = None
    /\ lock' = p
    /\ UNCHANGED <<durable, op, writer>>

DropLock(p) ==
    /\ Idle(p)
    /\ lock' = None
    /\ UNCHANGED <<durable, op, writer>>

(* A process dies.  Its lock, its writer registry and the operation it was  *)
(* executing vanish; what it wrote stays.                                   *)
Crash(p) ==
    /\ lock' = IF lock = p THEN None ELSE lock
    /\ op' = IF lock = p THEN None ELSE op
    /\ writer' = [writer EXCEPT ![p] = None]
    /\ UNCHANGED durable

(* An I/O error or an exhausted quota makes the operation return at its     *)
(* current step; the caller keeps the lock.                                 *)
OperationFails(p) ==
    /\ lock = p
    /\ op # None
    /\ op' = None
    /\ UNCHANGED <<durable, lock, writer>>

-----------------------------------------------------------------------------
(* Lifecycle.                                                               *)

Transition(p, next) ==
    /\ Idle(p)
    /\ next # "complete"
    /\ ~Terminal
    /\ NoActiveWriter(p)
    /\ next # "failed" => NoIngestIntents
    /\ CanTransitionTo(next)
    /\ RevisionFits
    /\ status' = next
    /\ revision' = revision + 1
    /\ UNCHANGED <<manifest, catalog, dest, foreign, staged, private, intent,
                   source, lock, op, writer>>

(* finalize, up to its first durable write.  The manifest supplied by the   *)
(* caller has to list exactly the catalog; one that is already on disk has  *)
(* to be the same.  A complete Session is returned as it is.                *)
FinalizeManifest(p) ==
    /\ Idle(p)
    /\ NoActiveWriter(p)
    /\ CanFinalize
    /\ status # "complete"
    /\ NoIngestIntents
    /\ RegisteredArtifactsVerified(TRUE)
    /\ manifest \in {None, catalog}
    /\ RevisionFits
    /\ manifest' = catalog
    /\ op' = [kind |-> "finalize"]
    /\ UNCHANGED <<status, revision, catalog, dest, foreign, staged, private,
                   intent, source, lock, writer>>

FinalizeState(p) ==
    /\ lock = p
    /\ op # None /\ op.kind = "finalize"
    /\ status' = "complete"
    /\ revision' = revision + 1
    /\ op' = None
    /\ UNCHANGED <<manifest, catalog, dest, foreign, staged, private, intent,
                   source, lock, writer>>

-----------------------------------------------------------------------------
(* The append-only catalog.                                                 *)

(* What register_artifact demands before it writes a new record.            *)
MayRegister(p, id, artifact) ==
    /\ NoActiveWriter(p)
    /\ RegisteredArtifactsVerified(FALSE)
    /\ ~Terminal
    /\ CatalogSlot(id, artifact.path)
    /\ dest[artifact.path] = artifact.bytes

(* register_artifact: an identical record is verified again, not rewritten. *)
RegisterArtifact(p, id, artifact) ==
    \/ /\ catalog[id] = artifact
       /\ NoActiveWriter(p)
       /\ RegisteredArtifactsVerified(FALSE)
       /\ dest[artifact.path] = artifact.bytes
       /\ UNCHANGED catalog
    \/ /\ MayRegister(p, id, artifact)
       /\ catalog' = [catalog EXCEPT ![id] = artifact]

-----------------------------------------------------------------------------
(* Artifacts written by the host: create_artifact hands out the process's   *)
(* only writer, commit_artifact publishes its file and registers it.        *)

CreateArtifact(p, id, path, bytes) ==
    /\ Idle(p)
    /\ ~Terminal
    /\ RegisteredArtifactsVerified(FALSE)
    /\ CatalogSlot(id, path)
    /\ DestinationFree(path)
    /\ writer[p] = None
    /\ writer' = [writer EXCEPT ![p] = [id |-> id, path |-> path, bytes |-> bytes]]
    /\ UNCHANGED <<durable, lock, op>>

(* The writer is dropped, by its owner or by a commit that is refused.  The *)
(* writer does not hold the Session lock alive.                             *)
DropWriter(p) ==
    /\ writer[p] # None
    /\ lock = p => op = None
    /\ writer' = [writer EXCEPT ![p] = None]
    /\ UNCHANGED <<durable, lock, op>>

(* ArtifactWriter::finish: never over an existing file.                     *)
CommitArtifact(p) ==
    /\ Idle(p)
    /\ writer[p] # None
    /\ ~Terminal
    /\ DestinationFree(writer[p].path)
    /\ dest' = [dest EXCEPT ![writer[p].path] = writer[p].bytes]
    /\ writer' = [writer EXCEPT ![p] = None]
    /\ op' = [kind |-> "commit", id |-> writer[p].id, path |-> writer[p].path,
              bytes |-> writer[p].bytes]
    /\ UNCHANGED <<status, revision, manifest, catalog, foreign, staged, private,
                   intent, source, lock>>

CommitRegister(p) ==
    /\ lock = p
    /\ op # None /\ op.kind = "commit"
    /\ RegisterArtifact(p, op.id, [path |-> op.path, bytes |-> op.bytes])
    /\ op' = None
    /\ UNCHANGED <<status, revision, manifest, dest, foreign, staged, private,
                   intent, source, lock, writer>>

-----------------------------------------------------------------------------
(* The staging area.                                                        *)

(* The external capture process writes, rewrites or removes a staged file.  *)
StageExternally(s, file) ==
    /\ staged' = [staged EXCEPT ![s] = file]
    /\ UNCHANGED <<status, revision, manifest, catalog, dest, foreign, private,
                   intent, source, lock, op, writer>>

(* It may also still write an inode that a v1 host published.               *)
WriteForeignInode(path, bytes) ==
    /\ path \in foreign
    /\ dest' = [dest EXCEPT ![path] = bytes]
    /\ UNCHANGED <<status, revision, manifest, catalog, foreign, staged, private,
                   intent, source, lock, op, writer>>

(* ensure_staged_exact: the host creates a staging file and never replaces  *)
(* one.                                                                     *)
EnsureStagedExact(p, s, bytes) ==
    /\ Idle(p)
    /\ ~Terminal
    /\ staged[s] = None
    /\ staged' = [staged EXCEPT ![s] = bytes]
    /\ UNCHANGED <<status, revision, manifest, catalog, dest, foreign, private,
                   intent, source, lock, op, writer>>

-----------------------------------------------------------------------------
(* Staged ingest: intent, private copy, publication, catalog, cleanup.      *)

(* committed_staging_sources: the records are usable.                       *)
SourcesReadable ==
    /\ \A id \in Ids : source[id] # None =>
          catalog[id] = [path |-> source[id].path, bytes |-> source[id].bytes]
    /\ \A i, j \in Ids :
          source[i] # None /\ source[j] # None /\ source[i].staged = source[j].staged
            => i = j

(* Mutant: any staging path may be ingested again.                          *)
NeverBound(id, s) == FALSE

BoundToAnother(id, s) ==
    \E other \in Ids \ {id} : source[other] # None /\ source[other].staged = s

(* ensure_only_requested_intent *)
OnlyRequestedIntent(id) == \A other \in Ids \ {id} : intent[other] = None

(* The checks of ingest_staged_bounded that precede the intent.             *)
IngestAdmitted(p, id, s) ==
    /\ Idle(p)
    /\ NoActiveWriter(p)
    /\ OnlyRequestedIntent(id)
    /\ SourcesReadable
    /\ ~BoundToAnother(id, s)
    /\ ~Terminal

AtStep(p, step) ==
    /\ lock = p
    /\ op # None /\ op.kind = "ingest" /\ op.step = step

GoTo(step) == op' = [op EXCEPT !.step = step]

(* A fresh request: the staged file is hashed and the claim made durable.   *)
IngestStart(p, id, path, s) ==
    /\ IngestAdmitted(p, id, s)
    /\ intent[id] = None
    /\ CatalogSlot(id, path)
    /\ DestinationFree(path)
    /\ staged[s] # None
    /\ private[id] = None
    /\ intent' = [intent EXCEPT ![id] =
                    [path |-> path, staged |-> s, bytes |-> staged[s],
                     phase |-> "preparing", legacy |-> FALSE]]
    /\ op' = [kind |-> "ingest", id |-> id, step |-> "prepare"]
    /\ UNCHANGED <<status, revision, manifest, catalog, dest, foreign, staged,
                   private, source, lock, writer>>

(* A retry: the request has to repeat the durable intent.                   *)
IngestResume(p, id, path, s) ==
    /\ IngestAdmitted(p, id, s)
    /\ intent[id] # None
    /\ intent[id].path = path
    /\ intent[id].staged = s
    /\ op' = [kind |-> "ingest", id |-> id, step |-> "prepare"]
    /\ UNCHANGED <<durable, lock, writer>>

(* replace_private_copy_from_staged, then the comparison with the intent:   *)
(* a copy of other bytes is already published when the error returns.       *)
CopyStaged(next) ==
    LET claim == intent[op.id] IN
    /\ staged[claim.staged] # None
    /\ private' = [private EXCEPT ![op.id] = staged[claim.staged]]
    /\ IF staged[claim.staged] = claim.bytes THEN GoTo(next) ELSE op' = None

(* complete_prepared_intent.                                                *)
PrepareSkip(p) ==
    /\ AtStep(p, "prepare")
    /\ \/ intent[op.id].phase = "ready" /\ GoTo("assess")
       \/ /\ intent[op.id].phase = "preparing"
          /\ private[op.id] = intent[op.id].bytes
          /\ GoTo("promote")
    /\ UNCHANGED <<durable, lock, writer>>

PrepareCopy(p) ==
    /\ AtStep(p, "prepare")
    /\ intent[op.id].phase = "preparing"
    /\ private[op.id] # intent[op.id].bytes
    /\ CopyStaged("promote")
    /\ UNCHANGED <<status, revision, manifest, catalog, dest, foreign, staged,
                   intent, source, lock, writer>>

Promote(p) ==
    /\ AtStep(p, "promote")
    /\ intent' = [intent EXCEPT ![op.id].phase = "ready"]
    /\ GoTo("assess")
    /\ UNCHANGED <<status, revision, manifest, catalog, dest, foreign, staged,
                   private, source, lock, writer>>

(* exact_catalog_state *)
ExactlyCataloged(id) ==
    catalog[id] = [path |-> intent[id].path, bytes |-> intent[id].bytes]

NotCataloged(id) ==
    /\ catalog[id] = None
    /\ \A other \in Cataloged : catalog[other].path # intent[id].path

(* artifact_file_evidence *)
Evidence(file, bytes) ==
    IF file = None THEN "missing" ELSE IF file = bytes THEN "matching" ELSE "conflict"

(* Mutant: an intent whose artifact is already cataloged is a conflict.     *)
AssessNeverStale(id) ==
    IF NotCataloged(id) /\ dest[intent[id].path] = intent[id].bytes THEN "resumable"
    ELSE IF /\ NotCataloged(id)
            /\ dest[intent[id].path] = None
            /\ private[id] = intent[id].bytes THEN "pending"
    ELSE "conflict"

(* assess_intent *)
AssessIntent(id) ==
    LET claim == intent[id]
        stagedIs == Evidence(staged[claim.staged], claim.bytes)
        privateIs == Evidence(private[id], claim.bytes)
        destIs == Evidence(dest[claim.path], claim.bytes)
    IN  CASE ~ExactlyCataloged(id) /\ ~NotCataloged(id) -> "conflict"
          [] ExactlyCataloged(id) /\ destIs = "matching" -> "committed_stale"
          [] NotCataloged(id) /\ destIs = "matching" -> "resumable"
          [] /\ NotCataloged(id)
             /\ destIs = "missing"
             /\ \/ stagedIs \in {"matching", "missing"} /\ privateIs = "matching"
                \/ stagedIs = "matching" /\ privateIs = "missing" -> "pending"
          [] OTHER -> "conflict"

(* Mutant: a v1 destination is adopted as it is.                            *)
AdoptLegacy(id, next) == next

(* The destination of a v1 intent is replaced before it is committed.       *)
MigrateFirst(id, next) == IF intent[id].legacy THEN "migrate" ELSE next

Assess(p) ==
    /\ AtStep(p, "assess")
    /\ \/ AssessIntent(op.id) = "pending" /\ GoTo("publish")
       \/ AssessIntent(op.id) = "resumable"
            /\ GoTo(MigrateFirst(op.id, "register"))
       \/ AssessIntent(op.id) = "committed_stale"
            /\ GoTo(MigrateFirst(op.id, "cleanup"))
       \/ AssessIntent(op.id) = "conflict" /\ op' = None
    /\ UNCHANGED <<durable, lock, writer>>

(* The pending branch may still have to make the private copy of a v1       *)
(* intent, which has none.                                                  *)
PublishCopy(p) ==
    /\ AtStep(p, "publish")
    /\ private[op.id] = None
    /\ CopyStaged("publish")
    /\ UNCHANGED <<status, revision, manifest, catalog, dest, foreign, staged,
                   intent, source, lock, writer>>

(* rename(private copy, destination)                                        *)
Publish(p) ==
    /\ AtStep(p, "publish")
    /\ private[op.id] = intent[op.id].bytes
    /\ dest' = [dest EXCEPT ![intent[op.id].path] = private[op.id]]
    /\ foreign' = foreign \ {intent[op.id].path}
    /\ private' = [private EXCEPT ![op.id] = None]
    /\ GoTo("register")
    /\ UNCHANGED <<status, revision, manifest, catalog, staged, intent, source,
                   lock, writer>>

(* migrate_legacy_destination: a fresh host-owned inode with the same bytes *)
(* replaces the one the capture process can still reach.                    *)
MigrateLegacy(p) ==
    /\ AtStep(p, "migrate")
    /\ dest[intent[op.id].path] = intent[op.id].bytes
    /\ foreign' = foreign \ {intent[op.id].path}
    /\ GoTo(IF ExactlyCataloged(op.id) THEN "cleanup" ELSE "register")
    /\ UNCHANGED <<status, revision, manifest, catalog, dest, staged, private,
                   intent, source, lock, writer>>

IngestRegister(p) ==
    /\ AtStep(p, "register")
    /\ RegisterArtifact(p, op.id, [path |-> intent[op.id].path,
                                   bytes |-> intent[op.id].bytes])
    /\ GoTo("cleanup")
    /\ UNCHANGED <<status, revision, manifest, dest, foreign, staged, private,
                   intent, source, lock, writer>>

(* remove_exact_committed_intent, first half: the staging source is bound   *)
(* to the artifact only while it still holds the committed bytes.           *)
Cleanup(p) ==
    LET claim == intent[op.id]
        record == [staged |-> claim.staged, path |-> claim.path, bytes |-> claim.bytes]
    IN
    /\ AtStep(p, "cleanup")
    /\ ExactlyCataloged(op.id)
    /\ dest[claim.path] = claim.bytes
    /\ IF staged[claim.staged] = claim.bytes
         THEN /\ source[op.id] \in {None, record}
              /\ source' = [source EXCEPT ![op.id] = record]
         ELSE UNCHANGED source
    /\ GoTo("remove")
    /\ UNCHANGED <<status, revision, manifest, catalog, dest, foreign, staged,
                   private, intent, lock, writer>>

RemoveIntent(p) ==
    /\ AtStep(p, "remove")
    /\ intent' = [intent EXCEPT ![op.id] = None]
    /\ op' = None
    /\ UNCHANGED <<status, revision, manifest, catalog, dest, foreign, staged,
                   private, source, lock, writer>>

-----------------------------------------------------------------------------
(* A new Session, or one that an earlier host left with a v1 intent: before *)
(* its rename, after it, or after its catalog write.                        *)
NoLegacy ==
    /\ intent = [id \in Ids |-> None]
    /\ catalog = [id \in Ids |-> None]
    /\ dest = [path \in Paths |-> None]
    /\ staged = [s \in StagedPaths |-> None]
    /\ foreign = {}
    /\ status = "created"

LegacyIntent ==
    \E id \in Ids, path \in Paths, s \in StagedPaths, bytes \in Bytes,
       renamed \in BOOLEAN, cataloged \in BOOLEAN :
        /\ cataloged => renamed
        /\ intent = [i \in Ids |-> IF i = id
                        THEN [path |-> path, staged |-> s, bytes |-> bytes,
                              phase |-> "ready", legacy |-> TRUE]
                        ELSE None]
        /\ catalog = [i \in Ids |-> IF i = id /\ cataloged
                        THEN [path |-> path, bytes |-> bytes] ELSE None]
        /\ dest = [q \in Paths |-> IF q = path /\ renamed THEN bytes ELSE None]
        /\ staged = [t \in StagedPaths |-> IF t = s /\ ~renamed THEN bytes ELSE None]
        /\ foreign = IF renamed THEN {path} ELSE {}
        /\ status \in {"created", "capturing", "captured"}

Init ==
    /\ NoLegacy \/ LegacyIntent
    /\ revision = 0
    /\ manifest = None
    /\ private = [id \in Ids |-> None]
    /\ source = [id \in Ids |-> None]
    /\ lock = None
    /\ op = None
    /\ writer = [p \in Procs |-> None]

HostStep(p) ==
    \/ TryLock(p) \/ DropLock(p)
    \/ \E next \in Statuses : Transition(p, next)
    \/ FinalizeManifest(p) \/ FinalizeState(p)
    \/ \E id \in Ids, path \in Paths, bytes \in Bytes : CreateArtifact(p, id, path, bytes)
    \/ DropWriter(p) \/ CommitArtifact(p) \/ CommitRegister(p)
    \/ \E s \in StagedPaths, bytes \in Bytes : EnsureStagedExact(p, s, bytes)
    \/ \E id \in Ids, path \in Paths, s \in StagedPaths :
          IngestStart(p, id, path, s) \/ IngestResume(p, id, path, s)
    \/ PrepareSkip(p) \/ PrepareCopy(p) \/ Promote(p) \/ Assess(p)
    \/ PublishCopy(p) \/ Publish(p) \/ MigrateLegacy(p)
    \/ IngestRegister(p) \/ Cleanup(p) \/ RemoveIntent(p)

Failure(p) == Crash(p) \/ OperationFails(p)

CaptureStep ==
    \/ \E s \in StagedPaths, file \in File : StageExternally(s, file)
    \/ \E path \in Paths, bytes \in Bytes : WriteForeignInode(path, bytes)

Next ==
    \/ \E p \in Procs : HostStep(p) \/ Failure(p)
    \/ CaptureStep

Spec == Init /\ [][Next]_vars

(* The operator repeats an interrupted ingest with the same parameters, and *)
(* no step of it fails or is cut short every single time; writers are       *)
(* eventually committed or dropped, and an operation returns, if only with  *)
(* an error.                                                                *)
RetriedIngest ==
    /\ SF_vars(\E p \in Procs : TryLock(p))
    /\ \A id \in Ids : SF_vars(\E p \in Procs, path \in Paths, s \in StagedPaths :
                                   IngestResume(p, id, path, s))
    /\ SF_vars(\E p \in Procs : PrepareSkip(p))
    /\ SF_vars(\E p \in Procs : Assess(p))
    /\ SF_vars(\E p \in Procs : IngestRegister(p))
    /\ SF_vars(\E p \in Procs : Cleanup(p))
    /\ SF_vars(\E p \in Procs : RemoveIntent(p))
    /\ \A p \in Procs : WF_vars(DropWriter(p))
    /\ WF_vars(\E p \in Procs : CommitRegister(p) \/ FinalizeState(p) \/ OperationFails(p))

FairSpec == Spec /\ RetriedIngest

-----------------------------------------------------------------------------
(* Properties.                                                              *)

(* A committed artifact (cataloged, its ingest finished) has exactly the    *)
(* recorded bytes at its destination, in an inode no capture process can    *)
(* write: "Formal artifacts never reference staging inodes"                 *)
(* (docs/contracts.md), through every crash of commit_artifact and of       *)
(* ingest_staged_bounded and whatever is written to the staging area.       *)
CommittedArtifactsIntact ==
    \A id \in Ids : catalog[id] # None /\ intent[id] = None =>
        /\ dest[catalog[id].path] = catalog[id].bytes
        /\ catalog[id].path \notin foreign

(* The committed-staging-source records never come into a state that        *)
(* committed_staging_sources refuses, which would block every later ingest: *)
(* each is bound to its cataloged artifact, and no two share a path.        *)
SourceRecordsUsable == SourcesReadable

(* A complete Session is sealed: finalize left a manifest that lists        *)
(* exactly the catalog, every listed file is intact and host-owned, and no  *)
(* ingest is unfinished.  It stays so although writers opened by other      *)
(* processes before finalize are still around.                              *)
CompleteSessionSealed ==
    status = "complete" =>
        /\ manifest = catalog
        /\ NoIngestIntents
        /\ \A id \in Cataloged : /\ dest[catalog[id].path] = catalog[id].bytes
                                 /\ catalog[id].path \notin foreign

(* A ready v2 intent can be carried to its end from host-owned bytes alone: *)
(* the private copy or the destination holds what the intent claims, even   *)
(* if the staged file changed between the hash, the copy and the promotion  *)
(* (complete_prepared_intent).                                              *)
ReadyIntentBacked ==
    \A id \in Ids :
        intent[id] # None /\ intent[id].phase = "ready" /\ ~intent[id].legacy =>
            \/ private[id] = intent[id].bytes
            \/ dest[intent[id].path] = intent[id].bytes

(* ensure_only_requested_intent keeps at most one ingest unfinished.        *)
AtMostOneIntent ==
    \A i, j \in Ids : intent[i] # None /\ intent[j] # None => i = j

(* No step rewrites what is published: catalog records and the manifest are *)
(* written once, a host-owned destination that a record names keeps its     *)
(* bytes (no overwrite API), and a terminal Session keeps its status and    *)
(* its catalog.                                                             *)
PublishedStays ==
    [][/\ \A id \in Ids : catalog[id] # None => catalog'[id] = catalog[id]
       /\ manifest # None => manifest' = manifest
       /\ \A id \in Ids : catalog[id] # None /\ catalog[id].path \notin foreign =>
              dest'[catalog[id].path] = dest[catalog[id].path]
       /\ Terminal => status' = status /\ catalog' = catalog]_vars

(* What every step of the store relies on, the inductive strengthening of   *)
(* the invariants above.                                                    *)

(* The locals of the operation in progress still agree with the disk when   *)
(* its next step uses them.                                                 *)
OperationCoherent ==
    op # None =>
        /\ ~Terminal
        /\ op.kind = "finalize" => /\ manifest = catalog
                                   /\ NoIngestIntents
                                   /\ RevisionFits
        /\ op.kind = "commit" => /\ dest[op.path] = op.bytes
                                 /\ op.path \notin foreign
        /\ op.kind = "ingest" =>
              LET claim == intent[op.id] IN
              /\ claim # None
              /\ op.step = "promote" => private[op.id] = claim.bytes
              /\ op.step \notin {"prepare", "promote"} => claim.phase = "ready"
              /\ op.step = "publish" => dest[claim.path] = None
              /\ op.step = "migrate" => ExactlyCataloged(op.id) \/ NotCataloged(op.id)
              /\ op.step \in {"register", "cleanup", "remove"} =>
                    claim.path \notin foreign /\ dest[claim.path] = claim.bytes
              /\ op.step \in {"cleanup", "remove"} => ExactlyCataloged(op.id)

(* An inode the capture process can still write belongs to a v1 ingest that *)
(* has not finished.                                                        *)
ForeignClaimed ==
    /\ \A path \in foreign : dest[path] # None
    /\ \A id \in Ids : intent[id] # None /\ ~intent[id].legacy =>
          intent[id].path \notin foreign
    /\ \A id \in Ids : catalog[id] # None /\ catalog[id].path \in foreign =>
          intent[id] # None /\ intent[id].path = catalog[id].path

HostOwnedIntact ==
    \A id \in Ids : catalog[id] # None /\ catalog[id].path \notin foreign =>
        dest[catalog[id].path] = catalog[id].bytes

(* No unfinished ingest reads a staging path that is bound to another       *)
(* artifact.                                                                *)
SourcesNotReused ==
    \A id \in Ids : intent[id] # None => ~BoundToAnother(id, intent[id].staged)

(* All of it, with the invariants that are inductive only together.         *)
StoreInv ==
    /\ OperationCoherent
    /\ ForeignClaimed
    /\ HostOwnedIntact
    /\ AtMostOneIntent
    /\ ReadyIntentBacked
    /\ SourcesReadable
    /\ SourcesNotReused
    /\ status = "complete" => manifest = catalog /\ NoIngestIntents

(* The destination of an unfinished ingest is published and host-owned; only *)
(* its catalog record or the removal of its intent is missing.               *)
Published(id) ==
    /\ intent[id] # None
    /\ dest[intent[id].path] = intent[id].bytes
    /\ intent[id].path \notin foreign
    /\ intent[id].phase = "ready" /\ ~intent[id].legacy
    /\ ExactlyCataloged(id) \/ NotCataloged(id)

(* A published ingest that is retried ends, however often a process crashes *)
(* between rename, catalog and cleanup: its record is committed and its     *)
(* intent removed, unless the Session ends first or a writer takes its id,  *)
(* or the last slot of the catalog.                                         *)
PublishedIngestFinishes ==
    \A id \in Ids :
        Published(id) ~>
            \/ intent[id] = None /\ catalog[id] # None
            \/ Terminal
            \/ intent[id] # None /\ ~ExactlyCataloged(id) /\ ~NotCataloged(id)
            \/ Cardinality(Cataloged) = MaxArtifacts /\ catalog[id] = None

-----------------------------------------------------------------------------
(* Claims of the documentation that the store does not keep.                *)

(* session.rs says of finalize that "after a crash between the two commits, *)
(* the same manifest may be supplied again and the state transition will    *)
(* finish": whenever a manifest is on disk and the Session is not terminal, *)
(* the checks of a repeated finalize pass.                                  *)
FinalizeRetrySafe ==
    manifest # None /\ ~Terminal /\ op = None =>
        CanFinalize /\ NoIngestIntents /\ manifest = catalog

(* docs/contracts.md says that "conflicts change no files".  The conflict   *)
(* here is one that exists before the retry starts and cannot pass: the     *)
(* intent's id or destination is cataloged with another record.             *)
ConflictsChangeNoFiles ==
    [][\A id \in Ids :
         intent[id] # None /\ ~ExactlyCataloged(id) /\ ~NotCataloged(id) =>
            private'[id] = private[id] /\ intent'[id] = intent[id]]_vars

=============================================================================
