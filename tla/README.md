# A TLA+ verification project for T32Perf

T32Perf is a host program (Rust, with a Python sampling sidecar and a C target
SDK) that captures performance data from embedded targets through Lauterbach
TRACE32, keeps everything about one capture in a *Session* directory, and turns
it into analyses, reports and Perfetto traces. Its central promise is evidence
that can be trusted after the fact: artifacts are immutable, external effects
happen at most once, and whatever is uncertain after a crash fails closed. This
directory holds TLA+ models of the parts that keep those promises, TLC
configurations that check them on small instances, and TLAPS proofs.

## 1. Inventory

| Component | State it keeps | Operations | What is hard |
|---|---|---|---|
| Session store (`crates/t32perf-session`) | `state.json`, `artifact-index/`, artifact files, `manifest.json`, staging area, ingest intents, private copies, committed-staging-source records; process-local writer registry | transition, create/commit artifact, staged ingest with resume, ensure_staged_exact, finalize | a crash or an I/O error between any two durable writes; an external process that rewrites staging while the host reads it; writers of one process while another finalizes; data left by a v1 host |
| Locks and namespace (`session.rs`) | `.session.lock`, root namespace lock file, process-local registries | try_namespace_lock, try_lock, create_session, drops | two levels of lock, each in-process *and* on the file; release order against acquisition by other threads and processes |
| Controller host state machine (`src/controller.rs`, `controller_recovery.rs`) | one directory per transaction: request, request commit, response, acceptance, abort plan, abort confirmation, recovery | plan, stage response, accept, plan/confirm/abandon abort, recovery | acceptance against abort; phase order; every document written separately |
| Controller driver (`src/controller_driver/`, `controller_journal.rs`) | append-only driver journal per transaction, root-wide lease file, quarantine | drive, abort upstream, resume after restart, workload and fault hooks | an effect outside the host (TRACE32 run, workload, device abort, fault) cannot be undone, cannot be asked about, and must not be repeated after a crash |
| PC sampling (`src/sampling.rs`) and its sidecar (`tools/lauterbach-sampling-mcp`: `service.py`, `storage.py`) | write-ahead journal of driver events, failure marker, PERF on the target, staged histograms | capture, cleanup, recover, ingest | a debugger call that fails with the target in either state; a journal append whose file is linked although the call failed; somebody else's PERF |
| Stack sampling (`stack_service.py`, `stack_storage.py`, `src/stack.rs`) | journal, one-use capture attempts, the halted target | break, walk, go, export, recover-only | a CPU that stays halted after a crash; a stop that belongs to somebody else |
| Pipeline (`src/pipeline.rs`, `receipt.rs`) | artifacts and receipts in the Session | normalize, analyze, convert, finalize | stages repeated after a crash must adopt what is there |
| Performance run (`src/perf_run.rs`) with provisioning, attestation and signer hook | nothing but the artifacts in the Session, and the signer's output file | provision, capture, normalize, attest, analyze, convert | resumption from any of its steps; a signer that outlives the host; a deployment edited between two runs |
| Operations (`src/operations.rs`) | retention plan, trash, journals at the root | inspect, retain, restore, purge, abandon | directories renamed while Sessions are in use |
| Observation inputs, merge, clock, order (`crates/t32perf-trace32`) | streams | read, convert clocks, merge | wrap-around and order of equal times; otherwise sequential |
| Analysis (`crates/t32perf-analysis`) | call stacks per context, histograms | push observation, finish | preemption, gaps and missing exits; sequential |
| Perfetto writer, heatmap, flamegraph | an output stream | write | atomic output only |
| Contracts (`crates/t32perf-model`) | none | validation | sequential |
| C SDK (`sdk/c`) | sequence and drop counters, RAM ring | emit, report drops, read | one producer and one consumer without locks; every counter wraps |
| Attestation, provisioning, MCP server, CLI | bundles, request loop | verify, install, dispatch | partial installation |
| HIL harness, xtask | test and build tooling | | outside the host program |

Components interact through the Session: the Controller driver obtains a plan
from the Controller, performs it on TRACE32, places the output in the staging
area, and hands it to the store as a staged ingest; the pipeline reads cataloged
artifacts and commits new ones; `perf_run` sequences both; `finalize` seals the
result; operations move whole Sessions under the exclusive namespace lease.
Every mutation happens under the Session lock; the Controller driver holds in
addition a lease that is unique for the artifact root, because the target is a
shared device.

What makes each part correct:

* store: published data never changes, an interrupted ingest can be finished
  from host-owned bytes only, a complete Session is sealed;
* locks: one mutator per Session; the namespace changes only while nobody is
  inside;
* Controller and driver: each external effect at most once and only after its
  durable intent; acceptance and abort exclude each other; a failed device is
  not used again until it is recovered;
* pipeline, performance run, operations: repetition after a crash converges to
  the result of an uninterrupted run, and nothing is lost on the way;
* sampling: what the sidecar did to the target is on record before it does it, so
  that a recovery finds it and everybody else keeps off;
* events, merge and analysis: a loss is announced, no record is dropped or invented,
  and the accounting of time agrees with a direct definition on every bounded input.

`PROJECT.json` lists every component with its status, and under `hazards` the
places in the code where these matters are decided.

## 2. Plan

What exists, in the order it was built:

| Module | Models | Section |
|---|---|---|
| `SessionStore`, `SessionStoreProofs` | the durable store of one Session | 3 |
| `OneShot`, `ControllerDriver`, `ControllerDriverProofs` | an abstract one-shot effect; journal, lease, restart and abort of one transaction as its implementation | 4 |
| `LockTable`, `SessionLocks`, `SessionLocksProofs` | the atomic lock of whole Sessions that other models use; the two-level locks that implement it | 5 |
| `Retention`, `RetentionProofs` | retention and abandon moves, journals and restore | 6 |
| `Health`, `Analysis`, `SamplingProofs` (part two) | the streaming analyzer and the health policy that judges its facts | 7 |
| `ControllerHost`, `ControllerHostProofs` | all Sessions of a root: capture sequence, ownership of the endpoint, two-phase abort, quarantine, typed recovery | 8 |
| `EventQueue`, `EventPath`, `CaptureProofs` | an abstract queue; the path of an event through C SDK, RAM ring and decoder as its implementation | 9 |
| `Normalization`, `CaptureProofs` | the k-way merge and the writer behind it | 10 |
| `Sampling`, `SamplingProofs` | PC sampling sidecar, journal, host ingest | 11 |
| `StackSampling`, `CaptureProofs` | halting stack sampling and its recovery | 12 |
| `PerfRun`, `PerfRunProofs` | the managed run and the single commands, from provisioning to the report | 13 |

Each module has an `MC` module with the definitions its configurations need. How the
models fit together: `SessionStore` takes for granted that a Session has one lock,
which `SessionLocks` provides; `ControllerHost`, `Retention` and `PerfRun` take a
publication of an artifact as one step with the outcomes a crash can leave, which
`SessionStore` derives; `ControllerHost` takes a command as given where
`ControllerDriver` asks who sends it and how often; `Analysis` starts from the ordered
stream that `Normalization` commits, and `Normalization` from the decoded records of
`EventPath`; `PerfRun` takes the whole capture as one step.

The suite is kept to a dozen runs and forty properties, so a property that is implied
by a stronger one, or that only states a type, is not listed: type invariants stay in
the modules where a proof uses them. Section 15 lists configurations that are kept
beside the suite.

Every safety property that the runs check has a theorem, except two of `Analysis`,
and so have the three refinements of `OneShot`, `LockTable` and `EventQueue`; section 16
gives the list and says why these two and liveness stay with TLC. `CaptureProofs` holds
the proofs of three modules, in three parts, and `SamplingProofs` those of PC sampling and
of the analyzer, in two; names like `StackInit`, `MergeInit` and `AnalysisInit` keep those
modules apart in them.

## 3. Session store

Module `SessionStore` models one Session directory, the host processes that
mutate it and the capture process that owns its staging area.

### State

| Variable | Code |
|---|---|
| `status`, `revision` | `state.json` |
| `manifest` | `manifest.json`, as the catalog it lists |
| `catalog` | `artifact-index/<id>.json` |
| `dest` | artifact files; `foreign` marks the destinations that are still the inode a v1 host renamed out of staging |
| `staged` | `capture/staging` |
| `private` | `capture/.ingest-private/<id>.payload` |
| `intent` | `ingest-intents/<id>.json` with its phase |
| `source` | `committed-staging-sources/<id>.json` |
| `lock`, `op` | holder of `.session.lock` and the operation it is inside |
| `writer` | `ACTIVE_WRITERS`, one slot per process |

Contents are opaque values: size plus SHA-256 identify them. All values have the
same size, so a shallow (size-only) verification shows existence only, the worst
case for the code. Ids stand for portable (case-folded) ids. Paths, quotas in
bytes and no-follow opening appear as the success or failure of a step.

### Actions

An operation is split exactly at its durable writes. Between two of them
`Crash(p)` may remove the process (its lock and its writer go, the files stay) and
`OperationFails(p)` may end the operation with an error while the lock is kept.
Checks that a function makes between two writes are guards of the next step.

| Action | Code |
|---|---|
| `Transition` | `Session::transition` |
| `FinalizeManifest`, `FinalizeState` | `Session::finalize`: manifest commit, then state commit |
| `CreateArtifact`, `CommitArtifact`, `CommitRegister`, `DropWriter` | `create_artifact`, `commit_artifact` (= `ArtifactWriter::finish` + `register_artifact`) |
| `EnsureStagedExact` | `ensure_staged_exact` |
| `IngestStart`, `IngestResume` | the admission checks of `ingest_staged_bounded` and the first intent |
| `PrepareSkip`, `PrepareCopy`, `Promote` | `complete_prepared_intent`: private copy, comparison, phase `ready` |
| `Assess` | `assess_intent` and its four classifications |
| `PublishCopy`, `Publish` | the pending branch: copy if missing, rename |
| `MigrateLegacy` | `migrate_legacy_destination` |
| `IngestRegister`, `Cleanup`, `RemoveIntent` | `register_artifact`, `remove_exact_committed_intent` |
| `StageExternally`, `WriteForeignInode` | the capture process |

`Init` is either a new Session or one that a v1 host left with one intent: before
its rename, after it, or after the catalog write.

### Properties

* `CommittedArtifactsIntact`: a finished artifact has the recorded bytes in an
  inode nobody outside can write.
* `SourceRecordsUsable`: the staging-source records never reach a state that
  makes every later ingest fail.
* `CompleteSessionSealed`: a complete Session has a manifest equal to the
  catalog, intact files and no unfinished ingest, although writers of other
  processes may have been open across `finalize`.
* `PublishedStays`: catalog records, the manifest and host-owned published files
  are never changed by any step.
* `PublishedIngestFinishes` (liveness): an ingest that reached publication ends.

Two more invariants are proved and not part of a run: `ReadyIntentBacked` (a ready intent
can be finished from the private copy or the destination alone, whatever happens to the
staged file) and the inductive invariant `StoreInv`.

### Runs and bounds

* `session_store`: two processes, two ids, two destinations, one staging path
  with two contents, `MaxArtifacts = 2`, `MaxRevision` small enough that the
  revision reaches its limit. Two processes are needed for writers that survive a
  finalize and for locks lost in a crash; two ids and two destinations for every
  collision of id or path; one staging path for two artifacts that compete for a
  source; two contents for every change of a file. Ids, paths and contents are
  symmetric and interchangeable in the specification.
* `session_store_liveness`: one process (a crash followed by a retry is a new
  incarnation of it), one content, no symmetry.

The system may be left alone at any time and the capture process can always act,
so deadlock checking is off or vacuous for this component.

### Fairness

`RetriedIngest` states what the runbook asks of the operator and what the code
gives: the interrupted ingest is repeated with the same parameters, no individual
step is cut off every single time it is attempted (strong fairness, because a
crash disables the step again), an open writer is eventually committed or dropped,
and an operation returns, if only with an error. Nothing is assumed of the capture
process.

### Proofs

`SessionStoreProofs` proves, for all sets of processes, ids, paths, staging paths
and contents, and all bounds,

* `StoreCorrect`: `Spec => [](TypeOK /\ StoreInv)`;
* `ArtifactsIntact`, `SourcesUsable`, `ReadyBacked`, `CompleteSealed`: the four
  safety invariants;
* `PublishedForever`: the action property `PublishedStays`.

The assumptions are that the two bounds are naturals and that `None` is neither a
content nor a document. The safety invariants are not inductive: the operation
that is in progress carries facts from one durable write to the next, so
`OperationCoherent` says for every step of every operation which of its locals
still agree with the disk. `ForeignClaimed` says that an inode that the capture
process can reach belongs to an unfinished v1 ingest, which is why migration
before commit is enough; `HostOwnedIntact` is the part of
`CommittedArtifactsIntact` that survives while an ingest is unfinished;
`AtMostOneIntent` and `SourcesNotReused` are what keeps two source records from
sharing a path. Each action has a lemma, with one step per conjunct it can
disturb; facts that are common to actions that leave parts of the state alone
are stated once.

## 4. Controller driver

Module `ControllerDriver` follows one Controller transaction: its documents, the
commands that drive it (of any number of processes), the script on TRACE32 and the
people who may act by hand. `OneShot` is what the crash journal promises about an
effect that can be neither undone nor asked about: a durable intent is recorded
once, only the command that recorded it may perform the effect, and if that command
is lost the effect is never tried again.

### State

| Variable | Code |
|---|---|
| `request` | the immutable request artifact: its operation and fault action |
| `journal` | `t32perf.controller-driver-event/v1` artifacts, as the set of their kinds |
| `plan`, `receipt` | abort request (the reason it binds) and abort receipt |
| `staged`, `raw`, `response` | response staging file, raw response artifact, accepted response |
| `stopPrepared` | the Stop request that follows an accepted Start |
| `strict`, `capturing`, `failed` | what Session state and request document say |
| `quarantine` | quarantine records of the endpoint and of the target, active or in history |
| `script`, `effects`, `operatorAborted` | the world outside the host |
| `lease` | holder of `trace32-driver-execution.lock` |
| `job` | command, place in it and locals of each process |

A response is what acceptance makes of it: `ok`, `rejected`, `bad` (wrong binding,
broken frame, ...) or, only in the staging file, the `unfinished` wrapper of a script
that still runs. The requests are the five that the code treats differently:
without a fault, one that a script may reject (configure) and one that a workload
follows (start, with StartV2 evidence), and the three fault actions. All of them
name a target; get_capabilities, which does not, is quarantined by endpoint only.

### Actions

A command is split at its durable writes and at its calls outside the host. It holds
the root-wide lease for all of its steps, and `Interrupt(p)` can end it before any
of them: crash, timeout of `DriverBudget`, failed revalidation, I/O error. Commands
that make one durable write are one step.

| Action | Code |
|---|---|
| `Prepare`, `PrepareStopByHand`, `PlanAbortByHand`, `Accept`, `ConfirmAbort` | low-level `controller` commands |
| `Drive` and the `Surface...` actions | `drive_surface_core`, one turn of its loop |
| `DriveTransaction` | `drive_transaction` and the restart decisions of its four flows (`NormalStart`, `CmmStart`, `Trace32Start`, `DriverStart`) |
| `AbortUpstream` | `abort_upstream` |
| `Record...` | `record_driver_transaction_event`, `record_driver_workload_event` |
| `Execute`, `Collect`, `AbortTool`, `TriggerFault` (`RunDisconnectHook`, `KillDriverChild`), `RunWorkload` | tool calls and hooks |
| `StageResponse`, `AcceptRaw`, `IngestRaw`, `AcceptResponse`, `Reconcile` | `stage_driver_response`, `accept` |
| `EnsureAbortPlanned`, `PlanCmmAbort`, `PlanDisconnectAbort`, `OfficialAbort` | `ensure_abort_planned`, `official_abort_and_confirm` |
| `WriteReceipt`, `QuarantineEndpoint`, `QuarantineTarget`, `FailSession` | `confirm_abort` and its four durable writes |
| `ScriptFinishes`, `StageByHand`, `AbortByHand` | TRACE32, the agent, the operator |

### Properties

* `EffectsAreOneShot`: the specification implements `OneShot`, so execute, fault, abort
  and workload happen at most once each, and only by the command that recorded the
  intent; the refinement mapping reads the intents and observations from the journal and
  the permission from the place of the command.
* `ConfirmedAbortIsQuiet`: a receipt implies an observed abort and a device at rest.
* `FailedIsQuarantined`: a Session fails by rejection, or with receipt and both
  quarantine records in place.
* `AbortsOnlyProven`: no abort after acceptance, none of an unproven fault by drive.

`ControllerDriverRetry.cfg` (section 15) checks three more: `StopAfterWorkload`, that Stop
waits for a workload that was selected, on every path, and the liveness properties
`DriveSettlesOwnAborts` and `PlannedAbortSettles`: repeating `drive-transaction` settles
the transaction unless its abort was planned for a reason other than the driver's, and
repeating `abort-upstream` with the reason of the plan closes a planned abort.

### Runs and bounds

* `controller_driver`: two processes, every request, one reason of the operator (it
  differs from the reason the driver uses, so a conflict of reasons occurs). There is
  one transaction, and every document of it is written at most once, so nothing else
  has to be bounded. With the lease intact a second process adds only contention; it
  is what a shared lease would need to do harm.
`StageByHand` is always possible once a transaction is prepared and `Prepare` before
that, so deadlock is checked and cannot occur; a command that can not go on is
ended by `Interrupt`.

### Fairness

The liveness properties (`ControllerDriverRetry.cfg`) have as their hypothesis that the command is repeated (strong
fairness of its start, since other commands may hold the lease). The specification
`Running` assumes that a command which can take a step takes one or returns, that its
budget ends its polling (`Timeout`), and that crashes and I/O errors stop at some time
(`Calm`): from then on a command ends early only where a check of the code refuses to
go on. Nothing is assumed of the script, of the agent or of the operator.

### Proofs

`ControllerDriverProofs` proves for any set of processes, of admitted requests and of
abort reasons

* `DriverInvariant`: `Spec => []IInv`;
* `ConfirmedAbortStaysQuiet`, `FailedAlwaysQuarantined`: the two invariants of the run;
* `AbortsAlwaysProven`: the action property `AbortsOnlyProven`;
* `DriverIsOneShot`: the refinement of `OneShot` by all four effects at once.

The two invariants are not inductive, because a command reads documents in one step and
acts on them in a later one. The execution lease is what closes the gap: `OneCommand`
says that a command which is not idle holds it, so no second command exists, and
`HolderSound` says for every step of a command what it has read and what therefore still
holds: that the dispatch or fault it is about to perform has its own intent and nothing
after it in the journal, that the abort it is about to confirm was seen to succeed and the
script has ended, and which quarantine records are already durable. `DocumentsAgree` is
what documents and script say of each other between two steps: a plan stands behind every
abort document, and nothing runs once an abort has been seen to succeed. The refinement
maps an effect to the steps of the command that is about to perform it and to its own
journal event; each step of the driver is a step of at most one of the four effects.

Assumed of the constants: requests and reasons are among those the protocol has, and
`None` is none of the values it is compared with.

## 5. Locks of the artifact root

Module `SessionLocks` models how the threads of several processes lock the
namespace of an artifact root and the Sessions in it. Each of the two locks is a
reservation in a registry of the process (`ROOT_NAMESPACE_LOCKS`,
`PROCESS_LOCKS`), followed by an advisory lock of a file that the operating system
drops when the process dies. `LockTable` is what they promise together: a table
with an owner for each Session, in which a Session is created, moved away or locked
in one step, and in which nothing moves that somebody owns.

A thread is in at most one attempt and takes one step per access to shared state:
a registry, a lock file, a directory. Every attempt is a try, so a contended
attempt fails and undoes what it reserved; drops release in the order of the code
(Session file, Session registry, namespace file, namespace registry), and other
threads see the states in between. A process may die anywhere: its files are
unlocked and its registries are gone. The lock file is inside the directory, so a
thread may have the lock file of a directory open that has been moved away
meanwhile and replaced; `try_lock` prevents it by taking the namespace lease
before it opens the file.

Properties:

* `OneOwner`: at most one thread of all processes owns a Session directory.
* `OwnedStaysInPlace`: a Session that a thread owns is still at the path at which
  it was locked.
* `RegistriesExact`: the registries count exactly the attempts of their process; a
  reservation that is leaked locks a Session until the process ends.
* `ImplementsTable`: `SessionLocks` implements `LockTable`.

The run `session_locks` has two processes with two
threads each (conflicts in one process, between two, and both at once), two Sessions
and three directories, so that a name is used again. There is no liveness property:
nothing waits, and the code leaves repetition to the caller.

`SessionLocksProofs` proves for all processes, threads, Sessions and directories

* `SessionLockExclusive` and `OwnedNeverMoves`: the first two properties;
* `NamespaceExclusive`: an exclusive lease excludes every other lease;
* `LocksImplementTable`: the refinement.

The inductive invariant ties the step of each thread to the operating-system locks
it holds and says that the file it has open is the directory at the path while
it has a lease. The argument uses the locks of the
operating system only, since two descriptors conflict in one process as in two; the
registries make a contended attempt fail earlier.

`RegistriesAlwaysExact` proves the third property for any finite set of threads, from
an invariant of its own: the counter of a process is the cardinality of the set of its
threads with a shared attempt, which every action changes by at most one thread, and a
registered Session belongs to one thread only, so that the thread that gives it up takes
the entry of no other. Finiteness is needed for the cardinality and is what a process has.

## 6. Retention and abandon

Module `Retention` models `maintenance retention` and `maintenance abandon`: the
plans, `apply` and `restore`, with Sessions that are created, worked in and sealed
beside them.

| Variable | Code |
|---|---|
| `active` | the directory at `<root>/<session>` |
| `shelf` | the directory at `.t32perf-control/.../quarantine/<plan>/<session>` |
| `book` | the files of a directory as far as inventories tell them apart: sealed or not, what hosts wrote, what an external process wrote |
| `pending` | Sessions with a pending Controller transaction |
| `plans`, `journal` | plan documents and the events of their journals |
| `residue` | plans whose journal directory holds the temporary file of an atomic write that a crash cut off |
| `job` | the command that holds the maintenance lock, and its place in it |

A plan is made in one step, under the maintenance lock (`RetentionPlan`,
`AbandonPlan`). A command starts with `Begin`. All but `retention_apply` look at
source and destination before they have the namespace leases (`Look`); then
`LockNamespaces` takes the leases and validates the journal directory, `Examine`
decides among the four cases of source and destination, `Rename` moves the directory
after the Session lock was dropped, `Verify` validates it where it is now and `Record`
writes the event. `Interrupt` ends the command before any of these steps, and
`CrashInRecord` inside the atomic write. `CreateSession` needs the namespace only:
`sampling prepare` and `stack prepare` take no execution lease, so a name can be
taken between `Look` and `LockNamespaces`; the rename onto it then fails and ends the
command.

Properties:

* `QuarantineMatchesPlan`: what is in quarantine is the Session the plan binds, as
  hosts had left it when the plan was made, and a directory is never lost, copied or
  overwritten.
* `PendingStaysActive`: a Session that still owns the TRACE32 endpoint is not moved
  out of the root that is searched for the owner.
* `ApplyFinishes`, `RestoreFinishes` (liveness): repetition carries a plan out, or
  brings a Session back, unless a Session was changed or its name is in use, or an
  event was torn.

The run `retention_recovery` has one plan of up to two Sessions, since
plans do not help each other, a third directory that can take a name, one directory
with a late external writer, and no symmetry. `MaxVersion = 2` lets a Session be
sealed, or be changed after its plan. Hosts may stop working, and the bound stops them,
so deadlock is not checked. `Retention.cfg` (section 15) has two plans that compete for
one name and three directories that take it in turn.

Fairness: a command that runs takes its steps; an operator repeats the command for
each Session of a plan, and not every attempt is cut off. The last is expressed by a
choice at the start of an attempt (`calm`), with strong fairness for calm attempts.

`RetentionProofs` proves for all Sessions, directories and plans, and any number of
changes by hosts, `RetentionInvariant` and from it `QuarantineAlwaysMatches` and
`PendingAlwaysActive`. The inductive invariant adds to the two properties: a directory is
in one place (`Placed`) and an existing one is somewhere (`Found`), which together give
the cardinality of `QuarantineMatchesPlan`; a sealed Session has no pending transaction
(`SealedIsSettled`), which is why a complete Session may be moved without looking;
a retention plan names sealed Sessions only (`PlanSound`), what is shelved is what its plan
binds (`Shelved`), and from the comparison in `Examine` to the rename the Session in hand
is the one its entry binds, with nothing pending if `apply` moves it (`JobSound`). Assumed: `MaxVersion` is a
positive natural, Sessions are numbers (their order is that of the names) and `None` is no
directory.

## 7. Analysis and health

`Analysis` models `Analyzer` of `t32perf-analysis`: one value `an` with the state of each
core (scheduled task, stack of interrupts, time of the last observation), the contexts
(credited CPU time, open frames, taint), the progress of each source, open custom spans,
the bounded list of facts and the emitted spans. There is one action per observation kind
(`FunctionEnter`, `FunctionExit`, `ContextSwitch`, `InterruptEnter`, `InterruptExit`,
`Tick`, `Gap`, `SpanBegin`, `SpanEnd`) and `Finish`; each is `ingest` as a whole, with the
order check of the source, the advance of the core, the credit of CPU time and the facts
it records. `Health` is the policy: what each fact costs in verdict and in the support of
each metric. The fields `ran`, `lost`, `all` and `entered` are history, with which the
properties recompute what the analyzer may claim; so are `by` and `owed` of a span.

* `RankedSpansAreTrue`: the active time of a ranked span is never more than the time its
  context held a core between its ends, is exactly that when one core was involved, and
  no ranked span lies across a gap of its source. Exempt from the first two is a function
  that is entered on the core a task has just come to while the core it left still owes
  the task time from before (`owed`): see section 14.
* `SelfTimeConserved`: self times of all spans of a context are disjoint shares of the
  time it held a core.
* `TruncationNeverFlatters`: facts dropped at the limit of the list never make verdict or
  metric support better than the full list would.

Run `analysis`: two cores, two tasks, one interrupt, one source; every stream of a mix of
kinds, with steps of zero or one tick. Five clean observations on two cores are what a task
needs to come to another core, enter a function there before the core it left reports, be
switched out and exit: without the exemption TLC finds that stream. Three on two cores and
four on one are explored with one damaged observation (out of order, lost, duplicated, wrong
context): enter, switch away, switch back, exit, and nesting across a gap. `MaxFacts = 2`
makes the list overflow. A stream ends, so deadlock is not checked. Random simulation of
longer streams (nine observations, two sources, two damaged observations) found nothing
else. Across sources time never steps back, which is what the merge guarantees
(`NothingMissing`).

`SamplingProofs` proves `AnalyzerInvariant` and from it `TruncationAlwaysHonest`, for every
stream, limit of the list and number of cores, tasks and interrupts. `AnalyzerInv` says that
the list holds every fact that was pushed or carries the sentinel (`FactsInv`); that the
stacks of interrupts (`CoresInv`) and of frames (`ContextsInv`) are sequences is needed
beside it, because the loops that push facts run over them. There is a lemma for every
operator of the analyzer; a loop is a recursive function, whose existence and effect are
proved by taking the least turn at which they would fail. The policy's part is that no code
is worse than the sentinel, for the verdict and for each metric (`SentinelWorst`), and that
verdict and support are the worst of what the codes cost (`PolicyMonotone`).

Not modelled: resource counters (`analyzer.rs` 1739–2320), PC samples, the dictionary,
saturation of `u64` sums, names and evidence. Two effects of the code are inside the model
and allowed by the properties: at one timestamp, a switch-in that is delivered for another
core before the switch-out leaves active time under-reported; an exit with a smaller
sequence number than its enter makes `span.validate` fail the whole analysis
(`result = "failed"`).

## 8. Controller host

`ControllerHost` models the commands of `controller.rs` over all Sessions of a root and
the quarantine of `controller_recovery.rs`. Section 4 follows one transaction; here a
Session has many, in the seven steps of `CONTROLLER_CAPTURE_SEQUENCE`, and Sessions
compete for the endpoint. Every command holds the namespace lock, so one runs at a time;
`job` is its place between two durable writes and `Crash` drops it there.

| Variable | Code |
|---|---|
| `status`, `config`, `away` | `state.json`, the authoritative capture-config, Sessions moved out by `abandon` |
| `tx` | request, raw response, response, abort plan and abort receipt of each transaction |
| `quar`, `resv` | quarantine records (active or in the history) and recovery reservations |
| `job` | the command and its step |

| Action | Code |
|---|---|
| `Prepare`, `Abort` | `prepare_locked`, `abort` |
| `AcceptIngest`, `AcceptIngested`, `AcceptRespond`, `AcceptReconcile`, `AcceptConfig`, `AcceptAgain` | `accept`, split at raw artifact, response, state and capture-config |
| `ConfirmAbort`, `QuarantineEndpoint`, `QuarantineTarget`, `ConfirmFail` | `confirm_abort` |
| `PrepareRecovery`, `AcceptRecovery`, `RecoveryMove`, `RecoveryLink`, `RecoveryLinkMove` | typed recovery |
| `Analyze`, `Abandon`, `Restore` | what moves a Session on, or out of the root and back |

The predicates between them (`ProgressFails`, `OwnsRoot`, `LeaseHolders`, `Releasable`,
`Expected` ...) are the host's own derivations from the documents.

* `NoRequestOnFailedEndpoint`: no request while a confirmed abort is unrecovered.
* `OneLiveCapture`: the target is configured for at most one live Session.
* `ProgressNeverCorrupt`: crashes and retries never leave what the progress reader calls
  corrupt; one such Session refuses the endpoint to the whole root.
* `ClosedStaysClosed`: a confirmed abort that has released the root does not take it
  again at any point of recovery.

Run `controller_host`: two Sessions, the first (protocol V2) has already configured the
target, so that rejection, abort, recovery and the second Session's claim all fit in the
bounds; two plans, three quarantine records, two reservations, one crash. One crash is
enough for each write of a command to be the last one, and a repetition of the command is
not a crash. The bounds stop the system, so deadlock is not checked.

Abstractions: responses that fail validation are one value `bad`; the workload gate is in
section 4; all Sessions share one endpoint and one target; publication of the evidence is
part of the write of the recovery receipt.

`ControllerHostProofs` proves for any number of Sessions, transactions, plans, records,
reservations and crashes, and for every start of Session 1,

* `HostInvariant`: `Spec => []IInv`;
* `CaptureAlwaysExclusive`, `ProgressAlwaysSound`: the two invariants;
* `ClosedNeverReopens`, `EndpointNeverReused`: the two action properties.

Two facts carry the proof. What has been recorded stays (`Kept`): receipts, Failed, and
the quarantine of an abort, since recovery moves a record only when its receipt is
written; from this alone `ClosedStaysClosed` follows. And at most one transaction of the
root waits for an answer (`OneWaiting`), because `prepare` looks at all Sessions in the
root and an abandoned one neither waits nor is configured (`AwaySettled`). So the
completed operations of each Session are the first ones of the sequence and the one that
waits is the next (`Sequential`), which is what the progress reader verifies; and no
capture is live while a Configure waits (`ConfigureAlone`), so that its answer cannot make
a second one. `EndpointNeverReused` follows from `OneWaiting`: where nothing waits, an
unanswered abort is closed, so it has a record, and `ensure_not_quarantined` has found
none that is active.

## 9. Event path

`EventPath` follows a custom event from the firmware to the host: `event.c` (sequence
number, drop counter, drop report first), the ring of `transports.c` split at every shared
access (`WriteFull`, `WriteError`, `WriteBegin`, `WriteCopy`, `WritePublish`; `ReadPeek`,
`ReadCopy`, `ReadPop`) and the decoder of `c_wire.rs` and `clock.rs` (expansion of the
counters, gaps, scale, refusals), which acts in the step that delivers the record since
nothing else influences it. `EventQueue` is a bounded queue.

* `RingIsQueue`: the ring implements `EventQueue`, across the wrap of its positions.
* `LossIsAnnounced`: between two delivered events with one missing there is a gap, and
  nothing that is no loss looks like one.
* `DropCountExact`: counts delivered, in the ring and pending add up to the drops.
* `TimelineIsTrue`: the host's times and numbers never run backwards or ahead, and are the
  firmware's own unless a counter ran a full turn between two delivered records.

Run `event_path`: words of three bits stand for 32, starting at sequence 6, two slots, a
clock that wraps at four, twelve events and two transport errors: every counter wraps, the
ring fills, reports fail and half of the numbers can be lost.

Limits of the promise that reading the code showed: a loss before the first delivered
record or after the last one is not announced; the flag `FLAG_DROPPED` is read by the host
and never set by the SDK; after 2^31 or more lost numbers the host rejects the stream.

Part one of `CaptureProofs` proves, for any word, ring, clock, number of events and of
errors, `RingInvariant`, the refinement `RingImplementsQueue`, and `LossAlwaysAnnounced`,
`DropCountAlwaysExact` and `TimelineAlwaysTrue`. All of them assume that the number of
slots divides the word (`SlotsDivideWord`): the code does not check it, and without it a
loss is silent (`EventPathWrap.cfg`). `LossAlwaysAnnounced` also assumes fewer transport errors than the
sequence has numbers (`FewErrors`). That is as weak as it can be: with a word of four, one
slot and four errors TLC finds an unannounced loss, with three it finds none. The
inductive invariant has five parts:

* the ring (`RingInv`): the positions are apart by the number of records, never more than
  the slots; what is being copied in is not yet visible, what is being copied out stays
  the oldest record;
* the stream (`StreamInv`): from the last record the host has read, through the ring, to
  the one being written, every record follows its predecessor (`Follows`): later in number
  and time, no more numbers missing in between than were lost, and between two events no
  more than transport errors took, for anything else is reported first;
* the host (`HostInv`): its expanded counters agree with the firmware's in the bits that
  are sent, never run ahead of them, and are equal as long as no turn was missed;
* the losses (`LossInv`): a gap stands between two observed events whose neighbours were
  lost, and there were no more errors than allowed;
* the counts (`CountInv`): the report being written carries all that was pending, and the
  counts delivered, in the ring and in hand add up to the drops.

The sum over the ring (`Reports`) is a recursive function; that it exists, is unique, and
follows an append or a removal is proved by taking the least number for which it would
fail (`LeastNumber`), since the induction theorems cannot be applied.

## 10. Normalization

`Normalization` models `KWayMerge` (`Open`, `Pull` with the selection among tied heads,
the advance of the source whose record is handed out and the error that is deferred until
after it), `ObservationOrderValidator` and the writer of `normalize_captured`, which
commits when every source is exhausted and drops the artifact at the first error.

* `TiesFollowKeys`: observations of different sources at one time are committed only in
  the order of explicit keys, present and different.
* `NothingMissing`: a committed stream holds every record of every source in time order;
  a source that fails anywhere, after its last record included, prevents the commit.

Run `normalization`: two inputs with every stream of up to three records over two times,
with or without keys, repeated sequence numbers, a shared identifier, failing sources and
two clock domains. In a stream, records of one time have keys or none has (`Uniform`):
every adapter does so but explicit CSV, where the key is an optional column
(`csv_adapter.rs:335`); what happens without that assumption is in section 14. A finished
merge is final, so deadlock is not checked. Parsing of the formats, the merge of
dictionaries and the mode with one source are not modelled.

Part three of `CaptureProofs` proves, for any number of sources and any streams,
`MergeInvariant`, and from it `NothingEverMissing` and, for streams in which records of one
time and input have keys all or none (`KeysUniform`), `TiesAlwaysFollowKeys`. The invariant
splits the stream of every source into what was written of it, the record at its head and
what it still holds, in this order, as long as the merge reads without an error in hand;
every head comes no earlier than everything written. Ties need `KeysUniform` because
the code compares only the heads that are tied at the moment: with it, a record merged
at this time from another source had a key, and a smaller one, when the present head was
tied with it, or the head is of a later time.

## 11. PC sampling

`Sampling` models the sidecar's `capture` as the sequence of events it writes ahead and the
debugger calls between them (`Capture`), its `finally` clause, `recover`, the admission
with the in-memory reservation, the failure marker; and on the host the lease that every
driver needs (`EndpointClear`) and `ingest` of an export. An append may fail before or
after its file is linked and may leave its temporary file; each debugger call may fail
with the target in either state; both processes may die between any two steps; PERF may
belong to somebody else.

* `ActiveIsJournaled`: PERF that the sidecar configured or armed has an unfinished
  transaction on disk, and there is never a second one.
* `DriverFindsIdleTarget`: whoever holds the lease finds the target not being sampled.
* `ForeignUntouched`: the sidecar never disables somebody else's PERF.
* `CapturedIsProven`: a captured Session has the histogram of one complete transaction.

Run `sampling`: two transactions, two Sessions, three faults, a journal of thirty events
with a reservation of twelve, so that admission is refused for want of room. Three faults
are an error in a capture, one in its cleanup and one in the recovery after it. Deadlock is
checked: a driver or a restart is always possible.

Not modelled: v1 journals, the binding of the endpoint, limits in bytes, `bind_firmware` and
`analyze` on the host. A foreign PERF is started only while nothing is unfinished: the
other user has the lease or looked at PERF first.

The first part of `SamplingProofs` proves for any number of transactions, Sessions and
faults and every size
of the journal `SamplingInvariant` and from it `PerfAlwaysJournaled`, `DriverTargetIdle`,
`ForeignNeverTouched` and `CapturedAlwaysProven`. The inductive invariant says which
transaction may be unfinished at each step of a call (`UnfinishedPlaced`) and what PERF
may then be (`PerfPlaced`): the transaction of a call is unfinished on disk from before
the first command to TRACE32 until after the last, although an append may fail after its
file is linked; and whoever has the lease is the only writer (`LeaseMatches`).
`CapturedAlwaysProven` has an invariant of its own: a call exports at most once, and only
to a Session without an export (`ExportPending`), so the transaction that is running is
not one that an ingest has found complete, and what `IngestProven` says of the journal,
the receipt and the file at each step of an ingest stays true after it. Transactions are positive
numbers, 0 stands for none.

## 12. Stack sampling

`StackSampling` models the halting capture (`Break`, frames, `Go`, with intent and
observation of each in the journal, cancellation, timeouts as failing calls), its `finally`
clause, the export, and `recover_only`, which decides from the journal whether a halt is the
sidecar's own. Somebody else may stop and resume the target.

* `HaltIsOwned`: a target the sidecar has halted is on record as halted by exactly one
  transaction, so recovery finds it and no second capture starts over it.
* `ExternalStopKept`: no failure path of a capture resumes a stop of somebody else.

Run `stack_sampling`: two transactions and Sessions, two samples, three faults. A temporary
file left by a crash stops capture and recovery (section 14), so deadlock is not checked.
An external stop is excluded between the sidecar's last look at the target and its own
Break or Go, where no program could tell the two apart. The TRACE32 `ERROR` slot and the host's
`stack ingest` are not modelled.

Part two of `CaptureProofs` proves for any number of transactions, Sessions, samples and faults
`StackInvariant` and from it `HaltAlwaysOwned` and `ExternalStopNeverResumed`. Inductive is
that the halt is on record from before the Break (`HaltRecorded`), that an event which
takes it back is appended only when the target is known not to be halted by the sidecar
(`EndsNoHalt`), that at most one transaction has a halt on record, the one of the running
call if there is one (`OneHalting`), and that a step which resumes the target has not seen
it stopped by somebody else (`OwnedIsNotExternal`).

## 13. Performance run

`PerfRun` models `perf_run` and, for Sessions it does not manage, the commands normalize,
attest, analyze and convert. A command is the list of steps it has left (`todo`): the
artifacts it publishes, in the order of the code, and the steps between (`Control`, the
capture; `Processing`, `Manifest`, `Complete`, state changes; `Sign`, `Reserve`, `Signing`,
the signer hook). `Publish` adopts an artifact that is there with the wanted content,
refuses another one, and otherwise publishes. `Crash` inside a publication leaves one of:
nothing, the staged file, the intent, the registered artifact with its intent still there,
or for a committed artifact the destination without a record. The signer may outlive its
host (`stray`), finish at any time and write a truncated file; the deployment configuration
may be edited between any two steps. `hurt` is history: whether something happened that may
cost the Session.

* `FailedHasCause`: a Session fails only for a cause; crashes elsewhere, busy locks, an
  unfinished signature and reruns never cost it.
* `OneOrigin`: one analysis request, one attestation, one deployment behind all results.
* `CompleteIsWhole`: a complete Session has its whole chain, with nothing half published.
* `RunSettles` (liveness): a managed Session that is run again and again is finished,
  failed, or in a state that only an operator can resolve (`Stuck`).

Run `perf_run`: two deployments, two attestations that verify, two flavors, two
configurations, four faults (crashes, errors, edits). A failed Session is terminal, so
deadlock is not checked. Fairness is weak, for the rerun (the message of the code asks for
it), for the steps of a running command, and for the signer, whose hook has a timeout.

Abstractions: the capture is one step with its two outcomes (sections 4 and 8); the
resource artifacts are one id; a managed Session has one flavor and one configuration; an
execution lease that is busy ends a command (`Contended`), and a Session lock that is busy
inside analyze or convert is one of the errors of `StepFails`. A destination without a
staging snapshot, the retention of staging files and the contents of reports are not
modelled.

`PerfRunProofs` proves for any deployments, signatures, flavors, configurations and number
of faults `PerfRunInvariant` and from it `FailedAlwaysCaused`, `OriginAlwaysOne` and
`CompleteAlwaysWhole`. The only assumption besides non-emptiness is that the words the
model uses for a missing, an unfinished and a wrong file are not contents of one. The
argument numbers the steps of all stages (`Rank`). A command has the rest of its plan
before it, in that order (`Ahead`), and on record whatever it has passed (`Behind`), so
artifacts are registered in order (`InOrder`): in a Session nothing has happened to, an
intent on disk can only be that of the step that is repeated (`IntentIsNext`). What is on
record comes from one request, one signature and one deployment (`Origins`) and the running
command works with the same (`Inputs`), so it adopts what it finds and no stage after the
capture fails (`NotBlocked`). None of these is inductive alone: the order of the record
needs that a command starts where everything before is on record, which needs the state of
the Session to say how far it has come (`Progress`), which needs the order.

## 14. Disagreements between documentation and code

Shown by a configuration of section 15, with the violated property in parentheses:

* `session.rs` says that `finalize` is retry-safe after a crash between its two
  commits. Other operations are still admitted in that state and one of them makes
  every repetition fail (`FinalizeRetrySafe`).
* `docs/contracts.md` says that ingest conflicts change no files.
  `complete_prepared_intent` runs before `assess_intent`, so a retry that is bound
  to end in a conflict replaces the private copy and promotes the intent first
  (`ConflictsChangeNoFiles`).
* `controller_progress_from_artifacts` takes a transaction with both a response and an
  abort receipt for a corruption. `accept` does not look at the abort documents, so a
  response that is staged when `confirm_abort` was interrupted after its receipt is
  accepted (`AcceptAbortExclusive`).
* The runbook says that a triggered fault resumes its abort on restart. The CMM flow
  plans with the reason `operator_request`, recovery replays the plan with
  `transport_failure`, and the host refuses the other reason, so `drive-transaction`
  never finishes that abort (`DrivenTransactionSettles`); `abort-upstream` with the
  reason of the plan does (`PlannedAbortSettles`).
* `docs/security.md` says of `abandon` that "restore can restore it completely", and
  `docs/operations.md` that apply and restore journal "rename-crash recovery". A crash
  inside the atomic write of an event leaves its temporary file in the journal directory;
  the validation of that directory takes every file that is not an event for a
  corruption, so apply and restore of the plan are refused from then on and the Session
  stays in quarantine (`RestoreAlwaysPossible`).
* The comment on `root_capture_lease` says that a failed Session is governed by quarantine.
  `accept` writes a rejected response before the Session fails, and `prepare` does not look
  at rejected responses: after a crash in between, the operation is prepared again and
  succeeds, and a later repetition of the first accept fails a Session that has the target
  configured, without quarantine (`OneConfiguredSession`).
* The C SDK says that the wrap of ring positions is covered. Unless the number of slots
  divides 2^32 the slot index jumps at the wrap and unread slots are overwritten
  (`LossIsAnnounced` with three slots).
* The user guide says that normalization fails when records of one time lack keys. Only the
  heads that are tied at this moment are compared, so a key that is missing in an explicit
  CSV is not noticed when the other record has been merged before (`TiesFollowKeys`).
* `reserve_transaction` promises durable space for all cleanup outcomes. The reservation is
  in memory and recovery asks for a fresh one, so the last capture a journal has room for
  cannot be recovered (`RecoveryAdmitted`).

Met while modelling; the models contain the behaviour and the properties name it as an
exception:

* Stack recovery decides from the journal alone. After a crash between Go and `go_observed`
  it resumes a target that somebody else has stopped since, although ADR 0006 excludes a Go
  after an external stop (exception in `ExternalStopKept`).
* A crash between the catalog record of an ingest and the removal of its intent, or between
  the rename and the registration in `commit_artifact`, makes the rerun of `perf_run` fail
  the Session, although `perf_run.rs:687` says that a rerun resumes the missing stage
  (causes in `FailedHasCause`).
* A truncated or empty signer output is pending for ever (`Stuck`); a signer left by a crash
  that writes between the check of `perf_run.rs:1030` and the reservation in `hooks.rs` makes
  the Session fail; a deployment edited after its binding was staged blocks provisioning
  until the old one is restored (`Stuck`).
* A temporary file that a crash leaves in the journal directory of either sidecar stops every
  capture and every recovery from then on, although the runbook offers
  `--recover-quarantined`; so does, for PC sampling, a `cleanup_failed` written by a recovery
  whose own intent was not durable (`storage.py:556`), and for stack sampling a second
  `cleanup_intent`.
* `lease.rs:34` asks for the journal of PC sampling only: other drivers are not kept off a
  target that stack sampling has left halted.
* A repeated `confirm_abort` after typed recovery creates its quarantine again, and a crash
  between the move of the target record and the link of the endpoint record leaves recovery
  in a conflict (`controller_recovery.rs:747`).
* A task that comes to a core at the very time it leaves another may be delivered there
  first; `tests/analyzer.rs:644` takes that for a clean migration. A function entered between
  the two observations starts from a CPU time that lacks what the old core still owes
  (`analyzer.rs:621`) and is later charged for it, although `derived.rs:106` calls
  `active_ns` the time the activation was executing. The span is ranked with too much
  active time if it was preempted for as long, and incomplete otherwise (exception `owed` in
  `RankedSpansAreTrue`).
* `convert` by hand after an analysis that crashed, and `normalize` by hand with another
  configuration than the one on record, fail the Session.

## 15. Further configurations

These configurations are not part of the suite. The first two hold; each of the others
makes TLC show one disagreement of section 14.

| Configuration | Checks | Shows |
|---|---|---|
| `ControllerDriverRetry.cfg` | `TypeOK`, `StopAfterWorkload`, `DriveSettlesOwnAborts`, `PlannedAbortSettles` | one process (a command after an interruption is a new one), the operator with the driver's reason, the CMM fault with another |
| `Retention.cfg` | `TypeOK`, `QuarantineMatchesPlan`, `PendingStaysActive` | two plans compete for one name, three directories |
| `SessionStoreFinalizeRetry.cfg` | `FinalizeRetrySafe` | violated: finalize cannot be repeated |
| `SessionStoreConflict.cfg` | `ConflictsChangeNoFiles` | violated: a conflict replaces the private copy |
| `ControllerDriverExclusive.cfg` | `AcceptAbortExclusive` | violated: response and abort receipt together |
| `ControllerDriverCmmRetry.cfg` | `DrivenTransactionSettles` | violated: the abort of a CMM fault is never finished |
| `RetentionTorn.cfg` | `RestoreAlwaysPossible` | violated: a torn journal event |
| `ControllerHostOwner.cfg` | `OneConfiguredSession` | violated: two configured Sessions |
| `EventPathWrap.cfg` | `LossIsAnnounced` | violated with three slots |
| `NormalizationTies.cfg` | `TiesFollowKeys` | violated with mixed keys |
| `SamplingRecovery.cfg` | `RecoveryAdmitted` | violated in a nearly full journal |

## 16. What is only model-checked, and what is not modelled

Proved for all values of the constants, with the assumptions named in each section:

| Component | Theorems | Section |
|---|---|---|
| Session store | `StoreCorrect`, `ArtifactsIntact`, `SourcesUsable`, `ReadyBacked`, `CompleteSealed`, `PublishedForever` | 3 |
| Controller driver | `DriverInvariant`, `ConfirmedAbortStaysQuiet`, `FailedAlwaysQuarantined`, `AbortsAlwaysProven`, `DriverIsOneShot` | 4 |
| Locks | `SessionLockExclusive`, `OwnedNeverMoves`, `NamespaceExclusive`, `LocksImplementTable`, `RegistriesAlwaysExact` | 5 |
| Retention | `RetentionInvariant`, `QuarantineAlwaysMatches`, `PendingAlwaysActive` | 6 |
| Analysis | `AnalyzerInvariant`, `TruncationAlwaysHonest` | 7 |
| Controller host | `HostInvariant`, `CaptureAlwaysExclusive`, `ProgressAlwaysSound`, `ClosedNeverReopens`, `EndpointNeverReused` | 8 |
| PC sampling | `SamplingInvariant`, `PerfAlwaysJournaled`, `DriverTargetIdle`, `ForeignNeverTouched`, `CapturedAlwaysProven` | 11 |
| Event path | `RingInvariant`, `RingImplementsQueue`, `LossAlwaysAnnounced`, `DropCountAlwaysExact`, `TimelineAlwaysTrue` | 9 |
| Normalization | `MergeInvariant`, `NothingEverMissing`, `TiesAlwaysFollowKeys` | 10 |
| Stack sampling | `StackInvariant`, `HaltAlwaysOwned`, `ExternalStopNeverResumed` | 12 |
| Performance run | `PerfRunInvariant`, `FailedAlwaysCaused`, `OriginAlwaysOne`, `CompleteAlwaysWhole` | 13 |

The inductive invariants were checked by TLC on the instances of the runs before they were
proved. The bounds (faults, crashes, versions, transactions ...) are constants of the
theorems, so they hold for every bound.

Only model-checked:

* liveness (`PublishedIngestFinishes`, `ApplyFinishes`, `RestoreFinishes`, `RunSettles` and
  the properties of `ControllerDriverRetry.cfg`), which is out of the prover's reach;
* `RankedSpansAreTrue` and `SelfTimeConserved` of `Analysis`: they compare what the analyzer
  computes with cardinalities and sums over the whole past of a context, so they need an
  induction over time as well as one for every loop of the analyzer.

Induction over data cannot be applied as a theorem of the library here. Where a proof
needs it (the sum of the drop reports, prefixes of a merge, the loops of the analyzer), it takes the least number for
which the claim would fail (`LeastNumber` in `CaptureProofs` and `SamplingProofs`) and derives a contradiction.

Not modelled, and why:

* validation of documents (contracts, attestation bundles, qualification and controller
  wrappers: most of `t32perf-model`, `attestation.rs`, `t32perf-trace32/controller.rs`,
  `controller_qualification.rs`), parsing of ELF, linker maps, CSV, NDJSON and YAML, and
  rendering (Perfetto, heatmap, flamegraph, reports): functions of their input without
  state. The models have their outcome, valid or not, as an input, and the map claims the
  lines where the outcome is used, not the checks themselves;
* the MCP server, the CLI and the t32mcp transport: dispatch to the commands that are
  modelled;
* HIL harness, `xtask` and scripts: test and build tooling;
* resource counters and samples of the analyzer, legacy v1 sampling journals, host-side
  stack ingest and analysis.

These parts are the larger half of the lines of the repository, so the share of lines the
map names is small although every component that keeps durable or shared state has a
module. `PROJECT.json` gives for each component what is left out.
