------------------------------ MODULE Sampling ------------------------------
(***************************************************************************)
(* PC sampling: the Lauterbach sidecar process, which configures, arms,     *)
(* stops and disables PERF on the target, the write-ahead journal of driver *)
(* events it shares with the host, and the two host operations that depend  *)
(* on that journal: the lease of every other TRACE32 driver, refused while  *)
(* a sampling transaction is unfinished, and the ingest of an exported      *)
(* histogram.                                                               *)
(*                                                                         *)
(* An append to the journal may fail before or after its file is linked,    *)
(* either process may die between any two steps, and every debugger call    *)
(* may fail with the target left in either state.                           *)
(***************************************************************************)
EXTENDS Naturals, Sequences, SequencesExt, FiniteSets

CONSTANTS Txs,        \* sampling transaction identifiers
          Sessions,
          Capacity,   \* MAX_JOURNAL_EVENTS
          Reserve,    \* TRANSACTION_RESERVATION_EVENTS
          OldEvents,  \* possible numbers of events of long finished transactions
          MaxFaults   \* bound on injected failures and crashes

ASSUME SamplingAssumption ==
    /\ Capacity \in Nat /\ Reserve \in Nat /\ MaxFaults \in Nat
    /\ OldEvents \subseteq 0..Capacity
    /\ Txs \subseteq Nat \ {0}

None == "none"

NoTx == 0

VARIABLES
  journal,      \* events of each transaction, in sequence order
  old,          \* events of transactions finished before this history
  residue,      \* a temporary file was left in the journal directory
  marker,       \* sampling-journal-failure.json exists
  perf,         \* PERF on the target: disabled, off (configured or stopped), armed, foreign
  lease,        \* holder of trace32-driver-execution.lock
  pc,           \* step of the sidecar's capture call, or idle
  tx, sess,     \* the call's transaction and the Session it has locked
  todo,         \* transactions recover has still to visit
  behind,       \* the in-memory sequence is behind a file that was linked
  durable,      \* the cleanup intent of this call is on disk
  authorized,   \* this call consumed the recovery authorization
  auth,         \* the process still has its one recovery authorization
  failed,       \* _journal_failed of the process
  status,       \* lifecycle of each Session
  staged,       \* histograms exported to each Session's staging directory
  receipt, histogram, \* committed capture receipt and histogram of each Session
  hpc, hsess, hfile,  \* step of the host's ingest, its Session and staged file
  faults

disk == <<journal, old, residue, marker>>
call == <<pc, tx, sess, todo, behind, durable, authorized>>
process == <<auth, failed>>
store == <<status, staged, receipt, histogram>>
host == <<hpc, hsess, hfile>>
vars == <<disk, perf, lease, call, process, store, host, faults>>

-----------------------------------------------------------------------------
(* The journal. A cleanup intent with recovery set is a name of its own.    *)

\* the events a complete capture writes, with the work between them in capitals
Capture == << "configure_intent", "CONFIGURE", "configure_observed", "start_intent", "ARM",
              "start_observed", "SLEEP", "stop_intent", "STOP", "stop_observed", "HISTOGRAM",
              "cleanup_intent", "CLEANUP", "cleanup_observed", "VALIDATE", "export_intent",
              "PUBLISH", "export_observed" >>

Events == {"configure_intent", "configure_observed", "start_intent", "start_observed",
           "stop_intent", "stop_observed", "cleanup_intent", "recovery_intent",
           "cleanup_observed", "cleanup_failed", "recovery_observed",
           "export_intent", "export_observed"}

Success == << "configure_intent", "configure_observed", "start_intent", "start_observed",
              "stop_intent", "stop_observed", "cleanup_intent", "cleanup_observed",
              "export_intent", "export_observed" >>

Intents == {"cleanup_intent", "recovery_intent"}

\* what _validate_order accepts after each event
Allowed == [e \in Events |->
    CASE e = "configure_intent" -> {"configure_observed"} \cup Intents
      [] e = "configure_observed" -> {"start_intent"} \cup Intents
      [] e = "start_intent" -> {"start_observed"} \cup Intents
      [] e = "start_observed" -> {"stop_intent"} \cup Intents
      [] e = "stop_intent" -> {"stop_observed"} \cup Intents
      [] e = "stop_observed" -> Intents
      [] e = "cleanup_intent" -> {"cleanup_observed", "cleanup_failed", "recovery_intent"}
      [] e = "recovery_intent" -> {"recovery_observed", "cleanup_failed", "recovery_intent"}
      [] e = "cleanup_failed" -> {"recovery_intent"}
      [] e = "cleanup_observed" -> {"export_intent"}
      [] e = "export_intent" -> {"export_observed"}
      [] OTHER -> {}]

ValidOrder(j) ==
    /\ j[1] = "configure_intent"
    /\ \A i \in 1..Len(j) - 1 : j[i + 1] \in Allowed[j[i]]

\* the events that tell how a cleanup ended
Done == {"cleanup_observed", "recovery_observed"}
Outcomes == Done \cup {"cleanup_failed"}

\* the last event of the journal that tells how the cleanup ended is one of es
CleanupEnded(j, es) ==
    \E i \in DOMAIN j :
        /\ j[i] \in es
        /\ \A k \in DOMAIN j : k > i => j[k] \notin Outcomes

Terminal(j) == CleanupEnded(j, Done)

Recorded == {t \in Txs : journal[t] # <<>>}

Unfinished == {t \in Recorded : ~Terminal(journal[t])}

\* reserve_transaction: room for a whole transaction beside what is recorded
HasRoom == old + FoldFunctionOnSet(LAMBDA j, n : Len(j) + n, 0, journal, Txs) + Reserve <= Capacity

Fault == faults < MaxFaults /\ faults' = faults + 1

\* _publish_new: link a new file under the next sequence number
Linked(e) == ~behind /\ journal' = [journal EXCEPT ![tx] = Append(@, e)]

Appended(e) == Linked(e) /\ UNCHANGED <<residue, faults>>

\* It fails before the link. It also fails when a late failure left the
\* sequence number in memory behind: the name exists.
NotAppended(e) ==
    /\ (IF behind THEN UNCHANGED faults ELSE Fault)
    /\ UNCHANGED <<journal, residue>>

\* It fails after the link, in the verification or in the removal of the
\* temporary file.
AppendedLate(e) == Linked(e) /\ Fault /\ residue' \in {residue, TRUE}

AppendFails(e) == NotAppended(e) \/ AppendedLate(e)

\* the failure of an append in a call that goes on
AppendFailsAndGoesOn(e) ==
    \/ NotAppended(e) /\ UNCHANGED behind
    \/ AppendedLate(e) /\ behind' = TRUE

\* _mark_journal_failure: the process remembers, the marker file may not be written
MarkFailure == failed' = TRUE /\ marker' \in {marker, TRUE}

\* the marker alone, written by recover
MarkSafely == marker' \in {marker, TRUE} /\ UNCHANGED failed

-----------------------------------------------------------------------------
(* The target.                                                             *)

\* _cleanup_and_verify: PERF.DISable, then the target has to run with PERF off
CleanupDone == perf' = "disabled" /\ UNCHANGED faults

CleanupFailed == Fault /\ perf' \in {perf, "disabled"}

\* _configure: reset PERF, select mode and method, initialise
Configure == perf = "disabled" /\ perf' = "off"

\* PERF.Arm
Arm == perf' = "armed"

\* PERF.OFF
Stop == perf' = "off"

\* _histogram: the target state must not have drifted; every bucket is read
ReadHistogram == UNCHANGED perf

\* publish_histogram under a name that was never used
PublishHistogram == staged' = [staged EXCEPT ![sess] = @ \cup {tx}]

\* what a step of the capture does besides journaling
Work(step) ==
    CASE step = "CONFIGURE" -> Configure /\ UNCHANGED staged
      [] step = "ARM" -> Arm /\ UNCHANGED staged
      [] step = "STOP" -> Stop /\ UNCHANGED staged
      [] step = "HISTOGRAM" -> ReadHistogram /\ UNCHANGED staged
      [] step = "PUBLISH" -> PublishHistogram /\ UNCHANGED perf
      [] step \in {"SLEEP", "VALIDATE"} -> UNCHANGED <<perf, staged>> \* deadline, schema

\* it raises, with or without its effect
WorkFailed(step) == Fault /\ (Work(step) \/ UNCHANGED <<perf, staged>>)

-----------------------------------------------------------------------------
(* The sidecar's capture call.                                             *)

Init ==
    /\ journal = [t \in Txs |-> <<>>]
    /\ old \in OldEvents
    /\ residue = FALSE /\ marker = FALSE
    /\ perf = "disabled"
    /\ lease = None
    /\ pc = "idle" /\ tx = NoTx /\ sess = None /\ todo = {}
    /\ behind = FALSE /\ durable = FALSE /\ authorized = FALSE
    /\ auth \in BOOLEAN /\ failed = FALSE
    /\ status = [s \in Sessions |-> "created"]
    /\ staged = [s \in Sessions |-> {}]
    /\ receipt = [s \in Sessions |-> NoTx]
    /\ histogram = [s \in Sessions |-> NoTx]
    /\ hpc = "idle" /\ hsess = None /\ hfile = NoTx
    /\ faults = 0

\* the call returns or raises: both locks are released
Return ==
    /\ pc' = "idle" /\ tx' = NoTx /\ sess' = None /\ todo' = {}
    /\ behind' = FALSE /\ durable' = FALSE /\ authorized' = FALSE
    /\ lease' = None

Goto(step) ==
    /\ pc' = step
    /\ UNCHANGED <<tx, sess, todo, durable, authorized, lease>>

\* mutant: an export that is already staged is overlooked
CreatedOnly(s) == status[s] = "created"

\* SessionCaptureLease: a Session still created, and nothing exported to it
MayCapture(s) == status[s] = "created" /\ staged[s] = {}

\* ExecutionLease: one holder per artifact root, refused without waiting
TakeLease(holder) == lease = None /\ lease' = holder

\* _load_events refuses a directory with anything but event files
JournalLoads == ~residue

\* a failure remembered by the process or by the marker file needs authorization
Healthy(authorization) == (failed \/ marker) => authorization

\* capture up to the recovery: leases, journal opened, authorization consumed
BeginCapture(s) ==
    /\ pc = "idle"
    /\ TakeLease("sidecar")
    /\ MayCapture(s)
    /\ JournalLoads
    /\ Healthy(auth)
    /\ authorized' = auth /\ auth' = FALSE
    /\ pc' = "recover" /\ todo' = Recorded
    /\ sess' = s /\ tx' = NoTx /\ behind' = FALSE /\ durable' = FALSE
    /\ UNCHANGED <<disk, perf, failed, store, host, faults>>

\* an exception that leaves recover: capture marks the failure and re-raises
RecoverRaises == MarkFailure /\ Return

\* mutant: only a transaction whose very last event is terminal is finished
LastEventTerminal(t) == Last(journal[t]) \in {"cleanup_observed", "recovery_observed"}

\* the transactions recover leaves alone
NothingToRecover(t) == Terminal(journal[t])

\* the transactions recover refuses to clean up
RecoverRefuses(t) ==
    \/ ~ValidOrder(journal[t])
    \/ ~NothingToRecover(t) /\ CleanupEnded(journal[t], {"cleanup_failed"}) /\ ~authorized
    \/ ~NothingToRecover(t) /\ ~HasRoom

RecoverVisit(t) ==
    /\ pc = "recover" /\ t \in todo
    /\ UNCHANGED <<journal, old, residue, perf, auth, store, host, faults>>
    /\ \/ /\ RecoverRefuses(t)
          /\ RecoverRaises
       \/ /\ ~RecoverRefuses(t) /\ NothingToRecover(t)
          /\ todo' = todo \ {t}
          /\ UNCHANGED <<pc, tx, sess, behind, durable, authorized, lease, marker, failed>>
       \/ /\ ~RecoverRefuses(t) /\ ~NothingToRecover(t)
          /\ pc' = "r_intent" /\ tx' = t /\ behind' = FALSE
          /\ UNCHANGED <<sess, todo, durable, authorized, lease, marker, failed>>

RecoverIntent ==
    /\ pc = "r_intent"
    /\ pc' = "r_disable"
    /\ \/ /\ Appended("recovery_intent") /\ durable' = TRUE
          /\ UNCHANGED <<behind, marker, failed>>
       \/ AppendFailsAndGoesOn("recovery_intent") /\ durable' = FALSE /\ MarkSafely
    /\ UNCHANGED <<old, perf, lease, tx, sess, todo, authorized, auth, store, host>>

RecoverDisable ==
    /\ pc = "r_disable"
    /\ \/ CleanupDone /\ durable /\ Goto("r_observed") /\ UNCHANGED <<behind, marker, failed>>
       \/ CleanupDone /\ ~durable /\ RecoverRaises
       \/ CleanupFailed /\ Goto("r_failed") /\ UNCHANGED <<behind, marker, failed>>
    /\ UNCHANGED <<journal, old, residue, auth, store, host>>

\* cleanup_failed is appended whether or not the intent became durable
RecoverFailed ==
    /\ pc = "r_failed"
    /\ Appended("cleanup_failed") \/ AppendFails("cleanup_failed")
    /\ RecoverRaises
    /\ UNCHANGED <<old, perf, auth, store, host>>

RecoverObserved ==
    /\ pc = "r_observed"
    /\ \/ /\ Appended("recovery_observed")
          /\ pc' = "recover" /\ todo' = todo \ {tx} /\ durable' = FALSE
          /\ UNCHANGED <<tx, sess, behind, authorized, lease, marker, failed>>
       \/ AppendFails("recovery_observed") /\ RecoverRaises
    /\ UNCHANGED <<old, perf, auth, store, host>>

\* every transaction was visited: an authorized recovery clears the failure
RecoverDone ==
    /\ pc = "recover" /\ todo = {}
    /\ \/ /\ marker' = (marker /\ ~authorized)
          /\ failed' = (failed /\ ~authorized)
          /\ Goto("admit") /\ UNCHANGED <<behind, faults>>
       \/ authorized /\ marker /\ Fault /\ RecoverRaises
    /\ UNCHANGED <<journal, old, residue, perf, auth, store, host>>

\* refuse PERF that is active without an owned transaction, or a target that
\* does not run; otherwise reserve room and take a new transaction identifier
Admit ==
    /\ pc = "admit"
    /\ \/ Return /\ UNCHANGED <<marker, failed>>
       \/ perf = "disabled" /\ ~HasRoom /\ MarkFailure /\ Return
       \/ /\ perf = "disabled" /\ HasRoom
          /\ \E t \in Txs \ Recorded :
               /\ \A u \in Txs \ Recorded : t <= u
               /\ tx' = t /\ pc' = Capture[1]
          /\ UNCHANGED <<sess, todo, behind, durable, authorized, lease, marker, failed>>
    /\ UNCHANGED <<journal, old, residue, perf, auth, store, host, faults>>

Position == CHOOSE i \in DOMAIN Capture : Capture[i] = pc

\* Where an exception takes the call: the finally clause cleans up when the
\* configure intent is durable and the cleanup was not observed.
Finally ==
    CASE pc = "configure_intent" -> "idle"
      [] pc \in {"cleanup_observed", "VALIDATE", "export_intent", "PUBLISH", "export_observed"} -> "idle"
      [] pc = "CLEANUP" -> "f_failed"
      [] OTHER -> "f_intent"

\* the call takes its next step; the last one returns the histogram
Advance ==
    IF pc = Last(Capture) THEN Return
    ELSE Goto(Capture[Position + 1]) /\ UNCHANGED behind

CaptureAppend ==
    /\ pc \in Events
    /\ \/ Appended(pc) /\ Advance /\ UNCHANGED <<marker, failed>>
       \/ Finally = "idle" /\ AppendFails(pc) /\ MarkFailure /\ Return
       \/ Finally # "idle" /\ AppendFailsAndGoesOn(pc) /\ MarkFailure /\ Goto(Finally)
    /\ UNCHANGED <<old, perf, auth, store, host>>

CaptureWork ==
    /\ pc \in Range(Capture) \ (Events \cup {"CLEANUP"})
    /\ \/ Work(pc) /\ UNCHANGED faults /\ Advance
       \/ WorkFailed(pc) /\ Finally = "idle" /\ Return
       \/ WorkFailed(pc) /\ Finally # "idle" /\ Goto(Finally) /\ UNCHANGED behind
    /\ UNCHANGED <<disk, process, status, receipt, histogram, host>>

CaptureCleanup ==
    /\ pc = "CLEANUP"
    /\ \/ CleanupDone /\ Advance
       \/ CleanupFailed /\ Goto(Finally) /\ UNCHANGED behind
    /\ UNCHANGED <<disk, process, store, host>>

FinallyIntent ==
    /\ pc = "f_intent"
    /\ pc' = "f_cleanup"
    /\ \/ Appended("cleanup_intent") /\ durable' = TRUE /\ UNCHANGED <<behind, marker, failed>>
       \/ AppendFailsAndGoesOn("cleanup_intent") /\ durable' = FALSE /\ MarkFailure
    /\ UNCHANGED <<old, perf, lease, tx, sess, todo, authorized, auth, store, host>>

\* without a durable intent the outcome is not journaled
FinallyCleanup ==
    /\ pc = "f_cleanup"
    /\ \/ CleanupDone /\ durable /\ Goto("f_observed") /\ UNCHANGED behind
       \/ CleanupFailed /\ durable /\ Goto("f_failed") /\ UNCHANGED behind
       \/ (CleanupDone \/ CleanupFailed) /\ ~durable /\ Return
    /\ UNCHANGED <<disk, process, store, host>>

\* mutant: the outcome is journaled as observed even when the cleanup failed
ObservedAnyway ==
    /\ pc \in {"f_observed", "f_failed"}
    /\ Appended("cleanup_observed") /\ Return
    /\ UNCHANGED <<old, marker, perf, process, store, host>>

FinallyOutcome ==
    /\ pc \in {"f_observed", "f_failed"}
    /\ LET e == IF pc = "f_observed" THEN "cleanup_observed" ELSE "cleanup_failed" IN
         \/ Appended(e) /\ UNCHANGED <<marker, failed>>
         \/ AppendFails(e) /\ MarkFailure
    /\ Return
    /\ UNCHANGED <<old, perf, auth, store, host>>

\* the event the sidecar is about to append, if any
Appending ==
    CASE pc \in Events -> {pc}
      [] pc = "r_intent" -> {"recovery_intent"}
      [] pc = "r_observed" -> {"recovery_observed"}
      [] pc = "f_intent" -> {"cleanup_intent"}
      [] pc = "f_observed" -> {"cleanup_observed"}
      [] pc \in {"r_failed", "f_failed"} -> {"cleanup_failed"}
      [] OTHER -> {}

\* The process dies. Within an append it leaves the temporary file behind,
\* before or after the link. The next process is started with or without
\* --recover-quarantined.
SidecarCrash ==
    /\ pc # "idle" /\ Fault
    /\ \/ UNCHANGED <<journal, residue>>
       \/ Appending # {} /\ residue' = TRUE /\ UNCHANGED journal
       \/ residue' = TRUE /\ \E e \in Appending : Linked(e)
    /\ Return
    /\ failed' = FALSE /\ auth' \in BOOLEAN
    /\ UNCHANGED <<old, marker, perf, store, host>>

\* an operator restarts the sidecar between calls
Restart ==
    /\ pc = "idle"
    /\ failed' = FALSE /\ auth' \in BOOLEAN
    /\ UNCHANGED <<disk, perf, lease, call, store, host, faults>>

-----------------------------------------------------------------------------
(* The host.                                                               *)

\* what validate_quarantine_projection accepts before each event
HostBefore == [e \in Events |->
    LET running == {"configure_intent", "configure_observed", "start_intent",
                    "start_observed", "stop_intent", "stop_observed"}
    IN CASE e = "configure_observed" -> {"configure_intent"}
         [] e = "start_intent" -> {"configure_observed"}
         [] e = "start_observed" -> {"start_intent"}
         [] e = "stop_intent" -> {"start_observed"}
         [] e = "stop_observed" -> {"stop_intent"}
         [] e = "cleanup_intent" -> running
         [] e = "recovery_intent" -> running \cup Intents \cup {"cleanup_failed"}
         [] e = "cleanup_observed" -> {"cleanup_intent"}
         [] e = "cleanup_failed" -> Intents
         [] e = "recovery_observed" -> {"recovery_intent"}
         [] e = "export_intent" -> {"cleanup_observed"}
         [] e = "export_observed" -> {"export_intent"}
         [] OTHER -> {}]

HostValid(j) ==
    /\ j[1] = "configure_intent"
    /\ \A i \in 2..Len(j) : j[i - 1] \in HostBefore[j[i]]

\* mutant: only an explicit cleanup failure quarantines the endpoint
ClearUnlessFailed ==
    ~residue /\ \A t \in Recorded : HostValid(journal[t]) /\ ~CleanupEnded(journal[t], {"cleanup_failed"})

\* ensure_endpoint_not_quarantined
EndpointClear ==
    /\ ~residue
    /\ \A t \in Recorded : HostValid(journal[t]) /\ Terminal(journal[t])

\* any other TRACE32 driver of the deployment takes the lease
DriverAcquire ==
    /\ TakeLease("driver") /\ EndpointClear
    /\ UNCHANGED <<disk, perf, call, process, store, host, faults>>

DriverRelease ==
    /\ lease = "driver"
    /\ lease' = None
    /\ UNCHANGED <<disk, perf, call, process, store, host, faults>>

\* the one journal transaction that proves the staged file is a ten-event success
ProvesExport(h) == journal[h] = Success

HostReturn == hpc' = "idle" /\ hsess' = None /\ hfile' = NoTx /\ lease' = None

\* ingest up to the committed receipt; an existing receipt has to be the same
IngestBegin(s, h) ==
    /\ TakeLease("ingest") /\ EndpointClear
    /\ sess # s
    /\ status[s] \in {"created", "capturing", "captured"}
    /\ h \in staged[s] /\ ProvesExport(h)
    /\ receipt[s] \in {NoTx, h}
    /\ receipt' = [receipt EXCEPT ![s] = h]
    /\ hpc' = "receipted" /\ hsess' = s /\ hfile' = h
    /\ UNCHANGED <<disk, perf, call, process, status, staged, histogram, faults>>

IngestCapturing ==
    /\ hpc = "receipted"
    /\ hpc' = "capturing"
    /\ status' = [status EXCEPT ![hsess] = IF @ = "created" THEN "capturing" ELSE @]
    /\ UNCHANGED <<disk, perf, lease, call, process, staged, receipt, histogram, hsess, hfile, faults>>

\* commit the histogram; a failure is left to a retry or ends the Session
IngestHistogram ==
    /\ hpc = "capturing"
    /\ \/ /\ histogram[hsess] \in {NoTx, hfile}
          /\ histogram' = [histogram EXCEPT ![hsess] = hfile]
          /\ hpc' = "committed"
          /\ UNCHANGED <<lease, hsess, hfile, status, faults>>
       \/ /\ Fault /\ HostReturn
          /\ status' \in {status, [status EXCEPT ![hsess] = "failed"]}
          /\ UNCHANGED histogram
    /\ UNCHANGED <<disk, perf, call, process, staged, receipt>>

IngestCaptured ==
    /\ hpc = "committed"
    /\ status' = [status EXCEPT ![hsess] = "captured"]
    /\ HostReturn
    /\ UNCHANGED <<disk, perf, call, process, staged, receipt, histogram, faults>>

HostCrash ==
    /\ hpc # "idle" /\ Fault
    /\ HostReturn
    /\ UNCHANGED <<disk, perf, call, process, store>>

\* another host command ends a Session that no process has locked
HostFails(s) ==
    /\ sess # s /\ hsess # s /\ status[s] = "created"
    /\ status' = [status EXCEPT ![s] = "failed"]
    /\ UNCHANGED <<disk, perf, lease, call, process, staged, receipt, histogram, host, faults>>

-----------------------------------------------------------------------------
(* Someone else uses PERF. The endpoint is single-tenant, so only while the *)
(* journal shows no unfinished sampling and nobody holds the lease.         *)

ForeignStart ==
    /\ perf = "disabled" /\ lease = None /\ Unfinished = {} /\ ~residue
    /\ perf' = "foreign"
    /\ UNCHANGED <<disk, lease, call, process, store, host, faults>>

ForeignStop ==
    /\ perf = "foreign"
    /\ perf' = "disabled"
    /\ UNCHANGED <<disk, lease, call, process, store, host, faults>>

Sidecar ==
    \/ \E s \in Sessions : BeginCapture(s)
    \/ \E t \in Txs : RecoverVisit(t)
    \/ RecoverIntent \/ RecoverDisable \/ RecoverFailed \/ RecoverObserved \/ RecoverDone
    \/ Admit \/ CaptureAppend \/ CaptureWork \/ CaptureCleanup
    \/ FinallyIntent \/ FinallyCleanup \/ FinallyOutcome
    \/ SidecarCrash \/ Restart

Host ==
    \/ DriverAcquire \/ DriverRelease
    \/ \E s \in Sessions : HostFails(s) \/ \E h \in Txs : IngestBegin(s, h)
    \/ IngestCapturing \/ IngestHistogram \/ IngestCaptured \/ HostCrash

Next == Sidecar \/ Host \/ ForeignStart \/ ForeignStop

Spec == Init /\ [][Next]_vars

-----------------------------------------------------------------------------
(* Properties.                                                             *)

\* PERF that the sidecar configured or armed is always accounted for by an
\* unfinished transaction on disk: after any crash the next recovery finds it
\* and every other driver is kept off (storage.py recover, sampling.rs
\* ensure_endpoint_not_quarantined).  There is never a second unfinished one: a
\* capture that could not be cleaned up blocks the next until a recovery ended it.
ActiveIsJournaled ==
    /\ perf \in {"off", "armed"} => Unfinished # {}
    /\ Cardinality(Unfinished) <= 1

\* The sidecar never disables PERF that someone else started ("refusing a
\* non-owned cleanup"): recover leaves finished transactions alone.
ForeignUntouched == [][perf = "foreign" /\ perf' # "foreign" => ForeignStop]_vars

\* While another driver or an ingest holds the lease, the target is not being
\* sampled and the sidecar is at rest, whatever crashed before.
DriverFindsIdleTarget ==
    lease \in {"driver", "ingest"} => pc = "idle" /\ perf \notin {"off", "armed"}

\* A captured Session has the histogram of one complete transaction, which
\* stopped sampling and cleaned up before it exported; its receipt names the
\* same file and nothing else was exported to the Session.
CapturedIsProven ==
    \A s \in Sessions : status[s] = "captured" =>
        /\ histogram[s] # NoTx /\ receipt[s] = histogram[s]
        /\ journal[histogram[s]] = Success
        /\ staged[s] = {histogram[s]}

\* reserve_transaction: "Reserve durable space for all normal and cleanup
\* journal outcomes." A transaction that is unfinished between calls can
\* therefore be recovered: its order is accepted and there is room.
RecoveryAdmitted ==
    pc = "idle" => \A t \in Unfinished : ValidOrder(journal[t]) /\ HasRoom
=============================================================================
