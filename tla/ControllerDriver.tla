-------------------------- MODULE ControllerDriver --------------------------
(***************************************************************************)
(* One Controller transaction and the commands that drive it: the          *)
(* Controller driver (src/controller_driver), the host documents it reads  *)
(* and writes (src/controller.rs), the append-only crash journal           *)
(* (src/controller_journal.rs) and the root-wide execution lease.          *)
(*                                                                         *)
(* A command is split at its durable writes and at its calls outside the   *)
(* host.  Between two of them it may be interrupted (a crash, a timeout of *)
(* the driver's budget, a failed revalidation, an I/O error): the lease is *)
(* dropped, the documents stay.  Every document is a store artifact, so    *)
(* writing one is a single step here (module SessionStore looks inside).   *)
(***************************************************************************)
EXTENDS Naturals, FiniteSets

CONSTANTS
    Procs,      \* host processes and threads that run commands
    Requests,   \* the requests that may be prepared, a subset of AllRequests
    Reasons,    \* the reasons an operator gives for an abort
    None

Req(op, fault) == [op |-> op, fault |-> fault]

\* Operation and fault action of an immutable request.  A fault action belongs
\* to one operation.  Of the requests without a fault, configure is the one that a
\* script may reject and start the one that a workload follows; all of these name
\* a target.
AllRequests ==
    { Req("configure", "none"), Req("start", "none"),
      Req("start", "cmm"), Req("stop", "trace32"), Req("export", "driver") }

AbortReasons == {"operator_request", "timeout", "transport_failure"}

\* What the bytes of a final script response amount to for acceptance.
Replies == {"ok", "rejected", "bad"}

\* The staging file can also hold the wrapper of a script that still runs.
StagedValues == Replies \cup {"unfinished"}

Events ==
    { "DispatchIntent", "FaultIntent", "FaultTriggered", "AbortAttempt",
      "AbortSuccessObserved", "WorkloadIntent", "WorkloadComplete" }

\* Events that carry the identity and the reason of the abort plan.
PlanBound == {"FaultTriggered", "AbortAttempt", "AbortSuccessObserved"}

Effects == {"execute", "fault", "abort", "workload"}

ASSUME RequestsAssumption == Requests \subseteq AllRequests
ASSUME ReasonsAssumption == Reasons \subseteq AbortReasons
ASSUME NoneAssumption ==
    /\ None \notin Procs
    /\ None \notin {"drive", "drive_transaction", "abort_upstream", "accept", "confirm_abort"}
    /\ None \notin AllRequests
    /\ None \notin AbortReasons
    /\ None \notin StagedValues

VARIABLES
    \* documents of the transaction
    request,        \* the immutable request, None before it is prepared
    journal,        \* events of the crash journal
    plan,           \* the abort plan: the reason it binds
    receipt,        \* the abort receipt exists
    staged,         \* the response staging file
    raw,            \* the ingested raw response artifact
    response,       \* the accepted response
    stopPrepared,   \* the Stop request that follows an accepted Start exists
    \* Session and root
    strict,         \* the Session is a strict performance run
    capturing,      \* the accepted Start has moved the Session to Capturing
    failed,         \* the Session state is Failed
    quarantine,     \* durable quarantine records, active or in history
    \* the world outside the host
    script,         \* the PRACTICE script of this transaction
    effects,        \* how often the driver caused each effect
    operatorAborted,\* an operator has called the abort tool by hand
    \* volatile
    lease,          \* holder of the root-wide execution lease
    job             \* what each process is doing

documents == <<request, journal, plan, receipt, staged, raw, response, stopPrepared>>
session == <<strict, capturing, failed, quarantine>>
world == <<script, effects, operatorAborted>>
host == <<lease, job>>
vars == <<documents, session, world, host>>

-----------------------------------------------------------------------------
(* Commands *)

\* A command that keeps the lease over several steps.  live: this command has
\* itself dispatched the request (live_dispatches).
Commands == {"drive", "drive_transaction", "abort_upstream", "accept", "confirm_abort"}

Labels ==
    { "idle", "surface", "dispatch_intent", "execute", "collect", "stage",
      "accept", "ingest", "respond", "reconcile", "fault_intent", "plan_fault", "fault",
      "fault_triggered", "plan", "official_abort", "abort_attempt",
      "abort_tool", "abort_success", "receipt", "quarantine_endpoint",
      "quarantine_target", "fail_session", "workload_intent", "workload",
      "workload_complete", "prepare_stop" }

Job == [ cmd : Commands \cup {None}, pc : Labels, live : BOOLEAN,
         reason : AbortReasons \cup {None}, reply : Replies \cup {None} ]

Idle == [cmd |-> None, pc |-> "idle", live |-> FALSE, reason |-> None, reply |-> None]

At(p, l) == job[p].pc = l

Goto(p, l) == job' = [job EXCEPT ![p].pc = l] /\ UNCHANGED lease

\* The command ends, successfully or not, and its lease is dropped.
Return(p) == job' = [job EXCEPT ![p] = Idle] /\ lease' = None

\* Mutant of Begin: the lease is not exclusive.
BeginShared(p, cmd, l, reason) ==
    /\ At(p, "idle")
    /\ lease' = p
    /\ job' = [job EXCEPT ![p] = [Idle EXCEPT !.cmd = cmd, !.pc = l, !.reason = reason]]

\* Every command first takes the root-wide lease; contention is an error.
Begin(p, cmd, l, reason) ==
    /\ At(p, "idle")
    /\ lease = None
    /\ lease' = p
    /\ job' = [job EXCEPT ![p] = [Idle EXCEPT !.cmd = cmd, !.pc = l, !.reason = reason]]

\* Commands that consist of one durable write hold it only for that step.
LeaseFree(p) == At(p, "idle") /\ lease = None

-----------------------------------------------------------------------------
(* What the host derives from the documents *)

Prepared == request # None

Closed == receipt /\ failed /\ "endpoint" \in quarantine

\* root_active_transaction: the transaction owns the single endpoint.
Owner == Prepared /\ response = None /\ ~Closed

AbortStarted ==
    \/ plan # None
    \/ journal \cap {"AbortAttempt", "AbortSuccessObserved"} # {}
    \/ receipt

\* Which raw responses accept turns into an accepted response.
Acceptable(reply) ==
    /\ request.fault = "none"
    /\ reply = "ok" \/ (reply = "rejected" /\ request.op = "configure")

\* The accepted Start whose workload and Stop come next.  Its journal is read
\* without the abort plan, which plan-bound events do not survive.
WorkloadPhase ==
    /\ Prepared
    /\ request.op = "start"
    /\ response = "ok"
    /\ ~receipt
    /\ journal \cap PlanBound = {}

\* ensure_driver_workload_completion_proven
WorkloadProven ==
    /\ "WorkloadIntent" \in journal => "WorkloadComplete" \in journal
    /\ strict => "WorkloadComplete" \in journal

-----------------------------------------------------------------------------
Init ==
    /\ request = None
    /\ journal = {}
    /\ plan = None
    /\ receipt = FALSE
    /\ staged = None
    /\ raw = None
    /\ response = None
    /\ stopPrepared = FALSE
    /\ strict \in BOOLEAN
    /\ capturing = FALSE
    /\ failed = FALSE
    /\ quarantine = {}
    /\ script = "idle"
    /\ effects = [e \in Effects |-> 0]
    /\ operatorAborted = FALSE
    /\ lease = None
    /\ job = [p \in Procs |-> Idle]

-----------------------------------------------------------------------------
(* Commands of one durable write, and the starts of the others *)

\* controller prepare, or perf_capture without a pending transaction.
Prepare(p) ==
    /\ LeaseFree(p)
    /\ ~Prepared
    /\ request' \in Requests
    /\ UNCHANGED <<journal, plan, receipt, staged, raw, response, stopPrepared, session, world, host>>

\* The gate of a Stop request, for every way to prepare one.
StopPreparable ==
    /\ WorkloadPhase
    /\ ~stopPrepared
    /\ capturing
    /\ ~failed
    /\ WorkloadProven

\* controller prepare of Stop, or perf_capture --workload-complete.
PrepareStopByHand(p) ==
    /\ LeaseFree(p)
    /\ StopPreparable
    /\ stopPrepared' = TRUE
    /\ UNCHANGED <<request, journal, plan, receipt, staged, raw, response, session, world, host>>

\* controller::abort.  An exact retry succeeds; a plan binds its reason.
AbortPlannable(reason) ==
    /\ Prepared
    /\ response = None
    /\ \/ plan = reason
       \/ plan = None /\ Owner /\ ~failed

PlanAbortByHand(p, reason) ==
    /\ LeaseFree(p)
    /\ AbortPlannable(reason)
    /\ plan' = reason
    /\ UNCHANGED <<request, journal, receipt, staged, raw, response, stopPrepared, session, world, host>>

Accept(p) ==
    /\ Prepared
    /\ Begin(p, "accept", "accept", None)
    /\ UNCHANGED <<documents, session, world>>

\* An operator confirms an abort that he has performed by hand.
ConfirmAbort(p) ==
    /\ plan # None
    /\ operatorAborted
    /\ Begin(p, "confirm_abort", "receipt", None)
    /\ UNCHANGED <<documents, session, world>>

AbortUpstream(p, reason) ==
    /\ Prepared
    /\ response = None
    /\ Begin(p, "abort_upstream", "plan", reason)
    /\ UNCHANGED <<documents, session, world>>

Drive(p) ==
    /\ Begin(p, "drive", "surface", None)
    /\ UNCHANGED <<documents, session, world>>

\* The restart decision of a transaction without a fault action.
NormalStart ==
    IF AbortStarted \/ "DispatchIntent" \in journal THEN "plan" ELSE "dispatch_intent"

\* Mutant of FaultStart: a fault intent always leads to the abort.
FaultStartAborts(fresh) ==
    IF AbortStarted \/ "FaultIntent" \in journal THEN "plan" ELSE fresh

\* Requests with a fault action share the first part of the decision: an intent
\* without its trigger is ambiguous unless an abort has gone beyond its plan.
FaultStart(fresh) ==
    IF "FaultIntent" \in journal THEN
        IF \/ journal \cap {"AbortAttempt", "AbortSuccessObserved", "FaultTriggered"} # {}
           \/ receipt
        THEN "plan" ELSE "ambiguous"
    ELSE IF AbortStarted THEN "plan" ELSE fresh

\* drive_cmm_abort_transaction: intent of the fault, of the dispatch, execution.
CmmStart == FaultStart(IF "DispatchIntent" \in journal THEN "plan" ELSE "fault_intent")

\* drive_trace32_disconnect_transaction: nothing is dispatched.
Trace32Start == FaultStart("fault_intent")

\* drive_driver_disconnect_transaction: dispatched first, then disconnected.
DriverStart == FaultStart(IF "DispatchIntent" \in journal THEN "plan" ELSE "dispatch_intent")

TransactionStart ==
    IF response # None \/ staged # None THEN "accept"
    ELSE CASE request.fault = "none" -> NormalStart
           [] request.fault = "cmm" -> CmmStart
           [] request.fault = "trace32" -> Trace32Start
           [] request.fault = "driver" -> DriverStart

\* Recovery replays the plan with the reason transport_failure.
DriveTransaction(p) ==
    /\ Prepared
    /\ TransactionStart # "ambiguous"
    /\ Begin(p, "drive_transaction", TransactionStart, "transport_failure")
    /\ UNCHANGED <<documents, session, world>>

-----------------------------------------------------------------------------
(* drive_surface_core: one turn of its loop *)

SurfacePrepare(p) ==
    /\ At(p, "surface")
    /\ ~Prepared
    /\ \E q \in Requests : q.fault = "none" /\ request' = q
    /\ Goto(p, "dispatch_intent")
    /\ UNCHANGED <<journal, plan, receipt, staged, raw, response, stopPrepared, session, world>>

\* A pending transaction; only the process that dispatched it may collect.
Pending(p) ==
    /\ At(p, "surface")
    /\ Prepared
    /\ request.fault = "none"
    /\ response = None
    /\ ~receipt

Dispatched(p) == job[p].live /\ "DispatchIntent" \in journal

SurfacePending(p) ==
    /\ Pending(p)
    /\ \/ staged # None /\ Goto(p, "accept")
       \/ staged = None /\ Dispatched(p) /\ Goto(p, "collect")
    /\ UNCHANGED <<documents, session, world>>

\* recover_abandoned_dispatch, recover_preexisting_abort
SurfaceRecover(p) ==
    /\ Pending(p)
    /\ staged = None
    /\ ~Dispatched(p)
    /\ job' = [job EXCEPT ![p].pc = "plan", ![p].reason = "transport_failure"]
    /\ UNCHANGED <<documents, session, world, lease>>

\* RunWorkload: finished before, or never selected; an intent alone is ambiguous.
SurfaceWorkload(p) ==
    /\ At(p, "surface")
    /\ WorkloadPhase
    /\ request.fault = "none"
    /\ ~stopPrepared
    /\ \/ "WorkloadComplete" \in journal /\ Goto(p, "prepare_stop")
       \/ "WorkloadIntent" \notin journal /\ Goto(p, "workload_intent")
    /\ UNCHANGED <<documents, session, world>>

\* The rest of the capture chain runs in transactions of its own.
SurfaceDone(p) ==
    /\ At(p, "surface")
    /\ response # None
    /\ ~receipt
    /\ request.op # "start" \/ stopPrepared
    /\ Return(p)
    /\ UNCHANGED <<documents, session, world>>

-----------------------------------------------------------------------------
(* Journal *)

\* record_driver_transaction_event: an exact retry is accepted; a new event
\* needs a pending transaction and what the kind of event builds on.
Recordable(event) ==
    /\ event \in PlanBound => plan # None
    /\ \/ event \in journal
       \/ /\ response = None
          /\ Owner
          /\ CASE event = "FaultIntent" -> request.fault # "none"
               [] event = "FaultTriggered" -> "FaultIntent" \in journal
               [] event = "AbortSuccessObserved" -> "AbortAttempt" \in journal
               [] OTHER -> TRUE

Record(p, at, event, next) ==
    /\ At(p, at)
    /\ Recordable(event)
    /\ journal' = journal \cup {event}
    /\ Goto(p, next)
    /\ UNCHANGED <<request, plan, receipt, staged, raw, response, stopPrepared, session, world>>

RecordDispatchIntent(p) ==
    Record(p, "dispatch_intent", "DispatchIntent", "execute")

RecordFaultIntent(p) ==
    Record(p, "fault_intent", "FaultIntent",
           IF request.fault = "cmm" THEN "dispatch_intent" ELSE "plan_fault")

RecordFaultTriggered(p) ==
    Record(p, "fault_triggered", "FaultTriggered", "official_abort")

RecordAbortAttempt(p) ==
    Record(p, "abort_attempt", "AbortAttempt", "abort_tool")

RecordAbortSuccess(p) ==
    Record(p, "abort_success", "AbortSuccessObserved", "receipt")

\* record_driver_workload_event has rules of its own.
RecordWorkload(p, at, event, next) ==
    /\ At(p, at)
    /\ WorkloadPhase
    /\ event = "WorkloadComplete" => "WorkloadIntent" \in journal
    /\ journal' = journal \cup {event}
    /\ Goto(p, next)
    /\ UNCHANGED <<request, plan, receipt, staged, raw, response, stopPrepared, session, world>>

RecordWorkloadIntent(p) ==
    RecordWorkload(p, "workload_intent", "WorkloadIntent", "workload")

RecordWorkloadComplete(p) ==
    RecordWorkload(p, "workload_complete", "WorkloadComplete", "prepare_stop")

-----------------------------------------------------------------------------
(* Effects outside the host *)

Cause(effect) == effects' = [effects EXCEPT ![effect] = @ + 1]

\* The marker at which a CMM fault request is aborted.
CmmMarker(p) == request.fault = "cmm" /\ job' = [job EXCEPT ![p].pc = "plan_fault"]

\* What a command does with the wrapper of a script that still runs; the driver
\* disconnect has waited for it to interrupt the script.
WhileRunning(p) ==
    IF job[p].cmd = "drive" THEN "surface"
    ELSE IF request.fault = "driver" THEN "fault_intent"
    ELSE "collect"

\* A tool call returned while the script is in state s: a final wrapper, the
\* pending wrapper, or the marker.
ToolReturned(p, s) ==
    \/ /\ s # "running"
       /\ \E r \in Replies :
             job' = [job EXCEPT ![p].live = TRUE, ![p].pc = "stage", ![p].reply = r]
    \/ s = "running" /\ job' = [job EXCEPT ![p].live = TRUE, ![p].pc = WhileRunning(p)]
    \/ s = "running" /\ CmmMarker(p)

\* execute_practice_skill
Execute(p) ==
    /\ At(p, "execute")
    /\ script' \in {"running", "finished"}
    /\ Cause("execute")
    /\ ToolReturned(p, script')
    /\ UNCHANGED <<documents, session, operatorAborted, lease>>

\* collect_practice_skill_response
Collect(p) ==
    /\ At(p, "collect")
    /\ ToolReturned(p, script)
    /\ UNCHANGED <<documents, session, world, lease>>

TriggerFault(p) ==
    /\ At(p, "fault")
    /\ Cause("fault")
    /\ Goto(p, "fault_triggered")
    /\ UNCHANGED <<documents, session, script, operatorAborted>>

\* The hook that disconnects TRACE32.
RunDisconnectHook(p) == TriggerFault(p) /\ request.fault = "trace32"

\* The forced end of the t32mcp child; a replacement is started for the abort.
KillDriverChild(p) == TriggerFault(p) /\ request.fault = "driver"

Stopped(s) == IF s = "running" THEN "ended" ELSE s

\* abort_practice_skill
AbortTool(p) ==
    /\ At(p, "abort_tool")
    /\ Cause("abort")
    /\ script' = Stopped(script)
    /\ Goto(p, "abort_success")
    /\ UNCHANGED <<documents, session, operatorAborted>>

RunWorkload(p) ==
    /\ At(p, "workload")
    /\ Cause("workload")
    /\ Goto(p, "workload_complete")
    /\ UNCHANGED <<documents, session, script, operatorAborted>>

-----------------------------------------------------------------------------
(* Staging and acceptance of the response *)

\* stage_driver_response: the exact bytes are there already, or nothing is.
StageResponse(p) ==
    /\ At(p, "stage")
    /\ Owner
    /\ staged \in {None, job[p].reply}
    /\ staged' = job[p].reply
    /\ Goto(p, IF job[p].cmd = "drive" THEN "surface" ELSE "accept")
    /\ UNCHANGED <<request, journal, plan, receipt, raw, response, stopPrepared, session, world>>

\* accept: an accepted response is reconciled again; otherwise the staging file
\* is inspected unless an earlier attempt has ingested the raw response.
AcceptRaw(p) ==
    /\ At(p, "accept")
    /\ \/ /\ response # None
          /\ Goto(p, "reconcile")
       \/ /\ response = None
          /\ ~failed
          /\ raw # None
          /\ Goto(p, "respond")
       \/ /\ response = None
          /\ ~failed
          /\ raw = None
          /\ staged \in Replies
          /\ job' = [job EXCEPT ![p].pc = "ingest", ![p].reply = staged]
          /\ UNCHANGED lease
    /\ UNCHANGED <<documents, session, world>>

\* ingest_staged_bounded takes what is staged now.  If that is not what was
\* inspected the command ends, and the raw response stays what it is.
IngestRaw(p) ==
    /\ At(p, "ingest")
    /\ raw' = staged
    /\ IF staged = job[p].reply
       THEN /\ job' = [job EXCEPT ![p].pc = "respond", ![p].reply = None]
            /\ UNCHANGED lease
       ELSE Return(p)
    /\ UNCHANGED <<request, journal, plan, receipt, staged, response, stopPrepared, session, world>>

\* The response document is written; neither an abort plan nor a receipt is
\* looked at.
AcceptResponse(p) ==
    /\ At(p, "respond")
    /\ Acceptable(raw)
    /\ response' = raw
    /\ Goto(p, "reconcile")
    /\ UNCHANGED <<request, journal, plan, receipt, staged, raw, stopPrepared, session, world>>

\* reconcile_state_for_response: a rejection fails the Session; a success is
\* inconsistent with a failed one, and that of Start moves the Session on.
Reconcile(p) ==
    /\ At(p, "reconcile")
    /\ response = "ok" => ~failed
    /\ failed' = (failed \/ response = "rejected")
    /\ capturing' = (capturing \/ (request.op = "start" /\ response = "ok"))
    /\ IF job[p].cmd = "drive" THEN Goto(p, "surface") ELSE Return(p)
    /\ UNCHANGED <<documents, strict, quarantine, world>>

-----------------------------------------------------------------------------
(* Abort *)

\* ensure_abort_planned
PlanAbort(p, at, reason, next) ==
    /\ At(p, at)
    /\ AbortPlannable(reason)
    /\ plan' = reason
    /\ Goto(p, next)
    /\ UNCHANGED <<request, journal, receipt, staged, raw, response, stopPrepared, session, world>>

EnsureAbortPlanned(p) == PlanAbort(p, "plan", job[p].reason, "official_abort")

\* The CMM fault has happened at the marker.
PlanCmmAbort(p) ==
    PlanAbort(p, "plan_fault", "operator_request", "fault_triggered") /\ request.fault = "cmm"

\* The disconnect faults are triggered only under a plan.
PlanDisconnectAbort(p) ==
    PlanAbort(p, "plan_fault", "transport_failure", "fault") /\ request.fault # "cmm"

\* Mutant of OfficialAbort: an earlier attempt counts as a success.
OfficialAbortTrusting(p) ==
    /\ At(p, "official_abort")
    /\ \/ /\ receipt \/ "AbortAttempt" \in journal
          /\ Goto(p, "receipt")
       \/ /\ ~receipt
          /\ "AbortAttempt" \notin journal
          /\ Goto(p, "abort_attempt")
    /\ UNCHANGED <<documents, session, world>>

\* official_abort_and_confirm: an attempt without its observation is ambiguous
\* and ends the command.
OfficialAbort(p) ==
    /\ At(p, "official_abort")
    /\ \/ /\ receipt \/ "AbortSuccessObserved" \in journal
          /\ Goto(p, "receipt")
       \/ /\ ~receipt
          /\ journal \cap {"AbortAttempt", "AbortSuccessObserved"} = {}
          /\ Goto(p, "abort_attempt")
    /\ UNCHANGED <<documents, session, world>>

\* confirm_abort writes the receipt, two quarantine records and the state.
WriteReceipt(p) ==
    /\ At(p, "receipt")
    /\ plan # None
    /\ receipt \/ Owner
    /\ receipt' = TRUE
    /\ Goto(p, "quarantine_endpoint")
    /\ UNCHANGED <<request, journal, plan, staged, raw, response, stopPrepared, session, world>>

Quarantine(p, at, key, next) ==
    /\ At(p, at)
    /\ quarantine' = quarantine \cup {key}
    /\ Goto(p, next)
    /\ UNCHANGED <<documents, strict, capturing, failed, world>>

\* Mutant of QuarantineEndpoint: the target key is forgotten.
QuarantineEndpointOnly(p) ==
    Quarantine(p, "quarantine_endpoint", "endpoint", "fail_session")

QuarantineEndpoint(p) ==
    Quarantine(p, "quarantine_endpoint", "endpoint", "quarantine_target")

QuarantineTarget(p) ==
    Quarantine(p, "quarantine_target", "target", "fail_session")

FailSession(p) ==
    /\ At(p, "fail_session")
    /\ failed' = TRUE
    /\ Return(p)
    /\ UNCHANGED <<documents, strict, capturing, quarantine, world>>

-----------------------------------------------------------------------------
(* Stop, interruption and the environment *)

\* The driver prepares Stop; the Stop transaction is not followed further.
PrepareStop(p) ==
    /\ At(p, "prepare_stop")
    /\ StopPreparable
    /\ stopPrepared' = TRUE
    /\ Return(p)
    /\ UNCHANGED <<request, journal, plan, receipt, staged, raw, response, session, world>>

\* Crash, timeout, failed revalidation, refused check or I/O error.
Interrupt(p) ==
    /\ ~At(p, "idle")
    /\ Return(p)
    /\ UNCHANGED <<documents, session, world>>

ScriptFinishes ==
    /\ script = "running"
    /\ script' = "finished"
    /\ UNCHANGED <<documents, session, effects, operatorAborted, host>>

\* An agent that runs the request by hand delivers its response.
StageByHand ==
    /\ Prepared
    /\ staged' \in StagedValues
    /\ UNCHANGED <<request, journal, plan, receipt, raw, response, stopPrepared, session, world, host>>

\* An operator follows an abort plan by hand.
AbortByHand ==
    /\ plan # None
    /\ operatorAborted' = TRUE
    /\ script' = Stopped(script)
    /\ UNCHANGED <<documents, session, effects, host>>

-----------------------------------------------------------------------------
Steps(p) ==
    \/ SurfacePrepare(p) \/ SurfacePending(p) \/ SurfaceRecover(p)
    \/ SurfaceWorkload(p) \/ SurfaceDone(p)
    \/ RecordDispatchIntent(p) \/ Execute(p) \/ Collect(p)
    \/ StageResponse(p) \/ AcceptRaw(p) \/ IngestRaw(p) \/ AcceptResponse(p) \/ Reconcile(p)
    \/ RecordFaultIntent(p) \/ PlanCmmAbort(p) \/ PlanDisconnectAbort(p)
    \/ RunDisconnectHook(p) \/ KillDriverChild(p) \/ RecordFaultTriggered(p)
    \/ EnsureAbortPlanned(p) \/ OfficialAbort(p)
    \/ RecordAbortAttempt(p) \/ AbortTool(p) \/ RecordAbortSuccess(p)
    \/ WriteReceipt(p) \/ QuarantineEndpoint(p) \/ QuarantineTarget(p) \/ FailSession(p)
    \/ RecordWorkloadIntent(p) \/ RunWorkload(p) \/ RecordWorkloadComplete(p) \/ PrepareStop(p)

Starts(p) ==
    \/ Prepare(p) \/ PrepareStopByHand(p) \/ Accept(p) \/ ConfirmAbort(p)
    \/ Drive(p) \/ DriveTransaction(p)
    \/ \E reason \in Reasons : PlanAbortByHand(p, reason) \/ AbortUpstream(p, reason)

Environment == ScriptFinishes \/ StageByHand \/ AbortByHand

Next ==
    \/ \E p \in Procs : Starts(p) \/ Steps(p) \/ Interrupt(p)
    \/ Environment

Spec == Init /\ [][Next]_vars

-----------------------------------------------------------------------------
(* Safety *)

TypeOK ==
    /\ request \in Requests \cup {None}
    /\ journal \subseteq Events
    /\ plan \in AbortReasons \cup {None}
    /\ receipt \in BOOLEAN
    /\ staged \in StagedValues \cup {None}
    /\ raw \in StagedValues \cup {None}
    /\ response \in {"ok", "rejected", None}
    /\ stopPrepared \in BOOLEAN
    /\ strict \in BOOLEAN
    /\ capturing \in BOOLEAN
    /\ failed \in BOOLEAN
    /\ quarantine \subseteq {"endpoint", "target"}
    /\ script \in {"idle", "running", "finished", "ended"}
    /\ effects \in [Effects -> Nat]
    /\ operatorAborted \in BOOLEAN
    /\ lease \in Procs \cup {None}
    /\ job \in [Procs -> Job]

\* An abort receipt speaks of a device that is at rest: someone has seen the
\* abort succeed, and no script of this transaction runs now or can be started
\* again by a later command.
ConfirmedAbortIsQuiet ==
    receipt => /\ "AbortSuccessObserved" \in journal \/ operatorAborted
               /\ script # "running"

\* A failed Session releases the endpoint only behind its quarantine: either the
\* script itself rejected the request, or the receipt and both quarantine
\* records were durable before the state became Failed, whatever crashed or was
\* retried on the way (confirm_abort).
FailedIsQuarantined ==
    failed => response = "rejected" \/ (receipt /\ quarantine = {"endpoint", "target"})

\* Stop is never prepared over a workload that the driver has selected and not
\* seen complete, and never without a workload in a strict performance run; a
\* workload that is running excludes Stop (ensure_driver_workload_completion_proven).
StopAfterWorkload ==
    stopPrepared =>
        /\ "WorkloadIntent" \in journal => "WorkloadComplete" \in journal
        /\ strict => "WorkloadComplete" \in journal
        /\ \A p \in Procs : job[p].pc \notin {"workload_intent", "workload", "workload_complete"}

\* The abort tool is called only for a planned, unaccepted transaction, and
\* drive never aborts a fault whose side effect is unproven
\* (docs/trace32-runbook.md: "Fault intent without trigger neither replays the
\* fault nor aborts an unproven side effect").
AbortsOnlyProven ==
    [][ effects'["abort"] > effects["abort"] =>
            /\ plan # None
            /\ response = None
            /\ \A p \in Procs : job[p].cmd \in {"drive", "drive_transaction"} =>
                  ("FaultIntent" \in journal => "FaultTriggered" \in journal) ]_vars

-----------------------------------------------------------------------------
(* Refinement of the abstract one-shot effect *)

Disconnects == Prepared /\ request.fault \in {"trace32", "driver"}

\* The fault of a CMM request is the script's own doing, not an effect.
Evidence(execute, fault, abort, workload) ==
    { e \in Effects :
        \/ e = "execute" /\ execute
        \/ e = "fault" /\ Disconnects /\ fault
        \/ e = "abort" /\ abort
        \/ e = "workload" /\ workload }

Someone(labels) == \E p \in Procs : job[p].pc \in labels

OneShots ==
    INSTANCE OneShot WITH
        intended <- Evidence("DispatchIntent" \in journal, "FaultIntent" \in journal,
                             "AbortAttempt" \in journal, "WorkloadIntent" \in journal),
        armed <- Evidence(Someone({"execute"}), Someone({"plan_fault", "fault"}),
                          Someone({"abort_tool"}), Someone({"workload"})),
        count <- effects,
        observed <- Evidence(FALSE, "FaultTriggered" \in journal,
                             "AbortSuccessObserved" \in journal, "WorkloadComplete" \in journal)

\* The four effects implement the abstract one-shot effects: each is performed
\* at most once, only by the command that recorded its intent, and observed only
\* after it happened.
EffectsAreOneShot == OneShots!Spec

-----------------------------------------------------------------------------
(* Liveness *)

\* Crashes and I/O errors end some day.  From then on a command stops early only
\* where a check refuses to go on or where its budget runs out while it polls.
Calm(p) ==
    <>[][ Interrupt(p) => \/ At(p, "collect")
                          \/ Steps(p)
                          \/ ~ENABLED Steps(p) ]_vars

\* The budget of a command ends its polling.
Timeout(p) == At(p, "collect") /\ Interrupt(p)

FairCommands(p) ==
    /\ Calm(p)
    /\ WF_vars(Steps(p) \/ Interrupt(p))
    /\ SF_vars(Timeout(p))

\* Commands run to their end, whichever are given.
Running == Spec /\ \A p \in Procs : FairCommands(p)

\* drive-transaction is repeated until it settles the transaction.
DriveRepeated == \A p \in Procs : SF_vars(DriveTransaction(p))

RetriedDrive == Running /\ DriveRepeated

\* abort-upstream is repeated with the reason of the plan.
AbortRepeated == \A p \in Procs : SF_vars(AbortUpstream(p, plan))

\* An attempt whose outcome nobody can know: closed by an operator only.
AbortAmbiguous == "AbortAttempt" \in journal /\ "AbortSuccessObserved" \notin journal

Settled == response # None \/ Closed \/ AbortAmbiguous

\* The response that accept looks at is one that it refuses.
Refused ==
    IF raw # None THEN ~Acceptable(raw) ELSE staged # None /\ ~Acceptable(staged)

\* Other ends that fail closed on purpose: a final response that acceptance
\* refuses, a fault of which only the intent is known.
FailsClosed ==
    \/ Refused
    \/ "FaultIntent" \in journal /\ "FaultTriggered" \notin journal

\* A prepared transaction that is driven again and again, through any number of
\* crashes, is accepted or closed by a confirmed abort or fails closed, unless
\* an abort was planned for another reason than the one drive_transaction gives.
DriveSettlesOwnAborts ==
    DriveRepeated =>
        (Prepared ~> Settled \/ FailsClosed \/ plan \notin {None, "transport_failure"})

\* A planned abort that is repeated with its reason is closed: receipt,
\* quarantine and failed Session, or it is ambiguous, or the response was
\* accepted first (docs/user-guide.md: abort-upstream "with
\* abort_success_observed, retries only Host confirmation").
PlannedAbortSettles == AbortRepeated => (plan # None ~> Settled)

-----------------------------------------------------------------------------
(* What the code or its documentation says and a crash can refute *)

\* controller_progress_from_artifacts treats a transaction with "both a response
\* and abort receipt" as an error that nothing can produce; every later command
\* of the Session then fails.
AcceptAbortExclusive == ~(response # None /\ receipt)

\* docs/user-guide.md: "On restart, driver journal determines accept, confirm,
\* abort/quarantine, or ambiguous fail-closed".  Every prepared transaction that
\* is driven again and again comes to one of these ends.
DrivenTransactionSettles == Prepared ~> Settled \/ FailsClosed
=============================================================================
