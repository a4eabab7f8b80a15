----------------------- MODULE ControllerDriverProofs -----------------------
(***************************************************************************)
(* The Controller driver for any number of processes and any choice of     *)
(* requests and reasons: what an abort receipt and a failed Session prove,  *)
(* what the abort tool may be called for, and the refinement of the         *)
(* abstract one-shot effects.                                               *)
(*                                                                         *)
(* Everything rests on the execution lease.  Whoever holds it is the only   *)
(* command that is not idle, so what its first step read in the documents   *)
(* stays true until it acts on it; HolderSound says what that is for each   *)
(* step of a command.                                                       *)
(***************************************************************************)
EXTENDS ControllerDriver, TLAPS

Drives == {"drive", "drive_transaction"}

\* A command that is not idle holds the lease.
OneCommand ==
    \A p \in Procs : /\ At(p, "idle") => job[p] = Idle
                     /\ ~At(p, "idle") => lease = p

\* What the documents and the script say of each other between any two steps.
DocumentsAgree ==
    /\ ~Prepared => journal = {} /\ plan = None /\ ~receipt /\ response = None
    /\ journal \cap PlanBound # {} \/ receipt \/ operatorAborted => plan # None
    /\ "FaultIntent" \in journal => request.fault # "none"
    /\ "AbortSuccessObserved" \in journal \/ operatorAborted => script # "running"

\* What a command knows at each of its steps: first of the dispatch and the
\* fault, which nothing but their own intent may precede.
DispatchSound(p) ==
    /\ job[p].pc \notin {"idle", "surface"} => Prepared
    /\ job[p].pc \notin {"idle", "surface"} /\ job[p].cmd = "drive" => request.fault = "none"
    /\ job[p].pc \in {"dispatch_intent", "execute", "fault_intent"} => plan = None
    /\ job[p].pc = "dispatch_intent" => "DispatchIntent" \notin journal
    /\ job[p].pc = "fault_intent" =>
          /\ "FaultIntent" \notin journal
          /\ request.fault = "cmm" => "DispatchIntent" \notin journal
    /\ job[p].pc \in {"dispatch_intent", "execute"} =>
          /\ request.fault # "trace32"
          /\ request.fault = "driver" => "FaultIntent" \notin journal
    /\ job[p].pc = "collect" => request.fault \in {"none", "cmm"}
    /\ job[p].pc = "fault_triggered" /\ request.fault # "cmm" => effects["fault"] > 0
    /\ job[p].pc = "workload_intent" => "WorkloadIntent" \notin journal
    /\ job[p].pc = "workload_complete" => effects["workload"] > 0

\* ... of the abort, which an unproven fault excludes ...
AbortSound(p) ==
    /\ job[p].pc = "plan" => job[p].reason \in AbortReasons
    /\ job[p].pc \in {"fault", "fault_triggered", "official_abort", "abort_attempt", "abort_tool"} =>
          plan # None /\ response = None
    /\ job[p].cmd \in Drives /\ job[p].pc \in {"plan", "official_abort"} =>
          \/ "FaultIntent" \in journal =>
                journal \cap {"FaultTriggered", "AbortAttempt", "AbortSuccessObserved"} # {}
          \/ receipt
    /\ job[p].cmd \in Drives /\ job[p].pc \in {"abort_attempt", "abort_tool"} =>
          ("FaultIntent" \in journal => "FaultTriggered" \in journal)
    /\ job[p].pc = "abort_attempt" => "AbortAttempt" \notin journal
    /\ job[p].pc = "abort_success" => script # "running" /\ effects["abort"] > 0

\* ... and of the confirmation and the acceptance.
ConfirmSound(p) ==
    /\ job[p].pc = "receipt" => receipt \/ operatorAborted \/ "AbortSuccessObserved" \in journal
    /\ job[p].pc \in {"quarantine_endpoint", "quarantine_target", "fail_session"} => receipt
    /\ job[p].pc = "quarantine_target" => "endpoint" \in quarantine
    /\ job[p].pc = "fail_session" => quarantine = {"endpoint", "target"}
    /\ job[p].pc \in {"ingest", "respond"} => response = None /\ ~failed

HolderSound(p) == DispatchSound(p) /\ AbortSound(p) /\ ConfirmSound(p)

IInv ==
    /\ TypeOK /\ OneCommand /\ DocumentsAgree
    /\ \A p \in Procs : HolderSound(p)
    /\ ConfirmedAbortIsQuiet /\ FailedIsQuarantined

-----------------------------------------------------------------------------
(* What a step does to the job of its process.                              *)
LEMMA Names ==
    /\ Idle \in Job /\ Idle.pc = "idle" /\ Idle.cmd = None
    /\ None \notin Procs /\ None \notin Commands /\ None \notin AbortReasons
    /\ None \notin StagedValues /\ None \notin Requests
    /\ Reasons \subseteq AbortReasons
    /\ \A q \in Requests : q.fault \in {"none", "cmm", "trace32", "driver"}
BY NoneAssumption, RequestsAssumption, ReasonsAssumption
   DEF Idle, Job, Labels, Commands, StagedValues, Replies, AllRequests, Req

\* The other processes are idle.
Alone(p) == \A q \in Procs \ {p} : job[q] = Idle

LEMMA HolderAlone ==
    ASSUME IInv, NEW p \in Procs, ~At(p, "idle") \/ lease = None
    PROVE  Alone(p)
BY Names DEF IInv, OneCommand, Alone

LEMMA GotoJob ==
    ASSUME TypeOK, NEW p \in Procs, NEW l \in Labels, Goto(p, l), Alone(p)
    PROVE  /\ job' \in [Procs -> Job] /\ lease' = lease /\ Alone(p)'
           /\ job'[p].pc = l /\ job'[p].cmd = job[p].cmd /\ job'[p].reason = job[p].reason
BY DEF TypeOK, Goto, Job, Alone

LEMMA ReturnJob ==
    ASSUME TypeOK, NEW p \in Procs, Return(p), Alone(p)
    PROVE  /\ job' \in [Procs -> Job] /\ lease' = None /\ Alone(p)'
           /\ job'[p] = Idle /\ job'[p].pc = "idle" /\ job'[p].cmd = None
BY Names DEF TypeOK, Return, Alone

LEMMA BeginJob ==
    ASSUME TypeOK, NEW p \in Procs, NEW c \in Commands, NEW l \in Labels,
           NEW r \in AbortReasons \cup {None}, Begin(p, c, l, r), Alone(p)
    PROVE  /\ job' \in [Procs -> Job] /\ lease' = p /\ Alone(p)'
           /\ job'[p].pc = l /\ job'[p].cmd = c /\ job'[p].reason = r
BY DEF TypeOK, Begin, Idle, Job, Alone

(* The invariant from what holds of the process that moved.                 *)
LEMMA Assemble ==
    ASSUME NEW p \in Procs, TypeOK', Alone(p)',
           job'[p].pc = "idle" => job'[p] = Idle, job'[p].pc # "idle" => lease' = p,
           DocumentsAgree', ConfirmedAbortIsQuiet', FailedIsQuarantined',
           DispatchSound(p)', AbortSound(p)', ConfirmSound(p)'
    PROVE  IInv'
<1>1. OneCommand'
  BY Names DEF OneCommand, Alone, At
<1>2. ASSUME NEW q \in Procs \ {p} PROVE HolderSound(q)'
  <2>1. job'[q].pc = "idle"
    BY Names DEF Alone
  <2> QED BY <2>1 DEF HolderSound, DispatchSound, AbortSound, ConfirmSound
<1> QED BY <1>1, <1>2 DEF IInv, HolderSound

LEMMA InitInv == Init => IInv
<1> SUFFICES ASSUME Init PROVE IInv
  OBVIOUS
<1>1. TypeOK
  BY Names DEF Init, TypeOK, Effects
<1>2. \A p \in Procs : job[p] = Idle /\ job[p].pc = "idle"
  BY Names DEF Init
<1>3. OneCommand /\ \A p \in Procs : HolderSound(p)
  BY <1>2 DEF OneCommand, At, HolderSound, DispatchSound, AbortSound, ConfirmSound
<1>4. DocumentsAgree /\ ConfirmedAbortIsQuiet /\ FailedIsQuarantined
  BY DEF Init, DocumentsAgree, Prepared, ConfirmedAbortIsQuiet, FailedIsQuarantined
<1> QED BY <1>1, <1>3, <1>4 DEF IInv

LEMMA RecoverJob ==
    ASSUME TypeOK, NEW p \in Procs, SurfaceRecover(p), Alone(p)
    PROVE  /\ job' \in [Procs -> Job] /\ lease' = lease /\ Alone(p)'
           /\ job'[p].pc = "plan" /\ job'[p].cmd = job[p].cmd /\ job'[p].reason = "transport_failure"
<1> DEFINE planning == [job EXCEPT ![p].pc = "plan"]
<1>1. /\ planning \in [Procs -> Job] /\ planning[p].cmd = job[p].cmd /\ planning[p].pc = "plan"
      /\ \A q \in Procs \ {p} : planning[q] = job[q]
  BY DEF TypeOK, Job, Labels
<1>2. job' = [planning EXCEPT ![p].reason = "transport_failure"] /\ lease' = lease
  BY DEF SurfaceRecover
<1> HIDE DEF planning
<1> QED BY <1>1, <1>2 DEF Alone, Job, AbortReasons

LEMMA ToolJob ==
    ASSUME TypeOK, NEW p \in Procs, NEW s, ToolReturned(p, s), Alone(p),
           WhileRunning(p) \in {"surface", "fault_intent", "collect"}
    PROVE  /\ job' \in [Procs -> Job] /\ Alone(p)' /\ job'[p].cmd = job[p].cmd
           /\ \/ job'[p].pc = "stage" \/ job'[p].pc = WhileRunning(p)
              \/ request.fault = "cmm" /\ job'[p].pc = "plan_fault"
<1> DEFINE live == [job EXCEPT ![p].live = TRUE]
<1>1. /\ live \in [Procs -> Job] /\ live[p].cmd = job[p].cmd
      /\ \A q \in Procs \ {p} : live[q] = job[q]
  BY DEF TypeOK, Job
<1>2. CASE \E r \in Replies : job' = [live EXCEPT ![p].pc = "stage", ![p].reply = r]
  <2> DEFINE staging == [live EXCEPT ![p].pc = "stage"]
  <2>1. PICK r \in Replies : job' = [staging EXCEPT ![p].reply = r]
    BY <1>2
  <2> HIDE DEF live
  <2>2. /\ staging \in [Procs -> Job] /\ staging[p].cmd = job[p].cmd /\ staging[p].pc = "stage"
        /\ \A q \in Procs \ {p} : staging[q] = job[q]
    BY <1>1 DEF Job, Labels
  <2> HIDE DEF staging
  <2> QED BY <2>1, <2>2 DEF Alone, Job
<1>3. CASE job' = [live EXCEPT ![p].pc = WhileRunning(p)]
  <2> HIDE DEF live
  <2> QED BY <1>1, <1>3 DEF Alone, Job, Labels
<1>4. CASE CmmMarker(p)
  BY <1>4 DEF CmmMarker, Alone, TypeOK, Job, Labels
<1> QED BY <1>2, <1>3, <1>4 DEF ToolReturned

(* Every step of a command keeps the invariant.                             *)
LEMMA StepsInv == ASSUME IInv, NEW p \in Procs, Steps(p) \/ Interrupt(p) PROVE IInv'
<1>0. /\ TypeOK /\ DocumentsAgree /\ ConfirmedAbortIsQuiet /\ FailedIsQuarantined
      /\ DispatchSound(p) /\ AbortSound(p) /\ ConfirmSound(p)
      /\ ~At(p, "idle") => lease = p
  BY DEF IInv, HolderSound, OneCommand
<1> USE <1>0, Names DEF Prepared, DocumentsAgree, ConfirmedAbortIsQuiet, FailedIsQuarantined, PlanBound, Drives
<1>1. ASSUME SurfacePrepare(p) PROVE IInv'
  <2>1. /\ ~At(p, "idle") /\ Alone(p)' /\ job' \in [Procs -> Job] /\ lease' = lease
        /\ job'[p].pc = "dispatch_intent" /\ job'[p].cmd = job[p].cmd /\ job'[p].reason = job[p].reason
    BY <1>1, HolderAlone, GotoJob DEF SurfacePrepare, Labels, At
  <2>2. TypeOK'
    BY <1>1, <2>1 DEF SurfacePrepare, documents, session, world, TypeOK
  <2>3. DocumentsAgree' /\ ConfirmedAbortIsQuiet' /\ FailedIsQuarantined'
    BY <1>1, <2>1 DEF SurfacePrepare, documents, session, world, At, AbortSound, ConfirmSound, DispatchSound
  <2>4. DispatchSound(p)'
    BY <1>1, <2>1 DEF SurfacePrepare, documents, session, world, At, DispatchSound
  <2>5. AbortSound(p)' /\ ConfirmSound(p)'
    BY <1>1, <2>1 DEF SurfacePrepare, documents, session, world, At, DispatchSound, AbortSound, ConfirmSound
  <2> QED BY <2>1, <2>2, <2>3, <2>4, <2>5, Assemble DEF At
<1>2. ASSUME SurfacePending(p) PROVE IInv'
  <2>1. /\ ~At(p, "idle") /\ Alone(p)' /\ job' \in [Procs -> Job] /\ lease' = lease
        /\ job'[p].pc \in {"accept", "collect"} /\ job'[p].cmd = job[p].cmd /\ job'[p].reason = job[p].reason
    BY <1>2, HolderAlone, GotoJob DEF SurfacePending, Pending, Labels, At
  <2>2. TypeOK'
    BY <1>2, <2>1 DEF SurfacePending, Pending, documents, session, world, TypeOK
  <2>3. DocumentsAgree' /\ ConfirmedAbortIsQuiet' /\ FailedIsQuarantined'
    BY <1>2, <2>1 DEF SurfacePending, Pending, documents, session, world, At, AbortSound, ConfirmSound, DispatchSound
  <2>4. DispatchSound(p)'
    BY <1>2, <2>1 DEF SurfacePending, Pending, documents, session, world, At, DispatchSound
  <2>5. AbortSound(p)' /\ ConfirmSound(p)'
    BY <1>2, <2>1 DEF SurfacePending, Pending, documents, session, world, At, DispatchSound, AbortSound, ConfirmSound
  <2> QED BY <2>1, <2>2, <2>3, <2>4, <2>5, Assemble DEF At
<1>3. ASSUME SurfaceRecover(p) PROVE IInv'
  <2>0. ~At(p, "idle") /\ Alone(p)
    BY <1>3, HolderAlone DEF SurfaceRecover, Pending, At
  <2>1. /\ ~At(p, "idle") /\ Alone(p)' /\ job' \in [Procs -> Job] /\ lease' = lease
        /\ job'[p].pc = "plan" /\ job'[p].cmd = job[p].cmd /\ job'[p].reason = "transport_failure"
    BY <1>3, <2>0, RecoverJob
  <2>2. TypeOK'
    BY <1>3, <2>1 DEF SurfaceRecover, Pending, AbortReasons, documents, session, world, TypeOK
  <2>3. DocumentsAgree' /\ ConfirmedAbortIsQuiet' /\ FailedIsQuarantined'
    BY <1>3, <2>1 DEF SurfaceRecover, Pending, AbortReasons, documents, session, world, At, AbortSound, ConfirmSound, DispatchSound
  <2>4. DispatchSound(p)'
    BY <1>3, <2>1 DEF SurfaceRecover, Pending, AbortReasons, documents, session, world, At, DispatchSound
  <2>5. AbortSound(p)' /\ ConfirmSound(p)'
    BY <1>3, <2>1 DEF SurfaceRecover, Pending, AbortReasons, documents, session, world, At, DispatchSound, AbortSound, ConfirmSound
  <2> QED BY <2>1, <2>2, <2>3, <2>4, <2>5, Assemble DEF At
<1>4. ASSUME SurfaceWorkload(p) PROVE IInv'
  <2>1. /\ ~At(p, "idle") /\ Alone(p)' /\ job' \in [Procs -> Job] /\ lease' = lease
        /\ job'[p].pc \in {"prepare_stop", "workload_intent"}
        /\ job'[p].pc = "workload_intent" => "WorkloadIntent" \notin journal
        /\ job'[p].cmd = job[p].cmd /\ job'[p].reason = job[p].reason
    BY <1>4, HolderAlone, GotoJob DEF SurfaceWorkload, WorkloadPhase, Labels, At
  <2>2. TypeOK'
    BY <1>4, <2>1 DEF SurfaceWorkload, WorkloadPhase, documents, session, world, TypeOK
  <2>3. DocumentsAgree' /\ ConfirmedAbortIsQuiet' /\ FailedIsQuarantined'
    BY <1>4, <2>1 DEF SurfaceWorkload, WorkloadPhase, documents, session, world, At, AbortSound, ConfirmSound, DispatchSound
  <2>4. DispatchSound(p)'
    BY <1>4, <2>1 DEF SurfaceWorkload, WorkloadPhase, documents, session, world, At, DispatchSound
  <2>5. AbortSound(p)' /\ ConfirmSound(p)'
    BY <1>4, <2>1 DEF SurfaceWorkload, WorkloadPhase, documents, session, world, At, DispatchSound, AbortSound, ConfirmSound
  <2> QED BY <2>1, <2>2, <2>3, <2>4, <2>5, Assemble DEF At
<1>5. ASSUME SurfaceDone(p) PROVE IInv'
  <2>1. /\ ~At(p, "idle") /\ Alone(p)' /\ job' \in [Procs -> Job] /\ lease' = None
        /\ job'[p] = Idle /\ job'[p].pc = "idle" /\ job'[p].cmd = None
    BY <1>5, HolderAlone, ReturnJob DEF SurfaceDone, At
  <2>2. TypeOK'
    BY <1>5, <2>1 DEF SurfaceDone, documents, session, world, TypeOK
  <2>3. DocumentsAgree' /\ ConfirmedAbortIsQuiet' /\ FailedIsQuarantined'
    BY <1>5, <2>1 DEF SurfaceDone, documents, session, world, At, AbortSound, ConfirmSound, DispatchSound
  <2>4. DispatchSound(p)'
    BY <1>5, <2>1 DEF SurfaceDone, documents, session, world, At, DispatchSound
  <2>5. AbortSound(p)' /\ ConfirmSound(p)'
    BY <1>5, <2>1 DEF SurfaceDone, documents, session, world, At, DispatchSound, AbortSound, ConfirmSound
  <2> QED BY <2>1, <2>2, <2>3, <2>4, <2>5, Assemble DEF At
<1>6. ASSUME RecordDispatchIntent(p) PROVE IInv'
  <2>1. /\ ~At(p, "idle") /\ Alone(p)' /\ job' \in [Procs -> Job] /\ lease' = lease
        /\ job'[p].pc = "execute" /\ job'[p].cmd = job[p].cmd /\ job'[p].reason = job[p].reason
    BY <1>6, HolderAlone, GotoJob DEF RecordDispatchIntent, Record, Recordable, Owner, Events, Labels, At
  <2>2. TypeOK'
    BY <1>6, <2>1 DEF RecordDispatchIntent, Record, Recordable, Owner, Events, documents, session, world, TypeOK
  <2>3. DocumentsAgree' /\ ConfirmedAbortIsQuiet' /\ FailedIsQuarantined'
    BY <1>6, <2>1 DEF RecordDispatchIntent, Record, Recordable, Owner, Events, documents, session, world, At, AbortSound, ConfirmSound, DispatchSound
  <2>4. DispatchSound(p)'
    BY <1>6, <2>1 DEF RecordDispatchIntent, Record, Recordable, Owner, Events, documents, session, world, At, DispatchSound
  <2>5. AbortSound(p)' /\ ConfirmSound(p)'
    BY <1>6, <2>1 DEF RecordDispatchIntent, Record, Recordable, Owner, Events, documents, session, world, At, DispatchSound, AbortSound, ConfirmSound
  <2> QED BY <2>1, <2>2, <2>3, <2>4, <2>5, Assemble DEF At
<1>7. ASSUME RecordFaultIntent(p) PROVE IInv'
  <2>1. /\ ~At(p, "idle") /\ Alone(p)' /\ job' \in [Procs -> Job] /\ lease' = lease
        /\ job'[p].pc = (IF request.fault = "cmm" THEN "dispatch_intent" ELSE "plan_fault") /\ job'[p].cmd = job[p].cmd /\ job'[p].reason = job[p].reason
    BY <1>7, HolderAlone, GotoJob DEF RecordFaultIntent, Record, Recordable, Owner, Events, Labels, At
  <2>2. TypeOK'
    BY <1>7, <2>1 DEF RecordFaultIntent, Record, Recordable, Owner, Events, documents, session, world, TypeOK
  <2>3. DocumentsAgree' /\ ConfirmedAbortIsQuiet' /\ FailedIsQuarantined'
    BY <1>7, <2>1 DEF RecordFaultIntent, Record, Recordable, Owner, Events, documents, session, world, At, AbortSound, ConfirmSound, DispatchSound
  <2>4. DispatchSound(p)'
    BY <1>7, <2>1 DEF RecordFaultIntent, Record, Recordable, Owner, Events, documents, session, world, At, DispatchSound
  <2>5. AbortSound(p)' /\ ConfirmSound(p)'
    BY <1>7, <2>1 DEF RecordFaultIntent, Record, Recordable, Owner, Events, documents, session, world, At, DispatchSound, AbortSound, ConfirmSound
  <2> QED BY <2>1, <2>2, <2>3, <2>4, <2>5, Assemble DEF At
<1>8. ASSUME RecordFaultTriggered(p) PROVE IInv'
  <2>1. /\ ~At(p, "idle") /\ Alone(p)' /\ job' \in [Procs -> Job] /\ lease' = lease
        /\ job'[p].pc = "official_abort" /\ job'[p].cmd = job[p].cmd /\ job'[p].reason = job[p].reason
    BY <1>8, HolderAlone, GotoJob DEF RecordFaultTriggered, Record, Recordable, Owner, Events, Labels, At
  <2>2. TypeOK'
    BY <1>8, <2>1 DEF RecordFaultTriggered, Record, Recordable, Owner, Events, documents, session, world, TypeOK
  <2>3. DocumentsAgree' /\ ConfirmedAbortIsQuiet' /\ FailedIsQuarantined'
    BY <1>8, <2>1 DEF RecordFaultTriggered, Record, Recordable, Owner, Events, documents, session, world, At, AbortSound, ConfirmSound, DispatchSound
  <2>4. DispatchSound(p)'
    BY <1>8, <2>1 DEF RecordFaultTriggered, Record, Recordable, Owner, Events, documents, session, world, At, DispatchSound
  <2>5. AbortSound(p)' /\ ConfirmSound(p)'
    BY <1>8, <2>1 DEF RecordFaultTriggered, Record, Recordable, Owner, Events, documents, session, world, At, DispatchSound, AbortSound, ConfirmSound
  <2> QED BY <2>1, <2>2, <2>3, <2>4, <2>5, Assemble DEF At
<1>9. ASSUME RecordAbortAttempt(p) PROVE IInv'
  <2>1. /\ ~At(p, "idle") /\ Alone(p)' /\ job' \in [Procs -> Job] /\ lease' = lease
        /\ job'[p].pc = "abort_tool" /\ job'[p].cmd = job[p].cmd /\ job'[p].reason = job[p].reason
    BY <1>9, HolderAlone, GotoJob DEF RecordAbortAttempt, Record, Recordable, Owner, Events, Labels, At
  <2>2. TypeOK'
    BY <1>9, <2>1 DEF RecordAbortAttempt, Record, Recordable, Owner, Events, documents, session, world, TypeOK
  <2>3. DocumentsAgree' /\ ConfirmedAbortIsQuiet' /\ FailedIsQuarantined'
    BY <1>9, <2>1 DEF RecordAbortAttempt, Record, Recordable, Owner, Events, documents, session, world, At, AbortSound, ConfirmSound, DispatchSound
  <2>4. DispatchSound(p)'
    BY <1>9, <2>1 DEF RecordAbortAttempt, Record, Recordable, Owner, Events, documents, session, world, At, DispatchSound
  <2>5. AbortSound(p)' /\ ConfirmSound(p)'
    BY <1>9, <2>1 DEF RecordAbortAttempt, Record, Recordable, Owner, Events, documents, session, world, At, DispatchSound, AbortSound, ConfirmSound
  <2> QED BY <2>1, <2>2, <2>3, <2>4, <2>5, Assemble DEF At
<1>10. ASSUME RecordAbortSuccess(p) PROVE IInv'
  <2>1. /\ ~At(p, "idle") /\ Alone(p)' /\ job' \in [Procs -> Job] /\ lease' = lease
        /\ job'[p].pc = "receipt" /\ job'[p].cmd = job[p].cmd /\ job'[p].reason = job[p].reason
    BY <1>10, HolderAlone, GotoJob DEF RecordAbortSuccess, Record, Recordable, Owner, Events, Labels, At
  <2>2. TypeOK'
    BY <1>10, <2>1 DEF RecordAbortSuccess, Record, Recordable, Owner, Events, documents, session, world, TypeOK
  <2>3. DocumentsAgree' /\ ConfirmedAbortIsQuiet' /\ FailedIsQuarantined'
    BY <1>10, <2>1 DEF RecordAbortSuccess, Record, Recordable, Owner, Events, documents, session, world, At, AbortSound, ConfirmSound, DispatchSound
  <2>4. DispatchSound(p)'
    BY <1>10, <2>1 DEF RecordAbortSuccess, Record, Recordable, Owner, Events, documents, session, world, At, DispatchSound
  <2>5. AbortSound(p)' /\ ConfirmSound(p)'
    BY <1>10, <2>1 DEF RecordAbortSuccess, Record, Recordable, Owner, Events, documents, session, world, At, DispatchSound, AbortSound, ConfirmSound
  <2> QED BY <2>1, <2>2, <2>3, <2>4, <2>5, Assemble DEF At
<1>11. ASSUME RecordWorkloadIntent(p) PROVE IInv'
  <2>1. /\ ~At(p, "idle") /\ Alone(p)' /\ job' \in [Procs -> Job] /\ lease' = lease
        /\ job'[p].pc = "workload" /\ job'[p].cmd = job[p].cmd /\ job'[p].reason = job[p].reason
    BY <1>11, HolderAlone, GotoJob DEF RecordWorkloadIntent, RecordWorkload, WorkloadPhase, Events, Labels, At
  <2>2. TypeOK'
    BY <1>11, <2>1 DEF RecordWorkloadIntent, RecordWorkload, WorkloadPhase, Events, documents, session, world, TypeOK
  <2>3. DocumentsAgree' /\ ConfirmedAbortIsQuiet' /\ FailedIsQuarantined'
    BY <1>11, <2>1 DEF RecordWorkloadIntent, RecordWorkload, WorkloadPhase, Events, documents, session, world, At, AbortSound, ConfirmSound, DispatchSound
  <2>4. DispatchSound(p)'
    BY <1>11, <2>1 DEF RecordWorkloadIntent, RecordWorkload, WorkloadPhase, Events, documents, session, world, At, DispatchSound
  <2>5. AbortSound(p)' /\ ConfirmSound(p)'
    BY <1>11, <2>1 DEF RecordWorkloadIntent, RecordWorkload, WorkloadPhase, Events, documents, session, world, At, DispatchSound, AbortSound, ConfirmSound
  <2> QED BY <2>1, <2>2, <2>3, <2>4, <2>5, Assemble DEF At
<1>12. ASSUME RecordWorkloadComplete(p) PROVE IInv'
  <2>1. /\ ~At(p, "idle") /\ Alone(p)' /\ job' \in [Procs -> Job] /\ lease' = lease
        /\ job'[p].pc = "prepare_stop" /\ job'[p].cmd = job[p].cmd /\ job'[p].reason = job[p].reason
    BY <1>12, HolderAlone, GotoJob DEF RecordWorkloadComplete, RecordWorkload, WorkloadPhase, Events, Labels, At
  <2>2. TypeOK'
    BY <1>12, <2>1 DEF RecordWorkloadComplete, RecordWorkload, WorkloadPhase, Events, documents, session, world, TypeOK
  <2>3. DocumentsAgree' /\ ConfirmedAbortIsQuiet' /\ FailedIsQuarantined'
    BY <1>12, <2>1 DEF RecordWorkloadComplete, RecordWorkload, WorkloadPhase, Events, documents, session, world, At, AbortSound, ConfirmSound, DispatchSound
  <2>4. DispatchSound(p)'
    BY <1>12, <2>1 DEF RecordWorkloadComplete, RecordWorkload, WorkloadPhase, Events, documents, session, world, At, DispatchSound
  <2>5. AbortSound(p)' /\ ConfirmSound(p)'
    BY <1>12, <2>1 DEF RecordWorkloadComplete, RecordWorkload, WorkloadPhase, Events, documents, session, world, At, DispatchSound, AbortSound, ConfirmSound
  <2> QED BY <2>1, <2>2, <2>3, <2>4, <2>5, Assemble DEF At
<1>13. ASSUME Execute(p) PROVE IInv'
  <2>0. ~At(p, "idle") /\ Alone(p) /\ lease' = lease
    BY <1>13, HolderAlone DEF Execute, At
  <2>a. WhileRunning(p) \in {"surface", "fault_intent", "collect"}
    BY DEF WhileRunning
  <2>1. /\ ~At(p, "idle") /\ Alone(p)' /\ job' \in [Procs -> Job] /\ lease' = lease
        /\ \/ job'[p].pc = "stage" \/ job'[p].pc = WhileRunning(p)
           \/ request.fault = "cmm" /\ job'[p].pc = "plan_fault"
        /\ job'[p].cmd = job[p].cmd /\ job'[p].pc # "idle"
    BY <1>13, <2>0, <2>a, ToolJob DEF Execute
  <2>2. TypeOK'
    BY <1>13, <2>1 DEF Execute, Cause, Effects, WhileRunning, documents, session, world, TypeOK
  <2>3. DocumentsAgree' /\ ConfirmedAbortIsQuiet' /\ FailedIsQuarantined'
    BY <1>13, <2>1 DEF Execute, Cause, Effects, WhileRunning, documents, session, world, At, AbortSound, ConfirmSound, DispatchSound
  <2>4. DispatchSound(p)'
    BY <1>13, <2>1 DEF Execute, Cause, Effects, WhileRunning, documents, session, world, At, DispatchSound, TypeOK
  <2>5. AbortSound(p)' /\ ConfirmSound(p)'
    BY <1>13, <2>1 DEF Execute, Cause, Effects, WhileRunning, documents, session, world, At, DispatchSound, AbortSound, ConfirmSound, TypeOK
  <2> QED BY <2>1, <2>2, <2>3, <2>4, <2>5, Assemble DEF At
<1>14. ASSUME Collect(p) PROVE IInv'
  <2>0. ~At(p, "idle") /\ Alone(p) /\ lease' = lease
    BY <1>14, HolderAlone DEF Collect, At
  <2>a. WhileRunning(p) \in {"surface", "fault_intent", "collect"}
    BY DEF WhileRunning
  <2>1. /\ ~At(p, "idle") /\ Alone(p)' /\ job' \in [Procs -> Job] /\ lease' = lease
        /\ \/ job'[p].pc = "stage" \/ job'[p].pc = WhileRunning(p)
           \/ request.fault = "cmm" /\ job'[p].pc = "plan_fault"
        /\ job'[p].cmd = job[p].cmd /\ job'[p].pc # "idle"
    BY <1>14, <2>0, <2>a, ToolJob DEF Collect
  <2>2. TypeOK'
    BY <1>14, <2>1 DEF Collect, WhileRunning, documents, session, world, TypeOK
  <2>3. DocumentsAgree' /\ ConfirmedAbortIsQuiet' /\ FailedIsQuarantined'
    BY <1>14, <2>1 DEF Collect, WhileRunning, documents, session, world, At, AbortSound, ConfirmSound, DispatchSound
  <2>4. DispatchSound(p)'
    BY <1>14, <2>1 DEF Collect, WhileRunning, documents, session, world, At, DispatchSound
  <2>5. AbortSound(p)' /\ ConfirmSound(p)'
    BY <1>14, <2>1 DEF Collect, WhileRunning, documents, session, world, At, DispatchSound, AbortSound, ConfirmSound
  <2> QED BY <2>1, <2>2, <2>3, <2>4, <2>5, Assemble DEF At
<1>15. ASSUME StageResponse(p) PROVE IInv'
  <2>1. /\ ~At(p, "idle") /\ Alone(p)' /\ job' \in [Procs -> Job] /\ lease' = lease
        /\ job'[p].pc \in {"surface", "accept"} /\ job'[p].cmd = job[p].cmd /\ job'[p].reason = job[p].reason
    BY <1>15, HolderAlone, GotoJob DEF StageResponse, Owner, Labels, At
  <2>2. TypeOK'
    BY <1>15, <2>1 DEF StageResponse, Owner, documents, session, world, TypeOK, Job, StagedValues
  <2>3. DocumentsAgree' /\ ConfirmedAbortIsQuiet' /\ FailedIsQuarantined'
    BY <1>15, <2>1 DEF StageResponse, Owner, documents, session, world, At, AbortSound, ConfirmSound, DispatchSound
  <2>4. DispatchSound(p)'
    BY <1>15, <2>1 DEF StageResponse, Owner, documents, session, world, At, DispatchSound, Job, StagedValues
  <2>5. AbortSound(p)' /\ ConfirmSound(p)'
    BY <1>15, <2>1 DEF StageResponse, Owner, documents, session, world, At, DispatchSound, AbortSound, ConfirmSound, Job, StagedValues
  <2> QED BY <2>1, <2>2, <2>3, <2>4, <2>5, Assemble DEF At
<1>16. ASSUME AcceptRaw(p) PROVE IInv'
  <2>0. ~At(p, "idle") /\ Alone(p)
    BY <1>16, HolderAlone DEF AcceptRaw, At
  <2>1. /\ ~At(p, "idle") /\ Alone(p)' /\ job' \in [Procs -> Job] /\ lease' = lease
        /\ job'[p].pc \in {"reconcile", "respond", "ingest"} /\ job'[p].cmd = job[p].cmd
        /\ job'[p].pc # "reconcile" => response = None /\ ~failed
    BY <1>16, <2>0 DEF AcceptRaw, Goto, Alone, TypeOK, Job, Labels
  <2>2. TypeOK'
    BY <1>16, <2>1 DEF AcceptRaw, StagedValues, documents, session, world, TypeOK
  <2>3. DocumentsAgree' /\ ConfirmedAbortIsQuiet' /\ FailedIsQuarantined'
    BY <1>16, <2>1 DEF AcceptRaw, StagedValues, documents, session, world, At, AbortSound, ConfirmSound, DispatchSound
  <2>4. DispatchSound(p)'
    BY <1>16, <2>1 DEF AcceptRaw, StagedValues, documents, session, world, At, DispatchSound
  <2>5. AbortSound(p)' /\ ConfirmSound(p)'
    BY <1>16, <2>1 DEF AcceptRaw, StagedValues, documents, session, world, At, DispatchSound, AbortSound, ConfirmSound
  <2> QED BY <2>1, <2>2, <2>3, <2>4, <2>5, Assemble DEF At
<1>17. ASSUME IngestRaw(p) PROVE IInv'
  <2>0. ~At(p, "idle") /\ Alone(p)
    BY <1>17, HolderAlone DEF IngestRaw, At
  <2>1. /\ ~At(p, "idle") /\ Alone(p)' /\ job' \in [Procs -> Job]
        /\ \/ job'[p].pc = "respond" /\ job'[p].cmd = job[p].cmd /\ lease' = lease
           \/ job'[p] = Idle /\ lease' = None
    BY <1>17, <2>0 DEF IngestRaw, Return, Alone, TypeOK, Job, Labels
  <2>2. TypeOK'
    BY <1>17, <2>1 DEF IngestRaw, StagedValues, documents, session, world, TypeOK
  <2>3. DocumentsAgree' /\ ConfirmedAbortIsQuiet' /\ FailedIsQuarantined'
    BY <1>17, <2>1 DEF IngestRaw, StagedValues, documents, session, world, At, AbortSound, ConfirmSound, DispatchSound
  <2>4. DispatchSound(p)'
    BY <1>17, <2>1 DEF IngestRaw, StagedValues, documents, session, world, At, DispatchSound
  <2>5. AbortSound(p)' /\ ConfirmSound(p)'
    BY <1>17, <2>1 DEF IngestRaw, StagedValues, documents, session, world, At, DispatchSound, AbortSound, ConfirmSound
  <2> QED BY <2>1, <2>2, <2>3, <2>4, <2>5, Assemble DEF At
<1>18. ASSUME AcceptResponse(p) PROVE IInv'
  <2>1. /\ ~At(p, "idle") /\ Alone(p)' /\ job' \in [Procs -> Job] /\ lease' = lease
        /\ job'[p].pc = "reconcile" /\ job'[p].cmd = job[p].cmd /\ job'[p].reason = job[p].reason
    BY <1>18, HolderAlone, GotoJob DEF AcceptResponse, Acceptable, Labels, At
  <2>2. TypeOK'
    BY <1>18, <2>1 DEF AcceptResponse, Acceptable, documents, session, world, TypeOK
  <2>3. DocumentsAgree' /\ ConfirmedAbortIsQuiet' /\ FailedIsQuarantined'
    BY <1>18, <2>1 DEF AcceptResponse, Acceptable, documents, session, world, At, AbortSound, ConfirmSound, DispatchSound
  <2>4. DispatchSound(p)'
    BY <1>18, <2>1 DEF AcceptResponse, Acceptable, documents, session, world, At, DispatchSound
  <2>5. AbortSound(p)' /\ ConfirmSound(p)'
    BY <1>18, <2>1 DEF AcceptResponse, Acceptable, documents, session, world, At, DispatchSound, AbortSound, ConfirmSound
  <2> QED BY <2>1, <2>2, <2>3, <2>4, <2>5, Assemble DEF At
<1>19. ASSUME Reconcile(p) PROVE IInv'
  <2>0. ~At(p, "idle") /\ Alone(p)
    BY <1>19, HolderAlone DEF Reconcile, At
  <2>1. /\ ~At(p, "idle") /\ Alone(p)' /\ job' \in [Procs -> Job]
        /\ \/ job'[p].pc = "surface" /\ job'[p].cmd = job[p].cmd /\ lease' = lease
           \/ job'[p] = Idle /\ lease' = None
    BY <1>19, <2>0, GotoJob, ReturnJob DEF Reconcile, Labels
  <2>2. TypeOK'
    BY <1>19, <2>1 DEF Reconcile, documents, session, world, TypeOK
  <2>3. DocumentsAgree' /\ ConfirmedAbortIsQuiet' /\ FailedIsQuarantined'
    BY <1>19, <2>1 DEF Reconcile, documents, session, world, At, AbortSound, ConfirmSound, DispatchSound
  <2>4. DispatchSound(p)'
    BY <1>19, <2>1 DEF Reconcile, documents, session, world, At, DispatchSound
  <2>5. AbortSound(p)' /\ ConfirmSound(p)'
    BY <1>19, <2>1 DEF Reconcile, documents, session, world, At, DispatchSound, AbortSound, ConfirmSound
  <2> QED BY <2>1, <2>2, <2>3, <2>4, <2>5, Assemble DEF At
<1>20. ASSUME EnsureAbortPlanned(p) PROVE IInv'
  <2>1. /\ ~At(p, "idle") /\ Alone(p)' /\ job' \in [Procs -> Job] /\ lease' = lease
        /\ job'[p].pc = "official_abort" /\ job'[p].cmd = job[p].cmd /\ job'[p].reason = job[p].reason
    BY <1>20, HolderAlone, GotoJob DEF EnsureAbortPlanned, PlanAbort, AbortPlannable, Labels, At
  <2>2. TypeOK'
    BY <1>20, <2>1 DEF EnsureAbortPlanned, PlanAbort, AbortPlannable, documents, session, world, TypeOK, Job
  <2>3. DocumentsAgree' /\ ConfirmedAbortIsQuiet' /\ FailedIsQuarantined'
    BY <1>20, <2>1 DEF EnsureAbortPlanned, PlanAbort, AbortPlannable, documents, session, world, At, AbortSound, ConfirmSound, DispatchSound
  <2>4. DispatchSound(p)'
    BY <1>20, <2>1 DEF EnsureAbortPlanned, PlanAbort, AbortPlannable, documents, session, world, At, DispatchSound, Job
  <2>5. AbortSound(p)' /\ ConfirmSound(p)'
    BY <1>20, <2>1 DEF EnsureAbortPlanned, PlanAbort, AbortPlannable, documents, session, world, At, DispatchSound, AbortSound, ConfirmSound, Job
  <2> QED BY <2>1, <2>2, <2>3, <2>4, <2>5, Assemble DEF At
<1>21. ASSUME PlanCmmAbort(p) PROVE IInv'
  <2>1. /\ ~At(p, "idle") /\ Alone(p)' /\ job' \in [Procs -> Job] /\ lease' = lease
        /\ job'[p].pc = "fault_triggered" /\ job'[p].cmd = job[p].cmd /\ job'[p].reason = job[p].reason
    BY <1>21, HolderAlone, GotoJob DEF PlanCmmAbort, PlanAbort, AbortPlannable, AbortReasons, Labels, At
  <2>2. TypeOK'
    BY <1>21, <2>1 DEF PlanCmmAbort, PlanAbort, AbortPlannable, AbortReasons, documents, session, world, TypeOK
  <2>3. DocumentsAgree' /\ ConfirmedAbortIsQuiet' /\ FailedIsQuarantined'
    BY <1>21, <2>1 DEF PlanCmmAbort, PlanAbort, AbortPlannable, AbortReasons, documents, session, world, At, AbortSound, ConfirmSound, DispatchSound
  <2>4. DispatchSound(p)'
    BY <1>21, <2>1 DEF PlanCmmAbort, PlanAbort, AbortPlannable, AbortReasons, documents, session, world, At, DispatchSound
  <2>5. AbortSound(p)' /\ ConfirmSound(p)'
    BY <1>21, <2>1 DEF PlanCmmAbort, PlanAbort, AbortPlannable, AbortReasons, documents, session, world, At, DispatchSound, AbortSound, ConfirmSound
  <2> QED BY <2>1, <2>2, <2>3, <2>4, <2>5, Assemble DEF At
<1>22. ASSUME PlanDisconnectAbort(p) PROVE IInv'
  <2>1. /\ ~At(p, "idle") /\ Alone(p)' /\ job' \in [Procs -> Job] /\ lease' = lease
        /\ job'[p].pc = "fault" /\ job'[p].cmd = job[p].cmd /\ job'[p].reason = job[p].reason
    BY <1>22, HolderAlone, GotoJob DEF PlanDisconnectAbort, PlanAbort, AbortPlannable, AbortReasons, Labels, At
  <2>2. TypeOK'
    BY <1>22, <2>1 DEF PlanDisconnectAbort, PlanAbort, AbortPlannable, AbortReasons, documents, session, world, TypeOK
  <2>3. DocumentsAgree' /\ ConfirmedAbortIsQuiet' /\ FailedIsQuarantined'
    BY <1>22, <2>1 DEF PlanDisconnectAbort, PlanAbort, AbortPlannable, AbortReasons, documents, session, world, At, AbortSound, ConfirmSound, DispatchSound
  <2>4. DispatchSound(p)'
    BY <1>22, <2>1 DEF PlanDisconnectAbort, PlanAbort, AbortPlannable, AbortReasons, documents, session, world, At, DispatchSound
  <2>5. AbortSound(p)' /\ ConfirmSound(p)'
    BY <1>22, <2>1 DEF PlanDisconnectAbort, PlanAbort, AbortPlannable, AbortReasons, documents, session, world, At, DispatchSound, AbortSound, ConfirmSound
  <2> QED BY <2>1, <2>2, <2>3, <2>4, <2>5, Assemble DEF At
<1>23. ASSUME RunDisconnectHook(p) PROVE IInv'
  <2>1. /\ ~At(p, "idle") /\ Alone(p)' /\ job' \in [Procs -> Job] /\ lease' = lease
        /\ job'[p].pc = "fault_triggered" /\ job'[p].cmd = job[p].cmd /\ job'[p].reason = job[p].reason
    BY <1>23, HolderAlone, GotoJob DEF RunDisconnectHook, TriggerFault, Cause, Effects, Labels, At
  <2>2. TypeOK'
    BY <1>23, <2>1 DEF RunDisconnectHook, TriggerFault, Cause, Effects, documents, session, world, TypeOK
  <2>3. DocumentsAgree' /\ ConfirmedAbortIsQuiet' /\ FailedIsQuarantined'
    BY <1>23, <2>1 DEF RunDisconnectHook, TriggerFault, Cause, Effects, documents, session, world, At, AbortSound, ConfirmSound, DispatchSound
  <2>4. DispatchSound(p)'
    BY <1>23, <2>1 DEF RunDisconnectHook, TriggerFault, Cause, Effects, documents, session, world, At, DispatchSound, TypeOK
  <2>5. AbortSound(p)' /\ ConfirmSound(p)'
    BY <1>23, <2>1 DEF RunDisconnectHook, TriggerFault, Cause, Effects, documents, session, world, At, DispatchSound, AbortSound, ConfirmSound, TypeOK
  <2> QED BY <2>1, <2>2, <2>3, <2>4, <2>5, Assemble DEF At
<1>24. ASSUME KillDriverChild(p) PROVE IInv'
  <2>1. /\ ~At(p, "idle") /\ Alone(p)' /\ job' \in [Procs -> Job] /\ lease' = lease
        /\ job'[p].pc = "fault_triggered" /\ job'[p].cmd = job[p].cmd /\ job'[p].reason = job[p].reason
    BY <1>24, HolderAlone, GotoJob DEF KillDriverChild, TriggerFault, Cause, Effects, Labels, At
  <2>2. TypeOK'
    BY <1>24, <2>1 DEF KillDriverChild, TriggerFault, Cause, Effects, documents, session, world, TypeOK
  <2>3. DocumentsAgree' /\ ConfirmedAbortIsQuiet' /\ FailedIsQuarantined'
    BY <1>24, <2>1 DEF KillDriverChild, TriggerFault, Cause, Effects, documents, session, world, At, AbortSound, ConfirmSound, DispatchSound
  <2>4. DispatchSound(p)'
    BY <1>24, <2>1 DEF KillDriverChild, TriggerFault, Cause, Effects, documents, session, world, At, DispatchSound, TypeOK
  <2>5. AbortSound(p)' /\ ConfirmSound(p)'
    BY <1>24, <2>1 DEF KillDriverChild, TriggerFault, Cause, Effects, documents, session, world, At, DispatchSound, AbortSound, ConfirmSound, TypeOK
  <2> QED BY <2>1, <2>2, <2>3, <2>4, <2>5, Assemble DEF At
<1>25. ASSUME OfficialAbort(p) PROVE IInv'
  <2>1. /\ ~At(p, "idle") /\ Alone(p)' /\ job' \in [Procs -> Job] /\ lease' = lease
        /\ job'[p].pc \in {"receipt", "abort_attempt"}
        /\ job'[p].pc = "receipt" => receipt \/ "AbortSuccessObserved" \in journal
        /\ job'[p].pc = "abort_attempt" =>
              ~receipt /\ journal \cap {"AbortAttempt", "AbortSuccessObserved"} = {}
        /\ job'[p].cmd = job[p].cmd /\ job'[p].reason = job[p].reason
    BY <1>25, HolderAlone, GotoJob DEF OfficialAbort, Labels, At
  <2>2. TypeOK'
    BY <1>25, <2>1 DEF OfficialAbort, documents, session, world, TypeOK
  <2>3. DocumentsAgree' /\ ConfirmedAbortIsQuiet' /\ FailedIsQuarantined'
    BY <1>25, <2>1 DEF OfficialAbort, documents, session, world, At, AbortSound, ConfirmSound, DispatchSound
  <2>4. DispatchSound(p)'
    BY <1>25, <2>1 DEF OfficialAbort, documents, session, world, At, DispatchSound
  <2>5. AbortSound(p)' /\ ConfirmSound(p)'
    BY <1>25, <2>1 DEF OfficialAbort, documents, session, world, At, DispatchSound, AbortSound, ConfirmSound
  <2> QED BY <2>1, <2>2, <2>3, <2>4, <2>5, Assemble DEF At
<1>26. ASSUME AbortTool(p) PROVE IInv'
  <2>1. /\ ~At(p, "idle") /\ Alone(p)' /\ job' \in [Procs -> Job] /\ lease' = lease
        /\ job'[p].pc = "abort_success" /\ job'[p].cmd = job[p].cmd /\ job'[p].reason = job[p].reason
    BY <1>26, HolderAlone, GotoJob DEF AbortTool, Cause, Effects, Stopped, Labels, At
  <2>2. TypeOK'
    BY <1>26, <2>1 DEF AbortTool, Cause, Effects, Stopped, documents, session, world, TypeOK
  <2>3. DocumentsAgree' /\ ConfirmedAbortIsQuiet' /\ FailedIsQuarantined'
    BY <1>26, <2>1 DEF AbortTool, Cause, Effects, Stopped, documents, session, world, At, AbortSound, ConfirmSound, DispatchSound
  <2>4. DispatchSound(p)'
    BY <1>26, <2>1 DEF AbortTool, Cause, Effects, Stopped, documents, session, world, At, DispatchSound, TypeOK
  <2>5. AbortSound(p)' /\ ConfirmSound(p)'
    BY <1>26, <2>1 DEF AbortTool, Cause, Effects, Stopped, documents, session, world, At, DispatchSound, AbortSound, ConfirmSound, TypeOK
  <2> QED BY <2>1, <2>2, <2>3, <2>4, <2>5, Assemble DEF At
<1>27. ASSUME WriteReceipt(p) PROVE IInv'
  <2>1. /\ ~At(p, "idle") /\ Alone(p)' /\ job' \in [Procs -> Job] /\ lease' = lease
        /\ job'[p].pc = "quarantine_endpoint" /\ job'[p].cmd = job[p].cmd /\ job'[p].reason = job[p].reason
    BY <1>27, HolderAlone, GotoJob DEF WriteReceipt, Labels, At
  <2>2. TypeOK'
    BY <1>27, <2>1 DEF WriteReceipt, documents, session, world, TypeOK
  <2>3. DocumentsAgree' /\ ConfirmedAbortIsQuiet' /\ FailedIsQuarantined'
    BY <1>27, <2>1 DEF WriteReceipt, documents, session, world, At, AbortSound, ConfirmSound, DispatchSound
  <2>4. DispatchSound(p)'
    BY <1>27, <2>1 DEF WriteReceipt, documents, session, world, At, DispatchSound
  <2>5. AbortSound(p)' /\ ConfirmSound(p)'
    BY <1>27, <2>1 DEF WriteReceipt, documents, session, world, At, DispatchSound, AbortSound, ConfirmSound
  <2> QED BY <2>1, <2>2, <2>3, <2>4, <2>5, Assemble DEF At
<1>28. ASSUME QuarantineEndpoint(p) PROVE IInv'
  <2>1. /\ ~At(p, "idle") /\ Alone(p)' /\ job' \in [Procs -> Job] /\ lease' = lease
        /\ job'[p].pc = "quarantine_target" /\ job'[p].cmd = job[p].cmd /\ job'[p].reason = job[p].reason
    BY <1>28, HolderAlone, GotoJob DEF QuarantineEndpoint, Quarantine, Labels, At
  <2>2. TypeOK'
    BY <1>28, <2>1 DEF QuarantineEndpoint, Quarantine, documents, session, world, TypeOK
  <2>3. DocumentsAgree' /\ ConfirmedAbortIsQuiet' /\ FailedIsQuarantined'
    BY <1>28, <2>1 DEF QuarantineEndpoint, Quarantine, documents, session, world, At, AbortSound, ConfirmSound, DispatchSound
  <2>4. DispatchSound(p)'
    BY <1>28, <2>1 DEF QuarantineEndpoint, Quarantine, documents, session, world, At, DispatchSound
  <2>5. AbortSound(p)' /\ ConfirmSound(p)'
    BY <1>28, <2>1 DEF QuarantineEndpoint, Quarantine, documents, session, world, At, DispatchSound, AbortSound, ConfirmSound
  <2> QED BY <2>1, <2>2, <2>3, <2>4, <2>5, Assemble DEF At
<1>29. ASSUME QuarantineTarget(p) PROVE IInv'
  <2>1. /\ ~At(p, "idle") /\ Alone(p)' /\ job' \in [Procs -> Job] /\ lease' = lease
        /\ job'[p].pc = "fail_session" /\ job'[p].cmd = job[p].cmd /\ job'[p].reason = job[p].reason
    BY <1>29, HolderAlone, GotoJob DEF QuarantineTarget, Quarantine, Labels, At
  <2>2. TypeOK'
    BY <1>29, <2>1 DEF QuarantineTarget, Quarantine, documents, session, world, TypeOK
  <2>3. DocumentsAgree' /\ ConfirmedAbortIsQuiet' /\ FailedIsQuarantined'
    BY <1>29, <2>1 DEF QuarantineTarget, Quarantine, documents, session, world, At, AbortSound, ConfirmSound, DispatchSound
  <2>4. DispatchSound(p)'
    BY <1>29, <2>1 DEF QuarantineTarget, Quarantine, documents, session, world, At, DispatchSound, TypeOK
  <2>5. AbortSound(p)' /\ ConfirmSound(p)'
    BY <1>29, <2>1 DEF QuarantineTarget, Quarantine, documents, session, world, At, DispatchSound, AbortSound, ConfirmSound, TypeOK
  <2> QED BY <2>1, <2>2, <2>3, <2>4, <2>5, Assemble DEF At
<1>30. ASSUME FailSession(p) PROVE IInv'
  <2>1. /\ ~At(p, "idle") /\ Alone(p)' /\ job' \in [Procs -> Job] /\ lease' = None
        /\ job'[p] = Idle /\ job'[p].pc = "idle" /\ job'[p].cmd = None
    BY <1>30, HolderAlone, ReturnJob DEF FailSession, At
  <2>2. TypeOK'
    BY <1>30, <2>1 DEF FailSession, documents, session, world, TypeOK
  <2>3. DocumentsAgree' /\ ConfirmedAbortIsQuiet' /\ FailedIsQuarantined'
    BY <1>30, <2>1 DEF FailSession, documents, session, world, At, AbortSound, ConfirmSound, DispatchSound
  <2>4. DispatchSound(p)'
    BY <1>30, <2>1 DEF FailSession, documents, session, world, At, DispatchSound
  <2>5. AbortSound(p)' /\ ConfirmSound(p)'
    BY <1>30, <2>1 DEF FailSession, documents, session, world, At, DispatchSound, AbortSound, ConfirmSound
  <2> QED BY <2>1, <2>2, <2>3, <2>4, <2>5, Assemble DEF At
<1>31. ASSUME RunWorkload(p) PROVE IInv'
  <2>1. /\ ~At(p, "idle") /\ Alone(p)' /\ job' \in [Procs -> Job] /\ lease' = lease
        /\ job'[p].pc = "workload_complete" /\ job'[p].cmd = job[p].cmd /\ job'[p].reason = job[p].reason
    BY <1>31, HolderAlone, GotoJob DEF RunWorkload, Cause, Effects, Labels, At
  <2>2. TypeOK'
    BY <1>31, <2>1 DEF RunWorkload, Cause, Effects, documents, session, world, TypeOK
  <2>3. DocumentsAgree' /\ ConfirmedAbortIsQuiet' /\ FailedIsQuarantined'
    BY <1>31, <2>1 DEF RunWorkload, Cause, Effects, documents, session, world, At, AbortSound, ConfirmSound, DispatchSound
  <2>4. DispatchSound(p)'
    BY <1>31, <2>1 DEF RunWorkload, Cause, Effects, documents, session, world, At, DispatchSound, TypeOK
  <2>5. AbortSound(p)' /\ ConfirmSound(p)'
    BY <1>31, <2>1 DEF RunWorkload, Cause, Effects, documents, session, world, At, DispatchSound, AbortSound, ConfirmSound, TypeOK
  <2> QED BY <2>1, <2>2, <2>3, <2>4, <2>5, Assemble DEF At
<1>32. ASSUME PrepareStop(p) PROVE IInv'
  <2>1. /\ ~At(p, "idle") /\ Alone(p)' /\ job' \in [Procs -> Job] /\ lease' = None
        /\ job'[p] = Idle /\ job'[p].pc = "idle" /\ job'[p].cmd = None
    BY <1>32, HolderAlone, ReturnJob DEF PrepareStop, StopPreparable, At
  <2>2. TypeOK'
    BY <1>32, <2>1 DEF PrepareStop, StopPreparable, documents, session, world, TypeOK
  <2>3. DocumentsAgree' /\ ConfirmedAbortIsQuiet' /\ FailedIsQuarantined'
    BY <1>32, <2>1 DEF PrepareStop, StopPreparable, documents, session, world, At, AbortSound, ConfirmSound, DispatchSound
  <2>4. DispatchSound(p)'
    BY <1>32, <2>1 DEF PrepareStop, StopPreparable, documents, session, world, At, DispatchSound
  <2>5. AbortSound(p)' /\ ConfirmSound(p)'
    BY <1>32, <2>1 DEF PrepareStop, StopPreparable, documents, session, world, At, DispatchSound, AbortSound, ConfirmSound
  <2> QED BY <2>1, <2>2, <2>3, <2>4, <2>5, Assemble DEF At
<1>33. ASSUME Interrupt(p) PROVE IInv'
  <2>1. /\ ~At(p, "idle") /\ Alone(p)' /\ job' \in [Procs -> Job] /\ lease' = None
        /\ job'[p] = Idle /\ job'[p].pc = "idle" /\ job'[p].cmd = None
    BY <1>33, HolderAlone, ReturnJob DEF Interrupt, At
  <2>2. TypeOK'
    BY <1>33, <2>1 DEF Interrupt, documents, session, world, TypeOK
  <2>3. DocumentsAgree' /\ ConfirmedAbortIsQuiet' /\ FailedIsQuarantined'
    BY <1>33, <2>1 DEF Interrupt, documents, session, world, At, AbortSound, ConfirmSound, DispatchSound
  <2>4. DispatchSound(p)'
    BY <1>33, <2>1 DEF Interrupt, documents, session, world, At, DispatchSound
  <2>5. AbortSound(p)' /\ ConfirmSound(p)'
    BY <1>33, <2>1 DEF Interrupt, documents, session, world, At, DispatchSound, AbortSound, ConfirmSound
  <2> QED BY <2>1, <2>2, <2>3, <2>4, <2>5, Assemble DEF At
<1> QED BY <1>1, <1>2, <1>3, <1>4, <1>5, <1>6, <1>7, <1>8, <1>9, <1>10, <1>11, <1>12, <1>13, <1>14, <1>15, <1>16, <1>17, <1>18, <1>19, <1>20, <1>21, <1>22, <1>23, <1>24, <1>25, <1>26, <1>27, <1>28, <1>29, <1>30, <1>31, <1>32, <1>33 DEF Steps

(* The restart decision of drive_transaction.                               *)
LEMMA StartLabel ==
    ASSUME TypeOK, DocumentsAgree, Prepared, TransactionStart # "ambiguous"
    PROVE  /\ TransactionStart \in {"accept", "plan", "dispatch_intent", "fault_intent"}
           /\ TransactionStart \in {"dispatch_intent", "fault_intent"} => plan = None
           /\ TransactionStart = "dispatch_intent" =>
                 /\ "DispatchIntent" \notin journal /\ request.fault # "trace32"
                 /\ request.fault = "driver" => "FaultIntent" \notin journal
           /\ TransactionStart = "fault_intent" =>
                 /\ "FaultIntent" \notin journal
                 /\ request.fault = "cmm" => "DispatchIntent" \notin journal
           /\ TransactionStart = "plan" =>
                 \/ "FaultIntent" \in journal =>
                       journal \cap {"FaultTriggered", "AbortAttempt", "AbortSuccessObserved"} # {}
                 \/ receipt
<1>1. request.fault \in {"none", "cmm", "trace32", "driver"}
  BY Names DEF TypeOK, Prepared
<1>2. CASE response # None \/ staged # None
  BY <1>2 DEF TransactionStart
<1> SUFFICES ASSUME response = None, staged = None PROVE
           /\ TransactionStart \in {"plan", "dispatch_intent", "fault_intent"}
           /\ TransactionStart \in {"dispatch_intent", "fault_intent"} => plan = None
           /\ TransactionStart = "dispatch_intent" =>
                 /\ "DispatchIntent" \notin journal /\ request.fault # "trace32"
                 /\ request.fault = "driver" => "FaultIntent" \notin journal
           /\ TransactionStart = "fault_intent" =>
                 /\ "FaultIntent" \notin journal
                 /\ request.fault = "cmm" => "DispatchIntent" \notin journal
           /\ TransactionStart = "plan" =>
                 \/ "FaultIntent" \in journal =>
                       journal \cap {"FaultTriggered", "AbortAttempt", "AbortSuccessObserved"} # {}
                 \/ receipt
  BY <1>2
<1>3. CASE request.fault = "none"
  <2>1. TransactionStart = NormalStart
    BY <1>3 DEF TransactionStart
  <2> QED BY <1>3, <2>1 DEF NormalStart, AbortStarted, DocumentsAgree
<1>4. CASE request.fault = "cmm"
  <2>1. TransactionStart = CmmStart
    BY <1>4 DEF TransactionStart
  <2> QED BY <1>4, <2>1 DEF CmmStart, FaultStart, AbortStarted
<1>5. CASE request.fault = "trace32"
  <2>1. TransactionStart = Trace32Start
    BY <1>5 DEF TransactionStart
  <2> QED BY <1>5, <2>1 DEF Trace32Start, FaultStart, AbortStarted
<1>6. CASE request.fault = "driver"
  <2>1. TransactionStart = DriverStart
    BY <1>6 DEF TransactionStart
  <2> QED BY <1>6, <2>1 DEF DriverStart, FaultStart, AbortStarted
<1> QED BY <1>1, <1>3, <1>4, <1>5, <1>6

(* So does every command that starts, or consists of one write.             *)
LEMMA StartsInv == ASSUME IInv, NEW p \in Procs, Starts(p) PROVE IInv'
<1>0. /\ TypeOK /\ DocumentsAgree /\ ConfirmedAbortIsQuiet /\ FailedIsQuarantined
      /\ At(p, "idle") => job[p] = Idle
  BY DEF IInv, OneCommand
<1> USE <1>0, Names DEF DocumentsAgree, ConfirmedAbortIsQuiet, FailedIsQuarantined, PlanBound
<1>1. ASSUME Prepare(p) PROVE IInv'
  <2>1. Alone(p)' /\ job' = job /\ lease' = lease /\ job'[p] = Idle /\ job'[p].pc = "idle"
    BY <1>1, HolderAlone DEF Prepare, LeaseFree, host, Alone
  <2>2. TypeOK'
    BY <1>1, <2>1 DEF Prepare, documents, session, world, TypeOK
  <2>3. DocumentsAgree' /\ ConfirmedAbortIsQuiet' /\ FailedIsQuarantined'
    BY <1>1, <2>1 DEF Prepare, documents, session, world, Prepared, TypeOK
  <2>4. DispatchSound(p)' /\ AbortSound(p)' /\ ConfirmSound(p)'
    BY <2>1 DEF DispatchSound, AbortSound, ConfirmSound
  <2> QED BY <2>1, <2>2, <2>3, <2>4, Assemble
<1>2. ASSUME PrepareStopByHand(p) PROVE IInv'
  <2>1. Alone(p)' /\ job' = job /\ lease' = lease /\ job'[p] = Idle /\ job'[p].pc = "idle"
    BY <1>2, HolderAlone DEF PrepareStopByHand, LeaseFree, host, Alone
  <2>2. TypeOK'
    BY <1>2, <2>1 DEF PrepareStopByHand, StopPreparable, documents, session, world, TypeOK
  <2>3. DocumentsAgree' /\ ConfirmedAbortIsQuiet' /\ FailedIsQuarantined'
    BY <1>2, <2>1 DEF PrepareStopByHand, StopPreparable, documents, session, world, Prepared, TypeOK
  <2>4. DispatchSound(p)' /\ AbortSound(p)' /\ ConfirmSound(p)'
    BY <2>1 DEF DispatchSound, AbortSound, ConfirmSound
  <2> QED BY <2>1, <2>2, <2>3, <2>4, Assemble
<1>3. ASSUME NEW reason \in Reasons, PlanAbortByHand(p, reason) PROVE IInv'
  <2>1. Alone(p)' /\ job' = job /\ lease' = lease /\ job'[p] = Idle /\ job'[p].pc = "idle"
    BY <1>3, HolderAlone DEF PlanAbortByHand, LeaseFree, host, Alone
  <2>2. TypeOK'
    BY <1>3, <2>1 DEF PlanAbortByHand, AbortPlannable, documents, session, world, TypeOK
  <2>3. DocumentsAgree' /\ ConfirmedAbortIsQuiet' /\ FailedIsQuarantined'
    BY <1>3, <2>1 DEF PlanAbortByHand, AbortPlannable, documents, session, world, Prepared, TypeOK
  <2>4. DispatchSound(p)' /\ AbortSound(p)' /\ ConfirmSound(p)'
    BY <2>1 DEF DispatchSound, AbortSound, ConfirmSound
  <2> QED BY <2>1, <2>2, <2>3, <2>4, Assemble
<1>4. ASSUME Accept(p) PROVE IInv'
  <2>0. Alone(p) /\ "accept" \in Labels
    BY <1>4, HolderAlone DEF Accept, Begin, Labels
  <2>1. /\ Alone(p)' /\ job' \in [Procs -> Job] /\ lease' = p
        /\ job'[p].pc = "accept" /\ job'[p].cmd = "accept" /\ job'[p].reason = None
    BY <1>4, <2>0, BeginJob DEF Accept, Commands, AbortReasons
  <2>2. TypeOK'
    BY <1>4, <2>1 DEF Accept, documents, session, world, TypeOK
  <2>3. DocumentsAgree' /\ ConfirmedAbortIsQuiet' /\ FailedIsQuarantined'
    BY <1>4, <2>1 DEF Accept, documents, session, world, Prepared
  <2>4. DispatchSound(p)' /\ AbortSound(p)' /\ ConfirmSound(p)'
    BY <1>4, <2>0, <2>1 DEF Accept, documents, session, world, Prepared, Drives, AbortReasons, DispatchSound, AbortSound, ConfirmSound
  <2> QED BY <2>0, <2>1, <2>2, <2>3, <2>4, Assemble DEF Labels
<1>5. ASSUME ConfirmAbort(p) PROVE IInv'
  <2>0. Alone(p) /\ "receipt" \in Labels
    BY <1>5, HolderAlone DEF ConfirmAbort, Begin, Labels
  <2>1. /\ Alone(p)' /\ job' \in [Procs -> Job] /\ lease' = p
        /\ job'[p].pc = "receipt" /\ job'[p].cmd = "confirm_abort" /\ job'[p].reason = None
    BY <1>5, <2>0, BeginJob DEF ConfirmAbort, Commands, AbortReasons
  <2>2. TypeOK'
    BY <1>5, <2>1 DEF ConfirmAbort, documents, session, world, TypeOK
  <2>3. DocumentsAgree' /\ ConfirmedAbortIsQuiet' /\ FailedIsQuarantined'
    BY <1>5, <2>1 DEF ConfirmAbort, documents, session, world, Prepared
  <2>4. DispatchSound(p)' /\ AbortSound(p)' /\ ConfirmSound(p)'
    BY <1>5, <2>0, <2>1 DEF ConfirmAbort, documents, session, world, Prepared, Drives, AbortReasons, DispatchSound, AbortSound, ConfirmSound
  <2> QED BY <2>0, <2>1, <2>2, <2>3, <2>4, Assemble DEF Labels
<1>6. ASSUME NEW reason \in Reasons, AbortUpstream(p, reason) PROVE IInv'
  <2>0. Alone(p) /\ "plan" \in Labels
    BY <1>6, HolderAlone DEF AbortUpstream, Begin, Labels
  <2>1. /\ Alone(p)' /\ job' \in [Procs -> Job] /\ lease' = p
        /\ job'[p].pc = "plan" /\ job'[p].cmd = "abort_upstream" /\ job'[p].reason = reason
    BY <1>6, <2>0, BeginJob DEF AbortUpstream, Commands, AbortReasons
  <2>2. TypeOK'
    BY <1>6, <2>1 DEF AbortUpstream, documents, session, world, TypeOK
  <2>3. DocumentsAgree' /\ ConfirmedAbortIsQuiet' /\ FailedIsQuarantined'
    BY <1>6, <2>1 DEF AbortUpstream, documents, session, world, Prepared
  <2>4. DispatchSound(p)' /\ AbortSound(p)' /\ ConfirmSound(p)'
    BY <1>6, <2>0, <2>1 DEF AbortUpstream, documents, session, world, Prepared, Drives, AbortReasons, DispatchSound, AbortSound, ConfirmSound
  <2> QED BY <2>0, <2>1, <2>2, <2>3, <2>4, Assemble DEF Labels
<1>7. ASSUME Drive(p) PROVE IInv'
  <2>0. Alone(p) /\ "surface" \in Labels
    BY <1>7, HolderAlone DEF Drive, Begin, Labels
  <2>1. /\ Alone(p)' /\ job' \in [Procs -> Job] /\ lease' = p
        /\ job'[p].pc = "surface" /\ job'[p].cmd = "drive" /\ job'[p].reason = None
    BY <1>7, <2>0, BeginJob DEF Drive, Commands, AbortReasons
  <2>2. TypeOK'
    BY <1>7, <2>1 DEF Drive, documents, session, world, TypeOK
  <2>3. DocumentsAgree' /\ ConfirmedAbortIsQuiet' /\ FailedIsQuarantined'
    BY <1>7, <2>1 DEF Drive, documents, session, world, Prepared
  <2>4. DispatchSound(p)' /\ AbortSound(p)' /\ ConfirmSound(p)'
    BY <1>7, <2>0, <2>1 DEF Drive, documents, session, world, Prepared, Drives, AbortReasons, DispatchSound, AbortSound, ConfirmSound
  <2> QED BY <2>0, <2>1, <2>2, <2>3, <2>4, Assemble DEF Labels
<1>8. ASSUME DriveTransaction(p) PROVE IInv'
  <2>0. Alone(p) /\ TransactionStart \in Labels /\ TransactionStart # "idle"
    BY <1>8, HolderAlone, StartLabel DEF DriveTransaction, Begin, Labels
  <2>1. /\ Alone(p)' /\ job' \in [Procs -> Job] /\ lease' = p
        /\ job'[p].pc = TransactionStart /\ job'[p].cmd = "drive_transaction" /\ job'[p].reason = "transport_failure"
    BY <1>8, <2>0, BeginJob DEF DriveTransaction, Commands, AbortReasons
  <2>2. TypeOK'
    BY <1>8, <2>1 DEF DriveTransaction, documents, session, world, TypeOK
  <2>3. DocumentsAgree' /\ ConfirmedAbortIsQuiet' /\ FailedIsQuarantined'
    BY <1>8, <2>1 DEF DriveTransaction, documents, session, world, Prepared
  <2>4. DispatchSound(p)' /\ AbortSound(p)' /\ ConfirmSound(p)'
    BY <1>8, <2>0, <2>1, StartLabel DEF DriveTransaction, documents, session, world, Prepared, Drives, AbortReasons, DispatchSound, AbortSound, ConfirmSound
  <2> QED BY <2>0, <2>1, <2>2, <2>3, <2>4, Assemble DEF Labels
<1> QED BY <1>1, <1>2, <1>3, <1>4, <1>5, <1>6, <1>7, <1>8 DEF Starts

LEMMA EnvironmentInv == IInv /\ Environment => IInv'
<1> SUFFICES ASSUME IInv, Environment PROVE IInv'
  OBVIOUS
<1>1. /\ UNCHANGED <<request, journal, plan, receipt, raw, response, stopPrepared, session, effects, host>>
      /\ script' = script \/ script' \in {"finished", "ended"}
      /\ staged' \in StagedValues \cup {None} /\ operatorAborted' \in BOOLEAN
      /\ operatorAborted' => operatorAborted \/ (plan # None /\ script' # "running")
      /\ operatorAborted => operatorAborted'
  <2>0. TypeOK
    BY DEF IInv
  <2>1. CASE ScriptFinishes
    BY <2>0, <2>1 DEF ScriptFinishes, documents, TypeOK
  <2>2. CASE StageByHand
    BY <2>0, <2>2 DEF StageByHand, world, TypeOK
  <2>3. CASE AbortByHand
    BY <2>0, <2>3 DEF AbortByHand, Stopped, documents, TypeOK
  <2> QED BY <2>1, <2>2, <2>3 DEF Environment
<1>2. TypeOK'
  BY <1>1 DEF IInv, TypeOK, session, host
<1>3. OneCommand'
  BY <1>1 DEF IInv, OneCommand, host, At
<1>4. DocumentsAgree' /\ ConfirmedAbortIsQuiet' /\ FailedIsQuarantined'
  BY <1>1 DEF IInv, DocumentsAgree, ConfirmedAbortIsQuiet, FailedIsQuarantined, Prepared, session
<1>5. ASSUME NEW p \in Procs PROVE HolderSound(p)'
  <2>1. HolderSound(p) /\ job' = job
    BY <1>1 DEF IInv, host
  <2> QED BY <1>1, <2>1 DEF HolderSound, DispatchSound, AbortSound, ConfirmSound, Prepared, session
<1> QED BY <1>2, <1>3, <1>4, <1>5 DEF IInv

LEMMA StepInv == IInv /\ [Next]_vars => IInv'
<1>1. ASSUME IInv, UNCHANGED vars PROVE IInv'
  BY <1>1 DEF vars, documents, session, world, host, IInv, TypeOK, OneCommand, DocumentsAgree, At,
     Prepared, HolderSound, DispatchSound, AbortSound, ConfirmSound, ConfirmedAbortIsQuiet, FailedIsQuarantined
<1> QED BY <1>1, StepsInv, StartsInv, EnvironmentInv DEF Next

-----------------------------------------------------------------------------
(* The invariant holds in every reachable state.                            *)
THEOREM DriverInvariant == Spec => []IInv
BY InitInv, StepInv, PTL DEF Spec

(* An abort receipt speaks of a device at rest: the abort was observed and  *)
(* no script of the transaction runs, now or later.                         *)
THEOREM ConfirmedAbortStaysQuiet == Spec => []ConfirmedAbortIsQuiet
<1>1. IInv => ConfirmedAbortIsQuiet
  BY DEF IInv
<1> QED BY <1>1, DriverInvariant, PTL

(* A Session fails only by a rejected response or behind the receipt and    *)
(* both quarantine records.                                                 *)
THEOREM FailedAlwaysQuarantined == Spec => []FailedIsQuarantined
<1>1. IInv => FailedIsQuarantined
  BY DEF IInv
<1> QED BY <1>1, DriverInvariant, PTL

-----------------------------------------------------------------------------
(* The refinement of the one-shot effects.                                  *)
Intended == Evidence("DispatchIntent" \in journal, "FaultIntent" \in journal,
                     "AbortAttempt" \in journal, "WorkloadIntent" \in journal)
Armed == Evidence(Someone({"execute"}), Someone({"plan_fault", "fault"}),
                  Someone({"abort_tool"}), Someone({"workload"}))
Observed == Evidence(FALSE, "FaultTriggered" \in journal,
                     "AbortSuccessObserved" \in journal, "WorkloadComplete" \in journal)

LEMMA IntendStep ==
    ASSUME NEW e \in Effects, e \notin Intended, Intended' = Intended \cup {e},
           Armed' = Armed \cup {e}, UNCHANGED <<effects, Observed>>
    PROVE  OneShots!Next
<1>1. OneShots!Intend(e)
  BY DEF OneShots!Intend, Intended, Armed, Observed
<1> QED BY <1>1 DEF OneShots!Next

LEMMA PerformStep ==
    ASSUME NEW e \in Effects, e \in Armed, Armed' = Armed \ {e}, Cause(e), UNCHANGED <<Intended, Observed>>
    PROVE  OneShots!Next
<1>1. OneShots!Perform(e)
  BY DEF OneShots!Perform, Intended, Armed, Observed, Cause
<1> QED BY <1>1 DEF OneShots!Next

LEMMA LoseStep ==
    ASSUME NEW e \in Effects, e \in Armed, Armed' = Armed \ {e}, UNCHANGED <<effects, Intended, Observed>>
    PROVE  OneShots!Next
<1>1. OneShots!Lose(e)
  BY DEF OneShots!Lose, Intended, Armed, Observed
<1> QED BY <1>1 DEF OneShots!Next

LEMMA ObserveStep ==
    ASSUME NEW e \in Effects, effects[e] > 0, e \notin Observed, Observed' = Observed \cup {e},
           UNCHANGED <<effects, Intended, Armed>>
    PROVE  OneShots!Next
<1>1. OneShots!Observe(e)
  BY DEF OneShots!Observe, Intended, Armed, Observed
<1> QED BY <1>1 DEF OneShots!Next

LEMMA QuietStep ==
    ASSUME UNCHANGED <<effects, Intended, Armed, Observed>>
    PROVE  UNCHANGED OneShots!vars
BY DEF OneShots!vars, Intended, Armed, Observed

\* What the process that is not idle is armed for.
ArmedFor(p) == Evidence(job[p].pc = "execute", job[p].pc \in {"plan_fault", "fault"},
                        job[p].pc = "abort_tool", job[p].pc = "workload")

LEMMA ArmedAlone == ASSUME NEW p \in Procs, Alone(p) PROVE Armed = ArmedFor(p)
<1>1. \A q \in Procs \ {p} : job[q].pc = "idle"
  BY Names DEF Alone
<1> QED BY <1>1 DEF Armed, ArmedFor, Someone, Evidence, Disconnects, Prepared

LEMMA ArmedAloneNext == ASSUME NEW p \in Procs, Alone(p)' PROVE Armed' = ArmedFor(p)'
<1>1. \A q \in Procs \ {p} : job'[q].pc = "idle"
  BY Names DEF Alone
<1> QED BY <1>1 DEF Armed, ArmedFor, Someone, Evidence, Disconnects, Prepared

\* The labels at which nothing is armed.
Unarmed == Labels \ {"execute", "plan_fault", "fault", "abort_tool", "workload"}

LEMMA UnarmedStep ==
    ASSUME NEW p \in Procs, Alone(p), Alone(p)', UNCHANGED <<request, journal, effects>>,
           job[p].pc \in Unarmed,
           job'[p].pc \in Unarmed \/ (job'[p].pc = "plan_fault" /\ request.fault = "cmm")
    PROVE  UNCHANGED OneShots!vars
<1>1. UNCHANGED <<Intended, Observed>>
  BY DEF Intended, Observed, Evidence, Disconnects, Prepared
<1>2. ArmedFor(p) = {} /\ ArmedFor(p)' = {}
  BY DEF ArmedFor, Evidence, Unarmed, Disconnects, Prepared
<1> QED BY <1>1, <1>2, ArmedAlone, ArmedAloneNext, QuietStep

LEMMA StepAlone ==
    ASSUME IInv, NEW p \in Procs, Steps(p) \/ Interrupt(p)
    PROVE  ~At(p, "idle") /\ Alone(p) /\ Alone(p)'
<1>1. ~At(p, "idle") /\ lease' \in {lease, None}
  <2>1. CASE SurfacePrepare(p) \/ SurfacePending(p) \/ SurfaceRecover(p) \/ SurfaceWorkload(p) \/ SurfaceDone(p)
    BY <2>1 DEF SurfacePrepare, SurfacePending, SurfaceRecover, Pending, SurfaceWorkload, SurfaceDone, Goto, Return, At
  <2>2. CASE RecordDispatchIntent(p) \/ RecordFaultIntent(p) \/ RecordFaultTriggered(p)
             \/ RecordAbortAttempt(p) \/ RecordAbortSuccess(p)
             \/ RecordWorkloadIntent(p) \/ RecordWorkloadComplete(p)
    BY <2>2 DEF RecordDispatchIntent, RecordFaultIntent, RecordFaultTriggered, RecordAbortAttempt,
       RecordAbortSuccess, Record, RecordWorkloadIntent, RecordWorkloadComplete, RecordWorkload, Goto, At
  <2>3. CASE Execute(p) \/ Collect(p) \/ RunDisconnectHook(p) \/ KillDriverChild(p) \/ AbortTool(p) \/ RunWorkload(p)
    BY <2>3 DEF Execute, Collect, RunDisconnectHook, KillDriverChild, TriggerFault, AbortTool, RunWorkload, Goto, At
  <2>4. CASE StageResponse(p) \/ AcceptRaw(p) \/ IngestRaw(p) \/ AcceptResponse(p) \/ Reconcile(p)
    BY <2>4 DEF StageResponse, AcceptRaw, IngestRaw, AcceptResponse, Reconcile, Goto, Return, At
  <2>5. CASE PlanCmmAbort(p) \/ PlanDisconnectAbort(p) \/ EnsureAbortPlanned(p) \/ OfficialAbort(p)
    BY <2>5 DEF PlanCmmAbort, PlanDisconnectAbort, EnsureAbortPlanned, PlanAbort, OfficialAbort, Goto, At
  <2>6. CASE WriteReceipt(p) \/ QuarantineEndpoint(p) \/ QuarantineTarget(p) \/ FailSession(p)
             \/ PrepareStop(p) \/ Interrupt(p)
    BY <2>6 DEF WriteReceipt, QuarantineEndpoint, QuarantineTarget, Quarantine, FailSession,
       PrepareStop, Interrupt, Goto, Return, At
  <2> QED BY <2>1, <2>2, <2>3, <2>4, <2>5, <2>6 DEF Steps
<1>2. Alone(p) /\ lease = p
  BY <1>1, HolderAlone DEF IInv, OneCommand
<1>3. OneCommand'
  BY StepsInv DEF IInv
<1> QED BY <1>1, <1>2, <1>3, Names DEF OneCommand, Alone, At

(* Every step of a command is one abstract step or none.                    *)
LEMMA StepsRefine ==
    ASSUME IInv, NEW p \in Procs, Steps(p) \/ Interrupt(p)
    PROVE  OneShots!Next \/ UNCHANGED OneShots!vars
<1>0. /\ TypeOK /\ DocumentsAgree /\ DispatchSound(p) /\ AbortSound(p)
      /\ Alone(p) /\ Alone(p)' /\ Armed = ArmedFor(p) /\ Armed' = ArmedFor(p)'
      /\ job[p].pc \in Labels /\ job \in [Procs -> Job]
  BY StepAlone, ArmedAlone, ArmedAloneNext DEF IInv, HolderSound, TypeOK, Job
<1>a. ASSUME NEW l \in Labels, Goto(p, l) PROVE job'[p].pc = l
  BY <1>0, <1>a, GotoJob
<1>b. ASSUME Return(p) PROVE job'[p].pc = "idle"
  BY <1>0, <1>b, ReturnJob
<1> USE <1>0 DEF documents, session, world
<1>1. CASE SurfacePending(p) \/ SurfaceWorkload(p) \/ SurfaceDone(p)
  BY <1>1, <1>a, <1>b, UnarmedStep DEF SurfacePending, Pending, SurfaceWorkload, SurfaceDone, At, Labels, Unarmed
<1>2. CASE SurfaceRecover(p)
  <2>1. job'[p].pc = "plan"
    BY <1>2, RecoverJob
  <2> QED BY <1>2, <2>1, UnarmedStep DEF SurfaceRecover, Pending, At, Labels, Unarmed
<1>3. CASE Collect(p)
  <2>1. WhileRunning(p) \in {"surface", "fault_intent", "collect"}
    BY DEF WhileRunning
  <2>2. \/ job'[p].pc \in {"stage", "surface", "fault_intent", "collect"}
        \/ request.fault = "cmm" /\ job'[p].pc = "plan_fault"
    BY <1>3, <2>1, ToolJob DEF Collect
  <2> QED BY <1>3, <2>2, UnarmedStep DEF Collect, At, Labels, Unarmed
<1>4. CASE StageResponse(p) \/ AcceptResponse(p) \/ Reconcile(p)
  BY <1>4, <1>a, <1>b, UnarmedStep DEF StageResponse, AcceptResponse, Reconcile, At, Labels, Unarmed
<1>5. CASE AcceptRaw(p) \/ IngestRaw(p)
  <2>1. job'[p].pc \in {"reconcile", "respond", "ingest", "idle"}
    BY <1>5, <1>a, <1>b DEF AcceptRaw, IngestRaw, Labels, Job
  <2> QED BY <1>5, <2>1, UnarmedStep DEF AcceptRaw, IngestRaw, At, Labels, Unarmed
<1>6. CASE EnsureAbortPlanned(p) \/ OfficialAbort(p) \/ WriteReceipt(p)
  BY <1>6, <1>a, UnarmedStep DEF EnsureAbortPlanned, PlanAbort, OfficialAbort, WriteReceipt, At, Labels, Unarmed
<1>7. CASE QuarantineEndpoint(p) \/ QuarantineTarget(p) \/ FailSession(p) \/ PrepareStop(p)
  BY <1>7, <1>a, <1>b, UnarmedStep DEF QuarantineEndpoint, QuarantineTarget, Quarantine, FailSession, PrepareStop, At, Labels, Unarmed
<1> USE DEF Intended, Observed, ArmedFor, Evidence, Effects, Disconnects, Prepared
<1>8. CASE SurfacePrepare(p)
  <2>1. /\ job[p].pc = "surface" /\ job'[p].pc = "dispatch_intent" /\ UNCHANGED <<journal, effects>>
        /\ journal = {}
    BY <1>8, <1>a DEF SurfacePrepare, At, Labels, DocumentsAgree
  <2> QED BY <2>1, QuietStep
<1>9. CASE RecordDispatchIntent(p)
  <2>1. /\ job[p].pc = "dispatch_intent" /\ job'[p].pc = "execute" /\ UNCHANGED <<request, effects>>
        /\ "DispatchIntent" \notin journal /\ journal' = journal \cup {"DispatchIntent"}
    BY <1>9, <1>a DEF RecordDispatchIntent, Record, At, Labels, DispatchSound
  <2> QED BY <2>1, IntendStep
<1>10. CASE RecordFaultIntent(p)
  <2>1. /\ job[p].pc = "fault_intent" /\ UNCHANGED <<request, effects>>
        /\ "FaultIntent" \notin journal /\ journal' = journal \cup {"FaultIntent"}
        /\ job'[p].pc = (IF request.fault = "cmm" THEN "dispatch_intent" ELSE "plan_fault")
        /\ request # None /\ request.fault \in {"cmm", "trace32", "driver"}
    BY <1>10, <1>a, Names DEF RecordFaultIntent, Record, Recordable, At, Labels, DispatchSound, TypeOK
  <2>2. CASE request.fault = "cmm"
    BY <2>1, <2>2, QuietStep
  <2>3. CASE request.fault # "cmm"
    BY <2>1, <2>3, IntendStep
  <2> QED BY <2>2, <2>3
<1>11. CASE RecordFaultTriggered(p)
  <2>1. /\ job[p].pc = "fault_triggered" /\ job'[p].pc = "official_abort" /\ UNCHANGED <<request, effects>>
        /\ journal' = journal \cup {"FaultTriggered"}
        /\ request.fault # "cmm" => effects["fault"] > 0
    BY <1>11, <1>a DEF RecordFaultTriggered, Record, At, Labels, DispatchSound
  <2>2. CASE Disconnects /\ "FaultTriggered" \notin journal
    BY <2>1, <2>2, ObserveStep
  <2>3. CASE ~(Disconnects /\ "FaultTriggered" \notin journal)
    BY <2>1, <2>3, QuietStep
  <2> QED BY <2>2, <2>3
<1>12. CASE RecordAbortAttempt(p)
  <2>1. /\ job[p].pc = "abort_attempt" /\ job'[p].pc = "abort_tool" /\ UNCHANGED <<request, effects>>
        /\ "AbortAttempt" \notin journal /\ journal' = journal \cup {"AbortAttempt"}
    BY <1>12, <1>a DEF RecordAbortAttempt, Record, At, Labels, AbortSound
  <2> QED BY <2>1, IntendStep
<1>13. CASE RecordAbortSuccess(p)
  <2>1. /\ job[p].pc = "abort_success" /\ job'[p].pc = "receipt" /\ UNCHANGED <<request, effects>>
        /\ journal' = journal \cup {"AbortSuccessObserved"} /\ effects["abort"] > 0
    BY <1>13, <1>a DEF RecordAbortSuccess, Record, At, Labels, AbortSound
  <2>2. CASE "AbortSuccessObserved" \notin journal
    BY <2>1, <2>2, ObserveStep
  <2>3. CASE "AbortSuccessObserved" \in journal
    BY <2>1, <2>3, QuietStep
  <2> QED BY <2>2, <2>3
<1>14. CASE RecordWorkloadIntent(p)
  <2>1. /\ job[p].pc = "workload_intent" /\ job'[p].pc = "workload" /\ UNCHANGED <<request, effects>>
        /\ "WorkloadIntent" \notin journal /\ journal' = journal \cup {"WorkloadIntent"}
    BY <1>14, <1>a DEF RecordWorkloadIntent, RecordWorkload, At, Labels, DispatchSound
  <2> QED BY <2>1, IntendStep
<1>15. CASE RecordWorkloadComplete(p)
  <2>1. /\ job[p].pc = "workload_complete" /\ job'[p].pc = "prepare_stop" /\ UNCHANGED <<request, effects>>
        /\ journal' = journal \cup {"WorkloadComplete"} /\ effects["workload"] > 0
    BY <1>15, <1>a DEF RecordWorkloadComplete, RecordWorkload, At, Labels, DispatchSound
  <2>2. CASE "WorkloadComplete" \notin journal
    BY <2>1, <2>2, ObserveStep
  <2>3. CASE "WorkloadComplete" \in journal
    BY <2>1, <2>3, QuietStep
  <2> QED BY <2>2, <2>3
<1>16. CASE Execute(p)
  <2>1. WhileRunning(p) \in {"surface", "fault_intent", "collect"}
    BY DEF WhileRunning
  <2>2. \/ job'[p].pc \in {"stage", "surface", "fault_intent", "collect"}
        \/ request.fault = "cmm" /\ job'[p].pc = "plan_fault"
    BY <1>16, <2>1, ToolJob DEF Execute
  <2>3. job[p].pc = "execute" /\ UNCHANGED <<request, journal>> /\ Cause("execute")
    BY <1>16 DEF Execute, At
  <2> QED BY <2>2, <2>3, PerformStep
<1>17. CASE RunDisconnectHook(p) \/ KillDriverChild(p)
  <2>1. /\ job[p].pc = "fault" /\ job'[p].pc = "fault_triggered" /\ UNCHANGED <<request, journal>>
        /\ Cause("fault") /\ request # None /\ request.fault \in {"trace32", "driver"}
    BY <1>17, <1>a DEF RunDisconnectHook, KillDriverChild, TriggerFault, At, Labels, DispatchSound
  <2> QED BY <2>1, PerformStep
<1>18. CASE AbortTool(p)
  <2>1. /\ job[p].pc = "abort_tool" /\ job'[p].pc = "abort_success" /\ UNCHANGED <<request, journal>>
        /\ Cause("abort")
    BY <1>18, <1>a DEF AbortTool, At, Labels
  <2> QED BY <2>1, PerformStep
<1>19. CASE RunWorkload(p)
  <2>1. /\ job[p].pc = "workload" /\ job'[p].pc = "workload_complete" /\ UNCHANGED <<request, journal>>
        /\ Cause("workload")
    BY <1>19, <1>a DEF RunWorkload, At, Labels
  <2> QED BY <2>1, PerformStep
<1>20. CASE PlanCmmAbort(p) \/ PlanDisconnectAbort(p)
  <2>1. /\ job[p].pc = "plan_fault" /\ UNCHANGED <<request, journal, effects>>
        /\ \/ job'[p].pc = "fault_triggered" /\ request.fault = "cmm"
           \/ job'[p].pc = "fault"
    BY <1>20, <1>a DEF PlanCmmAbort, PlanDisconnectAbort, PlanAbort, At, Labels
  <2> QED BY <2>1, QuietStep
<1>21. CASE Interrupt(p)
  <2>1. job'[p].pc = "idle" /\ UNCHANGED <<request, journal, effects>>
    BY <1>21, <1>b DEF Interrupt
  <2>2. ArmedFor(p)' = {} /\ UNCHANGED <<Intended, Observed>>
    BY <2>1
  <2>3. CASE ArmedFor(p) = {}
    BY <2>1, <2>2, <2>3, QuietStep
  <2>4. CASE ArmedFor(p) # {}
    <3>1. PICK e \in Effects : ArmedFor(p) = {e}
      BY <2>4
    <3> QED BY <2>1, <2>2, <3>1, LoseStep
  <2> QED BY <2>3, <2>4
<1> QED BY <1>1, <1>2, <1>3, <1>4, <1>5, <1>6, <1>7, <1>8, <1>9, <1>10, <1>11, <1>12, <1>13,
      <1>14, <1>15, <1>16, <1>17, <1>18, <1>19, <1>20, <1>21 DEF Steps

(* A command that starts, a single write and the environment are no step of *)
(* the effects: nobody is armed and no intent is recorded.                  *)
LEMMA StartsRefine ==
    ASSUME IInv, NEW p \in Procs, Starts(p)
    PROVE  UNCHANGED OneShots!vars
<1>1. /\ lease = None /\ At(p, "idle") /\ UNCHANGED <<journal, effects>>
      /\ UNCHANGED request \/ ~Prepared
  BY DEF Starts, Prepare, PrepareStopByHand, PlanAbortByHand, Accept, ConfirmAbort, AbortUpstream,
     Drive, DriveTransaction, LeaseFree, Begin, documents, world
<1>2. Alone(p) /\ TypeOK /\ DocumentsAgree
  BY <1>1, HolderAlone DEF IInv
<1>3. Alone(p)' /\ job'[p].pc \in Unarmed
  <2>1. CASE UNCHANGED job
    BY <1>1, <1>2, <2>1 DEF Alone, At, Unarmed, Labels
  <2>2. ASSUME NEW c, NEW l \in Unarmed, NEW r, Begin(p, c, l, r) PROVE Alone(p)' /\ job'[p].pc \in Unarmed
    BY <1>2, <2>2 DEF Begin, Alone, Idle, TypeOK
  <2>3. DriveTransaction(p) => TransactionStart \in Unarmed
    BY <1>2, StartLabel DEF DriveTransaction, Unarmed, Labels
  <2>4. /\ "accept" \in Unarmed /\ "receipt" \in Unarmed /\ "plan" \in Unarmed /\ "surface" \in Unarmed
    BY DEF Unarmed, Labels
  <2> QED BY <2>1, <2>2, <2>3, <2>4 DEF Starts, Prepare, PrepareStopByHand, PlanAbortByHand, Accept,
          ConfirmAbort, AbortUpstream, Drive, DriveTransaction, host
<1>4. job[p].pc \in Unarmed
  BY <1>1 DEF At, Unarmed, Labels
<1>5. CASE UNCHANGED request
  BY <1>1, <1>2, <1>3, <1>4, <1>5, UnarmedStep
<1>6. CASE ~Prepared
  <2>1. journal = {}
    BY <1>2, <1>6 DEF DocumentsAgree
  <2>2. UNCHANGED <<Intended, Observed>>
    BY <1>1, <2>1 DEF Intended, Observed, Evidence
  <2>3. ArmedFor(p) = {} /\ ArmedFor(p)' = {}
    BY <1>3, <1>4 DEF ArmedFor, Evidence, Unarmed
  <2> QED BY <1>1, <1>2, <1>3, <2>2, <2>3, ArmedAlone, ArmedAloneNext, QuietStep
<1> QED BY <1>1, <1>5, <1>6

LEMMA NextRefines ==
    ASSUME IInv, [Next]_vars
    PROVE  [OneShots!Next]_(OneShots!vars)
<1>1. ASSUME UNCHANGED <<request, journal, effects, job>> PROVE UNCHANGED OneShots!vars
  <2>1. UNCHANGED <<Intended, Armed, Observed>>
    BY <1>1 DEF Intended, Armed, Observed, Evidence, Someone, Disconnects, Prepared
  <2> QED BY <1>1, <2>1, QuietStep
<1>2. CASE Environment \/ UNCHANGED vars
  BY <1>1, <1>2 DEF Environment, ScriptFinishes, StageByHand, AbortByHand, vars, documents, world, host
<1>3. CASE \E p \in Procs : Starts(p) \/ Steps(p) \/ Interrupt(p)
  BY <1>3, StartsRefine, StepsRefine
<1> QED BY <1>2, <1>3 DEF Next

LEMMA InitRefines == Init => OneShots!Init
<1> SUFFICES ASSUME Init PROVE OneShots!Init
  OBVIOUS
<1>1. \A p \in Procs : job[p].pc = "idle"
  BY Names DEF Init
<1>2. Intended = {} /\ Armed = {} /\ Observed = {}
  BY <1>1 DEF Init, Intended, Armed, Observed, Evidence, Someone
<1> QED BY <1>2 DEF Init, OneShots!Init, Intended, Armed, Observed

(* Each effect outside the host is performed at most once, only by the      *)
(* command that recorded its intent, and observed only after it happened:   *)
(* the driver implements the abstract one-shot effects.                     *)
THEOREM DriverIsOneShot == Spec => EffectsAreOneShot
BY InitRefines, NextRefines, DriverInvariant, PTL DEF Spec, EffectsAreOneShot, OneShots!Spec

-----------------------------------------------------------------------------
(* Only the abort tool counts as an abort.                                  *)
LEMMA OnlyAbortTool ==
    ASSUME TypeOK, NEW p \in Procs, Starts(p) \/ Steps(p) \/ Interrupt(p), ~AbortTool(p)
    PROVE  effects'["abort"] = effects["abort"]
<1> USE DEF documents, session, world
<1>1. CASE Starts(p) \/ Interrupt(p)
  BY <1>1 DEF Starts, Prepare, PrepareStopByHand, PlanAbortByHand, Accept, ConfirmAbort, AbortUpstream,
     Drive, DriveTransaction, Interrupt
<1>2. CASE SurfacePrepare(p) \/ SurfacePending(p) \/ SurfaceRecover(p) \/ SurfaceWorkload(p) \/ SurfaceDone(p)
  BY <1>2 DEF SurfacePrepare, SurfacePending, SurfaceRecover, SurfaceWorkload, SurfaceDone
<1>3. CASE RecordDispatchIntent(p) \/ RecordFaultIntent(p) \/ RecordFaultTriggered(p)
           \/ RecordAbortAttempt(p) \/ RecordAbortSuccess(p)
           \/ RecordWorkloadIntent(p) \/ RecordWorkloadComplete(p)
  BY <1>3 DEF RecordDispatchIntent, RecordFaultIntent, RecordFaultTriggered, RecordAbortAttempt,
     RecordAbortSuccess, Record, RecordWorkloadIntent, RecordWorkloadComplete, RecordWorkload
<1>4. CASE Execute(p) \/ Collect(p) \/ RunDisconnectHook(p) \/ KillDriverChild(p) \/ RunWorkload(p)
  BY <1>4 DEF Execute, Collect, RunDisconnectHook, KillDriverChild, TriggerFault, RunWorkload, Cause, TypeOK, Effects
<1>5. CASE StageResponse(p) \/ AcceptRaw(p) \/ IngestRaw(p) \/ AcceptResponse(p) \/ Reconcile(p)
  BY <1>5 DEF StageResponse, AcceptRaw, IngestRaw, AcceptResponse, Reconcile
<1>6. CASE PlanCmmAbort(p) \/ PlanDisconnectAbort(p) \/ EnsureAbortPlanned(p) \/ OfficialAbort(p)
           \/ WriteReceipt(p) \/ QuarantineEndpoint(p) \/ QuarantineTarget(p) \/ FailSession(p) \/ PrepareStop(p)
  BY <1>6 DEF PlanCmmAbort, PlanDisconnectAbort, EnsureAbortPlanned, PlanAbort, OfficialAbort,
     WriteReceipt, QuarantineEndpoint, QuarantineTarget, Quarantine, FailSession, PrepareStop
<1> QED BY <1>1, <1>2, <1>3, <1>4, <1>5, <1>6 DEF Steps

(* The abort tool is called only for a planned, unaccepted transaction, and *)
(* never by drive while a fault is intended and not proven.                 *)
THEOREM AbortsAlwaysProven == Spec => AbortsOnlyProven
<1> DEFINE Proven ==
        /\ plan # None
        /\ response = None
        /\ \A p \in Procs : job[p].cmd \in {"drive", "drive_transaction"} =>
              ("FaultIntent" \in journal => "FaultTriggered" \in journal)
<1>1. ASSUME IInv, [Next]_vars
      PROVE  [effects'["abort"] > effects["abort"] => Proven]_vars
  <2> SUFFICES ASSUME Next, effects'["abort"] > effects["abort"] PROVE Proven
    BY <1>1 DEF vars
  <2>0. TypeOK /\ effects["abort"] \in Nat
    BY <1>1 DEF IInv, TypeOK, Effects
  <2>1. PICK p \in Procs : AbortTool(p)
    <3>1. ~Environment
      BY <2>0 DEF Environment, ScriptFinishes, StageByHand, AbortByHand, world
    <3> QED BY <2>0, <3>1, OnlyAbortTool DEF Next
  <2>2. job[p].pc = "abort_tool" /\ AbortSound(p) /\ Alone(p)
    BY <1>1, <2>1, HolderAlone DEF AbortTool, At, IInv, HolderSound
  <2>3. plan # None /\ response = None
    BY <2>2 DEF AbortSound
  <2>4. ASSUME NEW q \in Procs, job[q].cmd \in Drives
        PROVE  "FaultIntent" \in journal => "FaultTriggered" \in journal
    <3>1. q = p
      BY <2>2, <2>4, Names DEF Alone, Drives, Commands
    <3> QED BY <2>2, <2>4, <3>1 DEF AbortSound
  <2> QED BY <2>3, <2>4 DEF Drives
<1> QED BY <1>1, DriverInvariant, PTL DEF Spec, AbortsOnlyProven
=============================================================================
