--------------------------- MODULE ControllerHost ---------------------------
(***************************************************************************)
(* The Controller host (src/controller.rs) over all Sessions of one        *)
(* artifact root, and the durable quarantine of the single TRACE32         *)
(* endpoint and of its targets (src/controller_recovery.rs): the capture   *)
(* sequence, one transaction at a time for the whole root, the two-phase   *)
(* abort, and typed recovery.                                              *)
(*                                                                         *)
(* Every command holds the namespace lock, so one command runs at a time;  *)
(* it is split at its durable writes and may stop between two of them (a   *)
(* crash or an I/O error).  Module ControllerDriver looks at who sends     *)
(* the commands of a single transaction, and at its crash journal.         *)
(***************************************************************************)
EXTENDS Naturals, Sequences, FiniteSets, FiniteSetsExt

CONSTANTS
    NumSessions,        \* Sessions of the root; ids are ordered as list_sessions does
    V2Sessions,         \* Sessions whose target adapter speaks protocol V2
    Start,              \* how far Session 1 has come when the behaviour starts
    MaxTransactions,    \* bound: transactions of each Session
    MaxPlans,           \* bound: abort plans in the root
    MaxQuarantines,     \* bound: quarantine records ever created
    MaxReservations,    \* bound: recovery reservations
    MaxCrashes,         \* bound: interrupted commands
    None

Sessions == 1..NumSessions

ASSUME BoundsAssumption ==
    /\ NumSessions \in Nat /\ V2Sessions \subseteq Sessions /\ Start \in 0..6
    /\ MaxTransactions \in [Sessions -> Nat] /\ MaxPlans \in Nat
    /\ MaxQuarantines \in Nat /\ MaxReservations \in Nat /\ MaxCrashes \in Nat
    /\ None \notin Nat

\* CONTROLLER_CAPTURE_SEQUENCE
Sequence7 ==
    << "get_capabilities", "configure", "start", "stop", "get_health", "export", "cleanup" >>

Sequence7Set == {Sequence7[n] : n \in 1..7}
Operations == Sequence7Set \cup {"get_hotspots"}

\* operation_uses_target_adapter
UsesTarget(op) == op \notin {"get_capabilities", "get_hotspots"}

VARIABLES
    status,     \* state.json of each Session
    tx,         \* the immutable documents of each transaction, in request order
    config,     \* Sessions with an authoritative capture-config
    away,       \* Sessions that maintenance abandon has moved out of the root
    quar,       \* quarantine records, active or moved to the recovery history
    resv,       \* recovery reservations: the record each of them names
    job,        \* the command that holds the namespace lock
    crashes     \* interrupted commands so far

sessionVars == <<status, tx, config, away>>
recoveryVars == <<quar, resv>>
vars == <<sessionVars, recoveryVars, job, crashes>>

Statuses == {"created", "capturing", "captured", "analyzing", "failed"}

\* raw: the ingested wrapper, by what it amounts to.  plan and receipt: the two
\* documents of the two-phase abort.
Transaction ==
    [ op : Operations, raw : {"none", "ok", "rejected", "bad"},
      response : {"none", "ok", "rejected"}, plan : BOOLEAN, receipt : BOOLEAN ]

\* A record is keyed by the endpoint (one for the root) or by the target, names the
\* failed transaction, and gets its recovery receipt before it is moved.
Record ==
    [ key : {"endpoint", "target"}, s : Sessions, i : Nat, moved : BOOLEAN,
      receipt : Nat, linked : Nat ]

NoJob == [cmd |-> "idle", s |-> 0, i |-> 0, q |-> 0, e |-> 0]

Run(cmd, s, i, q, e) == job' = [cmd |-> cmd, s |-> s, i |-> i, q |-> q, e |-> e]

Idle == job = NoJob
Return == job' = NoJob

TxIds == UNION {{<<s, i>> : i \in 1..Len(tx[s])} : s \in Sessions}

Present == Sessions \ away

-----------------------------------------------------------------------------
(* What the host derives from the documents *)

\* Mutant of DurableAbortQuarantine: only active records are looked at.
ActiveAbortQuarantine(s, i) ==
    \E q \in DOMAIN quar :
        quar[q].key = "endpoint" /\ quar[q].s = s /\ quar[q].i = i /\ ~quar[q].moved

\* has_durable_abort_quarantine: an active endpoint record, or one in the history
\* together with its receipt.
DurableAbortQuarantine(s, i) ==
    \E q \in DOMAIN quar :
        /\ quar[q].key = "endpoint" /\ quar[q].s = s /\ quar[q].i = i
        /\ quar[q].moved => quar[q].receipt # 0

AbortClosed(s, i) ==
    tx[s][i].receipt /\ status[s] = "failed" /\ DurableAbortQuarantine(s, i)

\* pending_transactions
Pending(s) == {i \in 1..Len(tx[s]) : tx[s][i].response = "none" /\ ~AbortClosed(s, i)}

\* The operations with an accepted completion.
Completions(s, op) == {i \in 1..Len(tx[s]) : tx[s][i].op = op /\ tx[s][i].response = "ok"}
Completed(s) == {tx[s][i].op : i \in {i \in 1..Len(tx[s]) : tx[s][i].response = "ok"}}

\* The length of the completed prefix of the sequence.
PrefixOf(done) ==
    IF Sequence7Set \subseteq done THEN 7
    ELSE Min({n \in 0..6 : Sequence7[n + 1] \notin done})
Prefix(s) == PrefixOf(Completed(s))

\* gate_completed_capture_config: without its capture-config a finished sequence is
\* still in its Cleanup phase, with the accepted Cleanup as the pending transaction.
ConfigMissing(s) == Prefix(s) = 7 /\ s \notin config
Phase(s) == IF ConfigMissing(s) THEN 6 ELSE Prefix(s)

OpenRequests(s) == {i \in 1..Len(tx[s]) : tx[s][i].response = "none" /\ ~tx[s][i].receipt}
PendingRequests(s) == OpenRequests(s) \cup (IF ConfigMissing(s) THEN Completions(s, "cleanup") ELSE {})

\* Operations that may be prepared, or be pending, in a phase.
Expected(s) ==
    IF Phase(s) < 7 THEN {Sequence7[Phase(s) + 1]} ELSE {"get_hotspots"} \ Completed(s)

\* The two ways in which progress is refused because of an abort.
BothAnswers(s) == \E i \in 1..Len(tx[s]) : tx[s][i].response # "none" /\ tx[s][i].receipt
AbortUnfinished(s) == \E i \in 1..Len(tx[s]) : tx[s][i].receipt /\ ~AbortClosed(s, i)

\* The integrity checks of controller_progress_from_artifacts.
ProgressCorrupt(s) ==
    \/ \E i, j \in 1..Len(tx[s]) :
          i < j /\ tx[s][i].op = tx[s][j].op /\ tx[s][i].response = "ok" /\ tx[s][j].response = "ok"
    \/ LET done == Completed(s) n == Prefix(s) IN
          \/ \E k \in (n + 1)..7 : Sequence7[k] \in done
          \/ "get_hotspots" \in done /\ n < 7
    \/ Cardinality(PendingRequests(s)) > 1
    \/ \E i \in OpenRequests(s) : tx[s][i].op \notin Expected(s)

ProgressFails(s) == BothAnswers(s) \/ AbortUnfinished(s) \/ ProgressCorrupt(s)

\* root_active_transaction, for one transaction and for the root: the first one in
\* the order of the Sessions and of the requests.
Active(s, i) ==
    IF tx[s][i].response # "none"
    THEN tx[s][i].op = "cleanup" /\ s \notin config
    ELSE ~AbortClosed(s, i)

ActiveTransactions == {t \in TxIds : t[1] \in Present /\ Active(t[1], t[2])}

Before(t, u) == t[1] < u[1] \/ (t[1] = u[1] /\ t[2] <= u[2])

OwnsRoot(s, i) ==
    <<s, i>> \in ActiveTransactions /\ \A u \in ActiveTransactions : Before(<<s, i>>, u)

\* root_capture_lease: the Sessions that claim the endpoint.
HasResponse(s) == \E i \in 1..Len(tx[s]) : tx[s][i].response # "none"

ReleasedByFailure(s) ==
    /\ status[s] = "failed"
    /\ \/ \E i \in 1..Len(tx[s]) : tx[s][i].receipt /\ DurableAbortQuarantine(s, i)
       \/ "configure" \notin Completed(s)

\* Mutant of LeaseHolders: only a running capture claims the endpoint.
CapturingHolders ==
    {s \in Present : HasResponse(s) /\ Phase(s) < 7 /\ status[s] = "capturing"}

LeaseHolders == {s \in Present : HasResponse(s) /\ Phase(s) < 7 /\ ~ReleasedByFailure(s)}

\* One unreadable Session refuses the lease to all of them, two owners as well.
LeaseFails ==
    \/ \E s \in Present : HasResponse(s) /\ ProgressFails(s)
    \/ Cardinality(LeaseHolders) > 1

\* ensure_not_quarantined.  All Sessions share the endpoint, and here the target.
KeyClear(key) == ~\E q \in DOMAIN quar : quar[q].key = key /\ ~quar[q].moved

\* Mutant of NotQuarantined: the endpoint is not looked at.
NotQuarantinedTarget(op) == UsesTarget(op) => KeyClear("target")

NotQuarantined(op) == KeyClear("endpoint") /\ (UsesTarget(op) => KeyClear("target"))

\* ensure_operation_matches_progress: the Session state that each phase needs.
StateOfPhase(n) == IF n <= 2 THEN "created" ELSE IF n = 3 THEN "capturing" ELSE "captured"

\* ensure_controller_session_releasable, the gate of every other stage.
Releasable(s) ==
    /\ Pending(s) = {}
    /\ \/ tx[s] = <<>>
       \/ status[s] = "failed"
       \/ ~ProgressFails(s) /\ Phase(s) = 7

-----------------------------------------------------------------------------
Request(op) == [op |-> op, raw |-> "none", response |-> "none", plan |-> FALSE, receipt |-> FALSE]
Answered(op) == [op |-> op, raw |-> "ok", response |-> "ok", plan |-> FALSE, receipt |-> FALSE]

\* New Sessions, one of which may have come some way without an incident.
Init ==
    /\ tx = [s \in Sessions |-> IF s = 1 THEN [k \in 1..Start |-> Answered(Sequence7[k])] ELSE <<>>]
    /\ status = [s \in Sessions |-> IF s = 1 THEN StateOfPhase(Start) ELSE "created"]
    /\ config = {}
    /\ away = {}
    /\ quar = <<>>
    /\ resv = <<>>
    /\ job = NoJob
    /\ crashes = 0

-----------------------------------------------------------------------------
(* prepare, abort *)

\* Mutant of Preparable: only the capture lease is looked at.
PreparableWhileBusy(s) ==
    /\ status[s] \in {"created", "capturing", "captured"}
    /\ ~LeaseFails
    /\ LeaseHolders \subseteq {s}
    /\ status[s] = StateOfPhase(Phase(s))

Preparable(s) ==
    /\ status[s] \in {"created", "capturing", "captured"}
    /\ ~ProgressFails(s)
    /\ PendingRequests(s) = {}
    /\ ActiveTransactions = {}
    /\ ~LeaseFails
    /\ LeaseHolders \subseteq {s}
    /\ status[s] = StateOfPhase(Phase(s))

Prepare(s) ==
    /\ Idle
    /\ s \in Present
    /\ Len(tx[s]) < MaxTransactions[s]
    /\ Preparable(s)
    /\ \E op \in Expected(s) :
          /\ NotQuarantined(op)
          /\ tx' = [tx EXCEPT ![s] = Append(@, Request(op))]
    /\ UNCHANGED <<status, config, away, recoveryVars, job, crashes>>

\* A new abort plan; an existing one is returned and changes nothing.
Abort(s, i) ==
    /\ Idle
    /\ tx[s][i].response = "none"
    /\ ~tx[s][i].plan
    /\ Cardinality({t \in TxIds : tx[t[1]][t[2]].plan}) < MaxPlans
    /\ OwnsRoot(s, i)
    /\ status[s] # "failed"
    /\ tx' = [tx EXCEPT ![s][i].plan = TRUE]
    /\ UNCHANGED <<status, config, away, recoveryVars, job, crashes>>

-----------------------------------------------------------------------------
(* accept: ingest the raw wrapper, write the response, reconcile, capture-config *)

\* Where an accepted response takes the Session, None where it contradicts it.
Reconciled(op, answer, st) ==
    CASE answer = "rejected" -> IF st \in {"created", "capturing", "captured", "failed"} THEN "failed" ELSE None
      [] answer = "ok" /\ op = "start" /\ st \in {"created", "capturing"} -> "capturing"
      [] answer = "ok" /\ op = "stop" /\ st \in {"capturing", "captured"} -> "captured"
      [] answer = "ok" /\ op \in {"get_capabilities", "configure"} /\ st = "created" -> st
      [] answer = "ok" /\ op \in {"get_health", "export", "get_hotspots", "cleanup"} /\ st = "captured" -> st
      [] OTHER -> None

\* A repeated accept of an accepted response; most of them find nothing left to do.
AcceptAgain(s, i) ==
    /\ Idle
    /\ s \in Present
    /\ tx[s][i].response # "none"
    /\ Reconciled(tx[s][i].op, tx[s][i].response, status[s]) # status[s] \/ ConfigMissing(s)
    /\ Run("reconcile", s, i, 0, 0)
    /\ UNCHANGED <<sessionVars, recoveryVars, crashes>>

\* What a final wrapper can amount to.  Where no rejection is accepted, a rejection stands
\* for every wrapper that is refused.
Replies(op) ==
    {"ok", "rejected"} \cup (IF UsesTarget(op) /\ op # "configure" THEN {} ELSE {"bad"})

\* Missing and unfinished wrappers leave the transaction pending.
AcceptIngest(s, i, reply) ==
    /\ Idle
    /\ s \in Present
    /\ tx[s][i].response = "none"
    /\ tx[s][i].raw = "none"
    /\ status[s] # "failed"
    /\ tx' = [tx EXCEPT ![s][i].raw = reply]
    /\ Run("respond", s, i, 0, 0)
    /\ UNCHANGED <<status, config, away, recoveryVars, crashes>>

\* A wrapper that is malformed, bound to another request, the answer to a fault
\* request, or without valid output and evidence is "bad" and never accepted.  A
\* rejection is accepted while the target cannot have been left half configured.
Answerable(s, i) ==
    \/ tx[s][i].raw = "ok"
    \/ /\ tx[s][i].raw = "rejected"
       /\ tx[s][i].op = "configure" \/ ~UsesTarget(tx[s][i].op)
       /\ ~(s \in V2Sessions /\ UsesTarget(tx[s][i].op))

\* A repeated accept uses the raw response that was ingested before;
\* a refused one is refused again.
AcceptIngested(s, i) ==
    /\ Idle
    /\ s \in Present
    /\ tx[s][i].response = "none"
    /\ tx[s][i].raw # "none" /\ Answerable(s, i)
    /\ status[s] # "failed"
    /\ Run("respond", s, i, 0, 0)
    /\ UNCHANGED <<sessionVars, recoveryVars, crashes>>

AcceptRespond ==
    /\ job.cmd = "respond"
    /\ IF Answerable(job.s, job.i)
       THEN /\ tx' = [tx EXCEPT ![job.s][job.i].response = tx[job.s][job.i].raw]
            /\ Run("reconcile", job.s, job.i, 0, 0)
       ELSE Return /\ UNCHANGED tx
    /\ UNCHANGED <<status, config, away, recoveryVars, crashes>>

AcceptReconcile ==
    /\ job.cmd = "reconcile"
    /\ LET t == tx[job.s][job.i]
           next == Reconciled(t.op, t.response, status[job.s])
       IN IF next = None
          THEN Return /\ UNCHANGED status
          ELSE /\ status' = [status EXCEPT ![job.s] = next]
               /\ IF t.op = "cleanup" /\ t.response = "ok"
                  THEN Run("config", job.s, job.i, 0, 0) ELSE Return
    /\ UNCHANGED <<tx, config, away, recoveryVars, crashes>>

\* ensure_capture_config_after_cleanup
AcceptConfig ==
    /\ job.cmd = "config"
    /\ config' = config \cup {job.s}
    /\ Return
    /\ UNCHANGED <<status, tx, away, recoveryVars, crashes>>

-----------------------------------------------------------------------------
(* confirm_abort: receipt, endpoint record, target record, Failed *)

ConfirmAbort(s, i) ==
    /\ Idle
    /\ s \in Present
    /\ tx[s][i].plan
    /\ IF tx[s][i].receipt THEN UNCHANGED tx
       ELSE OwnsRoot(s, i) /\ tx' = [tx EXCEPT ![s][i].receipt = TRUE]
    /\ Run("q_endpoint", s, i, 0, 0)
    /\ UNCHANGED <<status, config, away, recoveryVars, crashes>>

NewRecord(key, s, i) ==
    [key |-> key, s |-> s, i |-> i, moved |-> FALSE, receipt |-> 0, linked |-> 0]

\* create_or_verify_quarantine: the record of this failure is kept, a missing one is
\* created, the record of another failure is a conflict.
Quarantined(key) ==
    IF KeyClear(key) THEN Append(quar, NewRecord(key, job.s, job.i))
    ELSE IF \E q \in DOMAIN quar : quar[q].key = key /\ ~quar[q].moved /\ quar[q].s = job.s /\ quar[q].i = job.i
         THEN quar ELSE <<>>

\* quarantine_confirmed_abort
QuarantineEndpoint ==
    /\ job.cmd = "q_endpoint"
    /\ KeyClear("endpoint") => Len(quar) < MaxQuarantines
    /\ IF Quarantined("endpoint") = <<>> THEN Return /\ UNCHANGED quar
       ELSE /\ quar' = Quarantined("endpoint")
            /\ Run(IF UsesTarget(tx[job.s][job.i].op) THEN "q_target" ELSE "fail", job.s, job.i, 0, 0)
    /\ UNCHANGED <<sessionVars, resv, crashes>>

QuarantineTarget ==
    /\ job.cmd = "q_target"
    /\ KeyClear("target") => Len(quar) < MaxQuarantines
    /\ IF Quarantined("target") = <<>> THEN Return /\ UNCHANGED quar
       ELSE /\ quar' = Quarantined("target")
            /\ Run("fail", job.s, job.i, 0, 0)
    /\ UNCHANGED <<sessionVars, resv, crashes>>

ConfirmFail ==
    /\ job.cmd = "fail"
    /\ status' = [status EXCEPT ![job.s] = "failed"]
    /\ Return
    /\ UNCHANGED <<tx, config, away, recoveryVars, crashes>>

-----------------------------------------------------------------------------
(* Typed recovery *)

\* prepare_recovery.  A failure on a target is recovered with the scope of its target.
PrepareRecovery(q) ==
    /\ Idle
    /\ ~quar[q].moved
    /\ quar[q].key = "endpoint" => ~UsesTarget(tx[quar[q].s][quar[q].i].op)
    /\ Len(resv) < MaxReservations
    /\ resv' = Append(resv, q)
    /\ UNCHANGED <<sessionVars, quar, job, crashes>>

\* The active endpoint record of the same failure, 0 if there is none.
LinkedEndpoint(q) ==
    LET linked == {e \in DOMAIN quar : /\ quar[e].key = "endpoint" /\ ~quar[e].moved
                                       /\ quar[e].s = quar[q].s /\ quar[e].i = quar[q].i}
    IN IF linked = {} THEN 0 ELSE CHOOSE e \in linked : TRUE

\* validate_quarantined_target_recovery: the operations before the failed one replay from
\* accepted evidence, and the failed Session is terminal and in the root.
EvidenceReplays(s, op) ==
    \A n \in 1..7 : (\A k \in 1..n : Sequence7[k] # op) => Sequence7[n] \in Completed(s)

EvidenceValid(q) ==
    quar[q].key = "target" =>
        /\ quar[q].s \in Present
        /\ status[quar[q].s] = "failed"
        /\ EvidenceReplays(quar[q].s, tx[quar[q].s][quar[q].i].op)

\* accept_recovery up to the receipt: a receipt that exists must be of this very
\* reservation, a moved record must have one, and an active record of a target has its
\* endpoint record beside it.  The same key must not be active in another record and
\* moved in this one.
AcceptRecovery(r) ==
    /\ Idle
    /\ LET q == resv[r] e == LinkedEndpoint(q) IN
       /\ EvidenceValid(q)
       /\ quar[q].moved => KeyClear(quar[q].key)
       /\ quar[q].key = "target" /\ ~quar[q].moved => e # 0
       /\ IF quar[q].receipt # 0
          THEN quar[q].receipt = r /\ UNCHANGED quar
          ELSE ~quar[q].moved /\ quar' = [quar EXCEPT ![q].receipt = r, ![q].linked = e]
       /\ Run("r_move", 0, r, q, e)
    /\ UNCHANGED <<sessionVars, resv, crashes>>

\* The rename into the history.
RecoveryMove ==
    /\ job.cmd = "r_move"
    /\ quar' = [quar EXCEPT ![job.q].moved = TRUE]
    /\ IF quar[job.q].key = "target" THEN Run("r_link", 0, job.i, job.q, job.e) ELSE Return
    /\ UNCHANGED <<sessionVars, resv, crashes>>

\* complete_linked_endpoint_recovery, up to its receipt: the endpoint record is the one
\* the target's receipt names, and its own receipt repeats that of the target.
RecoveryLink ==
    /\ job.cmd = "r_link"
    /\ LET e == LinkedEndpoint(job.q) IN
       IF \/ e = 0
          \/ e # quar[job.q].linked
          \/ quar[e].receipt # 0 /\ (quar[e].receipt # job.i \/ quar[e].linked # job.q)
       THEN Return /\ UNCHANGED quar
       ELSE /\ quar' = [quar EXCEPT ![e].receipt = job.i, ![e].linked = job.q]
            /\ Run("r_link_move", 0, job.i, job.q, e)
    /\ UNCHANGED <<sessionVars, resv, crashes>>

RecoveryLinkMove ==
    /\ job.cmd = "r_link_move"
    /\ quar' = [quar EXCEPT ![job.e].moved = TRUE]
    /\ Return
    /\ UNCHANGED <<sessionVars, resv, crashes>>

-----------------------------------------------------------------------------
(* The other stages, maintenance, and interruptions *)

\* normalize, attest, analyze: the capture leaves the hands of the Controller.
Analyze(s) ==
    /\ Idle
    /\ s \in Present
    /\ status[s] = "captured"
    /\ Releasable(s)
    /\ status' = [status EXCEPT ![s] = "analyzing"]
    /\ UNCHANGED <<tx, config, away, recoveryVars, job, crashes>>

\* maintenance abandon apply and restore, of Sessions that the Controller has used; one
\* Session at a time is away, which bounds the model.
Abandon(s) ==
    /\ Idle
    /\ s \in Present
    /\ tx[s] # <<>> /\ away = {}
    /\ Releasable(s)
    /\ away' = away \cup {s}
    /\ UNCHANGED <<status, tx, config, recoveryVars, job, crashes>>

Restore(s) ==
    /\ Idle
    /\ s \in away
    /\ away' = away \ {s}
    /\ UNCHANGED <<status, tx, config, recoveryVars, job, crashes>>

Crash ==
    /\ ~Idle
    /\ crashes < MaxCrashes
    /\ crashes' = crashes + 1
    /\ Return
    /\ UNCHANGED <<sessionVars, recoveryVars>>

Command ==
    \/ \E s \in Sessions :
          \/ Prepare(s) \/ Analyze(s) \/ Abandon(s) \/ Restore(s)
    \/ \E t \in TxIds :
          \/ Abort(t[1], t[2])
          \/ AcceptAgain(t[1], t[2])
          \/ \E reply \in Replies(tx[t[1]][t[2]].op) : AcceptIngest(t[1], t[2], reply)
          \/ AcceptIngested(t[1], t[2])
          \/ ConfirmAbort(t[1], t[2])
    \/ \E q \in DOMAIN quar : PrepareRecovery(q)
    \/ \E r \in DOMAIN resv : AcceptRecovery(r)

Step ==
    \/ AcceptRespond \/ AcceptReconcile \/ AcceptConfig
    \/ QuarantineEndpoint \/ QuarantineTarget \/ ConfirmFail
    \/ RecoveryMove \/ RecoveryLink \/ RecoveryLinkMove

Next == Command \/ Step \/ Crash

Spec == Init /\ [][Next]_vars

-----------------------------------------------------------------------------
(* Properties *)

\* A new request is prepared only when every confirmed abort of the root, of whichever
\* Session and whether or not that Session has been abandoned since, has been through
\* typed recovery: crashes between the receipt of an abort and its quarantine, inside
\* recovery, and repeated confirmations do not let a failed endpoint be used again.
\* (An answer accepted after the receipt, which AcceptAbortExclusive of module
\* ControllerDriver is about, is left out.)
Aborted(s, i) == tx[s][i].receipt /\ tx[s][i].response = "none"
Recovered(s, i) ==
    \E q \in DOMAIN quar :
        /\ quar[q].key = "endpoint" /\ quar[q].s = s /\ quar[q].i = i
        /\ quar[q].moved /\ quar[q].receipt # 0
NoRequestOnFailedEndpoint ==
    [][(\E s \in Sessions : Len(tx'[s]) > Len(tx[s])) =>
          \A t \in TxIds : Aborted(t[1], t[2]) => Recovered(t[1], t[2])]_vars

\* The target is configured for at most one live Session of the root at a time: from its
\* accepted Configure until its accepted Cleanup or the confirmed abort of one of its
\* transactions, across crashes of accept, rejections and abandoned Sessions.
Configured(s) ==
    /\ Completions(s, "configure") # {}
    /\ Completions(s, "cleanup") = {}
    /\ ~\E i \in 1..Len(tx[s]) : tx[s][i].receipt
OneLiveCapture ==
    \A s, t \in Sessions :
        Configured(s) /\ Configured(t) /\ "failed" \notin {status[s], status[t]} => s = t

\* What crashes, retries and rejected answers leave behind never fails an integrity
\* check of the progress reader (a second completion, a gap in the sequence, a second
\* pending request): one such Session would refuse the endpoint to the whole root.
ProgressNeverCorrupt == \A s \in Sessions : ~ProgressCorrupt(s)

\* A confirmed abort that has released the root never takes it again: at every point of
\* recovery its record is active, or in the history beside its receipt.
ClosedStaysClosed ==
    [][\A t \in TxIds : AbortClosed(t[1], t[2]) => AbortClosed(t[1], t[2])']_vars

\* What the comment on root_capture_lease says: an accepted capture claims the endpoint
\* until Cleanup completes, and failed Sessions are governed by durable quarantine.  So no
\* Session, failed ones included, has the target configured while another one has.
OneConfiguredSession ==
    \A s, t \in Sessions : Configured(s) /\ Configured(t) => s = t
=============================================================================
