------------------------ MODULE ControllerHostProofs ------------------------
(***************************************************************************)
(* The Controller host, for any number of Sessions, transactions, plans,   *)
(* quarantine records, reservations and crashes.                           *)
(*                                                                         *)
(* Two facts carry everything.  What has been recorded stays: receipts,    *)
(* Failed, and the quarantine of an abort, which recovery moves only after *)
(* its receipt is written.  And at most one transaction of the root waits  *)
(* for an answer, because prepare looks at all of them; so the completed   *)
(* operations of a Session are the first ones of the sequence, and nothing *)
(* can become configured while another Session is.                         *)
(***************************************************************************)
EXTENDS ControllerHost, FiniteSetTheorems, SequenceTheorems, TLAPS

(* The capture sequence, and what may follow it.                            *)
AllOps ==
    << "get_capabilities", "configure", "start", "stop", "get_health", "export", "cleanup",
       "get_hotspots" >>

FirstOps(n) == {AllOps[k] : k \in 1..n}

JobNames ==
    {"idle", "respond", "reconcile", "config", "q_endpoint", "q_target", "fail",
     "r_move", "r_link", "r_link_move"}

TypeOK ==
    /\ status \in [Sessions -> Statuses]
    /\ tx \in [Sessions -> Seq(Transaction)]
    /\ config \subseteq Sessions
    /\ away \subseteq Sessions
    /\ quar \in Seq(Record)
    /\ resv \in Seq(Nat)
    /\ \A r \in 1..Len(resv) : resv[r] \in 1..Len(quar)
    /\ job \in [cmd : JobNames, s : Nat, i : Nat, q : Nat, e : Nat]

(* A command works on a transaction of its Session, or on a record that has *)
(* its recovery receipt.                                                    *)
JobSound ==
    /\ job.cmd \in {"respond", "reconcile", "config", "q_endpoint", "q_target", "fail"} =>
         job.s \in Sessions /\ job.i \in 1..Len(tx[job.s])
    /\ job.cmd = "respond" =>
         /\ tx[job.s][job.i].response = "none"
         /\ status[job.s] # "failed"
         /\ job.s \notin away
    /\ job.cmd \in {"r_move", "r_link", "r_link_move"} =>
         job.i # 0 /\ job.q \in 1..Len(quar) /\ quar[job.q].receipt # 0
    /\ job.cmd = "r_link_move" => job.e \in 1..Len(quar) /\ quar[job.e].receipt # 0

Unanswered(s) == {i \in 1..Len(tx[s]) : tx[s][i].response = "none"}

(* The first n operations are completed, and one that waits is the next.    *)
InOrder(s, n) ==
    /\ Completed(s) = FirstOps(n)
    /\ \A i \in Unanswered(s) : n < 8 /\ tx[s][i].op = AllOps[n + 1]

Sequential(s) ==
    /\ \E n \in 0..8 : InOrder(s, n)
    /\ \A i, j \in 1..Len(tx[s]) :
          tx[s][i].op = tx[s][j].op /\ tx[s][i].response = "ok" /\ tx[s][j].response = "ok" => i = j
    /\ \A i, j \in Unanswered(s) : i = j
    /\ \A i \in Unanswered(s) : tx[s][i].op = "get_hotspots" => s \in config

Live(s) == Configured(s) /\ status[s] # "failed"

(* An abandoned Session neither waits for the endpoint nor has it.          *)
AwaySettled == \A s \in away : Pending(s) = {} /\ ~Live(s)

OneWaiting == \A s, t \in Sessions : Pending(s) # {} /\ Pending(t) # {} => s = t

(* While a Configure waits, no Session is configured.                       *)
ConfigureAlone ==
    \A s, t \in Sessions : \A i \in Pending(s) : tx[s][i].op = "configure" => ~Live(t)

IInv ==
    /\ TypeOK
    /\ JobSound
    /\ \A s \in Sessions : Sequential(s)
    /\ AwaySettled
    /\ OneWaiting
    /\ ConfigureAlone
    /\ OneLiveCapture

-----------------------------------------------------------------------------
(* The sequence.                                                            *)

LEMMA OpsDistinct ==
    /\ \A k, m \in 1..8 : AllOps[k] = AllOps[m] => k = m
    /\ \A k \in 1..7 : Sequence7[k] = AllOps[k]
    /\ AllOps[2] = "configure" /\ AllOps[7] = "cleanup" /\ AllOps[8] = "get_hotspots"
    /\ \A k \in 1..8 : AllOps[k] \in Operations
    /\ Operations = FirstOps(8)
<1>1. AllOps[1] = "get_capabilities" /\ AllOps[2] = "configure" /\ AllOps[3] = "start"
      /\ AllOps[4] = "stop" /\ AllOps[5] = "get_health" /\ AllOps[6] = "export"
      /\ AllOps[7] = "cleanup" /\ AllOps[8] = "get_hotspots"
    BY DEF AllOps
<1>2. Sequence7[1] = "get_capabilities" /\ Sequence7[2] = "configure" /\ Sequence7[3] = "start"
      /\ Sequence7[4] = "stop" /\ Sequence7[5] = "get_health" /\ Sequence7[6] = "export"
      /\ Sequence7[7] = "cleanup"
    BY DEF Sequence7
<1>3. 1..8 = {1, 2, 3, 4, 5, 6, 7, 8} /\ 1..7 = {1, 2, 3, 4, 5, 6, 7}
    OBVIOUS
<1>4. \A k, m \in 1..8 : AllOps[k] = AllOps[m] => k = m
    BY <1>1, <1>3
<1>5. \A k \in 1..7 : Sequence7[k] = AllOps[k]
    BY <1>1, <1>2, <1>3
<1>6. Operations = {AllOps[k] : k \in 1..8}
    BY <1>1, <1>5, <1>3 DEF Operations, Sequence7Set
<1> QED
    BY <1>1, <1>4, <1>5, <1>6 DEF FirstOps

LEMMA FirstOpsHas ==
    ASSUME NEW n \in 0..8, NEW k \in 1..8
    PROVE  AllOps[k] \in FirstOps(n) <=> k <= n
BY OpsDistinct DEF FirstOps

LEMMA FirstOpsNext ==
    ASSUME NEW n \in 0..7
    PROVE  FirstOps(n + 1) = FirstOps(n) \cup {AllOps[n + 1]}
<1>1. 1..(n + 1) = (1..n) \cup {n + 1}
    OBVIOUS
<1> QED
    BY <1>1 DEF FirstOps

LEMMA PhaseIs ==
    ASSUME NEW s, NEW n \in 0..8, Completed(s) = FirstOps(n)
    PROVE  /\ Prefix(s) = (IF n >= 7 THEN 7 ELSE n)
           /\ ConfigMissing(s) <=> (n >= 7 /\ s \notin config)
           /\ Phase(s) = (IF n < 7 THEN n ELSE IF s \in config THEN 7 ELSE 6)
<1>1. \A k \in 1..7 : Sequence7[k] \in Completed(s) <=> k <= n
    BY OpsDistinct, FirstOpsHas
<1>2. Prefix(s) = (IF n >= 7 THEN 7 ELSE n)
    <2>1. CASE n >= 7
        <3>1. Sequence7Set \subseteq Completed(s)
            BY <1>1, <2>1 DEF Sequence7Set
        <3> QED
            BY <2>1, <3>1 DEF Prefix, PrefixOf
    <2>2. CASE n < 7
        <3> DEFINE M == {m \in 0..6 : Sequence7[m + 1] \notin Completed(s)}
        <3>1. ~(Sequence7Set \subseteq Completed(s))
            BY <1>1, <2>2 DEF Sequence7Set
        <3>2. M = n..6
            BY <1>1, <2>2
        <3>3. Prefix(s) = Min(M)
            BY <3>1 DEF Prefix, PrefixOf
        <3> HIDE DEF M
        <3>4. \E x \in M : \A y \in M : x <= y
            BY <2>2, <3>2
        <3>5. Min(M) \in M /\ \A y \in M : Min(M) <= y
            BY <3>4 DEF Min
        <3> QED
            BY <2>2, <3>2, <3>3, <3>5
    <2> QED
        BY <2>1, <2>2
<1> QED
    BY <1>2 DEF ConfigMissing, Phase

-----------------------------------------------------------------------------
(* What is recorded stays.                                                  *)

QuarantineKept ==
    \A s \in Sessions : \A i \in Nat :
        DurableAbortQuarantine(s, i) => DurableAbortQuarantine(s, i)'

Kept ==
    /\ \A s \in Sessions :
          /\ Len(tx[s]) <= Len(tx'[s])
          /\ \A i \in 1..Len(tx[s]) : tx[s][i].receipt => tx'[s][i].receipt
          /\ status[s] = "failed" => status'[s] = "failed"
    /\ QuarantineKept

(* No request and no answer is added.                                       *)
SameAnswers ==
    \A s \in Sessions :
        /\ Len(tx'[s]) = Len(tx[s])
        /\ \A i \in 1..Len(tx[s]) : /\ tx'[s][i].op = tx[s][i].op
                                    /\ tx'[s][i].response = tx[s][i].response

LEMMA ClosedKept ==
    ASSUME TypeOK, Kept, NEW s \in Sessions, NEW i \in 1..Len(tx[s]), AbortClosed(s, i)
    PROVE  AbortClosed(s, i)'
BY DEF TypeOK, Kept, QuarantineKept, AbortClosed

LEMMA LenTyped ==
    ASSUME TypeOK
    PROVE  /\ \A s \in Sessions : /\ tx[s] \in Seq(Transaction)
                                  /\ Len(tx[s]) \in Nat
                                  /\ \A i \in 1..Len(tx[s]) : tx[s][i] \in Transaction
           /\ Len(quar) \in Nat /\ DOMAIN quar = 1..Len(quar)
           /\ \A q \in 1..Len(quar) : quar[q] \in Record
           /\ Len(resv) \in Nat /\ DOMAIN resv = 1..Len(resv)
           /\ Sessions \subseteq Nat
BY BoundsAssumption DEF TypeOK, Sessions

(* A step that keeps what is recorded and adds no request and no answer     *)
(* keeps everything else, if the Sessions it moves away are settled.        *)
LEMMA MonotoneStep ==
    ASSUME IInv, TypeOK', JobSound', Kept, SameAnswers, config \subseteq config',
           \A s \in away' \ away : Pending(s) = {} /\ ~Live(s)
    PROVE  IInv'
<1>1. \A s \in Sessions : Pending(s)' \subseteq Pending(s)
    <2> SUFFICES ASSUME NEW s \in Sessions, NEW i \in Pending(s)' PROVE i \in Pending(s)
        OBVIOUS
    <2>1. i \in 1..Len(tx[s]) /\ tx[s][i].response = "none"
        BY DEF Pending, SameAnswers
    <2>2. ~AbortClosed(s, i)
        BY <2>1, ClosedKept DEF IInv, Pending
    <2> QED
        BY <2>1, <2>2 DEF Pending
<1>2. \A s \in Sessions : \A op : Completions(s, op)' = Completions(s, op)
    BY DEF SameAnswers, Completions
<1>3. \A s \in Sessions : Completed(s)' = Completed(s)
    <2> SUFFICES ASSUME NEW s \in Sessions PROVE Completed(s)' = Completed(s)
        OBVIOUS
    <2> DEFINE D == {i \in 1..Len(tx[s]) : tx[s][i].response = "ok"}
    <2>1. D' = D
        BY DEF SameAnswers
    <2>2. {tx'[s][i].op : i \in D'} = {tx[s][i].op : i \in D}
        BY <2>1 DEF SameAnswers
    <2> QED
        BY <2>2 DEF Completed
<1>4. \A s \in Sessions : Live(s)' => Live(s)
    BY <1>2, LenTyped DEF IInv, Live, Configured, Kept, SameAnswers
<1>5. \A s \in Sessions : Unanswered(s)' = Unanswered(s)
    BY DEF SameAnswers, Unanswered
<1>6. ASSUME NEW s \in Sessions PROVE Sequential(s)'
    <2>1. Sequential(s)
        BY DEF IInv
    <2>2. \E n \in 0..8 : InOrder(s, n)'
        <3>1. PICK n \in 0..8 : InOrder(s, n)
            BY <2>1 DEF Sequential
        <3>2. InOrder(s, n)'
            BY <1>3, <1>5, <3>1 DEF InOrder, SameAnswers, Unanswered
        <3> QED
            BY <3>2
    <2>3. \A i, j \in 1..Len(tx'[s]) :
              tx'[s][i].op = tx'[s][j].op /\ tx'[s][i].response = "ok" /\ tx'[s][j].response = "ok"
                => i = j
        BY <2>1 DEF Sequential, SameAnswers
    <2>4. \A i, j \in Unanswered(s)' : i = j
        BY <1>5, <2>1 DEF Sequential
    <2>5. \A i \in Unanswered(s)' : tx'[s][i].op = "get_hotspots" => s \in config'
        BY <1>5, <2>1 DEF Sequential, SameAnswers, Unanswered
    <2> QED
        BY <2>2, <2>3, <2>4, <2>5 DEF Sequential
<1>7. AwaySettled'
    <2>1. \A s \in away' : s \in Sessions /\ Pending(s) = {} /\ ~Live(s)
        BY DEF IInv, TypeOK, AwaySettled
    <2> QED
        BY <1>1, <1>4, <2>1 DEF AwaySettled
<1>8. OneWaiting'
    BY <1>1 DEF IInv, OneWaiting
<1>9. ConfigureAlone'
    <2> SUFFICES ASSUME NEW s \in Sessions, NEW t \in Sessions, NEW i \in Pending(s)',
                        tx'[s][i].op = "configure"
                 PROVE  ~Live(t)'
        BY DEF ConfigureAlone
    <2>1. i \in Pending(s) /\ tx[s][i].op = "configure"
        BY <1>1 DEF Pending, SameAnswers
    <2> QED
        BY <1>4, <2>1 DEF IInv, ConfigureAlone
<1>10. OneLiveCapture'
    BY <1>4 DEF IInv, OneLiveCapture, Live
<1> QED
    BY <1>6, <1>7, <1>8, <1>9, <1>10 DEF IInv

(* A change to one document of one transaction.                             *)
Rewritten(s, i, r) == tx' = [tx EXCEPT ![s][i] = r]

LEMMA TxChanged ==
    ASSUME TypeOK, NEW s \in Sessions, NEW i \in 1..Len(tx[s]), NEW r \in Transaction,
           Rewritten(s, i, r)
    PROVE  /\ tx' \in [Sessions -> Seq(Transaction)]
           /\ \A u \in Sessions : Len(tx'[u]) = Len(tx[u])
           /\ \A u \in Sessions : \A j \in 1..Len(tx[u]) :
                 tx'[u][j] = (IF u = s /\ j = i THEN r ELSE tx[u][j])
<1>1. tx[s] \in Seq(Transaction) /\ tx \in [Sessions -> Seq(Transaction)]
    BY DEF TypeOK
<1> DEFINE f == [tx[s] EXCEPT ![i] = r]
<1>2. f \in Seq(Transaction) /\ Len(f) = Len(tx[s])
      /\ \A j \in 1..Len(tx[s]) : f[j] = (IF j = i THEN r ELSE tx[s][j])
    BY <1>1
<1>3. tx' = [tx EXCEPT ![s] = f]
    BY DEF Rewritten
<1> HIDE DEF f
<1>4. \A u \in Sessions : tx'[u] = (IF u = s THEN f ELSE tx[u])
    BY <1>1, <1>3
<1> QED
    BY <1>1, <1>2, <1>3, <1>4

-----------------------------------------------------------------------------
LEMMA InitEstablishes == Init => IInv
<1> SUFFICES ASSUME Init PROVE IInv
    OBVIOUS
<1>1. \A k \in 1..Start : Answered(Sequence7[k]) \in Transaction
                         /\ Answered(Sequence7[k]).op = AllOps[k]
                         /\ Answered(Sequence7[k]).response = "ok"
    <2> SUFFICES ASSUME NEW k \in 1..Start
                 PROVE  /\ Answered(Sequence7[k]) \in Transaction
                        /\ Answered(Sequence7[k]).op = AllOps[k]
                        /\ Answered(Sequence7[k]).response = "ok"
        OBVIOUS
    <2>1. Sequence7[k] = AllOps[k] /\ Sequence7[k] \in Operations
        BY BoundsAssumption, OpsDistinct
    <2> QED
        BY <2>1 DEF Answered, Transaction
<1>2. /\ \A s \in Sessions \ {1} : tx[s] = <<>> /\ Len(tx[s]) = 0
      /\ 1 \in Sessions => /\ tx[1] = [k \in 1..Start |-> Answered(Sequence7[k])]
                           /\ Len(tx[1]) = Start
    BY BoundsAssumption DEF Init
<1>3. TypeOK
    <2>1. tx \in [Sessions -> Seq(Transaction)]
        <3>1. 1 \in Sessions => tx[1] \in Seq(Transaction)
            <4>1. Start \in Nat
                BY BoundsAssumption
            <4>2. [k \in 1..Start |-> Answered(Sequence7[k])] \in [1..Start -> Transaction]
                BY <1>1
            <4> QED
                BY <1>2, <4>1, <4>2, SeqDef
        <3>2. ASSUME NEW s \in Sessions PROVE tx[s] \in Seq(Transaction)
            <4>1. CASE s = 1
                BY <3>1, <4>1
            <4>2. CASE s # 1
                <5>1. tx[s] = <<>>
                    BY <1>2, <4>2
                <5>2. <<>> \in Seq(Transaction)
                    OBVIOUS
                <5> QED
                    BY <5>1, <5>2
            <4> QED
                BY <4>1, <4>2
        <3> QED
            BY <3>2 DEF Init
    <2>2. status \in [Sessions -> Statuses]
        BY DEF Init, Statuses, StateOfPhase
    <2> QED
        BY <2>1, <2>2 DEF Init, TypeOK, NoJob, JobNames
<1>4. JobSound
    BY DEF Init, JobSound, NoJob
<1>5. ASSUME NEW s \in Sessions PROVE Unanswered(s) = {}
    <2>1. CASE s = 1
        <3>1. \A i \in 1..Len(tx[s]) : tx[s][i] = Answered(Sequence7[i]) /\ i \in 1..Start
            BY <1>2, <2>1, BoundsAssumption
        <3>2. \A i \in 1..Len(tx[s]) : tx[s][i].response # "none"
            BY <1>1, <3>1
        <3> QED
            BY <3>2 DEF Unanswered
    <2>2. CASE s # 1
        BY <1>2, <2>2 DEF Unanswered
    <2> QED
        BY <2>1, <2>2
<1>6. \A s \in Sessions : Pending(s) = {}
    BY <1>5 DEF Pending, Unanswered
<1>7. ASSUME NEW s \in Sessions PROVE Sequential(s)
    <2>1. CASE s = 1
        <3>1. Start \in 0..8 /\ Len(tx[s]) = Start
            BY <1>2, <2>1, BoundsAssumption
        <3>2. \A i \in 1..Start : tx[s][i].op = AllOps[i] /\ tx[s][i].response = "ok"
            <4>1. \A i \in 1..Start : tx[s][i] = Answered(Sequence7[i])
                BY <1>2, <2>1
            <4> QED
                BY <1>1, <4>1
        <3>3. {i \in 1..Len(tx[s]) : tx[s][i].response = "ok"} = 1..Start
            BY <3>1, <3>2
        <3>4. Completed(s) = FirstOps(Start)
            <4> DEFINE D == {i \in 1..Len(tx[s]) : tx[s][i].response = "ok"}
            <4>1. D = 1..Start
                BY <3>3
            <4> HIDE DEF D
            <4>2. {tx[s][i].op : i \in D} = {AllOps[i] : i \in 1..Start}
                BY <3>2, <4>1
            <4> QED
                BY <4>2 DEF Completed, FirstOps, D
        <3>5. InOrder(s, Start)
            BY <1>5, <3>4 DEF InOrder
        <3>6. \A i, j \in 1..Len(tx[s]) : tx[s][i].op = tx[s][j].op => i = j
            BY <3>1, <3>2, OpsDistinct
        <3> QED
            BY <1>5, <3>1, <3>5, <3>6 DEF Sequential
    <2>2. CASE s # 1
        <3>1. 1..Len(tx[s]) = {} /\ 1..0 = {}
            BY <1>2, <2>2
        <3>2. Completed(s) = {} /\ FirstOps(0) = {}
            BY <3>1 DEF Completed, FirstOps
        <3>3. InOrder(s, 0)
            BY <1>5, <3>2 DEF InOrder
        <3> QED
            BY <1>5, <3>1, <3>3 DEF Sequential
    <2> QED
        BY <2>1, <2>2
<1>8. OneLiveCapture
    BY <1>2 DEF OneLiveCapture, Configured, Completions
<1>9. AwaySettled /\ OneWaiting /\ ConfigureAlone
    BY <1>6 DEF Init, AwaySettled, OneWaiting, ConfigureAlone
<1> QED
    BY <1>3, <1>4, <1>7, <1>8, <1>9 DEF IInv

(* Steps that write neither a transaction nor a quarantine record.          *)
LEMMA BesideDocuments ==
    ASSUME IInv, UNCHANGED <<tx, quar>>, TypeOK', JobSound', config \subseteq config',
           \A s \in Sessions : status[s] = "failed" => status'[s] = "failed",
           \A s \in away' \ away : Pending(s) = {} /\ ~Live(s)
    PROVE  IInv' /\ Kept
<1>1. Kept
    BY LenTyped DEF IInv, Kept, QuarantineKept, DurableAbortQuarantine
<1>2. SameAnswers
    BY DEF SameAnswers
<1> QED
    BY <1>1, <1>2, MonotoneStep

(* The commands and steps that change nothing but the job.                  *)
LEMMA OnlyJob ==
    ASSUME IInv, UNCHANGED <<sessionVars, quar>>, TypeOK', JobSound'
    PROVE  IInv' /\ Kept
BY BesideDocuments DEF sessionVars

LEMMA ReturnSound ==
    ASSUME Return
    PROVE  /\ job' \in [cmd : JobNames, s : Nat, i : Nat, q : Nat, e : Nat]
           /\ JobSound'
BY DEF Return, NoJob, JobNames, JobSound

LEMMA StatusSteps ==
    ASSUME IInv,
           \/ \E s \in Sessions : Analyze(s)
           \/ AcceptReconcile \/ AcceptConfig \/ ConfirmFail
    PROVE  IInv' /\ Kept
<1> USE LenTyped DEF IInv
<1>1. ASSUME NEW s \in Sessions, Analyze(s) PROVE IInv' /\ Kept
    <2>1. TypeOK' /\ JobSound'
        BY <1>1 DEF Analyze, TypeOK, Statuses, JobSound, Idle, NoJob, recoveryVars
    <2> QED
        BY <1>1, <2>1, BesideDocuments DEF Analyze, TypeOK, recoveryVars
<1>2. CASE AcceptReconcile
    <2> DEFINE u == job.s
               next == Reconciled(tx[job.s][job.i].op, tx[job.s][job.i].response, status[job.s])
    <2>1. u \in Sessions /\ job.i \in 1..Len(tx[u]) /\ job.i \in Nat
        BY <1>2 DEF AcceptReconcile, JobSound, TypeOK
    <2>2. status[u] \in Statuses
        BY <2>1 DEF TypeOK
    <2>3. next # None => next \in Statuses /\ (status[u] = "failed" => next = "failed")
        BY <2>2 DEF Reconciled, Statuses
    <2> HIDE DEF next
    <2>4. \/ Return /\ UNCHANGED status
          \/ /\ next # None /\ status' = [status EXCEPT ![u] = next]
             /\ Run("config", u, job.i, 0, 0) \/ Return
        BY <1>2 DEF AcceptReconcile, next
    <2>5. UNCHANGED <<tx, config, away, quar, resv>>
        BY <1>2 DEF AcceptReconcile, recoveryVars
    <2>6. status' \in [Sessions -> Statuses]
        BY <2>1, <2>3, <2>4 DEF TypeOK
    <2>7. /\ job' \in [cmd : JobNames, s : Nat, i : Nat, q : Nat, e : Nat]
          /\ JobSound'
        <3>1. CASE Return
            BY <3>1, ReturnSound
        <3>2. CASE Run("config", u, job.i, 0, 0)
            BY <2>1, <2>5, <3>2 DEF Run, JobNames, JobSound
        <3> QED
            BY <2>4, <3>1, <3>2
    <2>8. TypeOK'
        BY <2>5, <2>6, <2>7 DEF TypeOK
    <2>9. \A s \in Sessions : status[s] = "failed" => status'[s] = "failed"
        BY <2>1, <2>3, <2>4 DEF TypeOK
    <2> QED
        BY <2>5, <2>7, <2>8, <2>9, BesideDocuments
<1>3. CASE AcceptConfig
    <2>1. job.s \in Sessions
        BY <1>3 DEF AcceptConfig, JobSound
    <2>2. TypeOK' /\ JobSound'
        BY <1>3, <2>1, ReturnSound DEF AcceptConfig, TypeOK, recoveryVars
    <2> QED
        BY <1>3, <2>2, BesideDocuments DEF AcceptConfig, recoveryVars
<1>4. CASE ConfirmFail
    <2>1. job.s \in Sessions
        BY <1>4 DEF ConfirmFail, JobSound
    <2>2. TypeOK' /\ JobSound'
        BY <1>4, <2>1, ReturnSound DEF ConfirmFail, TypeOK, recoveryVars, Statuses
    <2> QED
        BY <1>4, <2>1, <2>2, BesideDocuments DEF ConfirmFail, TypeOK, recoveryVars
<1> QED
    BY <1>1, <1>2, <1>3, <1>4

(* Abandoning takes what is releasable: nothing pending, and nothing left   *)
(* configured.                                                              *)
LEMMA AwaySteps ==
    ASSUME IInv, NEW s \in Sessions, Abandon(s) \/ Restore(s)
    PROVE  IInv' /\ Kept
<1> USE LenTyped DEF IInv
<1>1. /\ UNCHANGED <<status, tx, config, quar, resv, job>>
      /\ Idle /\ away' \subseteq away \cup {s}
    BY DEF Abandon, Restore, recoveryVars
<1>2. TypeOK' /\ JobSound'
    BY <1>1 DEF TypeOK, JobSound, Idle, NoJob
<1>3. ASSUME Releasable(s) PROVE Pending(s) = {} /\ ~Live(s)
    <2>1. Pending(s) = {}
        BY <1>3 DEF Releasable
    <2>2. CASE tx[s] = <<>>
        BY <2>1, <2>2 DEF Live, Configured, Completions
    <2>3. CASE status[s] = "failed"
        BY <2>1, <2>3 DEF Live
    <2>4. CASE Phase(s) = 7
        <3>1. PICK n \in 0..8 : Completed(s) = FirstOps(n)
            BY DEF Sequential, InOrder
        <3>2. n >= 7
            BY <2>4, <3>1, PhaseIs
        <3>3. "cleanup" \in Completed(s)
            BY <3>1, <3>2, FirstOpsHas, OpsDistinct
        <3>4. Completions(s, "cleanup") # {}
            BY <3>3 DEF Completed, Completions
        <3> QED
            BY <2>1, <3>4 DEF Live, Configured
    <2> QED
        BY <1>3, <2>2, <2>3, <2>4 DEF Releasable
<1>4. \A u \in away' \ away : Pending(u) = {} /\ ~Live(u)
    BY <1>1, <1>3 DEF Abandon, Restore
<1> QED
    BY <1>1, <1>2, <1>4, BesideDocuments

(* Commands that only begin, and a crash.                                   *)
LEMMA JobSteps ==
    ASSUME IInv,
           \/ \E s \in Sessions : \E i \in 1..Len(tx[s]) : AcceptAgain(s, i) \/ AcceptIngested(s, i)
           \/ \E q \in DOMAIN quar : PrepareRecovery(q)
           \/ Crash
    PROVE  IInv' /\ Kept
<1> USE LenTyped DEF IInv
<1>1. ASSUME NEW s \in Sessions, NEW i \in 1..Len(tx[s]), AcceptAgain(s, i) PROVE IInv' /\ Kept
    <2>1. UNCHANGED <<sessionVars, quar, resv>> /\ Run("reconcile", s, i, 0, 0)
        BY <1>1 DEF AcceptAgain, recoveryVars
    <2>2. TypeOK' /\ JobSound'
        BY <2>1 DEF sessionVars, Run, TypeOK, JobNames, JobSound
    <2> QED
        BY <2>1, <2>2, OnlyJob
<1>2. ASSUME NEW s \in Sessions, NEW i \in 1..Len(tx[s]), AcceptIngested(s, i) PROVE IInv' /\ Kept
    <2>1. /\ UNCHANGED <<sessionVars, quar, resv>> /\ Run("respond", s, i, 0, 0)
          /\ tx[s][i].response = "none" /\ status[s] # "failed" /\ s \notin away
        BY <1>2 DEF AcceptIngested, recoveryVars, Present
    <2>2. TypeOK' /\ JobSound'
        BY <2>1 DEF sessionVars, Run, TypeOK, JobNames, JobSound
    <2> QED
        BY <2>1, <2>2, OnlyJob
<1>3. ASSUME NEW q \in DOMAIN quar, PrepareRecovery(q) PROVE IInv' /\ Kept
    <2>1. /\ UNCHANGED <<sessionVars, quar, job>> /\ Idle
          /\ resv' = Append(resv, q) /\ q \in 1..Len(quar)
        BY <1>3 DEF PrepareRecovery
    <2>2. /\ resv' \in Seq(Nat) /\ Len(resv') = Len(resv) + 1
          /\ \A r \in 1..Len(resv') : resv'[r] = (IF r = Len(resv) + 1 THEN q ELSE resv[r])
        BY <2>1 DEF TypeOK
    <2>3. TypeOK' /\ JobSound'
        BY <2>1, <2>2 DEF sessionVars, Idle, NoJob, TypeOK, JobSound
    <2> QED
        BY <2>1, <2>3, OnlyJob
<1>4. CASE Crash
    <2>1. UNCHANGED <<sessionVars, quar, resv>>
        BY <1>4 DEF Crash, recoveryVars
    <2>2. TypeOK' /\ JobSound'
        BY <1>4, <2>1, ReturnSound DEF Crash, sessionVars, TypeOK
    <2> QED
        BY <2>1, <2>2, OnlyJob
<1> QED
    BY <1>1, <1>2, <1>3, <1>4

(* A document is added to a transaction; its operation and its response     *)
(* stay, and a receipt is not taken back.                                   *)
LEMMA DocumentStep ==
    ASSUME IInv, NEW s \in Sessions, NEW i \in 1..Len(tx[s]), NEW r \in Transaction,
           Rewritten(s, i, r),
           r.op = tx[s][i].op, r.response = tx[s][i].response,
           tx[s][i].receipt => r.receipt,
           UNCHANGED <<status, config, away, quar, resv>>,
           \/ Run("respond", s, i, 0, 0) /\ r.response = "none" /\ status[s] # "failed" /\ s \notin away
           \/ Run("q_endpoint", s, i, 0, 0)
           \/ Idle /\ UNCHANGED job
    PROVE  IInv' /\ Kept
<1>0. TypeOK
    BY DEF IInv
<1>1. /\ tx' \in [Sessions -> Seq(Transaction)]
      /\ \A u \in Sessions : Len(tx'[u]) = Len(tx[u])
      /\ \A u \in Sessions : \A j \in 1..Len(tx[u]) :
            tx'[u][j] = (IF u = s /\ j = i THEN r ELSE tx[u][j])
    BY <1>0, TxChanged
<1> USE LenTyped DEF IInv
<1>2. SameAnswers
    BY <1>1 DEF SameAnswers
<1>3. Kept
    BY <1>1 DEF Kept, QuarantineKept, DurableAbortQuarantine
<1>4. TypeOK'
    <2>1. job' \in [cmd : JobNames, s : Nat, i : Nat, q : Nat, e : Nat]
        BY DEF Run, JobNames, TypeOK
    <2> QED
        BY <1>1, <2>1 DEF TypeOK
<1>5. JobSound'
    <2>1. CASE Run("respond", s, i, 0, 0) /\ r.response = "none" /\ status[s] # "failed" /\ s \notin away
        BY <1>1, <2>1 DEF Run, JobSound
    <2>2. CASE Run("q_endpoint", s, i, 0, 0)
        BY <1>1, <2>2 DEF Run, JobSound
    <2>3. CASE Idle /\ UNCHANGED job
        BY <2>3 DEF Idle, NoJob, JobSound
    <2> QED
        BY <2>1, <2>2, <2>3
<1> QED
    BY <1>2, <1>3, <1>4, <1>5, MonotoneStep

LEMMA DocumentSteps ==
    ASSUME IInv, NEW s \in Sessions, NEW i \in 1..Len(tx[s]),
           \/ Abort(s, i) \/ ConfirmAbort(s, i)
           \/ \E reply \in Replies(tx[s][i].op) : AcceptIngest(s, i, reply)
    PROVE  IInv' /\ Kept
<1> USE LenTyped DEF IInv
<1>0. tx[s][i] \in Transaction
    OBVIOUS
<1>1. CASE Abort(s, i)
    <2> DEFINE r == [tx[s][i] EXCEPT !.plan = TRUE]
    <2>1. r \in Transaction /\ r.op = tx[s][i].op /\ r.response = tx[s][i].response
          /\ r.receipt = tx[s][i].receipt
        BY <1>0 DEF Transaction
    <2>2. Rewritten(s, i, r) /\ Idle
          /\ UNCHANGED <<status, config, away, quar, resv, job>>
        BY <1>1 DEF Abort, recoveryVars, Rewritten
    <2> HIDE DEF r
    <2> QED
        BY <2>1, <2>2, DocumentStep
<1>2. CASE ConfirmAbort(s, i)
    <2> DEFINE r == [tx[s][i] EXCEPT !.receipt = TRUE]
    <2>1. r \in Transaction /\ r.op = tx[s][i].op /\ r.response = tx[s][i].response /\ r.receipt
        BY <1>0 DEF Transaction
    <2>2. /\ UNCHANGED <<status, config, away, quar, resv>>
          /\ Run("q_endpoint", s, i, 0, 0)
          /\ Rewritten(s, i, r) \/ tx' = tx
        BY <1>2 DEF ConfirmAbort, recoveryVars, Rewritten
    <2> HIDE DEF r
    <2>3. CASE Rewritten(s, i, r)
        BY <2>1, <2>2, <2>3, DocumentStep
    <2>4. CASE tx' = tx
        <3>1. TypeOK' /\ JobSound'
            BY <2>2, <2>4 DEF Run, TypeOK, JobNames, JobSound
        <3> QED
            BY <2>2, <2>4, <3>1, OnlyJob DEF sessionVars
    <2> QED
        BY <2>2, <2>3, <2>4
<1>3. ASSUME NEW reply \in Replies(tx[s][i].op), AcceptIngest(s, i, reply) PROVE IInv' /\ Kept
    <2> DEFINE r == [tx[s][i] EXCEPT !.raw = reply]
    <2>1. r \in Transaction /\ r.op = tx[s][i].op /\ r.response = tx[s][i].response
          /\ r.receipt = tx[s][i].receipt
        BY <1>0 DEF Transaction, Replies
    <2>2. /\ Rewritten(s, i, r)
          /\ UNCHANGED <<status, config, away, quar, resv>>
          /\ Run("respond", s, i, 0, 0)
          /\ tx[s][i].response = "none" /\ status[s] # "failed" /\ s \notin away
        BY <1>3 DEF AcceptIngest, recoveryVars, Present, Rewritten
    <2> HIDE DEF r
    <2> QED
        BY <2>1, <2>2, DocumentStep
<1> QED
    BY <1>1, <1>2, <1>3

-----------------------------------------------------------------------------
(* The quarantine records: a step keeps those there are, with their key,    *)
(* and moves one only when it has its receipt.                              *)
RecordsKept ==
    /\ quar' \in Seq(Record)
    /\ Len(quar) <= Len(quar')
    /\ \A q \in 1..Len(quar) :
          /\ quar'[q].key = quar[q].key /\ quar'[q].s = quar[q].s /\ quar'[q].i = quar[q].i
          /\ quar[q].receipt # 0 => quar'[q].receipt # 0
          /\ quar'[q].moved => quar[q].moved \/ quar'[q].receipt # 0

LEMMA RecordStep ==
    ASSUME IInv, RecordsKept, UNCHANGED <<sessionVars, resv>>, JobSound',
           job' \in [cmd : JobNames, s : Nat, i : Nat, q : Nat, e : Nat]
    PROVE  IInv' /\ Kept
<1> USE LenTyped DEF IInv
<1>1. DOMAIN quar = 1..Len(quar) /\ DOMAIN quar' = 1..Len(quar') /\ Len(quar') \in Nat
    BY DEF RecordsKept
<1>2. QuarantineKept
    <2> SUFFICES ASSUME NEW s \in Sessions, NEW i \in Nat, DurableAbortQuarantine(s, i)
                 PROVE  DurableAbortQuarantine(s, i)'
        BY DEF QuarantineKept
    <2>1. PICK q \in DOMAIN quar : /\ quar[q].key = "endpoint" /\ quar[q].s = s /\ quar[q].i = i
                                   /\ quar[q].moved => quar[q].receipt # 0
        BY DEF DurableAbortQuarantine
    <2>2. /\ q \in DOMAIN quar'
          /\ quar'[q].key = "endpoint" /\ quar'[q].s = s /\ quar'[q].i = i
          /\ quar'[q].moved => quar'[q].receipt # 0
        BY <1>1, <2>1 DEF RecordsKept
    <2> QED
        BY <2>2 DEF DurableAbortQuarantine
<1>3. Kept /\ SameAnswers
    BY <1>2 DEF sessionVars, Kept, SameAnswers
<1>4. TypeOK'
    BY <1>1 DEF RecordsKept, sessionVars, TypeOK
<1> QED
    BY <1>3, <1>4, MonotoneStep DEF sessionVars

(* A record of the endpoint or of the target is created, or is there.       *)
LEMMA QuarantineSteps ==
    ASSUME IInv, QuarantineEndpoint \/ QuarantineTarget
    PROVE  IInv' /\ Kept
<1> USE LenTyped DEF IInv
<1>1. /\ job.s \in Sessions /\ job.i \in 1..Len(tx[job.s]) /\ job.i \in Nat
      /\ UNCHANGED <<sessionVars, resv>>
    BY DEF QuarantineEndpoint, QuarantineTarget, JobSound, TypeOK
<1>2. PICK key \in {"endpoint", "target"} : quar' = quar \/ quar' = Append(quar, NewRecord(key, job.s, job.i))
    BY DEF QuarantineEndpoint, QuarantineTarget, Quarantined
<1>3. NewRecord(key, job.s, job.i) \in Record
    BY <1>1, <1>2 DEF NewRecord, Record
<1>4. RecordsKept
    <2>1. CASE quar' = quar
        BY <2>1 DEF RecordsKept, TypeOK
    <2>2. CASE quar' = Append(quar, NewRecord(key, job.s, job.i))
        BY <1>3, <2>2 DEF RecordsKept, TypeOK
    <2> QED
        BY <1>2, <2>1, <2>2
<1>5. \/ Return
      \/ Run("q_target", job.s, job.i, 0, 0)
      \/ Run("fail", job.s, job.i, 0, 0)
    BY DEF QuarantineEndpoint, QuarantineTarget
<1>6. JobSound' /\ job' \in [cmd : JobNames, s : Nat, i : Nat, q : Nat, e : Nat]
    <2>1. CASE Return
        BY <2>1, ReturnSound
    <2>2. CASE Run("q_target", job.s, job.i, 0, 0) \/ Run("fail", job.s, job.i, 0, 0)
        BY <1>1, <2>2 DEF Run, JobSound, JobNames, sessionVars
    <2> QED
        BY <1>5, <2>1, <2>2
<1> QED
    BY <1>1, <1>4, <1>6, RecordStep

LEMMA LinkedTyped ==
    ASSUME TypeOK, NEW q
    PROVE  LinkedEndpoint(q) = 0 \/ LinkedEndpoint(q) \in 1..Len(quar)
<1>1. DOMAIN quar = 1..Len(quar)
    BY DEF TypeOK
<1> QED
    BY <1>1 DEF LinkedEndpoint

(* Recovery: the receipt first, then the move, of the record and of the     *)
(* endpoint record linked to it.                                            *)
LEMMA RecoverySteps ==
    ASSUME IInv,
           \/ \E r \in DOMAIN resv : AcceptRecovery(r)
           \/ RecoveryMove \/ RecoveryLink \/ RecoveryLinkMove
    PROVE  IInv' /\ Kept
<1> USE LenTyped DEF IInv
<1>0. quar \in Seq(Record) /\ job.i \in Nat /\ job.q \in Nat /\ job.e \in Nat
    BY DEF TypeOK
<1>1. ASSUME NEW r \in DOMAIN resv, AcceptRecovery(r) PROVE IInv' /\ Kept
    <2> DEFINE q == resv[r]
               e == LinkedEndpoint(q)
               n == [quar[q] EXCEPT !.receipt = r, !.linked = e]
    <2>0. TypeOK /\ (e = 0 \/ e \in 1..Len(quar))
        BY LinkedTyped
    <2>1. q \in 1..Len(quar) /\ r \in Nat /\ r # 0 /\ e \in Nat
        <3>1. r \in 1..Len(resv) /\ q \in 1..Len(quar)
            BY DEF TypeOK
        <3> QED
            BY <2>0, <3>1
    <2>2. quar[q] \in Record
        BY <2>1
    <2> HIDE DEF e, q
    <2>3. /\ n \in Record /\ n.receipt = r /\ n.key = quar[q].key /\ n.s = quar[q].s
          /\ n.i = quar[q].i /\ n.moved = quar[q].moved
        BY <2>1, <2>2 DEF Record
    <2>4. /\ UNCHANGED <<sessionVars, resv>> /\ Run("r_move", 0, r, q, e)
          /\ \/ quar[q].receipt # 0 /\ quar' = quar
             \/ quar' = [quar EXCEPT ![q].receipt = r, ![q].linked = e]
        BY <1>1 DEF AcceptRecovery, q, e
    <2>5. quar' = [quar EXCEPT ![q].receipt = r, ![q].linked = e] => quar' = [quar EXCEPT ![q] = n]
        BY <1>0, <2>1, <2>2 DEF Record
    <2> HIDE DEF n
    <2>6. RecordsKept /\ quar'[q].receipt # 0 /\ Len(quar') = Len(quar)
        <3>1. CASE quar[q].receipt # 0 /\ quar' = quar
            BY <1>0, <3>1 DEF RecordsKept
        <3>2. CASE quar' = [quar EXCEPT ![q] = n]
            BY <1>0, <2>1, <2>3, <3>2 DEF RecordsKept
        <3> QED
            BY <2>4, <2>5, <3>1, <3>2
    <2>7. JobSound' /\ job' \in [cmd : JobNames, s : Nat, i : Nat, q : Nat, e : Nat]
        BY <2>1, <2>4, <2>6 DEF Run, JobSound, JobNames
    <2> QED
        BY <2>4, <2>6, <2>7, RecordStep
<1>2. CASE RecoveryMove
    <2> DEFINE n == [quar[job.q] EXCEPT !.moved = TRUE]
    <2>1. job.q \in 1..Len(quar) /\ quar[job.q].receipt # 0 /\ job.i # 0 /\ quar[job.q] \in Record
        BY <1>2 DEF RecoveryMove, JobSound
    <2>2. /\ n \in Record /\ n.receipt = quar[job.q].receipt /\ n.key = quar[job.q].key
          /\ n.s = quar[job.q].s /\ n.i = quar[job.q].i
        BY <2>1 DEF Record
    <2>3. /\ UNCHANGED <<sessionVars, resv>> /\ quar' = [quar EXCEPT ![job.q] = n]
          /\ Run("r_link", 0, job.i, job.q, job.e) \/ Return
        BY <1>2 DEF RecoveryMove
    <2> HIDE DEF n
    <2>4. RecordsKept /\ quar'[job.q].receipt # 0 /\ Len(quar') = Len(quar)
        BY <1>0, <2>1, <2>2, <2>3 DEF RecordsKept
    <2>5. JobSound' /\ job' \in [cmd : JobNames, s : Nat, i : Nat, q : Nat, e : Nat]
        <3>1. CASE Return
            BY <3>1, ReturnSound
        <3>2. CASE Run("r_link", 0, job.i, job.q, job.e)
            BY <1>0, <2>1, <2>4, <3>2 DEF Run, JobSound, JobNames
        <3> QED
            BY <2>3, <3>1, <3>2
    <2> QED
        BY <2>3, <2>4, <2>5, RecordStep
<1>3. CASE RecoveryLink
    <2> DEFINE e == LinkedEndpoint(job.q)
               n == [quar[e] EXCEPT !.receipt = job.i, !.linked = job.q]
    <2>1. job.q \in 1..Len(quar) /\ quar[job.q].receipt # 0 /\ job.i # 0
        BY <1>3 DEF RecoveryLink, JobSound
    <2>2. e = 0 \/ e \in 1..Len(quar)
        BY LinkedTyped
    <2>3. /\ UNCHANGED <<sessionVars, resv>>
          /\ \/ Return /\ quar' = quar
             \/ /\ e # 0 /\ Run("r_link_move", 0, job.i, job.q, e)
                /\ quar' = [quar EXCEPT ![e].receipt = job.i, ![e].linked = job.q]
        BY <1>3 DEF RecoveryLink
    <2> HIDE DEF e
    <2>4. CASE Return /\ quar' = quar
        <3>1. RecordsKept
            BY <1>0, <2>4 DEF RecordsKept
        <3> QED
            BY <2>3, <2>4, <3>1, ReturnSound, RecordStep
    <2>5. CASE /\ e # 0 /\ Run("r_link_move", 0, job.i, job.q, e)
               /\ quar' = [quar EXCEPT ![e].receipt = job.i, ![e].linked = job.q]
        <3>1. e \in 1..Len(quar) /\ e \in Nat /\ quar[e] \in Record
            BY <2>2, <2>5
        <3>2. /\ n \in Record /\ n.receipt = job.i /\ n.key = quar[e].key
              /\ n.s = quar[e].s /\ n.i = quar[e].i /\ n.moved = quar[e].moved
            BY <1>0, <3>1 DEF Record
        <3>3. quar' = [quar EXCEPT ![e] = n]
            BY <1>0, <2>5, <3>1 DEF Record
        <3> HIDE DEF n
        <3>4. /\ RecordsKept /\ Len(quar') = Len(quar)
              /\ quar'[e].receipt # 0 /\ quar'[job.q].receipt # 0
            BY <1>0, <2>1, <3>1, <3>2, <3>3 DEF RecordsKept
        <3>5. JobSound' /\ job' \in [cmd : JobNames, s : Nat, i : Nat, q : Nat, e : Nat]
            BY <1>0, <2>1, <2>5, <3>1, <3>4 DEF Run, JobSound, JobNames
        <3> QED
            BY <2>3, <3>4, <3>5, RecordStep
    <2> QED
        BY <2>3, <2>4, <2>5
<1>4. CASE RecoveryLinkMove
    <2> DEFINE n == [quar[job.e] EXCEPT !.moved = TRUE]
    <2>1. job.e \in 1..Len(quar) /\ quar[job.e].receipt # 0 /\ quar[job.e] \in Record
        BY <1>4 DEF RecoveryLinkMove, JobSound
    <2>2. /\ n \in Record /\ n.receipt = quar[job.e].receipt /\ n.key = quar[job.e].key
          /\ n.s = quar[job.e].s /\ n.i = quar[job.e].i
        BY <2>1 DEF Record
    <2>3. /\ UNCHANGED <<sessionVars, resv>> /\ quar' = [quar EXCEPT ![job.e] = n] /\ Return
        BY <1>4 DEF RecoveryLinkMove
    <2> HIDE DEF n
    <2>4. RecordsKept
        BY <1>0, <2>1, <2>2, <2>3 DEF RecordsKept
    <2> QED
        BY <2>3, <2>4, ReturnSound, RecordStep
<1> QED
    BY <1>1, <1>2, <1>3, <1>4

-----------------------------------------------------------------------------
(* The answer of the one transaction that waits.                            *)

LEMMA CompletedHas ==
    ASSUME NEW s, NEW op
    PROVE  op \in Completed(s) <=> Completions(s, op) # {}
BY DEF Completed, Completions

LEMMA AnswerKeeps ==
    ASSUME IInv, NEW u \in Sessions, NEW k \in 1..Len(tx[u]),
           tx[u][k].response = "none", status[u] # "failed", u \notin away,
           NEW a \in {"ok", "rejected"}, NEW r \in Transaction,
           r.response = a, r.op = tx[u][k].op, r.receipt = tx[u][k].receipt,
           Rewritten(u, k, r), Run("reconcile", u, k, 0, 0),
           UNCHANGED <<status, config, away, quar, resv>>
    PROVE  IInv' /\ Kept
<1>1. TypeOK
    BY DEF IInv
<1>2. tx[u][k] \in Transaction /\ u \in Nat /\ k \in Nat
    BY <1>1, LenTyped
<1>3. /\ tx' \in [Sessions -> Seq(Transaction)]
      /\ \A s \in Sessions : Len(tx'[s]) = Len(tx[s])
      /\ \A s \in Sessions : \A j \in 1..Len(tx[s]) :
            tx'[s][j] = (IF s = u /\ j = k THEN r ELSE tx[s][j])
    BY <1>1, TxChanged
<1>5. TypeOK' /\ JobSound'
    BY <1>1, <1>2, <1>3 DEF Run, TypeOK, JobNames, JobSound
<1>6. Kept
    <2>1. QuarantineKept
        BY <1>1 DEF QuarantineKept, DurableAbortQuarantine
    <2> QED
        BY <1>1, <1>2, <1>3, <2>1, LenTyped DEF Kept
<1>7. k \in Pending(u) /\ k \in Unanswered(u) /\ Unanswered(u) = {k}
    BY <1>1 DEF Pending, AbortClosed, Unanswered, IInv, Sequential
<1>8. /\ Unanswered(u)' = {} /\ Pending(u)' = {}
      /\ \A s \in Sessions \ {u} : Unanswered(s)' = Unanswered(s)
    <2>1. Unanswered(u)' = {}
        BY <1>1, <1>2, <1>3, <1>7 DEF Unanswered
    <2>2. \A s \in Sessions \ {u} : Unanswered(s)' = Unanswered(s)
        BY <1>3 DEF Unanswered
    <2> QED
        BY <2>1, <2>2 DEF Pending, Unanswered
<1>9. \A s \in Sessions \ {u} : Pending(s)' = {}
    <2> SUFFICES ASSUME NEW s \in Sessions \ {u}, NEW i \in Pending(s)' PROVE FALSE
        OBVIOUS
    <2>1. i \in 1..Len(tx[s]) /\ tx[s][i].response = "none"
        BY <1>3 DEF Pending
    <2>2. ~AbortClosed(s, i)
        BY <1>1, <1>6, <2>1, ClosedKept DEF Pending
    <2>3. Pending(s) # {} /\ Pending(u) # {}
        BY <1>7, <2>1, <2>2 DEF Pending
    <2> QED
        BY <1>1, <2>3 DEF IInv, OneWaiting
<1>10. ASSUME NEW s \in Sessions, s # u PROVE Completed(s)' = Completed(s) /\ (Live(s)' <=> Live(s))
    <2>1. tx'[s] = tx[s]
        BY <1>1, <1>10 DEF Rewritten, TypeOK
    <2> QED
        BY <1>1, <2>1 DEF Completed, Live, Configured, Completions
<1>11. \A op : Completions(u, op)' = IF op = tx[u][k].op /\ a = "ok"
                                    THEN Completions(u, op) \cup {k} ELSE Completions(u, op)
    BY <1>1, <1>2, <1>3 DEF Completions
<1>12. Live(u)' => \/ Live(u)
                   \/ tx[u][k].op = "configure" /\ \A t \in Sessions : ~Live(t)
    <2> SUFFICES ASSUME Live(u)', tx[u][k].op # "configure" PROVE Live(u)
        BY <1>1, <1>7 DEF IInv, ConfigureAlone
    <2>1. /\ Completions(u, "configure") # {} /\ Completions(u, "cleanup") = {}
        BY <1>11 DEF Live, Configured
    <2>2. ~\E i \in 1..Len(tx[u]) : tx[u][i].receipt
        BY <1>1, <1>2, <1>3 DEF Live, Configured
    <2> QED
        BY <1>1, <2>1, <2>2 DEF Live, Configured
<1>13. ASSUME NEW s \in Sessions PROVE Sequential(s)'
    <2>1. CASE s # u
        <3>1. tx'[s] = tx[s]
            BY <1>1, <2>1 DEF Rewritten, TypeOK
        <3> QED
            BY <1>10, <2>1, <3>1 DEF IInv, Sequential, InOrder, Unanswered
    <2>2. CASE s = u
        <3>1. PICK n \in 0..8 : InOrder(u, n)
            BY <1>1 DEF IInv, Sequential
        <3>2. n \in 0..7 /\ tx[u][k].op = AllOps[n + 1] /\ Completed(u) = FirstOps(n)
            BY <1>7, <3>1 DEF InOrder
        <3>3. tx[u][k].op \notin Completed(u)
            BY <3>2, FirstOpsHas
        <3>4. \A op : op \in Completed(u)' <=> op \in Completed(u) \/ (a = "ok" /\ op = tx[u][k].op)
            <4>1. \A op : op \in Completed(u)' <=> Completions(u, op)' # {}
                BY DEF Completed, Completions
            <4>2. \A op : op \in Completed(u) <=> Completions(u, op) # {}
                BY CompletedHas
            <4> QED
                BY <1>11, <4>1, <4>2
        <3>5. \E m \in 0..8 : InOrder(u, m)'
            <4>1. CASE a = "ok"
                <5>1. Completed(u)' = Completed(u) \cup {AllOps[n + 1]}
                    BY <3>2, <3>4, <4>1
                <5>2. Completed(u)' = FirstOps(n + 1) /\ n + 1 \in 0..8
                    BY <3>2, <5>1, FirstOpsNext
                <5>3. InOrder(u, n + 1)'
                    BY <1>8, <5>2 DEF InOrder
                <5> QED
                    BY <5>2, <5>3
            <4>2. CASE a # "ok"
                <5>1. Completed(u)' = FirstOps(n)
                    BY <3>2, <3>4, <4>2
                <5>2. InOrder(u, n)'
                    BY <1>8, <5>1 DEF InOrder
                <5> QED
                    BY <5>2
            <4> QED
                BY <4>1, <4>2
        <3>6. \A i, j \in 1..Len(tx'[u]) :
                  tx'[u][i].op = tx'[u][j].op /\ tx'[u][i].response = "ok" /\ tx'[u][j].response = "ok"
                    => i = j
            <4>1. \A i \in 1..Len(tx[u]) : tx[u][i].response = "ok" => tx[u][i].op # tx[u][k].op
                BY <3>3, CompletedHas DEF Completions
            <4>2. \A i, j \in 1..Len(tx[u]) :
                      tx[u][i].op = tx[u][j].op /\ tx[u][i].response = "ok" /\ tx[u][j].response = "ok"
                        => i = j
                BY DEF IInv, Sequential
            <4>3. Len(tx'[u]) = Len(tx[u]) /\ tx'[u][k] = r
                  /\ \A j \in 1..Len(tx[u]) : j # k => tx'[u][j] = tx[u][j]
                BY <1>3
            <4> QED
                BY <4>1, <4>2, <4>3
        <3> QED
            BY <1>8, <2>2, <3>5, <3>6 DEF Sequential
    <2> QED
        BY <2>1, <2>2
<1>14. AwaySettled'
    BY <1>1, <1>9, <1>10 DEF IInv, AwaySettled, TypeOK
<1>15. OneWaiting' /\ ConfigureAlone'
    BY <1>8, <1>9 DEF OneWaiting, ConfigureAlone
<1>16. OneLiveCapture'
    <2> SUFFICES ASSUME NEW s \in Sessions, NEW t \in Sessions, Live(s)', Live(t)' PROVE s = t
        BY DEF OneLiveCapture, Live
    <2>1. \A x, y \in Sessions : Live(x) /\ Live(y) => x = y
        BY DEF IInv, OneLiveCapture, Live
    <2> QED
        BY <1>10, <1>12, <2>1
<1> QED
    BY <1>5, <1>6, <1>13, <1>14, <1>15, <1>16 DEF IInv

(* A wrapper that may be accepted becomes the response.                     *)
LEMMA RespondKeeps ==
    ASSUME IInv, AcceptRespond
    PROVE  IInv' /\ Kept
<1>1. PICK u \in Sessions, k \in 1..Len(tx[job.s]) : u = job.s /\ k = job.i
    BY DEF IInv, JobSound, AcceptRespond
<1>2. /\ TypeOK /\ k \in 1..Len(tx[u])
      /\ tx[u][k].response = "none" /\ status[u] # "failed" /\ u \notin away
      /\ UNCHANGED <<status, config, away, quar, resv>>
    BY <1>1 DEF IInv, JobSound, AcceptRespond, recoveryVars
<1>3. CASE ~Answerable(u, k)
    <2>1. Return /\ UNCHANGED tx
        BY <1>1, <1>3 DEF AcceptRespond
    <2>2. TypeOK' /\ JobSound'
        BY <1>2, <2>1, ReturnSound DEF TypeOK
    <2> QED
        BY <1>2, <2>1, <2>2, OnlyJob DEF sessionVars
<1>4. CASE Answerable(u, k)
    <2> DEFINE a == tx[u][k].raw
               r == [tx[u][k] EXCEPT !.response = a]
    <2>1. a \in {"ok", "rejected"}
        BY <1>4 DEF Answerable
    <2>2. tx[u][k] \in Transaction
        BY <1>2, LenTyped
    <2>3. /\ r \in Transaction /\ r.response = a /\ r.op = tx[u][k].op
          /\ r.receipt = tx[u][k].receipt
        BY <2>1, <2>2 DEF Transaction
    <2>4. Rewritten(u, k, r) /\ Run("reconcile", u, k, 0, 0)
        BY <1>1, <1>4 DEF AcceptRespond, Rewritten
    <2> HIDE DEF a, r
    <2> QED
        BY <1>2, <2>1, <2>3, <2>4, AnswerKeeps
<1> QED
    BY <1>3, <1>4

-----------------------------------------------------------------------------
(* A new request.                                                           *)

(* A live capture in the root claims the endpoint.                          *)
LEMMA LiveHolds ==
    ASSUME IInv, NEW t \in Sessions \ away, Live(t)
    PROVE  t \in LeaseHolders
<1>1. PICK n \in 0..8 : Completed(t) = FirstOps(n)
    BY DEF IInv, Sequential, InOrder
<1>2. "cleanup" \notin Completed(t)
    BY CompletedHas DEF Live, Configured
<1>3. n < 7
    BY <1>1, <1>2, FirstOpsHas, OpsDistinct
<1>4. Phase(t) < 7
    BY <1>1, <1>3, PhaseIs
<1>5. HasResponse(t)
    BY DEF Live, Configured, Completions, HasResponse
<1> QED
    BY <1>4, <1>5 DEF LeaseHolders, Present, ReleasedByFailure, Live

(* When no transaction of the root is active, nothing waits, not even in    *)
(* abandoned Sessions.                                                      *)
LEMMA NothingWaits ==
    ASSUME IInv, ActiveTransactions = {}, NEW s \in Sessions
    PROVE  Pending(s) = {}
<1>1. CASE s \in away
    BY <1>1 DEF IInv, AwaySettled
<1>2. CASE s \notin away
    <2> SUFFICES ASSUME NEW i \in Pending(s) PROVE FALSE
        OBVIOUS
    <2>1. i \in 1..Len(tx[s]) /\ tx[s][i].response = "none" /\ ~AbortClosed(s, i)
        BY DEF Pending
    <2>2. <<s, i>> \in TxIds
        BY <2>1 DEF TxIds
    <2>3. Active(s, i)
        BY <2>1 DEF Active
    <2>4. <<s, i>> \in ActiveTransactions
        BY <1>2, <2>2, <2>3 DEF ActiveTransactions, Present
    <2> QED
        BY <2>4
<1> QED
    BY <1>1, <1>2

(* prepare asks for the operation after the completed ones.                 *)
LEMMA ExpectedIsNext ==
    ASSUME IInv, NEW s \in Sessions, PendingRequests(s) = {}, NEW op \in Expected(s)
    PROVE  \E n \in 0..7 : /\ Completed(s) = FirstOps(n)
                           /\ op = AllOps[n + 1]
                           /\ n = 7 => s \in config
<1>1. PICK n \in 0..8 : Completed(s) = FirstOps(n)
    BY DEF IInv, Sequential, InOrder
<1>2. n >= 7 => s \in config
    <2> SUFFICES ASSUME n >= 7, s \notin config PROVE FALSE
        OBVIOUS
    <2>1. "cleanup" \in Completed(s)
        BY <1>1, FirstOpsHas, OpsDistinct
    <2>2. Completions(s, "cleanup") # {}
        BY <2>1, CompletedHas
    <2>3. ConfigMissing(s)
        BY <1>1, PhaseIs
    <2> QED
        BY <2>2, <2>3 DEF PendingRequests
<1>3. CASE n < 7
    <2>1. Phase(s) = n
        BY <1>1, <1>3, PhaseIs
    <2>2. op = Sequence7[n + 1]
        BY <1>3, <2>1 DEF Expected
    <2>3. op = AllOps[n + 1] /\ n \in 0..7 /\ n # 7
        BY <1>3, <2>2, OpsDistinct
    <2> QED
        BY <1>1, <2>3
<1>4. CASE n >= 7
    <2>1. Phase(s) = 7
        BY <1>1, <1>2, <1>4, PhaseIs
    <2>2. op = "get_hotspots" /\ op \notin Completed(s)
        BY <2>1 DEF Expected
    <2>3. n # 8
        BY <1>1, <2>2, FirstOpsHas, OpsDistinct
    <2>4. n = 7 /\ op = AllOps[n + 1] /\ n \in 0..7
        BY <1>4, <2>2, <2>3, OpsDistinct
    <2> QED
        BY <1>1, <1>2, <2>4
<1> QED
    BY <1>3, <1>4

LEMMA PrepareKeeps ==
    ASSUME IInv, NEW s \in Sessions, Prepare(s)
    PROVE  IInv' /\ Kept
<1>1. PICK op \in Expected(s) : tx' = [tx EXCEPT ![s] = Append(tx[s], Request(op))]
    BY DEF Prepare
<1>2. /\ Idle /\ s \notin away /\ status[s] # "failed" /\ PendingRequests(s) = {}
      /\ ActiveTransactions = {} /\ LeaseHolders \subseteq {s}
      /\ UNCHANGED <<status, config, away, quar, resv, job>>
    BY DEF Prepare, Preparable, Present, recoveryVars
<1>3. PICK n \in 0..7 : /\ Completed(s) = FirstOps(n)
                        /\ op = AllOps[n + 1]
                        /\ n = 7 => s \in config
    BY <1>2, ExpectedIsNext
<1>4. /\ TypeOK /\ tx[s] \in Seq(Transaction) /\ Len(tx[s]) \in Nat /\ op \in Operations
    BY <1>3, LenTyped, OpsDistinct DEF IInv
<1> DEFINE r == Request(op)
           L == Len(tx[s]) + 1
<1>5. /\ r \in Transaction /\ r.op = op /\ r.response = "none" /\ r.receipt = FALSE
    BY <1>4 DEF Request, Transaction
<1> HIDE DEF r
<1>6. /\ tx' \in [Sessions -> Seq(Transaction)]
      /\ \A t \in Sessions : t # s => tx'[t] = tx[t]
      /\ Len(tx'[s]) = L /\ tx'[s][L] = r
      /\ \A i \in 1..Len(tx[s]) : tx'[s][i] = tx[s][i]
    <2>1. tx' = [tx EXCEPT ![s] = Append(tx[s], r)] /\ tx \in [Sessions -> Seq(Transaction)]
        BY <1>1, <1>4 DEF TypeOK, r
    <2>2. /\ Append(tx[s], r) \in Seq(Transaction) /\ Len(Append(tx[s], r)) = L
          /\ Append(tx[s], r)[L] = r
          /\ \A i \in 1..Len(tx[s]) : Append(tx[s], r)[i] = tx[s][i]
        BY <1>4, <1>5
    <2>3. tx'[s] = Append(tx[s], r)
        BY <2>1
    <2> QED
        BY <2>1, <2>2, <2>3
<1>7. 1..L = (1..Len(tx[s])) \cup {L} /\ L \notin 1..Len(tx[s]) /\ L \in Nat
    BY <1>4
<1> HIDE DEF L
<1>8. TypeOK' /\ JobSound'
    BY <1>2, <1>4, <1>6 DEF TypeOK, JobSound, Idle, NoJob
<1>9. Kept
    <2>1. QuarantineKept
        BY <1>2 DEF QuarantineKept, DurableAbortQuarantine
    <2>2. \A t \in Sessions : Len(tx[t]) \in Nat
        BY <1>4, LenTyped
    <2>3. Len(tx[s]) <= Len(tx'[s])
        BY <1>4, <1>6 DEF L
    <2> QED
        BY <1>2, <1>6, <2>1, <2>2, <2>3 DEF Kept
<1>10. \A t \in Sessions : Pending(t) = {}
    BY <1>2, NothingWaits
<1>11. Unanswered(s) = {}
    BY <1>2, <1>10 DEF Unanswered, Pending, AbortClosed
<1>12. Unanswered(s)' = {L} /\ Pending(s)' \subseteq {L}
    BY <1>5, <1>6, <1>7, <1>11 DEF Unanswered, Pending
<1>13. ASSUME NEW t \in Sessions, t # s
       PROVE  /\ Pending(t)' = {} /\ Unanswered(t)' = Unanswered(t)
              /\ Completed(t)' = Completed(t) /\ (Live(t)' <=> Live(t))
    <2>1. tx'[t] = tx[t]
        BY <1>6, <1>13
    <2>2. Pending(t)' = Pending(t)
        BY <1>2, <2>1 DEF Pending, AbortClosed, DurableAbortQuarantine
    <2> QED
        BY <1>2, <1>10, <2>1, <2>2 DEF Unanswered, Completed, Live, Configured, Completions
<1>14. \A o : Completions(s, o)' = Completions(s, o)
    BY <1>5, <1>6, <1>7 DEF Completions
<1>15. Live(s)' => Live(s)
    BY <1>2, <1>6, <1>7, <1>14 DEF Live, Configured
<1>16. Completed(s)' = FirstOps(n)
    <2>1. \A o : o \in Completed(s)' <=> Completions(s, o)' # {}
        BY DEF Completed, Completions
    <2>2. \A o : o \in Completed(s) <=> Completions(s, o) # {}
        BY CompletedHas
    <2> QED
        BY <1>3, <1>14, <2>1, <2>2
<1>17. ASSUME NEW t \in Sessions PROVE Sequential(t)'
    <2>1. CASE t # s
        <3>1. tx'[t] = tx[t] /\ Unanswered(t)' = Unanswered(t) /\ Completed(t)' = Completed(t)
              /\ (t \in config' <=> t \in config)
            BY <1>2, <1>6, <1>13, <2>1
        <3>2. PICK m \in 0..8 : InOrder(t, m)
            BY DEF IInv, Sequential
        <3>3. InOrder(t, m)'
            BY <3>1, <3>2 DEF InOrder
        <3>4. Sequential(t)
            BY DEF IInv
        <3> QED
            BY <3>1, <3>3, <3>4 DEF Sequential
    <2>2. CASE t = s
        <3>1. InOrder(s, n)' /\ n \in 0..8
            BY <1>3, <1>5, <1>6, <1>12, <1>16 DEF InOrder
        <3>2. \A i, j \in 1..Len(tx'[s]) :
                  tx'[s][i].op = tx'[s][j].op /\ tx'[s][i].response = "ok" /\ tx'[s][j].response = "ok"
                    => i = j
            <4>1. \A i, j \in 1..Len(tx[s]) :
                      tx[s][i].op = tx[s][j].op /\ tx[s][i].response = "ok" /\ tx[s][j].response = "ok"
                        => i = j
                BY DEF IInv, Sequential
            <4> QED
                BY <1>5, <1>6, <1>7, <4>1
        <3>3. \A i \in Unanswered(s)' : tx'[s][i].op = "get_hotspots" => s \in config'
            BY <1>2, <1>3, <1>5, <1>6, <1>12, OpsDistinct
        <3> QED
            BY <1>12, <2>2, <3>1, <3>2, <3>3 DEF Sequential
    <2> QED
        BY <2>1, <2>2
<1>18. AwaySettled'
    BY <1>2, <1>13 DEF IInv, AwaySettled, TypeOK
<1>19. OneWaiting'
    BY <1>13 DEF OneWaiting
<1>20. ConfigureAlone'
    <2> SUFFICES ASSUME NEW u \in Sessions, NEW t \in Sessions, NEW i \in Pending(u)',
                        tx'[u][i].op = "configure", Live(t)'
                 PROVE  FALSE
        BY DEF ConfigureAlone
    <2>1. u = s /\ i = L /\ op = "configure"
        BY <1>5, <1>6, <1>12, <1>13
    <2>2. n = 1
        <3>1. n + 1 \in 1..8 /\ 2 \in 1..8 /\ AllOps[n + 1] = AllOps[2]
            BY <1>3, <2>1, OpsDistinct
        <3>2. n + 1 = 2
            BY <3>1, OpsDistinct
        <3> QED
            BY <3>2
    <2>3. "configure" \notin Completed(s)
        BY <1>3, <2>2, FirstOpsHas, OpsDistinct
    <2>4. ~Live(s)
        BY <2>3, CompletedHas DEF Live, Configured
    <2>5. Live(t) /\ t # s
        BY <1>13, <1>15, <2>4
    <2>6. t \notin away
        BY <2>5 DEF IInv, AwaySettled
    <2> QED
        BY <1>2, <2>5, <2>6, LiveHolds
<1>21. OneLiveCapture'
    <2> SUFFICES ASSUME NEW x \in Sessions, NEW y \in Sessions, Live(x)', Live(y)' PROVE x = y
        BY DEF OneLiveCapture, Live
    <2> QED
        BY <1>13, <1>15 DEF IInv, OneLiveCapture, Live
<1> QED
    BY <1>8, <1>9, <1>17, <1>18, <1>19, <1>20, <1>21 DEF IInv

-----------------------------------------------------------------------------
LEMMA NextKeeps ==
    ASSUME IInv, [Next]_vars
    PROVE  IInv' /\ Kept
<1>1. ASSUME NEW t \in TxIds
      PROVE  t[1] \in Sessions /\ t[2] \in 1..Len(tx[t[1]])
    BY DEF TxIds
<1>2. CASE Command
    <2>1. ASSUME NEW s \in Sessions, Prepare(s) \/ Analyze(s) \/ Abandon(s) \/ Restore(s)
          PROVE  IInv' /\ Kept
        BY <2>1, PrepareKeeps, StatusSteps, AwaySteps
    <2>2. ASSUME NEW t \in TxIds,
                 \/ Abort(t[1], t[2]) \/ ConfirmAbort(t[1], t[2])
                 \/ \E reply \in Replies(tx[t[1]][t[2]].op) : AcceptIngest(t[1], t[2], reply)
          PROVE  IInv' /\ Kept
        BY <1>1, <2>2, DocumentSteps
    <2>3. ASSUME NEW t \in TxIds, AcceptAgain(t[1], t[2]) \/ AcceptIngested(t[1], t[2])
          PROVE  IInv' /\ Kept
        BY <1>1, <2>3, JobSteps
    <2>4. ASSUME NEW q \in DOMAIN quar, PrepareRecovery(q) PROVE IInv' /\ Kept
        BY <2>4, JobSteps
    <2>5. ASSUME NEW r \in DOMAIN resv, AcceptRecovery(r) PROVE IInv' /\ Kept
        BY <2>5, RecoverySteps
    <2> QED
        BY <1>2, <2>1, <2>2, <2>3, <2>4, <2>5 DEF Command
<1>3. CASE Step
    BY <1>3, RespondKeeps, StatusSteps, QuarantineSteps, RecoverySteps DEF Step
<1>4. CASE Crash
    BY <1>4, JobSteps
<1>5. CASE UNCHANGED vars
    <2>1. UNCHANGED <<sessionVars, quar, resv, job>>
        BY <1>5 DEF vars, recoveryVars
    <2>2. TypeOK' /\ JobSound'
        BY <2>1 DEF IInv, sessionVars, TypeOK, JobSound
    <2> QED
        BY <2>1, <2>2, OnlyJob
<1> QED
    BY <1>2, <1>3, <1>4, <1>5 DEF Next

(* Only prepare adds a request.                                             *)
LEMMA OnlyPrepareGrows ==
    ASSUME IInv, [Next]_vars, NEW u \in Sessions, Len(tx'[u]) > Len(tx[u])
    PROVE  \E s \in Sessions : Prepare(s)
<1>1. TypeOK /\ Len(tx[u]) \in Nat
    BY LenTyped DEF IInv
<1>2. tx' # tx
    BY <1>1
<1>3. ASSUME NEW s \in Sessions, NEW i \in 1..Len(tx[s]), NEW r \in Transaction, Rewritten(s, i, r)
      PROVE  FALSE
    BY <1>1, <1>3, TxChanged
<1>4. ASSUME NEW t \in TxIds
      PROVE  /\ ~Abort(t[1], t[2]) /\ ~ConfirmAbort(t[1], t[2])
             /\ \A reply \in Replies(tx[t[1]][t[2]].op) : ~AcceptIngest(t[1], t[2], reply)
    <2>1. PICK s \in Sessions, i \in 1..Len(tx[t[1]]) : s = t[1] /\ i = t[2]
        BY DEF TxIds
    <2>2. tx[s][i] \in Transaction /\ i \in 1..Len(tx[s])
        BY <1>1, <2>1, LenTyped
    <2>3. ~Abort(s, i)
        <3> DEFINE r == [tx[s][i] EXCEPT !.plan = TRUE]
        <3>1. r \in Transaction /\ (Abort(s, i) => Rewritten(s, i, r))
            BY <2>2 DEF Transaction, Abort, Rewritten
        <3> HIDE DEF r
        <3> QED
            BY <1>3, <2>2, <3>1
    <2>4. ~ConfirmAbort(s, i)
        <3> DEFINE r == [tx[s][i] EXCEPT !.receipt = TRUE]
        <3>1. r \in Transaction /\ (ConfirmAbort(s, i) => Rewritten(s, i, r) \/ tx' = tx)
            BY <2>2 DEF Transaction, ConfirmAbort, Rewritten
        <3> HIDE DEF r
        <3> QED
            BY <1>2, <1>3, <2>2, <3>1
    <2>5. ASSUME NEW reply \in Replies(tx[s][i].op) PROVE ~AcceptIngest(s, i, reply)
        <3> DEFINE r == [tx[s][i] EXCEPT !.raw = reply]
        <3>1. r \in Transaction /\ (AcceptIngest(s, i, reply) => Rewritten(s, i, r))
            BY <2>2 DEF Transaction, Replies, AcceptIngest, Rewritten
        <3> HIDE DEF r
        <3> QED
            BY <1>3, <2>2, <3>1
    <2> QED
        BY <2>1, <2>3, <2>4, <2>5
<1>5. ~AcceptRespond
    <2> SUFFICES ASSUME AcceptRespond PROVE FALSE
        OBVIOUS
    <2>1. PICK s \in Sessions, i \in 1..Len(tx[job.s]) : s = job.s /\ i = job.i
        BY DEF IInv, JobSound, AcceptRespond
    <2>2. tx[s][i] \in Transaction /\ i \in 1..Len(tx[s]) /\ Answerable(s, i)
        BY <1>1, <1>2, <2>1, LenTyped DEF AcceptRespond
    <2> DEFINE r == [tx[s][i] EXCEPT !.response = tx[s][i].raw]
    <2>3. r \in Transaction
        BY <2>2 DEF Transaction, Answerable
    <2>4. Rewritten(s, i, r)
        BY <1>2, <2>1 DEF AcceptRespond, Rewritten
    <2> HIDE DEF r
    <2> QED
        BY <1>3, <2>2, <2>3, <2>4
<1>6. ~Crash /\ ~UNCHANGED vars
    BY <1>2 DEF Crash, vars, sessionVars
<1>7. ~Step
    BY <1>2, <1>5 DEF Step, AcceptReconcile, AcceptConfig, QuarantineEndpoint, QuarantineTarget,
        ConfirmFail, RecoveryMove, RecoveryLink, RecoveryLinkMove, sessionVars
<1>8. Command
    BY <1>6, <1>7 DEF Next
<1>9. /\ \A s \in Sessions : ~Analyze(s) /\ ~Abandon(s) /\ ~Restore(s)
      /\ \A s, i : ~AcceptAgain(s, i) /\ ~AcceptIngested(s, i)
      /\ \A q : ~PrepareRecovery(q) /\ ~AcceptRecovery(q)
    BY <1>2 DEF Analyze, Abandon, Restore, AcceptAgain, AcceptIngested, PrepareRecovery,
        AcceptRecovery, sessionVars
<1> QED
    BY <1>4, <1>8, <1>9 DEF Command

(* Prepare finds every confirmed abort recovered: it refuses while one is   *)
(* not closed, and while the record of a closed one is active.              *)
LEMMA PrepareFindsRecovered ==
    ASSUME IInv, NEW u \in Sessions, Prepare(u),
           NEW s \in Sessions, NEW i \in 1..Len(tx[s]), Aborted(s, i)
    PROVE  Recovered(s, i)
<1>1. ActiveTransactions = {} /\ KeyClear("endpoint")
    BY DEF Prepare, Preparable, NotQuarantined
<1>2. AbortClosed(s, i)
    BY <1>1, NothingWaits DEF Aborted, Pending
<1> QED
    BY <1>1, <1>2 DEF AbortClosed, DurableAbortQuarantine, KeyClear, Recovered

(* None of the integrity checks of the progress reader fails.               *)
LEMMA InOrderIsSound ==
    ASSUME IInv, NEW s \in Sessions
    PROVE  ~ProgressCorrupt(s)
<1>1. PICK n \in 0..8 : InOrder(s, n)
    BY DEF IInv, Sequential
<1>2. Completed(s) = FirstOps(n)
    BY <1>1 DEF InOrder
<1>3. /\ Prefix(s) = (IF n >= 7 THEN 7 ELSE n)
      /\ ConfigMissing(s) <=> (n >= 7 /\ s \notin config)
      /\ Phase(s) = (IF n < 7 THEN n ELSE IF s \in config THEN 7 ELSE 6)
    BY <1>2, PhaseIs
<1>4. ~\E i, j \in 1..Len(tx[s]) :
          i < j /\ tx[s][i].op = tx[s][j].op /\ tx[s][i].response = "ok" /\ tx[s][j].response = "ok"
    <2>1. \A i \in 1..Len(tx[s]) : ~(i < i)
        BY LenTyped DEF IInv
    <2> QED
        BY <2>1 DEF IInv, Sequential
<1>5. ~\E k \in (Prefix(s) + 1)..7 : Sequence7[k] \in Completed(s)
    BY <1>2, <1>3, FirstOpsHas, OpsDistinct
<1>6. ~("get_hotspots" \in Completed(s) /\ Prefix(s) < 7)
    BY <1>2, <1>3, FirstOpsHas, OpsDistinct
<1>7. \A i \in OpenRequests(s) : /\ i \in Unanswered(s) /\ n < 8 /\ tx[s][i].op = AllOps[n + 1]
                                 /\ n = 7 => s \in config
    BY <1>1, OpsDistinct DEF OpenRequests, Unanswered, InOrder, IInv, Sequential
<1>8. \A i \in OpenRequests(s) : tx[s][i].op \in Expected(s)
    <2> SUFFICES ASSUME NEW i \in OpenRequests(s) PROVE tx[s][i].op \in Expected(s)
        OBVIOUS
    <2>1. CASE n < 7
        BY <1>3, <1>7, <2>1, OpsDistinct DEF Expected
    <2>2. CASE n = 7
        <3>1. Phase(s) = 7 /\ tx[s][i].op = "get_hotspots"
            BY <1>3, <1>7, <2>2, OpsDistinct
        <3>2. "get_hotspots" \notin Completed(s)
            BY <1>2, <2>2, FirstOpsHas, OpsDistinct
        <3> QED
            BY <3>1, <3>2 DEF Expected
    <2> QED
        BY <1>7, <2>1, <2>2
<1>9. \A i, j \in PendingRequests(s) : i = j
    <2>1. \A i, j \in OpenRequests(s) : i = j
        BY <1>7 DEF IInv, Sequential
    <2>2. \A i, j \in Completions(s, "cleanup") : i = j
        BY DEF Completions, IInv, Sequential
    <2>3. ConfigMissing(s) => OpenRequests(s) = {}
        BY <1>3, <1>7
    <2> QED
        BY <2>1, <2>2, <2>3 DEF PendingRequests
<1>10. ~(Cardinality(PendingRequests(s)) > 1)
    <2>1. CASE PendingRequests(s) = {}
        BY <2>1, FS_EmptySet
    <2>2. CASE PendingRequests(s) # {}
        <3>1. PICK i \in PendingRequests(s) : TRUE
            BY <2>2
        <3>2. PendingRequests(s) = {i}
            BY <1>9, <3>1
        <3>3. Cardinality({i}) = 1
            BY FS_Singleton
        <3>4. Cardinality(PendingRequests(s)) = 1
            BY <3>2, <3>3
        <3> QED
            BY <3>4
    <2> QED
        BY <2>1, <2>2
<1> QED
    BY <1>4, <1>5, <1>6, <1>8, <1>10 DEF ProgressCorrupt

-----------------------------------------------------------------------------
(* What prepare reads of the whole root is as it should be, after any       *)
(* crashes, retries, aborts, recoveries and abandoned Sessions.             *)
THEOREM HostInvariant == Spec => []IInv
BY InitEstablishes, NextKeeps, PTL DEF Spec

(* At most one Session that has not failed has the target configured.       *)
THEOREM CaptureAlwaysExclusive == Spec => []OneLiveCapture
<1>1. IInv => OneLiveCapture
    BY DEF IInv
<1> QED
    BY <1>1, HostInvariant, PTL

(* No Session ever fails an integrity check of the progress reader.         *)
THEOREM ProgressAlwaysSound == Spec => []ProgressNeverCorrupt
<1>1. IInv => ProgressNeverCorrupt
    BY InOrderIsSound DEF ProgressNeverCorrupt
<1> QED
    BY <1>1, HostInvariant, PTL

(* An abort that has released the root has released it for good.            *)
THEOREM ClosedNeverReopens == Spec => ClosedStaysClosed
<1>1. IInv /\ [Next]_vars
        => [\A t \in TxIds : AbortClosed(t[1], t[2]) => AbortClosed(t[1], t[2])']_vars
    <2> SUFFICES ASSUME IInv, [Next]_vars, NEW t \in TxIds, AbortClosed(t[1], t[2])
                 PROVE  AbortClosed(t[1], t[2])'
        OBVIOUS
    <2>1. t[1] \in Sessions /\ t[2] \in 1..Len(tx[t[1]])
        BY DEF TxIds
    <2>2. TypeOK /\ Kept
        BY NextKeeps DEF IInv
    <2> QED
        BY <2>1, <2>2, ClosedKept
<1> QED
    BY <1>1, HostInvariant, PTL DEF Spec, ClosedStaysClosed
(* No request is prepared on an endpoint with an abort that has not been    *)
(* through typed recovery.                                                  *)
THEOREM EndpointNeverReused == Spec => NoRequestOnFailedEndpoint
<1>1. IInv /\ [Next]_vars
        => [(\E s \in Sessions : Len(tx'[s]) > Len(tx[s])) =>
               \A t \in TxIds : Aborted(t[1], t[2]) => Recovered(t[1], t[2])]_vars
    <2> SUFFICES ASSUME IInv, [Next]_vars, NEW s \in Sessions, Len(tx'[s]) > Len(tx[s]),
                        NEW t \in TxIds, Aborted(t[1], t[2])
                 PROVE  Recovered(t[1], t[2])
        OBVIOUS
    <2>1. t[1] \in Sessions /\ t[2] \in 1..Len(tx[t[1]])
        BY DEF TxIds
    <2>2. PICK u \in Sessions : Prepare(u)
        BY OnlyPrepareGrows
    <2> QED
        BY <2>1, <2>2, PrepareFindsRecovered
<1> QED
    BY <1>1, HostInvariant, PTL DEF Spec, NoRequestOnFailedEndpoint
=============================================================================
