--------------------------- MODULE SamplingProofs ---------------------------
(***************************************************************************)
(* PC sampling keeps account of PERF for any number of transactions,       *)
(* Sessions, journal sizes and faults.                                     *)
(*                                                                         *)
(* PERF is touched only by the transaction of the running call, which is   *)
(* unfinished on disk from before the first touch until after the last; a  *)
(* call starts its own transaction only when recovery has found no other   *)
(* unfinished one; and nobody but the holder of the lease writes the       *)
(* journal, so what a driver or an ingest found stays true.                *)
(*                                                                         *)
(* Part two is about the analyzer of what was captured: its bounded list   *)
(* of facts holds every fact or carries the sentinel, and the policy knows *)
(* nothing worse than the sentinel.  Its loops are followed to the least   *)
(* turn at which the claim would fail.                                     *)
(***************************************************************************)
EXTENDS Sampling, Analysis, SequenceTheorems, FiniteSetTheorems, WellFoundedInduction,
        TLAPS

\* The steps by what they mean for the transaction of the call.
Active ==
    {"CONFIGURE", "configure_observed", "start_intent", "ARM", "start_observed", "SLEEP",
     "stop_intent", "STOP", "stop_observed", "HISTOGRAM", "cleanup_intent", "CLEANUP",
     "cleanup_observed"}
Exporting == {"VALIDATE", "export_intent", "PUBLISH", "export_observed"}
InFinally == {"f_intent", "f_cleanup", "f_observed", "f_failed"}
Recovering == {"r_intent", "r_disable", "r_observed", "r_failed"}
Bound == {"configure_intent"} \cup Active \cup Exporting \cup InFinally \cup Recovering

TypeOK ==
    /\ journal \in [Txs -> Seq(Events)]
    /\ perf \in {"disabled", "off", "armed", "foreign"}
    /\ lease \in {None, "sidecar", "driver", "ingest"}
    /\ pc \in Bound \cup {"idle", "recover", "admit"}
    /\ pc \in Bound => tx \in Txs
    /\ pc # "idle" => sess \in Sessions

\* One process at a time has the lease, and writes the journal.
LeaseMatches ==
    /\ pc # "idle" <=> lease = "sidecar"
    /\ hpc # "idle" => lease = "ingest"
    /\ lease \in {"driver", "ingest"} => Unfinished = {}

\* Where the unfinished transactions are at each step of a call.
UnfinishedPlaced ==
    /\ \A t, u \in Unfinished : t = u
    /\ pc \in Active \cup InFinally \cup Recovering => tx \in Unfinished
    /\ pc = "configure_intent" => tx \notin Recorded /\ Unfinished = {}
    /\ pc \in Active \cup InFinally => Unfinished \subseteq {tx}
    /\ pc \in Exporting => Unfinished = {} /\ tx \in Recorded
    /\ pc \in {"recover"} \cup Recovering => Unfinished \subseteq todo /\ todo \subseteq Recorded
    /\ pc = "admit" => Unfinished = {}

\* What PERF is at each step of a call.
PerfPlaced ==
    /\ perf \in {"off", "armed"} => Unfinished # {}
    /\ pc \in {"cleanup_observed", "f_observed", "r_observed"} => perf = "disabled"
    /\ perf = "foreign" => Unfinished = {} /\ pc \in {"idle", "recover", "admit"}

IInv == TypeOK /\ LeaseMatches /\ UnfinishedPlaced /\ PerfPlaced

-----------------------------------------------------------------------------
(* What an append does to a journal and to the unfinished transactions.     *)
LEMMA EndedAppend ==
    ASSUME NEW j \in Seq(Events), NEW e \in Events
    PROVE  /\ Terminal(Append(j, e)) <=> e \in Done \/ (Terminal(j) /\ e \notin Outcomes)
           /\ Append(j, e) # <<>>
<1> DEFINE k == Append(j, e)
<1>1. /\ Len(k) = Len(j) + 1 /\ k[Len(j) + 1] = e /\ \A i \in 1..Len(j) : k[i] = j[i]
      /\ DOMAIN k = 1..(Len(j) + 1) /\ DOMAIN j = 1..Len(j) /\ Len(j) \in Nat
  OBVIOUS
<1>a. Done \subseteq Outcomes
  BY DEF Outcomes
<1>2. ASSUME e \in Done PROVE Terminal(k)
  <2>1. \A n \in DOMAIN k : ~(n > Len(j) + 1)
    BY <1>1
  <2> QED BY <1>1, <1>2, <2>1 DEF Terminal, CleanupEnded
<1>3. ASSUME Terminal(j), e \notin Outcomes PROVE Terminal(k)
  <2>1. PICK i \in 1..Len(j) : j[i] \in Done /\ \A n \in 1..Len(j) : n > i => j[n] \notin Outcomes
    BY <1>1, <1>3 DEF Terminal, CleanupEnded
  <2>2. \A n \in 1..(Len(j) + 1) : n > i => k[n] \notin Outcomes
    BY <1>1, <1>3, <2>1
  <2> QED BY <1>1, <2>1, <2>2 DEF Terminal, CleanupEnded
<1>4. ASSUME Terminal(k), e \notin Done PROVE Terminal(j) /\ e \notin Outcomes
  <2>1. PICK i \in 1..(Len(j) + 1) : k[i] \in Done /\ \A n \in 1..(Len(j) + 1) : n > i => k[n] \notin Outcomes
    BY <1>1, <1>4 DEF Terminal, CleanupEnded
  <2>2. i \in 1..Len(j)
    BY <1>1, <1>4, <2>1
  <2>3. e \notin Outcomes
    BY <1>1, <2>1, <2>2
  <2> QED BY <1>1, <2>1, <2>2, <2>3 DEF Terminal, CleanupEnded
<1> QED BY <1>1, <1>2, <1>3, <1>4

LEMMA EmptyNotTerminal == ~Terminal(<<>>)
BY DEF Terminal, CleanupEnded

\* The unfinished transactions after event e of the running transaction.
UnfinishedAfter(e) ==
    IF e \in Done THEN Unfinished \ {tx}
    ELSE IF e = "cleanup_failed" \/ tx \in Unfinished \/ tx \notin Recorded
         THEN Unfinished \cup {tx} ELSE Unfinished

LEMMA LinkedUnfinished ==
    ASSUME TypeOK, tx \in Txs, NEW e \in Events, Linked(e)
    PROVE  /\ journal' \in [Txs -> Seq(Events)]
           /\ \A t \in Txs \ {tx} : journal'[t] = journal[t]
           /\ journal'[tx] = Append(journal[tx], e)
           /\ Recorded' = Recorded \cup {tx}
           /\ Unfinished' = UnfinishedAfter(e)
<1>1. journal' = [journal EXCEPT ![tx] = Append(journal[tx], e)] /\ journal[tx] \in Seq(Events)
  BY DEF Linked, TypeOK
<1>2. /\ journal' \in [Txs -> Seq(Events)] /\ journal'[tx] = Append(journal[tx], e)
      /\ \A t \in Txs \ {tx} : journal'[t] = journal[t]
  BY <1>1 DEF TypeOK
<1>3. /\ Terminal(journal'[tx]) <=> e \in Done \/ (Terminal(journal[tx]) /\ e \notin Outcomes)
      /\ journal'[tx] # <<>>
  BY <1>1, <1>2, EndedAppend
<1>4. Recorded' = Recorded \cup {tx}
  BY <1>2, <1>3 DEF Recorded
<1>5. \A t \in Txs : t \in Unfinished <=> t \in Recorded /\ ~Terminal(journal[t])
  BY DEF Unfinished, Recorded
<1>6. \A t \in Txs : t \in Unfinished' <=> t \in Recorded' /\ ~Terminal(journal'[t])
  BY DEF Unfinished, Recorded
<1>7. Unfinished \subseteq Txs /\ Unfinished' \subseteq Txs
  BY DEF Unfinished, Recorded
<1>8. tx \notin Recorded => ~Terminal(journal[tx])
  BY EmptyNotTerminal DEF Recorded
<1>9. \A t : t \in Unfinished' <=> t \in UnfinishedAfter(e)
  <2>1. ASSUME NEW t \in Txs \ {tx} PROVE t \in Unfinished' <=> t \in UnfinishedAfter(e)
    BY <1>2, <1>4, <1>5, <1>6, <2>1 DEF UnfinishedAfter
  <2>2. tx \in Unfinished' <=> tx \in UnfinishedAfter(e)
    BY <1>3, <1>4, <1>5, <1>6, <1>8 DEF UnfinishedAfter, Outcomes, Done
  <2> QED BY <2>1, <2>2, <1>7 DEF UnfinishedAfter
<1> QED BY <1>2, <1>4, <1>9

LEMMA QuietUnfinished == UNCHANGED journal => Unfinished' = Unfinished /\ Recorded' = Recorded
BY DEF Unfinished, Recorded

(* An attempt to append either changes nothing or links the event.          *)
LEMMA AppendUnfinished ==
    ASSUME TypeOK, tx \in Txs, NEW e \in Events,
           Appended(e) \/ AppendFails(e) \/ AppendFailsAndGoesOn(e)
    PROVE  /\ journal' \in [Txs -> Seq(Events)]
           /\ \/ Unfinished' = Unfinished /\ Recorded' = Recorded
              \/ Unfinished' = UnfinishedAfter(e) /\ Recorded' = Recorded \cup {tx}
           /\ Appended(e) => Unfinished' = UnfinishedAfter(e) /\ tx \in Recorded'
<1>1. CASE Linked(e)
  BY <1>1, LinkedUnfinished
<1>2. CASE ~Linked(e)
  <2>1. UNCHANGED journal /\ ~Appended(e)
    BY <1>2 DEF Appended, AppendFails, AppendFailsAndGoesOn, NotAppended, AppendedLate
  <2> QED BY <2>1, QuietUnfinished DEF TypeOK
<1> QED BY <1>1, <1>2

-----------------------------------------------------------------------------
(* The order of the steps of a capture.                                     *)
LEMMA CaptureDistinct ==
    /\ DOMAIN Capture = 1..18
    /\ \A i, j \in 1..18 : Capture[i] = Capture[j] => i = j
BY DEF Capture

LEMMA CaptureSteps ==
    /\ Range(Capture) = {"configure_intent"} \cup Active \cup Exporting
    /\ Last(Capture) = "export_observed"
<1>1. DOMAIN Capture = 1..18 /\ Len(Capture) = 18
  BY DEF Capture
<1>2. Range(Capture) = {Capture[i] : i \in 1..18}
  BY <1>1 DEF Range
<1>3. {Capture[i] : i \in 1..18} = {"configure_intent"} \cup Active \cup Exporting
  BY DEF Capture, Active, Exporting
<1> QED BY <1>1, <1>2, <1>3 DEF Last, Capture

LEMMA CaptureNext ==
    ASSUME NEW i \in 1..18, pc = Capture[i]
    PROVE  Position = i
<1>1. \E k \in DOMAIN Capture : Capture[k] = pc
  BY CaptureDistinct
<1>2. Position \in DOMAIN Capture /\ Capture[Position] = pc
  BY <1>1 DEF Position
<1> QED BY <1>2, CaptureDistinct

LEMMA AdvanceStep ==
    ASSUME pc \in {"configure_intent"} \cup Active \cup Exporting, Advance
    PROVE  /\ pc = "configure_intent" => pc' = "CONFIGURE"
           /\ pc \in Active \ {"CLEANUP", "cleanup_observed"} => pc' \in Active \ {"cleanup_observed"}
           /\ pc = "CLEANUP" => pc' = "cleanup_observed"
           /\ pc = "cleanup_observed" => pc' = "VALIDATE"
           /\ pc \in {"VALIDATE", "export_intent"} => pc' \in {"export_intent", "PUBLISH"}
           /\ pc = "PUBLISH" => pc' = "export_observed"
           /\ pc # "export_observed" => UNCHANGED <<tx, sess, todo, lease>>
           /\ pc = "export_observed" => Return
<1>1. CASE pc = "export_observed"
  BY <1>1, CaptureSteps DEF Advance, Active, Exporting
<1>2. CASE pc # "export_observed"
  <2>1. pc \in Range(Capture) /\ pc # Last(Capture)
    BY <1>2, CaptureSteps
  <2>2. PICK i \in 1..18 : pc = Capture[i]
    BY <2>1, CaptureDistinct DEF Range
  <2>3. Position = i
    BY <2>2, CaptureNext
  <2>4. i \in 1..17
    BY <2>1, <2>2, CaptureSteps DEF Capture
  <2>5. pc' = Capture[i + 1] /\ UNCHANGED <<tx, sess, todo, lease>>
    BY <2>1, <2>3 DEF Advance, Goto
  <2> QED BY <1>2, <2>2, <2>4, <2>5 DEF Capture, Active, Exporting
<1> QED BY <1>1, <1>2

(* Where a failure takes the call: the transaction of a failure that does   *)
(* not end the call is unfinished.                                          *)
LEMMA FinallyStep ==
    ASSUME pc \in {"configure_intent"} \cup Active \cup Exporting
    PROVE  /\ Finally = "idle" <=> pc \in {"configure_intent", "cleanup_observed"} \cup Exporting
           /\ pc = "CLEANUP" => Finally = "f_failed"
           /\ pc \in Active \ {"CLEANUP", "cleanup_observed"} => Finally = "f_intent"
BY DEF Finally, Active, Exporting

-----------------------------------------------------------------------------
LEMMA InitInv == Init => IInv
<1> SUFFICES ASSUME Init PROVE IInv
  OBVIOUS
<1>1. \A t \in Txs : journal[t] = <<>>
  BY DEF Init
<1>2. Recorded = {} /\ Unfinished = {}
  BY <1>1 DEF Recorded, Unfinished
<1> QED BY <1>1, <1>2, SMT DEF Init, IInv, TypeOK, LeaseMatches, UnfinishedPlaced, PerfPlaced,
      Active, Exporting, InFinally, Recovering, Bound, None, NoTx

(* Every step of a call of the sidecar keeps the account of PERF.           *)
LEMMA SidecarInv == IInv /\ Sidecar => IInv'
<1> SUFFICES ASSUME IInv, Sidecar PROVE IInv'
  OBVIOUS
<1>0. TypeOK
  BY DEF IInv
<1>a. Unfinished \subseteq Recorded /\ Recorded \subseteq Txs /\ Unfinished' \subseteq Recorded'
  BY DEF Recorded, Unfinished
<1> USE <1>a DEF IInv, TypeOK, LeaseMatches, UnfinishedPlaced, PerfPlaced,
      Active, Exporting, InFinally, Recovering, Bound, None, NoTx
<1>1. ASSUME NEW s \in Sessions, BeginCapture(s) PROVE IInv'
  <2>1. UNCHANGED journal
    BY <1>1 DEF BeginCapture, disk
  <2> QED BY <1>1, <2>1, QuietUnfinished DEF BeginCapture, TakeLease, Return, Goto, disk, process, store, host
<1>2. ASSUME NEW t \in Txs, RecoverVisit(t) PROVE IInv'
  <2>1. UNCHANGED journal
    BY <1>2 DEF RecoverVisit, disk
  <2>2. t \in todo /\ pc = "recover" /\ UNCHANGED perf
    BY <1>2 DEF RecoverVisit
  <2>3. NothingToRecover(t) => t \notin Unfinished
    BY DEF NothingToRecover, Unfinished
  <2>4. ~NothingToRecover(t) => t \in Unfinished
    BY <2>2 DEF NothingToRecover, Unfinished
  <2> QED BY <1>2, <2>1, <2>2, <2>3, <2>4, QuietUnfinished DEF RecoverVisit, RecoverRaises, Return, host
<1>3. ASSUME RecoverIntent PROVE IInv'
  <2>1. tx \in Txs /\ "recovery_intent" \in Events
        /\ (Appended("recovery_intent") \/ AppendFails("recovery_intent") \/ AppendFailsAndGoesOn("recovery_intent"))
    BY <1>3 DEF RecoverIntent, Events
  <2> QED BY <1>3, <2>1, <1>0, AppendUnfinished DEF RecoverIntent, Return, Goto, disk, process, store, host, UnfinishedAfter, Done, Events
<1>4. ASSUME RecoverDisable PROVE IInv'
  <2>1. UNCHANGED journal
    BY <1>4 DEF RecoverDisable, disk
  <2> QED BY <1>4, <2>1, QuietUnfinished DEF RecoverDisable, CleanupDone, CleanupFailed, RecoverRaises, Return, Goto, disk, process, store, host
<1>5. ASSUME RecoverFailed PROVE IInv'
  <2>1. tx \in Txs /\ "cleanup_failed" \in Events
        /\ (Appended("cleanup_failed") \/ AppendFails("cleanup_failed") \/ AppendFailsAndGoesOn("cleanup_failed"))
    BY <1>5 DEF RecoverFailed, RecoverRaises, Events
  <2> QED BY <1>5, <2>1, <1>0, AppendUnfinished DEF RecoverFailed, RecoverRaises, Return, Goto, disk, process, store, host, UnfinishedAfter, Done, Events
<1>6. ASSUME RecoverObserved PROVE IInv'
  <2>1. tx \in Txs /\ "recovery_observed" \in Events
        /\ (Appended("recovery_observed") \/ AppendFails("recovery_observed") \/ AppendFailsAndGoesOn("recovery_observed"))
    BY <1>6 DEF RecoverObserved, RecoverRaises, Events
  <2> QED BY <1>6, <2>1, <1>0, AppendUnfinished DEF RecoverObserved, RecoverRaises, Return, Goto, disk, process, store, host, UnfinishedAfter, Done, Events
<1>7. ASSUME RecoverDone PROVE IInv'
  <2>1. UNCHANGED journal
    BY <1>7 DEF RecoverDone, disk
  <2> QED BY <1>7, <2>1, QuietUnfinished DEF RecoverDone, RecoverRaises, Return, Goto, disk, process, store, host
<1>8. ASSUME Admit PROVE IInv'
  <2>1. UNCHANGED journal
    BY <1>8 DEF Admit, disk
  <2> QED BY <1>8, <2>1, QuietUnfinished DEF Admit, Capture, Return, Goto, disk, process, store, host
<1>9. ASSUME CaptureAppend PROVE IInv'
  <2>1. /\ tx \in Txs /\ UNCHANGED perf /\ lease = "sidecar" /\ hpc' = hpc
        /\ pc \in Events /\ pc \in {"configure_intent"} \cup Active \cup Exporting
    BY <1>9 DEF CaptureAppend, Events, host
  <2>2. Appended(pc) \/ AppendFails(pc) \/ AppendFailsAndGoesOn(pc)
    BY <1>9 DEF CaptureAppend
  <2>3. /\ journal' \in [Txs -> Seq(Events)]
        /\ \/ Unfinished' = Unfinished /\ Recorded' = Recorded
           \/ Unfinished' = UnfinishedAfter(pc) /\ Recorded' = Recorded \cup {tx}
        /\ Appended(pc) => Unfinished' = UnfinishedAfter(pc) /\ tx \in Recorded'
    BY <2>1, <2>2, <1>0, AppendUnfinished
  <2>4. CASE Appended(pc) /\ Advance
    BY <2>1, <2>3, <2>4, AdvanceStep DEF Return, UnfinishedAfter, Events, Done
  <2>5. CASE Finally = "idle" /\ Return
    BY <2>1, <2>3, <2>5, FinallyStep DEF Return, UnfinishedAfter, Events, Done
  <2>6. CASE Finally # "idle" /\ Goto(Finally)
    BY <2>1, <2>3, <2>6, FinallyStep DEF Goto, UnfinishedAfter, Events, Done
  <2> QED BY <1>9, <2>4, <2>5, <2>6 DEF CaptureAppend
<1>10. ASSUME CaptureWork PROVE IInv'
  <2>1. UNCHANGED journal
    BY <1>10 DEF CaptureWork, disk
  <2>2. /\ pc \in {"configure_intent"} \cup Active \cup Exporting
        /\ pc \in {"CONFIGURE", "ARM", "SLEEP", "STOP", "HISTOGRAM", "VALIDATE", "PUBLISH"}
        /\ lease = "sidecar" /\ hpc' = hpc
    BY <1>10, CaptureSteps DEF CaptureWork, Events, host
  <2>3. /\ perf' = perf \/ (pc \in {"CONFIGURE", "ARM", "STOP"} /\ perf' \in {"off", "armed"})
    BY <1>10, <2>2 DEF CaptureWork, WorkFailed, Work, Configure, Arm, Stop, ReadHistogram, PublishHistogram
  <2>4. CASE Advance
    BY <2>1, <2>2, <2>3, <2>4, AdvanceStep, QuietUnfinished
  <2>5. CASE Finally = "idle" /\ Return
    BY <2>1, <2>2, <2>3, <2>5, FinallyStep, QuietUnfinished DEF Return
  <2>6. CASE Finally # "idle" /\ Goto(Finally)
    BY <2>1, <2>2, <2>3, <2>6, FinallyStep, QuietUnfinished DEF Goto
  <2> QED BY <1>10, <2>4, <2>5, <2>6 DEF CaptureWork
<1>11. ASSUME CaptureCleanup PROVE IInv'
  <2>1. UNCHANGED journal
    BY <1>11 DEF CaptureCleanup, disk
  <2>2. pc = "CLEANUP" /\ lease = "sidecar" /\ hpc' = hpc
    BY <1>11 DEF CaptureCleanup, host
  <2>3. CASE CleanupDone /\ Advance
    BY <2>1, <2>2, <2>3, AdvanceStep, QuietUnfinished DEF CleanupDone
  <2>4. CASE CleanupFailed /\ Goto(Finally)
    BY <2>1, <2>2, <2>4, FinallyStep, QuietUnfinished DEF CleanupFailed, Goto
  <2> QED BY <1>11, <2>3, <2>4 DEF CaptureCleanup
<1>12. ASSUME FinallyIntent PROVE IInv'
  <2>1. tx \in Txs /\ "cleanup_intent" \in Events
        /\ (Appended("cleanup_intent") \/ AppendFails("cleanup_intent") \/ AppendFailsAndGoesOn("cleanup_intent"))
    BY <1>12 DEF FinallyIntent, Events
  <2> QED BY <1>12, <2>1, <1>0, AppendUnfinished DEF FinallyIntent, Return, Goto, disk, process, store, host, UnfinishedAfter, Done, Events
<1>13. ASSUME FinallyCleanup PROVE IInv'
  <2>1. UNCHANGED journal
    BY <1>13 DEF FinallyCleanup, disk
  <2> QED BY <1>13, <2>1, QuietUnfinished DEF FinallyCleanup, CleanupDone, CleanupFailed, Return, Goto, disk, process, store, host
<1>14. ASSUME FinallyOutcome PROVE IInv'
  <2>1. PICK e \in {"cleanup_observed", "cleanup_failed"} :
            /\ Appended(e) \/ AppendFails(e)
            /\ e = "cleanup_observed" => pc = "f_observed"
    BY <1>14 DEF FinallyOutcome
  <2>2. /\ pc \in InFinally /\ tx \in Txs /\ e \in Events /\ UNCHANGED <<perf, hpc>>
        /\ Return /\ lease = "sidecar"
    BY <1>14 DEF FinallyOutcome, Events, host
  <2>3. /\ journal' \in [Txs -> Seq(Events)]
        /\ Unfinished' = Unfinished \/ Unfinished' = UnfinishedAfter(e)
    BY <2>1, <2>2, <1>0, AppendUnfinished
  <2> QED BY <2>1, <2>2, <2>3 DEF Return, UnfinishedAfter, Done
<1>15. ASSUME SidecarCrash PROVE IInv'
  <2>0. pc # "idle" /\ lease = "sidecar" /\ Return /\ UNCHANGED <<perf, hpc>>
    BY <1>15 DEF SidecarCrash, host
  <2>1. CASE UNCHANGED journal
    BY <2>0, <2>1, QuietUnfinished DEF Return
  <2>2. CASE \E e \in Appending : Linked(e)
    <3>1. PICK e \in Appending : Linked(e)
      BY <2>2
    <3>2. /\ e \in Events /\ pc \in Bound /\ tx \in Txs
          /\ e \in Done => pc \in {"cleanup_observed", "f_observed", "r_observed"}
          /\ e = "cleanup_failed" => pc \in {"f_failed", "r_failed"}
      <4>1. CASE pc \in Events
        <5>1. e = pc
          BY <3>1, <4>1 DEF Appending, Events
        <5> QED BY <5>1, <4>1 DEF Done, Events
      <4>2. CASE pc \notin Events
        BY <3>1, <4>2 DEF Appending, Done, Events
      <4> QED BY <4>1, <4>2
    <3>3. journal' \in [Txs -> Seq(Events)] /\ Unfinished' = UnfinishedAfter(e)
      BY <3>1, <3>2, <1>0, LinkedUnfinished
    <3>4. CASE e \in Done
      <4>1. Unfinished' = {} /\ perf' = "disabled"
        BY <2>0, <3>2, <3>3, <3>4 DEF UnfinishedAfter
      <4> QED BY <2>0, <3>3, <4>1 DEF Return
    <3>5. CASE e \notin Done
      <4>1. Unfinished' = Unfinished \/ (pc = "configure_intent" /\ Unfinished' = {tx})
        BY <3>2, <3>3, <3>5 DEF UnfinishedAfter
      <4> QED BY <2>0, <3>3, <4>1 DEF Return
    <3> QED BY <3>4, <3>5
  <2> QED BY <1>15, <2>1, <2>2 DEF SidecarCrash
<1>16. ASSUME Restart PROVE IInv'
  <2>1. UNCHANGED journal
    BY <1>16 DEF Restart, disk
  <2> QED BY <1>16, <2>1, QuietUnfinished DEF Restart, call, Return, Goto, disk, process, store, host
<1> QED BY <1>1, <1>2, <1>3, <1>4, <1>5, <1>6, <1>7, <1>8, <1>9, <1>10, <1>11, <1>12, <1>13, <1>14, <1>15, <1>16 DEF Sidecar

(* The host takes the lease only when nothing is unfinished, and leaves the *)
(* journal and the target alone.                                            *)
LEMMA ClearIsFinished == EndpointClear => Unfinished = {}
BY DEF EndpointClear, Unfinished

LEMMA OthersInv == IInv /\ (Host \/ ForeignStart \/ ForeignStop) => IInv'
<1> SUFFICES ASSUME IInv, Host \/ ForeignStart \/ ForeignStop PROVE IInv'
  OBVIOUS
<1>1. UNCHANGED <<disk, call>>
  <2>1. ASSUME Host PROVE UNCHANGED <<disk, call>>
    BY <2>1 DEF Host, DriverAcquire, DriverRelease, HostFails, IngestBegin, IngestCapturing,
         IngestHistogram, IngestCaptured, HostCrash
  <2> QED BY <2>1 DEF ForeignStart, ForeignStop
<1>2. /\ UNCHANGED <<journal, pc, tx, sess, todo>>
      /\ Unfinished' = Unfinished /\ Recorded' = Recorded
  BY <1>1, QuietUnfinished DEF disk, call
<1> USE <1>2 DEF IInv, TypeOK, LeaseMatches, UnfinishedPlaced, PerfPlaced,
      Active, Exporting, InFinally, Recovering, Bound, None, NoTx
<1>3. ASSUME DriverAcquire \/ \E s \in Sessions, h \in Txs : IngestBegin(s, h) PROVE IInv'
  <2>1. lease = None /\ lease' \in {"driver", "ingest"} /\ EndpointClear /\ UNCHANGED perf
        /\ (hpc' = hpc \/ lease' = "ingest")
    BY <1>3 DEF DriverAcquire, IngestBegin, TakeLease, host
  <2> QED BY <2>1, ClearIsFinished
<1>4. ASSUME DriverRelease \/ IngestCaptured \/ HostCrash PROVE IInv'
  BY <1>4 DEF DriverRelease, IngestCaptured, HostCrash, HostReturn, host
<1>5. ASSUME IngestCapturing \/ IngestHistogram \/ \E s \in Sessions : HostFails(s) PROVE IInv'
  BY <1>5 DEF IngestCapturing, IngestHistogram, HostFails, HostReturn, host
<1>6. ASSUME ForeignStart \/ ForeignStop PROVE IInv'
  BY <1>6 DEF ForeignStart, ForeignStop, host
<1> QED BY <1>3, <1>4, <1>5, <1>6 DEF Host

LEMMA StepInv == IInv /\ [Next]_vars => IInv'
<1>1. ASSUME IInv, UNCHANGED vars PROVE IInv'
  <2>1. UNCHANGED <<journal, perf, lease, pc, tx, sess, todo, hpc>>
    BY <1>1 DEF vars, disk, call, host
  <2> QED BY <1>1, <2>1, QuietUnfinished DEF IInv, TypeOK, LeaseMatches, UnfinishedPlaced, PerfPlaced
<1> QED BY <1>1, SidecarInv, OthersInv DEF Next

-----------------------------------------------------------------------------
(* The invariant holds in every reachable state.                            *)
THEOREM SamplingInvariant == Spec => []IInv
BY InitInv, StepInv, PTL DEF Spec

(* PERF that the sidecar configured or armed is always accounted for by one *)
(* unfinished transaction on disk, whatever was interrupted.                *)
THEOREM PerfAlwaysJournaled == Spec => []ActiveIsJournaled
<1>1. IInv => ActiveIsJournaled
  <2> SUFFICES ASSUME IInv PROVE Cardinality(Unfinished) <= 1
    BY DEF IInv, PerfPlaced, ActiveIsJournaled
  <2>1. CASE Unfinished = {}
    BY <2>1, FS_EmptySet
  <2>2. CASE Unfinished # {}
    <3>1. PICK t \in Unfinished : Unfinished = {t}
      BY <2>2 DEF IInv, UnfinishedPlaced
    <3> QED BY <3>1, FS_Singleton
  <2> QED BY <2>1, <2>2
<1> QED BY <1>1, SamplingInvariant, PTL

(* A driver or an ingest that holds the lease finds the sidecar at rest and *)
(* the target not sampled.                                                  *)
THEOREM DriverTargetIdle == Spec => []DriverFindsIdleTarget
<1>1. IInv => DriverFindsIdleTarget
  BY DEF IInv, LeaseMatches, PerfPlaced, DriverFindsIdleTarget
<1> QED BY <1>1, SamplingInvariant, PTL

(* Nobody but its owner switches off PERF that somebody else has started.   *)
THEOREM ForeignNeverTouched == Spec => ForeignUntouched
<1>1. ASSUME IInv, [Next]_vars
      PROVE  [perf = "foreign" /\ perf' # "foreign" => ForeignStop]_vars
  <2> SUFFICES ASSUME Next, perf = "foreign", perf' # "foreign" PROVE ForeignStop
    BY <1>1 DEF vars
  <2>1. pc \in {"idle", "recover", "admit"}
    BY <1>1 DEF IInv, PerfPlaced
  <2>2. ~Host /\ ~ForeignStart
    BY DEF Host, DriverAcquire, DriverRelease, HostFails, IngestBegin, IngestCapturing,
         IngestHistogram, IngestCaptured, HostCrash, ForeignStart
  <2>3. ~CaptureAppend /\ ~CaptureWork /\ ~CaptureCleanup
    BY <2>1, CaptureSteps DEF CaptureAppend, CaptureWork, CaptureCleanup, Active, Exporting
  <2>4. /\ ~RecoverIntent /\ ~RecoverDisable /\ ~RecoverFailed /\ ~RecoverObserved /\ ~RecoverDone
        /\ ~Admit /\ ~FinallyIntent /\ ~FinallyCleanup /\ ~FinallyOutcome /\ ~SidecarCrash /\ ~Restart
    BY <2>1 DEF RecoverIntent, RecoverDisable, RecoverFailed, RecoverObserved, RecoverDone, Admit,
         FinallyIntent, FinallyCleanup, FinallyOutcome, SidecarCrash, Restart
  <2>5. /\ ~\E s \in Sessions : BeginCapture(s)
        /\ ~\E t \in Txs : RecoverVisit(t)
    BY DEF BeginCapture, RecoverVisit
  <2> QED BY <2>2, <2>3, <2>4, <2>5 DEF Next, Sidecar
<1> QED BY <1>1, SamplingInvariant, PTL DEF Spec, ForeignUntouched

-----------------------------------------------------------------------------
(* What the store keeps of a capture. A proof of export is never appended   *)
(* to: the running transaction is unfinished, new, or not yet exported.     *)
Captures == {"configure_intent"} \cup Active \cup Exporting

StoreTyped ==
    /\ staged \in [Sessions -> SUBSET Txs]
    /\ status \in [Sessions -> {"created", "capturing", "captured", "failed"}]
    /\ receipt \in [Sessions -> Txs \cup {NoTx}]
    /\ histogram \in [Sessions -> Txs \cup {NoTx}]

\* A call exports at most once, and only to a Session without an export.
ExportPending ==
    /\ \A s \in Sessions : \A x, y \in staged[s] : x = y
    /\ pc \notin {"idle", "export_observed"} => staged[sess] = {}
    /\ pc \in Captures => \A i \in DOMAIN journal[tx] : journal[tx][i] # "export_observed"

\* What an ingest has established so far.
IngestProven ==
    /\ hpc # "idle" =>
          /\ hsess \in Sessions /\ hfile \in staged[hsess]
          /\ receipt[hsess] = hfile /\ journal[hfile] = Success
    /\ hpc = "committed" => histogram[hsess] = hfile

CInv == StoreTyped /\ ExportPending /\ IngestProven /\ CapturedIsProven

\* The steps of the sidecar as far as the store and a finished journal can tell.
SidecarEffect ==
    /\ UNCHANGED <<status, receipt, histogram, hpc, hsess, hfile>>
    /\ \/ UNCHANGED journal
       \/ /\ pc \in Bound
          /\ \E e \in Events : Linked(e) /\ (e = "export_observed" => pc = "export_observed")
    /\ \/ UNCHANGED staged
       \/ pc = "PUBLISH" /\ staged' = [staged EXCEPT ![sess] = @ \cup {tx}]
    /\ pc # "idle" /\ pc' # "idle" => sess' = sess
    /\ pc = "idle" /\ pc' # "idle" => staged[sess'] = {} /\ UNCHANGED staged
    /\ pc' \in Captures =>
          \/ pc \in Captures \ {"export_observed"} /\ tx' = tx
          \/ tx' \in Txs \ Recorded /\ UNCHANGED journal
    /\ pc = "PUBLISH" => pc' \in {"export_observed", "idle"}
    /\ pc = "export_observed" => pc' = "idle"

LEMMA SidecarHasEffect == IInv /\ Sidecar => SidecarEffect
<1> SUFFICES ASSUME IInv, Sidecar PROVE SidecarEffect
  OBVIOUS
<1> USE DEF IInv, TypeOK, Captures, Active, Exporting, InFinally, Recovering, Bound, SidecarEffect,
      store, host, disk
<1>0. \A e : Appended(e) \/ AppendFails(e) \/ AppendFailsAndGoesOn(e) => UNCHANGED journal \/ Linked(e)
  BY DEF Appended, AppendFails, AppendFailsAndGoesOn, NotAppended, AppendedLate
<1>1. ASSUME NEW s \in Sessions, BeginCapture(s) PROVE SidecarEffect
  BY <1>1 DEF BeginCapture, MayCapture
<1>2. ASSUME NEW t \in Txs, RecoverVisit(t) PROVE SidecarEffect
  BY <1>2 DEF RecoverVisit, RecoverRaises, Return
<1>3. ASSUME RecoverIntent \/ RecoverFailed \/ RecoverObserved \/ FinallyIntent PROVE SidecarEffect
  BY <1>0, <1>3 DEF RecoverIntent, RecoverFailed, RecoverObserved, RecoverRaises, FinallyIntent, Return, Events
<1>4. ASSUME RecoverDisable \/ RecoverDone \/ FinallyCleanup \/ Restart PROVE SidecarEffect
  BY <1>4 DEF RecoverDisable, RecoverDone, FinallyCleanup, Restart, RecoverRaises, Return, Goto, call
<1>5. ASSUME Admit PROVE SidecarEffect
  BY <1>5 DEF Admit, Return, Capture
<1>6. ASSUME CaptureAppend PROVE SidecarEffect
  <2>1. /\ pc \in Events /\ pc \in Captures /\ (UNCHANGED journal \/ Linked(pc))
        /\ UNCHANGED <<status, receipt, histogram, staged, hpc, hsess, hfile>>
    BY <1>0, <1>6 DEF CaptureAppend, Events
  <2>2. pc \in Bound
    BY <2>1
  <2>3. CASE Advance
    BY <2>1, <2>2, <2>3, AdvanceStep DEF Return, Events
  <2>4. CASE Finally = "idle" /\ Return
    BY <2>1, <2>2, <2>4 DEF Return, Events
  <2>5. CASE Finally # "idle" /\ Goto(Finally)
    BY <2>1, <2>2, <2>5, FinallyStep DEF Goto, Events
  <2> QED BY <1>6, <2>3, <2>4, <2>5 DEF CaptureAppend
<1>7. ASSUME CaptureWork PROVE SidecarEffect
  <2>1. /\ pc \in Captures \ Events
        /\ UNCHANGED <<status, receipt, histogram, journal, hpc, hsess, hfile>>
    BY <1>7, CaptureSteps DEF CaptureWork
  <2>2. \/ UNCHANGED staged
        \/ pc = "PUBLISH" /\ staged' = [staged EXCEPT ![sess] = @ \cup {tx}]
    <3>1. pc \in {"CONFIGURE", "ARM", "SLEEP", "STOP", "HISTOGRAM", "VALIDATE", "PUBLISH"}
      BY <1>7, <2>1 DEF CaptureWork, Events
    <3> QED BY <1>7, <3>1 DEF CaptureWork, WorkFailed, Work, PublishHistogram
  <2>3. CASE Advance
    BY <2>1, <2>2, <2>3, AdvanceStep DEF Events
  <2>4. CASE Finally = "idle" /\ Return
    BY <2>1, <2>2, <2>4 DEF Return
  <2>5. CASE Finally # "idle" /\ Goto(Finally)
    BY <2>1, <2>2, <2>5, FinallyStep DEF Goto
  <2> QED BY <1>7, <2>3, <2>4, <2>5 DEF CaptureWork
<1>8. ASSUME CaptureCleanup PROVE SidecarEffect
  <2>1. CASE Advance
    BY <1>8, <2>1, AdvanceStep DEF CaptureCleanup
  <2>2. CASE Goto(Finally)
    BY <1>8, <2>2, FinallyStep DEF CaptureCleanup, Goto
  <2> QED BY <1>8, <2>1, <2>2 DEF CaptureCleanup
<1>9. ASSUME FinallyOutcome PROVE SidecarEffect
  <2>1. PICK e \in {"cleanup_observed", "cleanup_failed"} : Appended(e) \/ AppendFails(e)
    BY <1>9 DEF FinallyOutcome
  <2> QED BY <1>0, <1>9, <2>1 DEF FinallyOutcome, Return, Events
<1>10. ASSUME SidecarCrash PROVE SidecarEffect
  <2>1. \A e \in Appending : /\ e \in Events /\ pc \in Bound
                             /\ e = "export_observed" => pc = "export_observed"
    <3>1. CASE pc \in Events
      BY <3>1 DEF Appending, Events
    <3>2. CASE pc \notin Events
      BY <3>2 DEF Appending, Events
    <3> QED BY <3>1, <3>2
  <2> QED BY <1>10, <2>1 DEF SidecarCrash, Return
<1> QED BY <1>1, <1>2, <1>3, <1>4, <1>5, <1>6, <1>7, <1>8, <1>9, <1>10 DEF Sidecar

LEMMA SuccessFinished == Terminal(Success) /\ Success # <<>> /\ Success[10] = "export_observed" /\ 10 \in DOMAIN Success
BY DEF Terminal, CleanupEnded, Success, Done, Outcomes

LEMMA NoTxIsNone == NoTx \notin Txs
BY SamplingAssumption DEF NoTx

LEMMA InitStored == Init => CInv
BY NoTxIsNone DEF Init, CInv, StoreTyped, ExportPending, IngestProven, CapturedIsProven, Captures, Active, Exporting, None

(* A step of the sidecar leaves every proof of export as it was.            *)
LEMMA SuccessKept ==
    ASSUME IInv, CInv, SidecarEffect, NEW h \in Txs, journal[h] = Success
    PROVE  journal'[h] = Success
<1>1. CASE UNCHANGED journal
  BY <1>1
<1>2. CASE \E e \in Events : Linked(e) /\ pc \in Bound
  <2>1. tx \in Txs /\ pc \in Bound /\ journal' = [journal EXCEPT ![tx] = journal'[tx]]
    BY <1>2 DEF IInv, TypeOK, Linked
  <2>2. CASE pc \in Exporting
    BY <2>1, <2>2, SuccessFinished DEF CInv, ExportPending, Captures, IInv, TypeOK
  <2>3. CASE pc = "configure_intent"
    BY <2>1, <2>3, SuccessFinished DEF IInv, TypeOK, UnfinishedPlaced, Recorded
  <2>4. CASE pc \in Active \cup InFinally \cup Recovering
    BY <2>1, <2>4, SuccessFinished DEF IInv, TypeOK, UnfinishedPlaced, Unfinished
  <2> QED BY <2>1, <2>2, <2>3, <2>4 DEF Bound
<1> QED BY <1>1, <1>2 DEF SidecarEffect

LEMMA SidecarStored == IInv /\ CInv /\ Sidecar => CInv'
<1> SUFFICES ASSUME IInv, CInv, SidecarEffect PROVE CInv'
  BY SidecarHasEffect
<1>1. \A h \in Txs : journal[h] = Success => journal'[h] = Success
  BY SuccessKept
<1>2. UNCHANGED <<status, receipt, histogram, hpc, hsess, hfile>>
  BY DEF SidecarEffect
<1>3. pc = "PUBLISH" => tx \in Txs /\ sess \in Sessions /\ staged[sess] = {} /\ hpc = "idle"
  BY DEF IInv, TypeOK, LeaseMatches, CInv, ExportPending, Bound, Exporting
<1>4. \/ UNCHANGED staged
      \/ /\ pc = "PUBLISH" /\ staged' = [staged EXCEPT ![sess] = {tx}]
  BY <1>3 DEF SidecarEffect, CInv, StoreTyped
<1>5. StoreTyped'
  BY <1>2, <1>3, <1>4 DEF CInv, StoreTyped
<1>6. ExportPending'
  <2>1. \A s \in Sessions : \A x, y \in staged'[s] : x = y
    BY <1>3, <1>4 DEF CInv, StoreTyped, ExportPending
  <2>2. ASSUME pc' \notin {"idle", "export_observed"} PROVE staged'[sess'] = {}
    BY <1>4, <2>2 DEF CInv, ExportPending, SidecarEffect
  <2>3. ASSUME pc' \in Captures, NEW i \in DOMAIN (journal'[tx']) PROVE journal'[tx'][i] # "export_observed"
    <3>1. CASE tx' \in Txs \ Recorded /\ UNCHANGED journal
      BY <2>3, <3>1 DEF Recorded
    <3>2. CASE pc \in Captures \ {"export_observed"} /\ tx' = tx
      <4>1. tx \in Txs /\ \A n \in DOMAIN journal[tx] : journal[tx][n] # "export_observed"
        BY <3>2 DEF CInv, ExportPending, IInv, TypeOK, Bound, Captures
      <4>2. CASE UNCHANGED journal
        BY <2>3, <3>2, <4>1, <4>2
      <4>3. CASE \E e \in Events : Linked(e) /\ e # "export_observed"
        <5>1. PICK e \in Events : Linked(e) /\ e # "export_observed"
          BY <4>3
        <5>2. journal[tx] \in Seq(Events) /\ journal'[tx'] = Append(journal[tx], e)
          BY <3>2, <4>1, <5>1 DEF Linked, IInv, TypeOK
        <5> QED BY <2>3, <4>1, <5>1, <5>2
      <4> QED BY <3>2, <4>2, <4>3 DEF SidecarEffect
    <3> QED BY <2>3, <3>1, <3>2 DEF SidecarEffect
  <2> QED BY <2>1, <2>2, <2>3 DEF ExportPending
<1>7. IngestProven'
  BY <1>1, <1>2, <1>3, <1>4 DEF CInv, StoreTyped, IngestProven
<1>8. CapturedIsProven'
  <2> SUFFICES ASSUME NEW s \in Sessions, status[s] = "captured"
               PROVE  /\ histogram[s] # NoTx /\ receipt[s] = histogram[s]
                      /\ journal'[histogram[s]] = Success
                      /\ staged'[s] = {histogram[s]}
    BY <1>2 DEF CapturedIsProven
  <2>1. /\ histogram[s] \in Txs /\ histogram[s] # NoTx /\ receipt[s] = histogram[s]
        /\ journal[histogram[s]] = Success /\ staged[s] = {histogram[s]}
    BY DEF CInv, StoreTyped, CapturedIsProven
  <2> QED BY <1>1, <1>3, <1>4, <2>1 DEF CInv, StoreTyped
<1> QED BY <1>5, <1>6, <1>7, <1>8 DEF CInv

(* The ingest commits what the journal proves.                              *)
LEMMA OthersStored == CInv /\ (Host \/ ForeignStart \/ ForeignStop) => CInv'
<1> SUFFICES ASSUME CInv, Host \/ ForeignStart \/ ForeignStop PROVE CInv'
  OBVIOUS
<1>1. UNCHANGED <<journal, pc, tx, sess, staged>>
  <2>1. ASSUME Host PROVE UNCHANGED <<journal, pc, tx, sess, staged>>
    BY <2>1 DEF Host, DriverAcquire, DriverRelease, HostFails, IngestBegin, IngestCapturing,
         IngestHistogram, IngestCaptured, HostCrash, disk, call, store
  <2> QED BY <2>1 DEF ForeignStart, ForeignStop, disk, call, store
<1>2. ExportPending'
  BY <1>1 DEF CInv, ExportPending
<1> USE <1>1, NoTxIsNone DEF CInv, StoreTyped, IngestProven
<1>3. ASSUME DriverAcquire \/ DriverRelease \/ ForeignStart \/ ForeignStop PROVE CInv'
  BY <1>2, <1>3 DEF DriverAcquire, DriverRelease, ForeignStart, ForeignStop, store, host, CapturedIsProven
<1>4. ASSUME NEW s \in Sessions, HostFails(s) PROVE CInv'
  BY <1>2, <1>4 DEF HostFails, host, CapturedIsProven
<1>5. ASSUME NEW s \in Sessions, NEW h \in Txs, IngestBegin(s, h) PROVE CInv'
  <2>1. StoreTyped' /\ IngestProven'
    BY <1>5 DEF IngestBegin, ProvesExport
  <2>2. CapturedIsProven'
    BY <1>5 DEF IngestBegin, CapturedIsProven
  <2> QED BY <1>2, <2>1, <2>2
<1>6. ASSUME IngestCapturing PROVE CInv'
  BY <1>2, <1>6 DEF IngestCapturing, CapturedIsProven
<1>7. ASSUME IngestHistogram PROVE CInv'
  <2>1. StoreTyped' /\ IngestProven'
    BY <1>7 DEF IngestHistogram, HostReturn
  <2>2. CapturedIsProven'
    BY <1>7 DEF IngestHistogram, CapturedIsProven
  <2> QED BY <1>2, <2>1, <2>2
<1>8. ASSUME IngestCaptured PROVE CInv'
  <2>1. StoreTyped' /\ IngestProven'
    BY <1>8 DEF IngestCaptured, HostReturn
  <2>2. staged[hsess] = {hfile}
    BY <1>8 DEF IngestCaptured, ExportPending
  <2>3. CapturedIsProven'
    BY <1>8, <2>2 DEF IngestCaptured, CapturedIsProven
  <2> QED BY <1>2, <2>1, <2>3
<1>9. ASSUME HostCrash PROVE CInv'
  BY <1>2, <1>9 DEF HostCrash, HostReturn, store, CapturedIsProven
<1> QED BY <1>3, <1>4, <1>5, <1>6, <1>7, <1>8, <1>9 DEF Host

(* A captured Session is proven by one complete transaction that no later   *)
(* capture, recovery or ingest disturbs.                                    *)
THEOREM CapturedAlwaysProven == Spec => []CapturedIsProven
<1>1. IInv /\ CInv /\ [Next]_vars => CInv'
  <2>1. ASSUME CInv, UNCHANGED vars PROVE CInv'
    <3>1. UNCHANGED <<journal, pc, tx, sess, status, staged, receipt, histogram, hpc, hsess, hfile>>
      BY <2>1 DEF vars, disk, call, store, host
    <3> QED BY <2>1, <3>1 DEF CInv, StoreTyped, ExportPending, IngestProven, CapturedIsProven
  <2> QED BY <2>1, SidecarStored, OthersStored DEF Next
<1>2. CInv => CapturedIsProven
  BY DEF CInv
<1> QED BY <1>1, <1>2, InitStored, SamplingInvariant, PTL DEF Spec

-----------------------------------------------------------------------------
(* PART TWO: THE ANALYZER                                                  *)
(* Least numbers, which stand in for induction                             *)

\* A set of numbers that is not empty has a least one.
LEMMA LeastNumber ==
    ASSUME NEW S \in SUBSET Nat, S # {}
    PROVE  \E m \in S : \A k \in S : m <= k
<1>. DEFINE Less == {p \in Nat \X Nat : p[1] < p[2]}
<1>1. IsWellFoundedOn(Less, Nat)
  BY NatLessThanWellFounded DEF OpToRel
<1>. HIDE DEF Less
<1>2. PICK m \in S : \A k \in S : <<k, m>> \notin Less
  BY <1>1, WFMin
<1>3. ASSUME NEW k \in S
      PROVE  m <= k
  <2>1. k \in Nat /\ m \in Nat
    OBVIOUS
  <2>2. k < m => <<k, m>> \in Less
    BY <2>1 DEF Less
  <2>. QED
    BY <1>2, <2>1, <2>2
<1>. QED
  BY <1>3

-----------------------------------------------------------------------------
(* The list of facts                                                       *)

IsSequence(s) == s \in Seq({s[i] : i \in DOMAIN s})

\* The list stands for every fact, or its sentinel says that it does not.
FactsInv(a) ==
    /\ IsSequence(a.facts) /\ Len(a.facts) <= MaxFacts
    /\ a.dropped \in Nat
    /\ a.dropped = 0 => ToSet(a.facts) = a.all
    /\ a.dropped > 0 => "diagnostics_truncated" \in ToSet(a.facts)

CoresInv(a) ==
    \A c \in Cores :
        /\ c \in DOMAIN a.cores /\ "ints" \in DOMAIN a.cores[c]
        /\ IsSequence(a.cores[c].ints)

ContextsInv(a) ==
    /\ IsFiniteSet(DOMAIN a.ctx)
    /\ \A k \in DOMAIN a.ctx :
            "frames" \in DOMAIN a.ctx[k] /\ IsSequence(a.ctx[k].frames)

\* What every operator of the analyzer keeps.
AnalyzerInv(a) ==
    /\ {"cores", "ctx", "facts", "dropped", "all", "custom", "async"} \subseteq DOMAIN a
    /\ FactsInv(a)
    /\ CoresInv(a)
    /\ ContextsInv(a)
    /\ IsFiniteSet(a.custom) /\ IsFiniteSet(a.async)

\* b is a but for its facts.
OnlyFacts(a, b) ==
    /\ b.cores = a.cores /\ b.ctx = a.ctx /\ b.custom = a.custom /\ b.async = a.async

-----------------------------------------------------------------------------
(* Sequences *)

\* The length, the domain and the emptiness of a sequence of anything.
LEMMA SequenceFacts ==
    ASSUME NEW s, IsSequence(s)
    PROVE  /\ Len(s) \in Nat /\ DOMAIN s = 1..Len(s) /\ s \in Seq({s[i] : i \in DOMAIN s})
           /\ s # <<>> <=> Len(s) > 0
BY DEF IsSequence

\* A sequence over any set is one.
LEMMA SequenceIntro ==
    ASSUME NEW s, NEW T, s \in Seq(T)
    PROVE  IsSequence(s)
<1>1. s = [i \in 1..Len(s) |-> s[i]] /\ Len(s) \in Nat /\ DOMAIN s = 1..Len(s)
  OBVIOUS
<1>2. s \in [1..Len(s) -> {s[i] : i \in DOMAIN s}]
  BY <1>1
<1>. QED
  BY <1>1, <1>2, SeqDef DEF IsSequence

\* Appending, dropping the last and cutting a sequence leave a sequence.
LEMMA SequenceOps ==
    ASSUME NEW s, IsSequence(s)
    PROVE  /\ \A e : /\ IsSequence(Append(s, e)) /\ Len(Append(s, e)) = Len(s) + 1
                     /\ ToSet(Append(s, e)) = ToSet(s) \cup {e}
           /\ s # <<>> => IsSequence(Front(s)) /\ Len(Front(s)) = Len(s) - 1
           /\ \A m \in 0..Len(s) : IsSequence(SubSeq(s, 1, m))
<1>. DEFINE T == {s[i] : i \in DOMAIN s}
<1>1. s \in Seq(T) /\ Len(s) \in Nat /\ DOMAIN s = 1..Len(s)
  BY SequenceFacts
<1>2. ASSUME NEW e
      PROVE  /\ IsSequence(Append(s, e)) /\ Len(Append(s, e)) = Len(s) + 1
             /\ ToSet(Append(s, e)) = ToSet(s) \cup {e}
  <2>1. s \in Seq(T \cup {e}) /\ e \in T \cup {e}
    BY <1>1, SeqDef
  <2>. HIDE DEF T
  <2>2. Append(s, e) \in Seq(T \cup {e}) /\ Len(Append(s, e)) = Len(s) + 1
        /\ \A i \in 1..Len(s) : Append(s, e)[i] = s[i]
        /\ Append(s, e)[Len(s) + 1] = e
        /\ DOMAIN Append(s, e) = 1..(Len(s) + 1)
    BY <2>1, <1>1
  <2>3. ToSet(Append(s, e)) = ToSet(s) \cup {e}
    BY <2>2, <1>1 DEF ToSet
  <2>. QED
    BY <2>2, <2>3, SequenceIntro
<1>3. ASSUME s # <<>>
      PROVE  IsSequence(Front(s)) /\ Len(Front(s)) = Len(s) - 1
  <2>. HIDE DEF T
  <2>1. Front(s) \in Seq(T) /\ Len(Front(s)) = Len(s) - 1
    BY <1>1, <1>3 DEF Front
  <2>. QED
    BY <2>1, SequenceIntro
<1>4. ASSUME NEW m \in 0..Len(s) PROVE IsSequence(SubSeq(s, 1, m))
  <2>. HIDE DEF T
  <2>1. SubSeq(s, 1, m) \in Seq(T)
    BY <1>1
  <2>. QED
    BY <2>1, SequenceIntro
<1>. QED
  BY <1>2, <1>3, <1>4

-----------------------------------------------------------------------------
(* Facts *)

\* push_fact keeps the list honest: a fact is kept, or the sentinel stands for it.
LEMMA PushFactInv ==
    ASSUME NEW a, AnalyzerInv(a), NEW code
    PROVE  AnalyzerInv(PushFact(a, code)) /\ OnlyFacts(a, PushFact(a, code))
<1>. DEFINE b == [a EXCEPT !.all = @ \union {code}]
            p == PushFact(a, code)
<1>1. /\ MaxFacts \in Nat \ {0} /\ Len(a.facts) \in Nat /\ Len(a.facts) <= MaxFacts
      /\ IsSequence(a.facts) /\ a.dropped \in Nat
  BY AnalysisAssumption, SequenceFacts DEF AnalyzerInv, FactsInv
<1>2. OnlyFacts(a, p) /\ DOMAIN p = DOMAIN a /\ p.all = a.all \cup {code}
  BY DEF AnalyzerInv, PushFact, OnlyFacts
<1>3. FactsInv(p)
  <2>1. CASE a.dropped > 0
    <3>1. p.dropped = a.dropped + 1 /\ p.facts = a.facts
      BY <2>1 DEF AnalyzerInv, PushFact
    <3>. QED
      BY <1>1, <2>1, <3>1 DEF AnalyzerInv, FactsInv
  <2>2. CASE a.dropped = 0 /\ Len(a.facts) < MaxFacts
    <3>. HIDE DEF p
    <3>1. p = [b EXCEPT !.facts = Append(b.facts, code)]
      BY <1>1, <2>2 DEF p, PushFact
    <3>2. b.facts = a.facts /\ b.dropped = a.dropped
          /\ {"facts", "dropped"} \subseteq DOMAIN b
      BY DEF AnalyzerInv
    <3>3. p.dropped = 0 /\ p.facts = Append(a.facts, code)
      BY <3>1, <3>2, <2>2
    <3>. QED
      BY <1>1, <1>2, <2>2, <3>3, SequenceOps DEF AnalyzerInv, FactsInv
  <2>3. CASE a.dropped = 0 /\ ~(Len(a.facts) < MaxFacts)
    <3>. HIDE DEF p
    <3>3. p = [b EXCEPT !.dropped = 2,
                        !.facts = Append(Front(b.facts), "diagnostics_truncated")]
      BY <1>1, <2>3 DEF p, PushFact
    <3>4. b.facts = a.facts /\ {"facts", "dropped"} \subseteq DOMAIN b
      BY DEF AnalyzerInv
    <3>1. p.dropped = 2 /\ p.facts = Append(Front(a.facts), "diagnostics_truncated")
      BY <3>3, <3>4
    <3>2. IsSequence(Front(a.facts)) /\ Len(Front(a.facts)) = Len(a.facts) - 1
      BY <1>1, <2>3, SequenceFacts, SequenceOps
    <3>. QED
      BY <1>1, <2>3, <3>1, <3>2, SequenceOps DEF FactsInv
  <2>. QED
    BY <1>1, <2>1, <2>2, <2>3
<1>. QED
  BY <1>2, <1>3 DEF AnalyzerInv, OnlyFacts, CoresInv, ContextsInv

\* ... and so does pushing a fact under a condition,
LEMMA PushIfInv ==
    ASSUME NEW a, AnalyzerInv(a), NEW code, NEW cond
    PROVE  AnalyzerInv(PushIf(cond, a, code)) /\ OnlyFacts(a, PushIf(cond, a, code))
BY PushFactInv DEF PushIf, OnlyFacts

\* ... and pushing one for every entry that is still open.
LEMMA PushFactsInv ==
    ASSUME NEW a, AnalyzerInv(a), NEW code, NEW n \in Nat
    PROVE  AnalyzerInv(PushFacts(a, code, n)) /\ OnlyFacts(a, PushFacts(a, code, n))
<1>. DEFINE Pushes(f, m) == f = [i \in 0..m |-> IF i = 0 THEN a ELSE PushFact(f[i - 1], code)]
            Without == {m \in Nat : ~ \E f : Pushes(f, m)}
            g == CHOOSE f : Pushes(f, n)
            Good(b) == AnalyzerInv(b) /\ OnlyFacts(a, b)
            Wrong(m) == m \in 0..n /\ ~ Good(g[m])
<1>1. Without = {}
  <2>. SUFFICES ASSUME Without # {} PROVE FALSE
    OBVIOUS
  <2>1. PICK m \in Without : \A k \in Without : m <= k
    <3>1. Without \in SUBSET Nat
      OBVIOUS
    <3>. HIDE DEF Without
    <3>. QED
      BY <3>1, LeastNumber
  <2>2. CASE m = 0
    <3>. DEFINE h == [i \in 0..0 |-> a]
    <3>1. Pushes(h, 0)
      OBVIOUS
    <3>. QED
      BY <2>2, <3>1
  <2>3. CASE m # 0
    <3>1. m \in Nat /\ m - 1 \in Nat /\ m - 1 < m
      BY <2>3
    <3>2. PICK f : Pushes(f, m - 1)
      BY <2>1, <3>1
    <3>. DEFINE h == [i \in 0..m |-> IF i = m THEN PushFact(f[m - 1], code) ELSE f[i]]
    <3>3. \A i \in 0..(m - 1) : f[i] = IF i = 0 THEN a ELSE PushFact(f[i - 1], code)
      BY <3>2
    <3>4. ASSUME NEW i \in 0..m
          PROVE  h[i] = IF i = 0 THEN a ELSE PushFact(h[i - 1], code)
      BY <3>1, <3>3
    <3>5. Pushes(h, m)
      BY <3>4
    <3>. QED
      BY <3>5
  <2>. QED
    BY <2>2, <2>3
<1>2. Pushes(g, n)
  BY <1>1
<1>3. PushFacts(a, code, n) = g[n]
  BY DEF PushFacts
<1>. HIDE DEF g
<1>4. \A i \in 0..n : g[i] = IF i = 0 THEN a ELSE PushFact(g[i - 1], code)
  BY <1>2
<1>5. {m \in Nat : Wrong(m)} = {}
  <2>. DEFINE Fails == {m \in Nat : Wrong(m)}
  <2>. SUFFICES ASSUME Fails # {} PROVE FALSE
    OBVIOUS
  <2>1. PICK m \in Fails : \A k \in Fails : m <= k
    <3>1. Fails \in SUBSET Nat
      OBVIOUS
    <3>. HIDE DEF Fails
    <3>. QED
      BY <3>1, LeastNumber
  <2>2. m # 0
    BY <1>4 DEF OnlyFacts
  <2>3. m - 1 \in 0..n /\ m - 1 < m /\ Good(g[m - 1])
    BY <2>1, <2>2
  <2>4. Good(PushFact(g[m - 1], code))
    BY <2>3, PushFactInv DEF OnlyFacts
  <2>. QED
    BY <1>4, <2>2, <2>4
<1>. QED
  BY <1>3, <1>5

-----------------------------------------------------------------------------
(* Contexts and frames *)

\* b has a's cores and open spans.
SameOutside(a, b) ==
    b.cores = a.cores /\ b.custom = a.custom /\ b.async = a.async

\* ... and as many frames in every context.
SameFrames(a, b) ==
    /\ SameOutside(a, b)
    /\ DOMAIN b.ctx = DOMAIN a.ctx
    /\ \A k \in DOMAIN a.ctx : Len(b.ctx[k].frames) = Len(a.ctx[k].frames)

\* A function over the domain of a sequence is a sequence of the same length.
LEMMA MapSequence ==
    ASSUME NEW s, IsSequence(s), NEW t, t = [i \in DOMAIN s |-> t[i]]
    PROVE  IsSequence(t) /\ Len(t) = Len(s)
<1>1. Len(s) \in Nat /\ DOMAIN s = 1..Len(s)
  BY SequenceFacts
<1>2. t \in [1..Len(s) -> {t[i] : i \in DOMAIN t}]
  BY <1>1
<1>3. t \in Seq({t[i] : i \in DOMAIN t})
  BY <1>1, <1>2, SeqDef
<1>. QED
  BY <1>1, <1>2, <1>3 DEF IsSequence

\* Spoiling the frames keeps their number.
LEMMA SpoilSequence ==
    ASSUME NEW s, IsSequence(s)
    PROVE  IsSequence(Spoil(s)) /\ Len(Spoil(s)) = Len(s)
<1>1. Spoil(s) = [i \in DOMAIN s |-> Spoil(s)[i]]
  BY DEF Spoil
<1>. QED
  BY <1>1, MapSequence

\* Contexts may be replaced by others with sequences of frames.
LEMMA ReplaceContexts ==
    ASSUME NEW a, AnalyzerInv(a), NEW b, DOMAIN b = DOMAIN a,
           b.facts = a.facts, b.dropped = a.dropped, b.all = a.all, SameOutside(a, b),
           ContextsInv(b)
    PROVE  AnalyzerInv(b)
BY DEF AnalyzerInv, FactsInv, CoresInv, SameOutside

\* mark_context_incomplete touches frames only,
LEMMA MarkContextsInv ==
    ASSUME NEW a, AnalyzerInv(a), NEW keys
    PROVE  AnalyzerInv(MarkContexts(a, keys)) /\ SameFrames(a, MarkContexts(a, keys))
<1>. DEFINE b == MarkContexts(a, keys)
<1>1. /\ DOMAIN b = DOMAIN a /\ SameOutside(a, b)
      /\ b.facts = a.facts /\ b.dropped = a.dropped /\ b.all = a.all
      /\ DOMAIN b.ctx = DOMAIN a.ctx
      /\ \A k \in DOMAIN a.ctx :
            b.ctx[k] = IF k \in keys THEN [a.ctx[k] EXCEPT !.frames = Spoil(a.ctx[k].frames)]
                                     ELSE a.ctx[k]
  BY DEF MarkContexts, AnalyzerInv, SameOutside
<1>. HIDE DEF b
<1>2. ASSUME NEW k \in DOMAIN a.ctx
      PROVE  /\ "frames" \in DOMAIN b.ctx[k] /\ IsSequence(b.ctx[k].frames)
             /\ Len(b.ctx[k].frames) = Len(a.ctx[k].frames)
  <2>1. "frames" \in DOMAIN a.ctx[k] /\ IsSequence(a.ctx[k].frames)
    BY DEF AnalyzerInv, ContextsInv
  <2>. QED
    BY <1>1, <2>1, SpoilSequence
<1>3. ContextsInv(b)
  BY <1>1, <1>2 DEF AnalyzerInv, ContextsInv
<1>4. AnalyzerInv(b)
  BY <1>1, <1>3, ReplaceContexts
<1>. QED
  BY <1>1, <1>2, <1>4 DEF SameFrames, b

\* ... and so does taint_context.
LEMMA TaintContextsInv ==
    ASSUME NEW a, AnalyzerInv(a), NEW keys
    PROVE  AnalyzerInv(TaintContexts(a, keys)) /\ SameFrames(a, TaintContexts(a, keys))
<1>. DEFINE b == TaintContexts(a, keys)
<1>1. /\ DOMAIN b = DOMAIN a /\ SameOutside(a, b)
      /\ b.facts = a.facts /\ b.dropped = a.dropped /\ b.all = a.all
      /\ DOMAIN b.ctx = DOMAIN a.ctx
      /\ \A k \in DOMAIN a.ctx :
            b.ctx[k] = IF k \in keys THEN [a.ctx[k] EXCEPT !.frames = Spoil(a.ctx[k].frames),
                                                           !.tainted = TRUE]
                                     ELSE a.ctx[k]
  BY DEF TaintContexts, AnalyzerInv, SameOutside
<1>. HIDE DEF b
<1>2. ASSUME NEW k \in DOMAIN a.ctx
      PROVE  /\ "frames" \in DOMAIN b.ctx[k] /\ IsSequence(b.ctx[k].frames)
             /\ Len(b.ctx[k].frames) = Len(a.ctx[k].frames)
  <2>1. "frames" \in DOMAIN a.ctx[k] /\ IsSequence(a.ctx[k].frames)
    BY DEF AnalyzerInv, ContextsInv
  <2>. QED
    BY <1>1, <2>1, SpoilSequence
<1>3. ContextsInv(b)
  BY <1>1, <1>2 DEF AnalyzerInv, ContextsInv
<1>4. AnalyzerInv(b)
  BY <1>1, <1>3, ReplaceContexts
<1>. QED
  BY <1>1, <1>2, <1>4 DEF SameFrames, b

\* ensure_execution_context adds at most the context asked for.
LEMMA EnsureContextInv ==
    ASSUME NEW a, AnalyzerInv(a), NEW k
    PROVE  /\ AnalyzerInv(EnsureContext(a, k)) /\ SameOutside(a, EnsureContext(a, k))
           /\ DOMAIN EnsureContext(a, k).ctx = DOMAIN a.ctx \cup {k}
<1>1. CASE k \in DOMAIN a.ctx
  BY <1>1 DEF EnsureContext, SameOutside
<1>2. CASE k \notin DOMAIN a.ctx
  <2>. DEFINE b == EnsureContext(a, k)
              new == [virt |-> 0, frames |-> <<>>, tainted |-> FALSE]
  <2>1. /\ DOMAIN b = DOMAIN a /\ SameOutside(a, b)
        /\ b.facts = a.facts /\ b.dropped = a.dropped /\ b.all = a.all
        /\ DOMAIN b.ctx = DOMAIN a.ctx \cup {k}
        /\ \A x \in DOMAIN b.ctx : b.ctx[x] = IF x = k THEN new ELSE a.ctx[x]
    BY <1>2 DEF EnsureContext, AnalyzerInv, SameOutside
  <2>2. IsSequence(<<>>)
    BY EmptySeq, SequenceIntro
  <2>3. IsFiniteSet(DOMAIN b.ctx)
    BY <2>1, FS_AddElement DEF AnalyzerInv, ContextsInv
  <2>. HIDE DEF b
  <2>4. ContextsInv(b)
    BY <2>1, <2>2, <2>3 DEF AnalyzerInv, ContextsInv
  <2>5. AnalyzerInv(b)
    BY <2>1, <2>4, ReplaceContexts
  <2>. QED
    BY <2>1, <2>5 DEF b
<1>. QED
  BY <1>1, <1>2

\* One context has its stack of frames changed, the others not.
StackIs(a, b, k, n) ==
    /\ SameOutside(a, b)
    /\ DOMAIN b.ctx = DOMAIN a.ctx
    /\ Len(b.ctx[k].frames) = n

\* finalize_top pops exactly one frame of the one context.
LEMMA FinalizeTopInv ==
    ASSUME NEW a, AnalyzerInv(a), NEW k \in DOMAIN a.ctx, a.ctx[k].frames # <<>>,
           NEW end, NEW seqEnd, NEW force, NEW by
    PROVE  /\ AnalyzerInv(FinalizeTop(a, k, end, seqEnd, force, by))
           /\ StackIs(a, FinalizeTop(a, k, end, seqEnd, force, by), k,
                     Len(a.ctx[k].frames) - 1)
<1>. DEFINE b == FinalizeTop(a, k, end, seqEnd, force, by)
            rest == Front(a.ctx[k].frames)
<1>1. PICK stack : /\ \E parent : stack = IF rest = <<>> THEN rest
                                          ELSE Append(Front(rest), parent)
                   /\ \E spans : b = [a EXCEPT !.spans = spans, !.ctx[k].frames = stack]
  BY DEF FinalizeTop
<1>2. /\ DOMAIN b = DOMAIN a /\ SameOutside(a, b)
      /\ b.facts = a.facts /\ b.dropped = a.dropped /\ b.all = a.all
      /\ DOMAIN b.ctx = DOMAIN a.ctx
      /\ \A x \in DOMAIN a.ctx :
            b.ctx[x] = IF x = k THEN [a.ctx[k] EXCEPT !.frames = stack] ELSE a.ctx[x]
  BY <1>1 DEF AnalyzerInv, SameOutside
<1>3. "frames" \in DOMAIN a.ctx[k] /\ IsSequence(a.ctx[k].frames)
      /\ Len(a.ctx[k].frames) \in Nat /\ Len(a.ctx[k].frames) > 0
  BY SequenceFacts DEF AnalyzerInv, ContextsInv
<1>4. IsSequence(rest) /\ Len(rest) = Len(a.ctx[k].frames) - 1
  BY <1>3, SequenceOps
<1>. HIDE DEF b, rest
<1>5. IsSequence(stack) /\ Len(stack) = Len(rest)
  <2>1. CASE rest = <<>>
    BY <1>1, <1>4, <2>1
  <2>2. CASE rest # <<>>
    <3>1. IsSequence(Front(rest)) /\ Len(Front(rest)) = Len(rest) - 1
      BY <1>4, <2>2, SequenceOps
    <3>2. \A e : IsSequence(Append(Front(rest), e)) /\ Len(Append(Front(rest), e)) = Len(rest)
      BY <1>3, <1>4, <3>1, SequenceOps
    <3>. QED
      BY <1>1, <2>2, <3>2
  <2>. QED
    BY <2>1, <2>2
<1>6. \A x \in DOMAIN b.ctx : "frames" \in DOMAIN b.ctx[x] /\ IsSequence(b.ctx[x].frames)
  BY <1>2, <1>3, <1>5 DEF AnalyzerInv, ContextsInv
<1>7. ContextsInv(b) /\ b.ctx[k].frames = stack
  BY <1>2, <1>3, <1>6 DEF AnalyzerInv, ContextsInv
<1>8. AnalyzerInv(b)
  BY <1>2, <1>7, ReplaceContexts
<1>. QED
  BY <1>2, <1>4, <1>5, <1>7, <1>8 DEF StackIs, b

\* The loop over finalize_top stops at the frame it was told to keep,
\* whether or not it records a fact for every frame.
LEMMA FinalizeDownToInv ==
    ASSUME NEW a, AnalyzerInv(a), NEW k \in DOMAIN a.ctx,
           NEW keep \in 0..Len(a.ctx[k].frames), NEW end, NEW seqEnd, NEW fact
    PROVE  /\ AnalyzerInv(FinalizeDownTo(a, k, keep, end, seqEnd, fact))
           /\ StackIs(a, FinalizeDownTo(a, k, keep, end, seqEnd, fact), k, keep)
<1>. DEFINE L == Len(a.ctx[k].frames)
            n == L - keep
            Step(b) == FinalizeTop(PushIf(fact # "", b, fact), k, end, seqEnd, TRUE, 0)
            Pops(f, m) == f = [i \in 0..m |-> IF i = 0 THEN a ELSE Step(f[i - 1])]
            Without == {m \in Nat : ~ \E f : Pops(f, m)}
            g == CHOOSE f : Pops(f, n)
            Good(b, i) == AnalyzerInv(b) /\ StackIs(a, b, k, L - i)
<1>0. L \in Nat /\ n \in Nat /\ n <= L /\ L - n = keep
  BY SequenceFacts DEF AnalyzerInv, ContextsInv
<1>1. Without = {}
  <2>. SUFFICES ASSUME Without # {} PROVE FALSE
    OBVIOUS
  <2>1. PICK m \in Without : \A j \in Without : m <= j
    <3>1. Without \in SUBSET Nat
      OBVIOUS
    <3>. HIDE DEF Without
    <3>. QED
      BY <3>1, LeastNumber
  <2>. HIDE DEF Step
  <2>2. CASE m = 0
    <3>. DEFINE h == [i \in 0..0 |-> a]
    <3>1. Pops(h, 0)
      OBVIOUS
    <3>. QED
      BY <2>2, <3>1
  <2>3. CASE m # 0
    <3>1. m \in Nat /\ m - 1 \in Nat /\ m - 1 < m
      BY <2>3
    <3>2. m - 1 \notin Without
      <4>. HIDE DEF Without
      <4>. QED
        BY <2>1, <3>1
    <3>6. \E f : Pops(f, m - 1)
      BY <3>1, <3>2
    <3>7. PICK f : Pops(f, m - 1)
      <4>. HIDE DEF Pops
      <4>. QED
        BY <3>6
    <3>. DEFINE h == [i \in 0..m |-> IF i = m THEN Step(f[m - 1]) ELSE f[i]]
    <3>3. \A i \in 0..(m - 1) : f[i] = IF i = 0 THEN a ELSE Step(f[i - 1])
      BY <3>7
    <3>4. ASSUME NEW i \in 0..m
          PROVE  h[i] = IF i = 0 THEN a ELSE Step(h[i - 1])
      BY <3>1, <3>3
    <3>5. Pops(h, m)
      BY <3>4
    <3>. QED
      BY <3>5
  <2>. QED
    BY <2>2, <2>3
<1>2. Pops(g, n)
  <2>1. \E f : Pops(f, n)
    BY <1>0, <1>1
  <2>. HIDE DEF Pops
  <2>. QED
    BY <2>1
<1>3. FinalizeDownTo(a, k, keep, end, seqEnd, fact) = g[n]
  BY DEF FinalizeDownTo
<1>. HIDE DEF g
<1>4. \A i \in 0..n : g[i] = IF i = 0 THEN a ELSE Step(g[i - 1])
  BY <1>2
<1>5. ASSUME NEW b, NEW i \in 0..(n - 1), Good(b, i)
      PROVE  Good(Step(b), i + 1)
  <2>. DEFINE p == PushIf(fact # "", b, fact)
  <2>1. AnalyzerInv(p) /\ OnlyFacts(b, p)
    BY <1>5, PushIfInv
  <2>2. k \in DOMAIN p.ctx /\ Len(p.ctx[k].frames) = L - i /\ L - i > 0
    <3>1. k \in DOMAIN p.ctx /\ Len(p.ctx[k].frames) = L - i
      BY <1>5, <2>1 DEF OnlyFacts, StackIs
    <3>2. L - i > 0
      <4>. HIDE DEF L
      <4>. QED
        BY <1>0
    <3>. QED
      BY <3>1, <3>2
  <2>. HIDE DEF p
  <2>3. p.ctx[k].frames # <<>>
    <3>. HIDE DEF L
    <3>1. IsSequence(p.ctx[k].frames)
      BY <2>1, <2>2 DEF AnalyzerInv, ContextsInv
    <3>. QED
      BY <2>2, <3>1, SequenceFacts
  <2>4. AnalyzerInv(Step(b)) /\ StackIs(p, Step(b), k, (L - i) - 1)
    BY <2>1, <2>2, <2>3, FinalizeTopInv DEF p
  <2>. HIDE DEF Step
  <2>5. (L - i) - 1 = L - (i + 1)
    BY <1>0
  <2>. QED
    BY <1>5, <2>1, <2>4, <2>5 DEF OnlyFacts, StackIs, SameOutside
<1>. HIDE DEF Step
<1>6. Good(a, 0)
  BY <1>0 DEF StackIs, SameOutside
<1>. HIDE DEF Good
<1>7. {m \in 0..n : ~Good(g[m], m)} = {}
  <2>. DEFINE Fails == {m \in 0..n : ~Good(g[m], m)}
  <2>. SUFFICES ASSUME Fails # {} PROVE FALSE
    OBVIOUS
  <2>1. PICK m \in Fails : \A j \in Fails : m <= j
    <3>1. Fails \in SUBSET Nat
      BY <1>0
    <3>. HIDE DEF Fails
    <3>. QED
      BY <3>1, LeastNumber
  <2>2. m # 0
    BY <1>0, <1>4, <1>6
  <2>3. m - 1 \in 0..(n - 1) /\ m - 1 < m /\ Good(g[m - 1], m - 1) /\ (m - 1) + 1 = m
    BY <1>0, <2>1, <2>2
  <2>4. Good(Step(g[m - 1]), m)
    BY <2>3, <1>5
  <2>. QED
    BY <1>4, <2>2, <2>4
<1>8. Good(g[n], n)
  BY <1>0, <1>7
<1>. QED
  BY <1>0, <1>3, <1>8 DEF Good

\* close_unclosed_frames leaves cores and open spans alone,
LEMMA CloseUnclosedInv ==
    ASSUME NEW a, AnalyzerInv(a), NEW k, NEW end, NEW seqEnd
    PROVE  /\ AnalyzerInv(CloseUnclosed(a, k, end, seqEnd))
           /\ SameOutside(a, CloseUnclosed(a, k, end, seqEnd))
<1>1. CASE k \in DOMAIN a.ctx
  <2>1. 0 \in 0..Len(a.ctx[k].frames)
    BY <1>1, SequenceFacts DEF AnalyzerInv, ContextsInv
  <2>. QED
    BY <1>1, <2>1, FinalizeDownToInv DEF CloseUnclosed, StackIs
<1>2. CASE k \notin DOMAIN a.ctx
  BY <1>2 DEF CloseUnclosed, SameOutside
<1>. QED
  BY <1>1, <1>2

\* ... for every context of a list.
LEMMA CloseAllInv ==
    ASSUME NEW a, AnalyzerInv(a), NEW keys, Len(keys) \in Nat, NEW end, NEW seqEnd
    PROVE  /\ AnalyzerInv(CloseAll(a, keys, end, seqEnd))
           /\ SameOutside(a, CloseAll(a, keys, end, seqEnd))
<1>. DEFINE n == Len(keys)
            Step(b, i) == CloseUnclosed(b, keys[i], end, seqEnd)
            Closes(f, m) == f = [i \in 0..m |-> IF i = 0 THEN a ELSE Step(f[i - 1], i)]
            Without == {m \in Nat : ~ \E f : Closes(f, m)}
            g == CHOOSE f : Closes(f, n)
            Good(b) == AnalyzerInv(b) /\ SameOutside(a, b)
<1>1. Without = {}
  <2>. SUFFICES ASSUME Without # {} PROVE FALSE
    OBVIOUS
  <2>1. PICK m \in Without : \A j \in Without : m <= j
    <3>1. Without \in SUBSET Nat
      OBVIOUS
    <3>. HIDE DEF Without
    <3>. QED
      BY <3>1, LeastNumber
  <2>. HIDE DEF Step
  <2>2. CASE m = 0
    <3>. DEFINE h == [i \in 0..0 |-> a]
    <3>1. Closes(h, 0)
      OBVIOUS
    <3>. QED
      BY <2>2, <3>1
  <2>3. CASE m # 0
    <3>1. m \in Nat /\ m - 1 \in Nat /\ m - 1 < m
      BY <2>3
    <3>2. m - 1 \notin Without
      <4>. HIDE DEF Without
      <4>. QED
        BY <2>1, <3>1
    <3>3. \E f : Closes(f, m - 1)
      BY <3>1, <3>2
    <3>4. PICK f : Closes(f, m - 1)
      <4>. HIDE DEF Closes
      <4>. QED
        BY <3>3
    <3>. DEFINE h == [i \in 0..m |-> IF i = m THEN Step(f[m - 1], m) ELSE f[i]]
    <3>5. \A i \in 0..(m - 1) : f[i] = IF i = 0 THEN a ELSE Step(f[i - 1], i)
      BY <3>4
    <3>6. ASSUME NEW i \in 0..m
          PROVE  h[i] = IF i = 0 THEN a ELSE Step(h[i - 1], i)
      BY <3>1, <3>5
    <3>7. Closes(h, m)
      BY <3>6
    <3>. QED
      BY <3>7
  <2>. QED
    BY <2>2, <2>3
<1>2. Closes(g, n)
  <2>1. \E f : Closes(f, n)
    BY <1>1
  <2>. HIDE DEF Closes
  <2>. QED
    BY <2>1
<1>3. CloseAll(a, keys, end, seqEnd) = g[n]
  BY DEF CloseAll
<1>. HIDE DEF g
<1>4. \A i \in 0..n : g[i] = IF i = 0 THEN a ELSE Step(g[i - 1], i)
  BY <1>2
<1>5. ASSUME NEW b, Good(b), NEW i
      PROVE  Good(Step(b, i))
  BY <1>5, CloseUnclosedInv DEF SameOutside
<1>6. Good(a)
  BY DEF SameOutside
<1>. HIDE DEF Step, Good
<1>7. {m \in 0..n : ~Good(g[m])} = {}
  <2>. DEFINE Fails == {m \in 0..n : ~Good(g[m])}
  <2>. SUFFICES ASSUME Fails # {} PROVE FALSE
    OBVIOUS
  <2>1. PICK m \in Fails : \A j \in Fails : m <= j
    <3>1. Fails \in SUBSET Nat
      OBVIOUS
    <3>. HIDE DEF Fails
    <3>. QED
      BY <3>1, LeastNumber
  <2>2. m # 0
    BY <1>4, <1>6
  <2>3. m - 1 \in 0..n /\ m - 1 < m /\ Good(g[m - 1])
    BY <2>1, <2>2
  <2>4. Good(Step(g[m - 1], m))
    BY <2>3, <1>5
  <2>. QED
    BY <1>4, <2>2, <2>4
<1>. QED
  BY <1>3, <1>7 DEF Good

-----------------------------------------------------------------------------
(* Time *)

\* The bookkeeping of a core, the spans and the history may change freely.
LEMMA ReplaceOthers ==
    ASSUME NEW a, AnalyzerInv(a), NEW b, DOMAIN b = DOMAIN a,
           b.facts = a.facts, b.dropped = a.dropped, b.all = a.all, b.ctx = a.ctx,
           b.custom = a.custom, b.async = a.async, CoresInv(b)
    PROVE  AnalyzerInv(b)
BY DEF AnalyzerInv, FactsInv, ContextsInv

\* detect_concurrent_scheduling taints the task and pushes one fact.
LEMMA DetectConcurrentInv ==
    ASSUME NEW a, AnalyzerInv(a), NEW c, NEW from, NEW to
    PROVE  AnalyzerInv(DetectConcurrent(a, c, from, to))
<1>. DEFINE k == a.cores[c].sched
            t == TaintContexts(a, {k})
<1>1. AnalyzerInv(t)
  BY TaintContextsInv
<1>2. ASSUME NEW r
      PROVE  AnalyzerInv([t EXCEPT !.reported = r])
  BY <1>1 DEF AnalyzerInv, FactsInv, CoresInv, ContextsInv
<1>3. ASSUME NEW r, NEW cond
      PROVE  AnalyzerInv(PushIf(cond, [t EXCEPT !.reported = r], "concurrent_context"))
  BY <1>2, PushIfInv
<1>. QED
  BY <1>3 DEF DetectConcurrent

\* credit_execution_interval adds CPU time to one context.
LEMMA CreditInv ==
    ASSUME NEW a, AnalyzerInv(a), NEW k, NEW c, NEW from, NEW to
    PROVE  AnalyzerInv(Credit(a, k, c, from, to))
<1>. DEFINE b == EnsureContext(a, k)
<1>1. AnalyzerInv(b)
  BY EnsureContextInv
<1>. HIDE DEF b
<1>2. ASSUME NEW v
      PROVE  AnalyzerInv([b EXCEPT !.ctx[k].virt = v])
  <2>. DEFINE d == [b EXCEPT !.ctx[k].virt = v]
  <2>1. /\ DOMAIN d = DOMAIN b /\ SameOutside(b, d)
        /\ d.facts = b.facts /\ d.dropped = b.dropped /\ d.all = b.all
        /\ DOMAIN d.ctx = DOMAIN b.ctx
        /\ \A x \in DOMAIN b.ctx :
              d.ctx[x] = IF x = k THEN [b.ctx[x] EXCEPT !.virt = v] ELSE b.ctx[x]
    BY <1>1 DEF AnalyzerInv, SameOutside
  <2>. HIDE DEF d
  <2>2. ContextsInv(d)
    BY <1>1, <2>1 DEF AnalyzerInv, ContextsInv
  <2>. QED
    BY <1>1, <2>1, <2>2, ReplaceContexts DEF d
<1>. QED
  BY <1>2 DEF Credit, b

\* advance_core: time that steps back or that nobody ran in becomes a fact.
LEMMA AdvanceCoreInv ==
    ASSUME NEW a, AnalyzerInv(a), NEW c, NEW ts
    PROVE  AnalyzerInv(AdvanceCore(a, c, ts))
<1>. DEFINE Restamped(b, l, m, r) == [b EXCEPT !.cores[c].last = l, !.max = m, !.ran = r]
<1>1. ASSUME NEW b, AnalyzerInv(b), NEW l, NEW m, NEW r
      PROVE  AnalyzerInv(Restamped(b, l, m, r))
  <2>. DEFINE d == Restamped(b, l, m, r)
  <2>1. /\ DOMAIN d = DOMAIN b
        /\ d.facts = b.facts /\ d.dropped = b.dropped /\ d.all = b.all /\ d.ctx = b.ctx
        /\ d.custom = b.custom /\ d.async = b.async
    BY <1>1 DEF AnalyzerInv
  <2>2. CoresInv(d)
    BY <1>1 DEF AnalyzerInv, CoresInv
  <2>. HIDE DEF d
  <2>. QED
    BY <1>1, <2>1, <2>2, ReplaceOthers DEF d
<1>2. AnalyzerInv(MarkContext(PushFact(a, "out_of_order_timestamp"), Running(a.cores[c])))
  BY PushFactInv, MarkContextsInv DEF MarkContext
<1>. DEFINE seen == DetectConcurrent(a, c, a.cores[c].last, ts)
<1>3. AnalyzerInv(seen)
  BY DetectConcurrentInv
<1>4. /\ AnalyzerInv(Credit(seen, Running(a.cores[c]), c, a.cores[c].last, ts))
      /\ AnalyzerInv(PushFact(seen, "missing_scheduled_context"))
  BY <1>3, CreditInv, PushFactInv
<1>. QED
  BY <1>1, <1>2, <1>4 DEF AdvanceCore

\* The loop over all known cores.
LEMMA AdvanceAllInv ==
    ASSUME NEW a, AnalyzerInv(a), NEW ts
    PROVE  AnalyzerInv(AdvanceAll(a, ts))
<1>. DEFINE Step(b, c) == IF a.cores[c].last = NoTs THEN b ELSE AdvanceCore(b, c, ts)
            Advances(f, m) == f = [c \in 0..m |-> IF c = 0 THEN a ELSE Step(f[c - 1], c)]
            Without == {m \in Nat : ~ \E f : Advances(f, m)}
            g == CHOOSE f : Advances(f, NCores)
<1>0. NCores \in Nat
  BY AnalysisAssumption
<1>1. Without = {}
  <2>. SUFFICES ASSUME Without # {} PROVE FALSE
    OBVIOUS
  <2>1. PICK m \in Without : \A j \in Without : m <= j
    <3>1. Without \in SUBSET Nat
      OBVIOUS
    <3>. HIDE DEF Without
    <3>. QED
      BY <3>1, LeastNumber
  <2>. HIDE DEF Step
  <2>2. CASE m = 0
    <3>. DEFINE h == [i \in 0..0 |-> a]
    <3>1. Advances(h, 0)
      OBVIOUS
    <3>. QED
      BY <2>2, <3>1
  <2>3. CASE m # 0
    <3>1. m \in Nat /\ m - 1 \in Nat /\ m - 1 < m
      BY <2>3
    <3>2. m - 1 \notin Without
      <4>. HIDE DEF Without
      <4>. QED
        BY <2>1, <3>1
    <3>3. \E f : Advances(f, m - 1)
      BY <3>1, <3>2
    <3>4. PICK f : Advances(f, m - 1)
      <4>. HIDE DEF Advances
      <4>. QED
        BY <3>3
    <3>. DEFINE h == [i \in 0..m |-> IF i = m THEN Step(f[m - 1], m) ELSE f[i]]
    <3>5. \A i \in 0..(m - 1) : f[i] = IF i = 0 THEN a ELSE Step(f[i - 1], i)
      BY <3>4
    <3>6. ASSUME NEW i \in 0..m
          PROVE  h[i] = IF i = 0 THEN a ELSE Step(h[i - 1], i)
      BY <3>1, <3>5
    <3>7. Advances(h, m)
      BY <3>6
    <3>. QED
      BY <3>7
  <2>. QED
    BY <2>2, <2>3
<1>2. Advances(g, NCores)
  <2>1. \E f : Advances(f, NCores)
    BY <1>0, <1>1
  <2>. HIDE DEF Advances
  <2>. QED
    BY <2>1
<1>3. AdvanceAll(a, ts) = g[NCores]
  BY DEF AdvanceAll
<1>. HIDE DEF g
<1>4. \A i \in 0..NCores : g[i] = IF i = 0 THEN a ELSE Step(g[i - 1], i)
  BY <1>2
<1>5. ASSUME NEW b, AnalyzerInv(b), NEW c
      PROVE  AnalyzerInv(Step(b, c))
  BY <1>5, AdvanceCoreInv
<1>. HIDE DEF Step
<1>7. {m \in 0..NCores : ~AnalyzerInv(g[m])} = {}
  <2>. DEFINE Fails == {m \in 0..NCores : ~AnalyzerInv(g[m])}
  <2>. SUFFICES ASSUME Fails # {} PROVE FALSE
    OBVIOUS
  <2>1. PICK m \in Fails : \A j \in Fails : m <= j
    <3>1. Fails \in SUBSET Nat
      BY <1>0
    <3>. HIDE DEF Fails
    <3>. QED
      BY <3>1, LeastNumber
  <2>2. m # 0
    BY <1>0, <1>4
  <2>3. m - 1 \in 0..NCores /\ m - 1 < m /\ AnalyzerInv(g[m - 1])
    BY <1>0, <2>1, <2>2
  <2>4. AnalyzerInv(Step(g[m - 1], m))
    BY <2>3, <1>5
  <2>. QED
    BY <1>4, <2>2, <2>4
<1>. QED
  BY <1>0, <1>3, <1>7

-----------------------------------------------------------------------------
(* Finite sets *)

\* The image of a finite set is finite.
LEMMA ImageFinite ==
    ASSUME NEW S, IsFiniteSet(S), NEW f, f = [x \in S |-> f[x]]
    PROVE  IsFiniteSet({f[x] : x \in S})
<1>. DEFINE T == {f[x] : x \in S}
<1>1. f \in Surjection(S, T)
  BY DEF Surjection
<1>. HIDE DEF T
<1>2. IsFiniteSet(T)
  BY <1>1, FS_Surjection
<1>. QED
  BY <1>2 DEF T

\* A finite set can be listed.
LEMMA ListedSet ==
    ASSUME NEW S, IsFiniteSet(S)
    PROVE  Len(SetToSeq(S)) \in Nat
<1>1. Cardinality(S) \in Nat /\ ExistsBijection(1..Cardinality(S), S)
  BY FS_CardinalityType
<1>2. \E f \in [1..Cardinality(S) -> S] : IsInjective(f)
  BY <1>1 DEF ExistsBijection, Bijection, Injection
<1>3. SetToSeq(S) \in [1..Cardinality(S) -> S]
  BY <1>2 DEF SetToSeq
<1>. QED
  BY <1>1, <1>3, SeqDef

\* A set of positions that is not empty has a last one.
LEMMA LastPosition ==
    ASSUME NEW n \in Nat, NEW S \in SUBSET (1..n), S # {}
    PROVE  Max(S) \in S
<1>. DEFINE Room == {m \in Nat : \E x \in S : m = n - x}
<1>1. PICK x \in S : TRUE
  OBVIOUS
<1>2. Room \in SUBSET Nat /\ n - x \in Room
  OBVIOUS
<1>. HIDE DEF Room
<1>3. PICK m \in Room : \A k \in Room : m <= k
  BY <1>2, LeastNumber
<1>. USE DEF Room
<1>4. PICK y \in S : m = n - y
  OBVIOUS
<1>5. ASSUME NEW z \in S
      PROVE  y >= z
  <2>1. n - z \in Room /\ n \in Nat /\ z \in 1..n /\ y \in 1..n
    OBVIOUS
  <2>. HIDE DEF Room
  <2>2. m <= n - z
    BY <1>3, <2>1
  <2>. QED
    BY <1>4, <2>1, <2>2
<1>. QED
  BY <1>5 DEF Max

-----------------------------------------------------------------------------
(* Observations *)

\* schedule_context changes one core and no context.
LEMMA ScheduleInv ==
    ASSUME NEW a, AnalyzerInv(a), NEW c, NEW k, NEW since
    PROVE  AnalyzerInv(Schedule(a, c, k, since)) /\ Schedule(a, c, k, since).ctx = a.ctx
<1>. DEFINE d == [a EXCEPT !.cores[c].sched = k, !.cores[c].since = since]
<1>1. /\ DOMAIN d = DOMAIN a
      /\ d.facts = a.facts /\ d.dropped = a.dropped /\ d.all = a.all /\ d.ctx = a.ctx
      /\ d.custom = a.custom /\ d.async = a.async
  BY DEF AnalyzerInv
<1>2. CoresInv(d)
  BY DEF AnalyzerInv, CoresInv
<1>. HIDE DEF d
<1>3. AnalyzerInv(d)
  BY <1>1, <1>2, ReplaceOthers
<1>. QED
  BY <1>1, <1>3 DEF Schedule, d

\* ensure_function_context: the context a function event is attributed to exists.
LEMMA EnsureFunctionContextInv ==
    ASSUME NEW a, AnalyzerInv(a), NEW c, NEW x
    PROVE  /\ AnalyzerInv(EnsureFunctionContext(a, c, x))
           /\ Attributed(a, c, x)[1] \in DOMAIN EnsureFunctionContext(a, c, x).ctx
<1>. DEFINE k == Attributed(a, c, x)[1]
            b == EnsureContext(a, k)
            p == PushFact(b, "context_mismatch")
            q == MarkContext(p, Running(a.cores[c]))
<1>1. AnalyzerInv(b) /\ k \in DOMAIN b.ctx
  BY EnsureContextInv
<1>2. /\ AnalyzerInv(Schedule(b, c, k, a.cores[c].last))
      /\ Schedule(b, c, k, a.cores[c].last).ctx = b.ctx
  BY <1>1, ScheduleInv
<1>3. AnalyzerInv(p) /\ p.ctx = b.ctx
  BY <1>1, PushFactInv DEF OnlyFacts
<1>4. AnalyzerInv(q) /\ DOMAIN q.ctx = DOMAIN p.ctx
  BY <1>3, MarkContextsInv DEF MarkContext, SameFrames
<1>5. AnalyzerInv(MarkContext(q, k)) /\ DOMAIN MarkContext(q, k).ctx = DOMAIN q.ctx
  BY <1>4, MarkContextsInv DEF MarkContext, SameFrames
<1>6. EnsureFunctionContext(a, c, x) \in
          {b, Schedule(b, c, k, a.cores[c].last), MarkContext(q, k)}
  BY DEF EnsureFunctionContext
<1>. HIDE DEF k, b, p, q
<1>. QED
  BY <1>1, <1>2, <1>3, <1>4, <1>5, <1>6 DEF k

\* check_source_order pushes up to three facts and spoils every open frame.
LEMMA CheckSourceOrderInv ==
    ASSUME NEW a, AnalyzerInv(a), NEW o
    PROVE  AnalyzerInv(CheckSourceOrder(a, o))
<1>1. ASSUME NEW b, AnalyzerInv(b), NEW prog, NEW lost
      PROVE  AnalyzerInv([b EXCEPT !.prog[o.src] = prog, !.lost = lost])
  <2>. DEFINE d == [b EXCEPT !.prog[o.src] = prog, !.lost = lost]
  <2>1. /\ DOMAIN d = DOMAIN b
        /\ d.facts = b.facts /\ d.dropped = b.dropped /\ d.all = b.all /\ d.ctx = b.ctx
        /\ d.custom = b.custom /\ d.async = b.async /\ d.cores = b.cores
    BY <1>1 DEF AnalyzerInv
  <2>. HIDE DEF d
  <2>. QED
    BY <1>1, <2>1, ReplaceOthers DEF AnalyzerInv, CoresInv, d
<1>2. ASSUME NEW stale, NEW gap, NEW back
      PROVE  LET a1 == PushIf(stale, a, "out_of_order_sequence")
                 a2 == PushIf(gap, a1, "trace_gap")
                 a3 == PushIf(back, a2, "out_of_order_timestamp")
             IN  AnalyzerInv(a3) /\ AnalyzerInv(MarkAll(a3))
  BY PushIfInv, MarkContextsInv DEF MarkAll
<1>. QED
  BY <1>1, <1>2 DEF CheckSourceOrder

\* function_enter pushes a frame.
LEMMA EnterFunctionInv ==
    ASSUME NEW a0, AnalyzerInv(a0), NEW o, NEW c, NEW x, NEW f
    PROVE  AnalyzerInv(EnterFunction(a0, o, c, x, f))
<1>. DEFINE a == AdvanceCore(a0, c, o.ts)
            k == Attributed(a, c, x)[1]
            b == EnsureFunctionContext(a, c, x)
<1>1. AnalyzerInv(a)
  BY AdvanceCoreInv
<1>2. AnalyzerInv(b) /\ k \in DOMAIN b.ctx
  BY <1>1, EnsureFunctionContextInv
<1>3. PICK frame, n : EnterFunction(a0, o, c, x, f) =
          [b EXCEPT !.ctx[k].frames = Append(b.ctx[k].frames, frame), !.entered = n]
  BY DEF EnterFunction
<1>. HIDE DEF a, b, k
<1>. DEFINE d == [b EXCEPT !.ctx[k].frames = Append(b.ctx[k].frames, frame), !.entered = n]
<1>4. /\ DOMAIN d = DOMAIN b /\ SameOutside(b, d)
      /\ d.facts = b.facts /\ d.dropped = b.dropped /\ d.all = b.all
      /\ DOMAIN d.ctx = DOMAIN b.ctx
      /\ \A y \in DOMAIN b.ctx :
            d.ctx[y] = IF y = k THEN [b.ctx[k] EXCEPT !.frames = Append(b.ctx[k].frames, frame)]
                                ELSE b.ctx[y]
  BY <1>2 DEF AnalyzerInv, SameOutside
<1>. HIDE DEF d
<1>5. "frames" \in DOMAIN b.ctx[k] /\ IsSequence(b.ctx[k].frames)
  BY <1>2 DEF AnalyzerInv, ContextsInv
<1>6. IsSequence(Append(b.ctx[k].frames, frame))
  BY <1>5, SequenceOps
<1>7. ContextsInv(d)
  BY <1>2, <1>4, <1>5, <1>6 DEF AnalyzerInv, ContextsInv
<1>8. AnalyzerInv(d)
  BY <1>2, <1>4, <1>7, ReplaceContexts
<1>. QED
  BY <1>3, <1>8 DEF d

\* function_exit pops down to the innermost frame of the function, if there is one.
LEMMA ExitFunctionInv ==
    ASSUME NEW a0, AnalyzerInv(a0), NEW o, NEW c, NEW x, NEW f
    PROVE  AnalyzerInv(ExitFunction(a0, o, c, x, f))
<1>. DEFINE a == AdvanceCore(a0, c, o.ts)
            ts == EffectiveTs(a0, c, o.ts)
            k == Attributed(a, c, x)[1]
            b == EnsureFunctionContext(a, c, x)
            frames == b.ctx[k].frames
            hits == {i \in DOMAIN frames : frames[i].fn = f}
            pos == Max(hits)
            noted == PushFact(b, "mismatched_function_exit")
            p == MarkContext(noted, k)
            u == MarkContext(PushFact(b, "unmatched_function_exit"), k)
            Closed(v, m) == FinalizeTop(FinalizeDownTo(v, k, pos, ts, o.seq, ""),
                                        k, ts, o.seq, m, c)
<1>1. AnalyzerInv(b) /\ k \in DOMAIN b.ctx
  BY AdvanceCoreInv, EnsureFunctionContextInv
<1>2. AnalyzerInv(noted) /\ noted.ctx = b.ctx /\ AnalyzerInv(u)
  BY <1>1, PushFactInv, MarkContextsInv DEF OnlyFacts, MarkContext
<1>3. AnalyzerInv(p) /\ k \in DOMAIN p.ctx /\ Len(p.ctx[k].frames) = Len(frames)
  <2>. HIDE DEF noted
  <2>1. AnalyzerInv(p) /\ SameFrames(noted, p)
    BY <1>2, MarkContextsInv DEF MarkContext
  <2>. HIDE DEF p, b, k
  <2>. QED
    BY <1>1, <1>2, <2>1 DEF SameFrames
<1>4. /\ hits = {} => ExitFunction(a0, o, c, x, f) = u
      /\ hits # {} => \E m : ExitFunction(a0, o, c, x, f) \in {Closed(b, m), Closed(p, m)}
  BY DEF ExitFunction
<1>5. IsSequence(frames)
  BY <1>1 DEF AnalyzerInv, ContextsInv
<1>6. Len(frames) \in Nat /\ DOMAIN frames = 1..Len(frames)
  BY <1>5, SequenceFacts
<1>7. hits # {} => pos \in 1..Len(frames)
  <2>1. hits \in SUBSET (1..Len(frames))
    BY <1>6
  <2>2. hits # {} => pos \in hits
    <3>. HIDE DEF hits
    <3>. QED
      BY <1>6, <2>1, LastPosition
  <2>. QED
    BY <2>1, <2>2
<1>. HIDE DEF a, b, k, p, u, ts, hits, pos
<1>8. ASSUME NEW v, AnalyzerInv(v), k \in DOMAIN v.ctx, Len(v.ctx[k].frames) = Len(frames),
             NEW m, hits # {}
      PROVE  AnalyzerInv(Closed(v, m))
  <2>. DEFINE w == FinalizeDownTo(v, k, pos, ts, o.seq, "")
  <2>1. pos \in 0..Len(v.ctx[k].frames)
    BY <1>6, <1>7, <1>8
  <2>2. AnalyzerInv(w) /\ StackIs(v, w, k, pos)
    BY <1>8, <2>1, FinalizeDownToInv
  <2>. HIDE DEF w
  <2>3. k \in DOMAIN w.ctx /\ Len(w.ctx[k].frames) = pos
    BY <1>8, <2>2 DEF StackIs
  <2>4. w.ctx[k].frames # <<>>
    <3>1. IsSequence(w.ctx[k].frames)
      BY <2>2, <2>3 DEF AnalyzerInv, ContextsInv
    <3>2. pos > 0
      BY <1>6, <1>7, <1>8
    <3>. QED
      BY <2>3, <3>1, <3>2, SequenceFacts
  <2>. QED
    BY <2>2, <2>3, <2>4, FinalizeTopInv DEF w
<1>9. hits # {} => \A m : AnalyzerInv(Closed(b, m)) /\ AnalyzerInv(Closed(p, m))
  BY <1>1, <1>3, <1>8
<1>. HIDE DEF Closed
<1>. QED
  BY <1>2, <1>4, <1>9

\* context_switch.
LEMMA SwitchContextInv ==
    ASSUME NEW a0, AnalyzerInv(a0), NEW o, NEW c, NEW prev, NEW next
    PROVE  AnalyzerInv(SwitchContext(a0, o, c, prev, next))
<1>. DEFINE a == AdvanceCore(a0, c, o.ts)
            p == PushFact(a, "context_switch_mismatch")
            q == MarkContext(MarkContext(p, a.cores[c].sched), prev)
<1>1. AnalyzerInv(a)
  BY AdvanceCoreInv
<1>2. AnalyzerInv(p)
  BY <1>1, PushFactInv
<1>3. AnalyzerInv(q)
  BY <1>2, MarkContextsInv DEF MarkContext
<1>4. PICK v \in {a, q} : SwitchContext(a0, o, c, prev, next) =
          Schedule(EnsureContext(v, next), c, next, EffectiveTs(a0, c, o.ts))
  BY DEF SwitchContext
<1>. HIDE DEF a, q
<1>5. AnalyzerInv(EnsureContext(v, next))
  BY <1>1, <1>3, EnsureContextInv
<1>. QED
  BY <1>4, <1>5, ScheduleInv

\* interrupt_enter nests one more activation.
LEMMA EnterInterruptInv ==
    ASSUME NEW a0, AnalyzerInv(a0), NEW o, NEW c, NEW irq, NEW act
    PROVE  AnalyzerInv(EnterInterrupt(a0, o, c, irq, act))
<1>. DEFINE a == AdvanceCore(a0, c, o.ts)
            k == Activation(a.serial, irq)
            Noted(cond, dups) ==
                TaintContexts(PushIf(cond, a, "duplicate_interrupt_activation"), dups)
            Made(cond, dups) == EnsureContext(Noted(cond, dups), k)
            Tainted(cond, dups) == TaintContexts(Made(cond, dups), {k})
            Entered(b) ==
                [b EXCEPT !.serial = b.serial + 1,
                          !.cores[c].ints = Append(b.cores[c].ints,
                                                   [irq |-> irq, act |-> act, key |-> k])]
<1>1. AnalyzerInv(a)
  BY AdvanceCoreInv
<1>. HIDE DEF a, k
<1>2. ASSUME NEW cond, NEW dups
      PROVE  AnalyzerInv(Made(cond, dups)) /\ AnalyzerInv(Tainted(cond, dups))
  <2>1. AnalyzerInv(PushIf(cond, a, "duplicate_interrupt_activation"))
    BY <1>1, PushIfInv
  <2>2. AnalyzerInv(Noted(cond, dups))
    BY <2>1, TaintContextsInv
  <2>. HIDE DEF Noted
  <2>3. AnalyzerInv(Made(cond, dups))
    BY <2>2, EnsureContextInv
  <2>. HIDE DEF Made
  <2>. QED
    BY <2>3, TaintContextsInv
<1>3. ASSUME NEW b, AnalyzerInv(b)
      PROVE  AnalyzerInv(Entered(b))
  <2>. DEFINE d == Entered(b)
  <2>1. /\ DOMAIN d = DOMAIN b
        /\ d.facts = b.facts /\ d.dropped = b.dropped /\ d.all = b.all /\ d.ctx = b.ctx
        /\ d.custom = b.custom /\ d.async = b.async
    BY <1>3 DEF AnalyzerInv
  <2>2. /\ DOMAIN d.cores = DOMAIN b.cores
        /\ \A e \in DOMAIN b.cores :
              /\ DOMAIN d.cores[e] = DOMAIN b.cores[e]
              /\ "ints" \in DOMAIN b.cores[e] =>
                    \/ d.cores[e].ints = b.cores[e].ints
                    \/ \E x : d.cores[e].ints = Append(b.cores[e].ints, x)
    BY <1>3 DEF AnalyzerInv
  <2>. HIDE DEF d
  <2>3. ASSUME NEW e \in Cores
        PROVE  /\ e \in DOMAIN d.cores /\ "ints" \in DOMAIN d.cores[e]
               /\ IsSequence(d.cores[e].ints)
    <3>1. /\ e \in DOMAIN b.cores /\ "ints" \in DOMAIN b.cores[e]
          /\ IsSequence(b.cores[e].ints)
      BY <1>3 DEF AnalyzerInv, CoresInv
    <3>2. \A x : IsSequence(Append(b.cores[e].ints, x))
      BY <3>1, SequenceOps
    <3>3. \/ d.cores[e].ints = b.cores[e].ints
          \/ \E x : d.cores[e].ints = Append(b.cores[e].ints, x)
      BY <2>2, <3>1
    <3>. QED
      BY <2>2, <3>1, <3>2, <3>3
  <2>4. CoresInv(d)
    BY <2>3 DEF CoresInv
  <2>. QED
    BY <1>3, <2>1, <2>4, ReplaceOthers DEF d
<1>4. \E cond, dups : EnterInterrupt(a0, o, c, irq, act) \in
          {Entered(Made(cond, dups)), Entered(Tainted(cond, dups))}
  BY DEF EnterInterrupt, a, k
<1>. HIDE DEF Made, Tainted, Entered
<1>. QED
  BY <1>2, <1>3, <1>4

\* interrupt_exit closes the activation and those nested in it, and retires them.
LEMMA ExitInterruptInv ==
    ASSUME NEW a0, AnalyzerInv(a0), NEW o, NEW c \in Cores, NEW irq, NEW act
    PROVE  AnalyzerInv(ExitInterrupt(a0, o, c, irq, act))
<1>. DEFINE a == AdvanceCore(a0, c, o.ts)
            ts == EffectiveTs(a0, c, o.ts)
            ints == a.cores[c].ints
            hits == {i \in DOMAIN ints : ints[i].act = act /\ ints[i].irq = irq}
            pos == Max(hits)
            removed == SubSeq(ints, pos, Len(ints))
            order == [i \in DOMAIN removed |-> removed[i].key]
            keys == {removed[i].key : i \in DOMAIN removed}
            marked == MarkContexts(PushFact(a, "mismatched_interrupt_exit"), keys)
            Closed(b) == CloseAll(b, order, ts, o.seq)
            Left(b, r) == [b EXCEPT !.cores[c].ints = SubSeq(b.cores[c].ints, 1, pos - 1),
                                    !.retired = r,
                                    !.ctx = [k \in DOMAIN b.ctx \ keys |-> b.ctx[k]]]
<1>1. AnalyzerInv(a)
  BY AdvanceCoreInv
<1>2. IsSequence(ints) /\ Len(ints) \in Nat /\ DOMAIN ints = 1..Len(ints)
  BY <1>1, SequenceFacts DEF AnalyzerInv, CoresInv
<1>3. /\ hits = {} => ExitInterrupt(a0, o, c, irq, act) =
                          PushFact(a, "unmatched_interrupt_exit")
      /\ hits # {} => \E r : ExitInterrupt(a0, o, c, irq, act) \in
                          {Left(Closed(a), r), Left(Closed(marked), r)}
  <2>1. ASSUME hits = {}
        PROVE  ExitInterrupt(a0, o, c, irq, act) = PushFact(a, "unmatched_interrupt_exit")
    BY <2>1 DEF ExitInterrupt
  <2>2. ASSUME hits # {}, pos # Len(ints)
        PROVE  \E r : ExitInterrupt(a0, o, c, irq, act) = Left(Closed(marked), r)
    BY <2>2 DEF ExitInterrupt
  <2>3. ASSUME hits # {}, pos = Len(ints)
        PROVE  \E r : ExitInterrupt(a0, o, c, irq, act) = Left(Closed(a), r)
    BY <2>3 DEF ExitInterrupt
  <2>. HIDE DEF Left, Closed, hits, pos, marked, a, ints
  <2>. QED
    BY <2>1, <2>2, <2>3
<1>4. AnalyzerInv(marked) /\ marked.cores = a.cores
  <2>. DEFINE p == PushFact(a, "mismatched_interrupt_exit")
  <2>1. AnalyzerInv(p) /\ p.cores = a.cores
    BY <1>1, PushFactInv DEF OnlyFacts
  <2>. HIDE DEF p
  <2>2. AnalyzerInv(MarkContexts(p, keys)) /\ SameFrames(p, MarkContexts(p, keys))
    BY <2>1, MarkContextsInv
  <2>. QED
    BY <2>1, <2>2 DEF SameFrames, SameOutside, p
<1>5. hits # {} => pos \in 1..Len(ints) /\ Len(order) \in Nat
  <2>. HIDE DEF a
  <2>1. hits \in SUBSET (1..Len(ints))
    BY <1>2
  <2>2. hits # {} => pos \in hits
    <3>. HIDE DEF hits, ints
    <3>. QED
      BY <1>2, <2>1, LastPosition
  <2>3. ASSUME hits # {} PROVE Len(order) \in Nat
    <3>1. pos \in 1..Len(ints)
      BY <2>1, <2>2, <2>3
    <3>. HIDE DEF pos, hits
    <3>2. removed \in Seq({ints[i] : i \in DOMAIN ints})
      <4>. HIDE DEF ints
      <4>1. ints \in Seq({ints[i] : i \in DOMAIN ints})
        BY <1>2, SequenceFacts
      <4>2. \A i \in pos..Len(ints) : ints[i] \in {ints[j] : j \in DOMAIN ints}
        BY <1>2, <3>1
      <4>. QED
        BY <1>2, <3>1, <4>1, <4>2
    <3>3. IsSequence(removed)
      BY <3>2, SequenceIntro
    <3>. HIDE DEF removed
    <3>4. order = [i \in DOMAIN removed |-> order[i]]
      OBVIOUS
    <3>. HIDE DEF order
    <3>. QED
      BY <3>3, <3>4, MapSequence, SequenceFacts
  <2>. QED
    BY <2>1, <2>2, <2>3
<1>6. AnalyzerInv(PushFact(a, "unmatched_interrupt_exit"))
  BY <1>1, PushFactInv
<1>. HIDE DEF a, ts, hits, pos, order, keys, marked
<1>7. ASSUME NEW b, AnalyzerInv(b), b.cores = a.cores, hits # {}, NEW r
      PROVE  AnalyzerInv(Left(Closed(b), r))
  <2>. DEFINE e == Closed(b)
              d == Left(e, r)
  <2>1. AnalyzerInv(e) /\ e.cores = a.cores
    BY <1>5, <1>7, CloseAllInv DEF SameOutside
  <2>. HIDE DEF e
  <2>2. /\ DOMAIN d = DOMAIN e
        /\ d.facts = e.facts /\ d.dropped = e.dropped /\ d.all = e.all
        /\ d.custom = e.custom /\ d.async = e.async
        /\ d.ctx = [k \in DOMAIN e.ctx \ keys |-> e.ctx[k]]
    BY <2>1 DEF AnalyzerInv
  <2>3. /\ DOMAIN d.cores = DOMAIN e.cores
        /\ \A x \in Cores :
              /\ DOMAIN d.cores[x] = DOMAIN e.cores[x]
              /\ d.cores[x].ints = IF x = c THEN SubSeq(ints, 1, pos - 1) ELSE e.cores[x].ints
    BY <2>1 DEF AnalyzerInv, CoresInv
  <2>4. IsSequence(SubSeq(ints, 1, pos - 1))
    <3>. HIDE DEF ints
    <3>1. pos - 1 \in 0..Len(ints)
      BY <1>2, <1>5, <1>7
    <3>. QED
      BY <1>2, <3>1, SequenceOps
  <2>5. IsFiniteSet(DOMAIN e.ctx \ keys)
    BY <2>1, FS_Difference DEF AnalyzerInv, ContextsInv
  <2>. HIDE DEF d, ints
  <2>6. CoresInv(d)
    BY <2>1, <2>3, <2>4 DEF AnalyzerInv, CoresInv
  <2>7. ContextsInv(d)
    BY <2>1, <2>2, <2>5 DEF AnalyzerInv, ContextsInv
  <2>8. AnalyzerInv(d)
    BY <2>1, <2>2, <2>6, <2>7 DEF AnalyzerInv, FactsInv
  <2>. QED
    BY <2>8 DEF d, e
<1>8. hits # {} => \A r : AnalyzerInv(Left(Closed(a), r)) /\ AnalyzerInv(Left(Closed(marked), r))
  BY <1>1, <1>4, <1>7
<1>. HIDE DEF Left, Closed
<1>. QED
  BY <1>3, <1>6, <1>8

\* trace_gap moves every known core to the end of the gap.
LEMMA TraceGapInv ==
    ASSUME NEW a0, AnalyzerInv(a0), NEW o, NEW duration, NEW severe
    PROVE  AnalyzerInv(TraceGap(a0, o, duration, severe))
<1>. DEFINE a == MarkAll(AdvanceAll(a0, o.ts))
            end == o.ts + duration
            cores == [c \in Cores |->
                         IF a.cores[c].last = NoTs THEN a.cores[c]
                         ELSE [a.cores[c] EXCEPT !.last = MaxOf(a.cores[c].last, end)]]
            Moved(m, p, l) == [a EXCEPT !.cores = cores, !.max = m, !.prog[o.src].ts = p,
                                        !.lost = l]
<1>1. AnalyzerInv(a)
  BY AdvanceAllInv, MarkContextsInv DEF MarkAll
<1>2. \E m, p, l : TraceGap(a0, o, duration, severe) =
          PushIf(severe, PushFact(Moved(m, p, l), "trace_gap"), "trace_overflow")
  <2>. DEFINE m == MaxOf(a.max, end)
              p == MaxOf(a.prog[o.src].ts, end)
              l == a.lost \union {<<o.src, o.ts, end>>}
  <2>1. TraceGap(a0, o, duration, severe) =
          PushIf(severe, PushFact(Moved(m, p, l), "trace_gap"), "trace_overflow")
    BY DEF TraceGap
  <2>. HIDE DEF m, p, l, Moved
  <2>. QED
    BY <2>1
<1>. HIDE DEF a
<1>3. ASSUME NEW m, NEW p, NEW l
      PROVE  AnalyzerInv(Moved(m, p, l))
  <2>. DEFINE d == Moved(m, p, l)
  <2>1. /\ DOMAIN d = DOMAIN a /\ d.cores = cores
        /\ d.facts = a.facts /\ d.dropped = a.dropped /\ d.all = a.all /\ d.ctx = a.ctx
        /\ d.custom = a.custom /\ d.async = a.async
    BY <1>1 DEF AnalyzerInv
  <2>. HIDE DEF d
  <2>2. CoresInv(d)
    BY <1>1, <2>1 DEF AnalyzerInv, CoresInv
  <2>. QED
    BY <1>1, <2>1, <2>2, ReplaceOthers DEF d
<1>. HIDE DEF Moved
<1>4. \A m, p, l :
        AnalyzerInv(PushIf(severe, PushFact(Moved(m, p, l), "trace_gap"), "trace_overflow"))
  BY <1>3, PushFactInv, PushIfInv
<1>. QED
  BY <1>2, <1>4

\* Custom and asynchronous spans stay finitely many.
LEMMA ReplaceOpen ==
    ASSUME NEW a, AnalyzerInv(a), NEW open \in {"custom", "async"}, NEW ids, IsFiniteSet(ids)
    PROVE  AnalyzerInv([a EXCEPT ![open] = ids])
<1>. DEFINE d == [a EXCEPT ![open] = ids]
<1>1. /\ DOMAIN d = DOMAIN a
      /\ d.facts = a.facts /\ d.dropped = a.dropped /\ d.all = a.all /\ d.ctx = a.ctx
      /\ d.cores = a.cores
      /\ d.custom \in {a.custom, ids} /\ d.async \in {a.async, ids}
  BY DEF AnalyzerInv
<1>. HIDE DEF d
<1>2. AnalyzerInv(d)
  BY <1>1 DEF AnalyzerInv, FactsInv, CoresInv, ContextsInv
<1>. QED
  BY <1>2 DEF d

\* Beginning and ending a custom or asynchronous span.
LEMMA SpansInv ==
    ASSUME NEW a, AnalyzerInv(a), NEW open \in {"custom", "async"}, NEW code, NEW id
    PROVE  /\ AnalyzerInv(BeginSpan(a, open, code, id))
           /\ AnalyzerInv(EndSpan(a, open, code, id))
<1>1. IsFiniteSet(a[open])
  BY DEF AnalyzerInv
<1>2. IsFiniteSet(a[open] \union {id}) /\ IsFiniteSet(a[open] \ {id})
  BY <1>1, FS_AddElement, FS_RemoveElement
<1>3. /\ AnalyzerInv([a EXCEPT ![open] = a[open] \union {id}])
      /\ AnalyzerInv([a EXCEPT ![open] = a[open] \ {id}])
  BY <1>2, ReplaceOpen
<1>4. \A fact : AnalyzerInv(PushFact(a, fact))
  BY PushFactInv
<1>5. BeginSpan(a, open, code, id) \in
          {PushFact(a, code), PushFact(a, "open_custom_span_limit_exceeded"),
           [a EXCEPT ![open] = a[open] \union {id}]}
  BY DEF BeginSpan
<1>6. EndSpan(a, open, code, id) \in {PushFact(a, code), [a EXCEPT ![open] = a[open] \ {id}]}
  BY DEF EndSpan
<1>. QED
  BY <1>3, <1>4, <1>5, <1>6

\* finish pushes a fact for everything still open and closes it.
LEMMA FinishAnalysisInv ==
    ASSUME NEW a0, AnalyzerInv(a0), NEW ts
    PROVE  AnalyzerInv(FinishAnalysis(a0, ts))
<1>. DEFINE a == AdvanceAll(a0, ts)
            close == MaxOf(a.max, ts)
            KeysOn(c) == {a.cores[c].ints[i].key : i \in DOMAIN a.cores[c].ints}
            pending == UNION {KeysOn(c) : c \in Cores}
            pushed == PushFacts(a, "unclosed_interrupt", Cardinality(pending))
            noted == MarkContexts(pushed, pending)
            closed == CloseAll(noted, SetToSeq(DOMAIN noted.ctx), close, NoTs)
            spans == PushFacts(closed, "unclosed_span", Cardinality(closed.custom))
            asyncs == PushFacts(spans, "unclosed_async", Cardinality(spans.async))
<1>1. AnalyzerInv(a)
  BY AdvanceAllInv
<1>2. FinishAnalysis(a0, ts) = [asyncs EXCEPT !.custom = {}, !.async = {}]
  BY DEF FinishAnalysis
<1>. HIDE DEF a, close
<1>3. IsFiniteSet(pending)
  <2>1. ASSUME NEW c \in Cores
        PROVE  IsFiniteSet(KeysOn(c))
    <3>. DEFINE ints == a.cores[c].ints
                f == [i \in DOMAIN ints |-> ints[i].key]
    <3>1. Len(ints) \in Nat /\ DOMAIN ints = 1..Len(ints)
      BY <1>1, SequenceFacts DEF AnalyzerInv, CoresInv
    <3>. HIDE DEF ints
    <3>2. IsFiniteSet(DOMAIN ints)
      BY <3>1, FS_Interval
    <3>3. KeysOn(c) = {f[i] : i \in DOMAIN ints}
      BY DEF ints
    <3>4. IsFiniteSet({f[i] : i \in DOMAIN ints})
      BY <3>2, ImageFinite
    <3>. QED
      BY <3>3, <3>4
  <2>. DEFINE g == [c \in Cores |-> KeysOn(c)]
  <2>2. IsFiniteSet(Cores)
    BY AnalysisAssumption, FS_Interval DEF Cores
  <2>. HIDE DEF KeysOn
  <2>3. IsFiniteSet({g[c] : c \in Cores})
    BY <2>2, ImageFinite
  <2>4. {g[c] : c \in Cores} = {KeysOn(c) : c \in Cores}
    OBVIOUS
  <2>5. \A T \in {KeysOn(c) : c \in Cores} : IsFiniteSet(T)
    BY <2>1
  <2>. QED
    BY <2>3, <2>4, <2>5, FS_UNION
<1>4. AnalyzerInv(pushed)
  <2>1. Cardinality(pending) \in Nat
    BY <1>3, FS_CardinalityType
  <2>. HIDE DEF pending
  <2>. QED
    BY <1>1, <2>1, PushFactsInv
<1>. HIDE DEF pushed, pending
<1>5. AnalyzerInv(noted)
  BY <1>4, MarkContextsInv
<1>. HIDE DEF noted
<1>6. AnalyzerInv(closed)
  <2>1. Len(SetToSeq(DOMAIN noted.ctx)) \in Nat
    BY <1>5, ListedSet DEF AnalyzerInv, ContextsInv
  <2>. QED
    BY <1>5, <2>1, CloseAllInv
<1>. HIDE DEF closed
<1>7. AnalyzerInv(spans)
  <2>1. Cardinality(closed.custom) \in Nat
    BY <1>6, FS_CardinalityType DEF AnalyzerInv
  <2>. QED
    BY <1>6, <2>1, PushFactsInv
<1>. HIDE DEF spans
<1>8. AnalyzerInv(asyncs)
  <2>1. Cardinality(spans.async) \in Nat
    BY <1>7, FS_CardinalityType DEF AnalyzerInv
  <2>. QED
    BY <1>7, <2>1, PushFactsInv
<1>. HIDE DEF asyncs
<1>9. AnalyzerInv([asyncs EXCEPT !.custom = {}, !.async = {}])
  <2>. DEFINE d == [asyncs EXCEPT !.custom = {}, !.async = {}]
  <2>1. /\ DOMAIN d = DOMAIN asyncs
        /\ d.facts = asyncs.facts /\ d.dropped = asyncs.dropped /\ d.all = asyncs.all
        /\ d.ctx = asyncs.ctx /\ d.cores = asyncs.cores
        /\ d.custom = {} /\ d.async = {}
    BY <1>8 DEF AnalyzerInv
  <2>. HIDE DEF d
  <2>2. AnalyzerInv(d)
    BY <1>8, <2>1, FS_EmptySet DEF AnalyzerInv, FactsInv, CoresInv, ContextsInv
  <2>. QED
    BY <2>2 DEF d
<1>. QED
  BY <1>2, <1>9

-----------------------------------------------------------------------------
(* The policy *)

\* The worst of a set of levels is one of them, or Exact, and none exceeds it.
LEMMA WorstFacts ==
    ASSUME NEW S \in SUBSET (0..3)
    PROVE  /\ Worst(S) \in S \cup {0} /\ Worst(S) \in 0..3
           /\ \A x \in S : x <= Worst(S)
<1>. DEFINE T == {3 - x : x \in S \cup {0}}
<1>1. T \in SUBSET Nat /\ T # {}
  OBVIOUS
<1>2. PICK m \in T : \A k \in T : m <= k
  <2>. HIDE DEF T
  <2>. QED
    BY <1>1, LeastNumber
<1>3. PICK w \in S \cup {0} : m = 3 - w
  BY <1>2
<1>4. \A y \in S \cup {0} : y <= w
  BY <1>2, <1>3
<1>5. Worst(S) \in S \cup {0} /\ \A y \in S : y <= Worst(S)
  <2>1. \E x \in S \cup {0} : \A y \in S : y <= x
    BY <1>3, <1>4
  <2>. QED
    BY <2>1 DEF Worst
<1>. HIDE DEF T
<1>6. \A x \in S \cup {0} : x \in 0..3
  OBVIOUS
<1>. QED
  BY <1>5, <1>6

\* Nothing is worse than a fact nobody knows, which the sentinel is.
LEMMA SentinelWorst ==
    /\ RuleVerdict("diagnostics_truncated") = Invalid
    /\ \A m \in Metrics : Impact("diagnostics_truncated", m) = Unavailable
    /\ \A code : RuleVerdict(code) \in 0..3 /\ RuleVerdict(code) <= Invalid
    /\ \A code, m : Impact(code, m) \in 0..3
BY DEF RuleVerdict, Impact, ResourceWarnings, ResourceErrors, FunctionCodes, InterruptCodes,
       ContextCodes, SpanCodes, FunctionMetrics, Metrics, Invalid, Degraded, Unavailable,
       Inferred, Exact

\* With the sentinel on the list, verdict and support are as low as they get.
LEMMA PolicyMonotone ==
    ASSUME NEW kept, NEW all, kept = all \/ "diagnostics_truncated" \in kept
    PROVE  /\ Verdict(kept) >= Verdict(all)
           /\ \A m \in Metrics : \A cap : Declared(cap, m) \in 0..3 =>
                  Support(cap, kept, m) >= Support(cap, all, m)
<1>1. Verdict(kept) >= Verdict(all)
  <2>. DEFINE K == {RuleVerdict(c) : c \in kept}
              A == {RuleVerdict(c) : c \in all}
  <2>1. K \in SUBSET (0..3) /\ A \in SUBSET (0..3) /\ \A x \in A : x <= Invalid
    BY SentinelWorst
  <2>2. "diagnostics_truncated" \in kept => Invalid \in K
    BY SentinelWorst
  <2>3. Verdict(kept) = Worst(K) /\ Verdict(all) = Worst(A)
    BY DEF Verdict
  <2>4. kept = all => K = A
    OBVIOUS
  <2>. HIDE DEF K, A
  <2>5. Worst(A) \in 0..3 /\ Worst(K) \in 0..3 /\ Worst(A) <= Invalid
    BY <2>1, WorstFacts DEF Invalid
  <2>6. Invalid \in K => Invalid <= Worst(K)
    BY <2>1, WorstFacts
  <2>. QED
    BY <2>2, <2>3, <2>4, <2>5, <2>6 DEF Invalid
<1>2. ASSUME NEW m \in Metrics, NEW cap, Declared(cap, m) \in 0..3
      PROVE  Support(cap, kept, m) >= Support(cap, all, m)
  <2>. DEFINE K == {Impact(c, m) : c \in kept}
              A == {Impact(c, m) : c \in all}
  <2>1. K \in SUBSET (0..3) /\ A \in SUBSET (0..3)
    BY SentinelWorst
  <2>2. "diagnostics_truncated" \in kept => Unavailable \in K
    BY SentinelWorst
  <2>3. /\ Support(cap, kept, m) = Lower(Declared(cap, m), Worst(K))
        /\ Support(cap, all, m) = Lower(Declared(cap, m), Worst(A))
    BY DEF Support
  <2>4. kept = all => K = A
    OBVIOUS
  <2>. HIDE DEF K, A
  <2>5. Worst(A) \in 0..3 /\ Worst(K) \in 0..3
    BY <2>1, WorstFacts
  <2>6. Unavailable \in K => Unavailable <= Worst(K)
    BY <2>1, WorstFacts
  <2>. QED
    BY <1>2, <2>2, <2>3, <2>4, <2>5, <2>6 DEF Unavailable, Lower
<1>. QED
  BY <1>1, <1>2

\* What the capabilities declare for a metric is a level.
LEMMA DeclaredLevels ==
    ASSUME NEW m \in Metrics, NEW level \in {Exact, Unavailable}
    PROVE  Declared([f \in Families |-> level], m) \in 0..3
<1>. DEFINE cap == [f \in Families |-> level]
<1>1. \A f \in Families : cap[f] = level
  OBVIOUS
<1>2. \A S \in SUBSET (0..3) : Worst(S) \in 0..3
  BY WorstFacts
<1>3. /\ cap["function_events"] = level /\ cap["context_switches"] = level
      /\ cap["interrupt_events"] = level /\ cap["samples"] = level
      /\ cap["resource_counters"] = level
  BY <1>1 DEF Families
<1>. HIDE DEF cap
<1>4. Declared(cap, m) \in 0..3
  BY <1>2, <1>3 DEF Declared, Metrics, Exact, Inferred, Statistical, Unavailable
<1>. QED
  BY <1>4 DEF cap

-----------------------------------------------------------------------------
(* The theorems *)

StreamTyped == stream.mix \in Mixes

\* A new analyzer has an empty list and has lost nothing.
LEMMA AnalyzerStarts == AnalysisInit => AnalyzerInv(an) /\ StreamTyped
<1>. SUFFICES ASSUME AnalysisInit PROVE AnalyzerInv(an) /\ StreamTyped
  OBVIOUS
<1>1. an = AnalyzerInit /\ StreamTyped
  BY DEF AnalysisInit, StreamTyped
<1>2. IsSequence(<<>>) /\ Len(<<>>) = 0 /\ ToSet(<<>>) = {}
  <2>1. \A S : <<>> \in Seq(S)
    BY EmptySeq
  <2>2. IsSequence(<<>>)
    BY <2>1, SequenceIntro
  <2>3. Len(<<>>) = 0
    OBVIOUS
  <2>4. ToSet(<<>>) = {}
    BY DEF ToSet
  <2>. QED
    BY <2>2, <2>3, <2>4
<1>3. FactsInv(an)
  BY <1>1, <1>2, AnalysisAssumption DEF FactsInv, AnalyzerInit
<1>4. CoresInv(an)
  BY <1>1, <1>2 DEF CoresInv, AnalyzerInit
<1>5. ContextsInv(an)
  BY <1>1, FS_EmptySet DEF ContextsInv, AnalyzerInit
<1>6. /\ {"cores", "ctx", "facts", "dropped", "all", "custom", "async"} \subseteq DOMAIN an
      /\ IsFiniteSet(an.custom) /\ IsFiniteSet(an.async)
  BY <1>1, FS_EmptySet DEF AnalyzerInit
<1>. QED
  BY <1>1, <1>3, <1>4, <1>5, <1>6 DEF AnalyzerInv

\* No observation, and not the end of the stream, breaks it.
LEMMA AnalyzerStep ==
    AnalyzerInv(an) /\ StreamTyped /\ [AnalysisNext]_analysisVars =>
        AnalyzerInv(an)' /\ StreamTyped'
<1>. SUFFICES ASSUME AnalyzerInv(an), StreamTyped, [AnalysisNext]_analysisVars
              PROVE  AnalyzerInv(an') /\ StreamTyped'
  OBVIOUS
<1>1. \A o : AnalyzerInv(Ordered(o))
  BY CheckSourceOrderInv DEF Ordered
<1>2. ASSUME NEW kind, NEW o, NEW odd, NEW after, Ingest(kind, o, odd, after),
             AnalyzerInv(after)
      PROVE  AnalyzerInv(an') /\ StreamTyped'
  BY <1>2 DEF Ingest, StreamTyped
<1>3. \A c \in stream.mix.cores : c \in Cores
  BY AnalysisAssumption DEF StreamTyped
<1>4. ASSUME NEW o, FunctionEnter(o) PROVE AnalyzerInv(an') /\ StreamTyped'
  BY <1>1, <1>2, <1>4, EnterFunctionInv DEF FunctionEnter
<1>5. ASSUME NEW o, FunctionExit(o) PROVE AnalyzerInv(an') /\ StreamTyped'
  BY <1>1, <1>2, <1>5, ExitFunctionInv DEF FunctionExit
<1>6. ASSUME NEW o, ContextSwitch(o) PROVE AnalyzerInv(an') /\ StreamTyped'
  BY <1>1, <1>2, <1>6, SwitchContextInv DEF ContextSwitch
<1>7. ASSUME NEW o, InterruptEnter(o) PROVE AnalyzerInv(an') /\ StreamTyped'
  BY <1>1, <1>2, <1>7, EnterInterruptInv DEF InterruptEnter
<1>8. ASSUME NEW o, InterruptExit(o) PROVE AnalyzerInv(an') /\ StreamTyped'
  BY <1>1, <1>2, <1>3, <1>8, ExitInterruptInv DEF InterruptExit
<1>9. ASSUME NEW o, Tick(o) PROVE AnalyzerInv(an') /\ StreamTyped'
  BY <1>1, <1>2, <1>9, AdvanceCoreInv DEF Tick
<1>10. ASSUME NEW o, Gap(o) PROVE AnalyzerInv(an') /\ StreamTyped'
  BY <1>1, <1>2, <1>10, TraceGapInv DEF Gap
<1>11. ASSUME NEW o, SpanBegin(o) PROVE AnalyzerInv(an') /\ StreamTyped'
  BY <1>1, <1>2, <1>11, SpansInv DEF SpanBegin
<1>12. ASSUME NEW o, SpanEnd(o) PROVE AnalyzerInv(an') /\ StreamTyped'
  BY <1>1, <1>2, <1>12, SpansInv DEF SpanEnd
<1>13. CASE Finish
  BY <1>13, FinishAnalysisInv DEF Finish, StreamTyped
<1>14. CASE UNCHANGED analysisVars
  BY <1>14 DEF analysisVars, StreamTyped
<1>. QED
  BY <1>4, <1>5, <1>6, <1>7, <1>8, <1>9, <1>10, <1>11, <1>12, <1>13, <1>14 DEF AnalysisNext

\* After every observation the analyzer's list of facts (store_health_observation)
\* is within its limit and either holds every fact that was pushed or ends in the
\* sentinel, whatever the loops of function_exit, interrupt_exit, trace_gap and
\* finish push; cores, contexts and open spans are well formed.
THEOREM AnalyzerInvariant == AnalysisSpec => []AnalyzerInv(an)
<1>1. AnalysisInit => AnalyzerInv(an) /\ StreamTyped
  BY AnalyzerStarts
<1>2. AnalyzerInv(an) /\ StreamTyped /\ [AnalysisNext]_analysisVars =>
          AnalyzerInv(an)' /\ StreamTyped'
  BY AnalyzerStep
<1>. QED
  BY <1>1, <1>2, PTL DEF AnalysisSpec

\* The invariant and the policy together: no report looks better for a short list.
LEMMA FactsAreHonest == AnalyzerInv(an) => TruncationNeverFlatters
<1>. SUFFICES ASSUME AnalyzerInv(an) PROVE TruncationNeverFlatters
  OBVIOUS
<1>1. Kept(an) = an.all \/ "diagnostics_truncated" \in Kept(an)
  BY DEF AnalyzerInv, FactsInv, Kept
<1>2. Len(an.facts) <= MaxFacts
  BY DEF AnalyzerInv, FactsInv
<1>. QED
  BY <1>1, <1>2, PolicyMonotone, DeclaredLevels DEF TruncationNeverFlatters

\* For every stream, every limit of the list and any number of cores, tasks and
\* interrupts: the bounded list never makes verdict or metric support look better
\* than the full list of facts would (store_health_observation, HealthPolicy).
THEOREM TruncationAlwaysHonest == AnalysisSpec => []TruncationNeverFlatters
BY AnalyzerInvariant, FactsAreHonest, PTL
=============================================================================
