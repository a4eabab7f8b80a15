---------------------------- MODULE StackSampling ----------------------------
(***************************************************************************)
(* Intrusive stack sampling: the sidecar that halts the target, walks its   *)
(* frames and lets it run again, sample after sample, and the journal from  *)
(* which a one-shot recovery process decides whether a halt is the          *)
(* sidecar's own. The target may also be stopped by someone else, and such  *)
(* a stop is not the sidecar's to undo.                                     *)
(*                                                                         *)
(* The names that every component has carry a prefix here: CaptureProofs    *)
(* extends this module beside another.                                      *)
(***************************************************************************)
EXTENDS Naturals, Sequences, SequencesExt, FiniteSets

CONSTANTS Txs,         \* transaction identifiers, taken in order
          Sessions,
          MaxSamples,  \* max_samples of the request
          MaxFaults    \* bound on injected failures and crashes

ASSUME StackAssumption == Txs \subseteq Nat \ {0} /\ MaxSamples \in Nat /\ MaxFaults \in Nat

Nobody == "none"

VARIABLES
  journal,    \* events of each transaction, in sequence order
  residue,    \* a temporary file was left in the journal directory
  marker,     \* stack-journal-failure.json exists
  attempt,    \* Sessions whose one-use capture attempt is spent
  owner,      \* the Session each transaction was captured for
  staged,     \* transactions whose samples were exported
  target,     \* running, halted by the sidecar, or stopped by someone else
  pc, tx,     \* step of the running call and its transaction
  owns,       \* owns_halt of the capture
  durable,    \* the cleanup intent of the finally clause was appended
  behind,     \* the in-memory sequence is behind a file that was linked
  taken,      \* samples attempted
  faults

disk == <<journal, residue, marker, attempt, owner, staged>>
call == <<pc, tx, owns, durable, behind, taken>>
stackVars == <<disk, target, call, faults>>

-----------------------------------------------------------------------------
(* The journal.                                                            *)

Cycle == <<"break_intent", "break_observed", "go_intent", "go_observed">>

Events == Range(Cycle) \cup
          {"capture_intent", "capture_observed", "cleanup_intent", "recovery_intent",
           "cleanup_observed", "cleanup_failed", "recovery_observed",
           "export_intent", "export_observed"}

Intents == {"cleanup_intent", "recovery_intent"}

\* what _validate accepts after each event
Allowed == [e \in Events |->
    CASE e \in {"capture_intent", "go_observed"} -> {"break_intent", "capture_observed"} \cup Intents
      [] e = "break_intent" -> {"break_observed"} \cup Intents
      [] e = "break_observed" -> {"go_intent"} \cup Intents
      [] e = "go_intent" -> {"go_observed"} \cup Intents
      [] e = "capture_observed" -> Intents
      [] e = "cleanup_intent" -> {"cleanup_observed", "cleanup_failed"}
      [] e = "recovery_intent" -> {"recovery_observed", "cleanup_failed"}
      [] e = "cleanup_failed" -> {"recovery_intent"}
      [] e = "cleanup_observed" -> {"export_intent"}
      [] e = "export_intent" -> {"export_observed"}
      [] OTHER -> {}]

ValidOrder(j) ==
    /\ j[1] = "capture_intent"
    /\ \A i \in 1..Len(j) - 1 : j[i + 1] \in Allowed[j[i]]

Recorded == {t \in Txs : journal[t] # <<>>}

\* _load: nothing but event files, every transaction in a valid order
JournalLoads == ~residue /\ \A t \in Recorded : ValidOrder(journal[t])

\* the events that prove that the target ran again
Resumed == {"go_observed", "cleanup_observed", "recovery_observed"}

\* a Break was intended and no later event proves that the target ran again
OwnsHalt(j) ==
    \E i \in DOMAIN j :
        /\ j[i] = "break_intent"
        /\ \A k \in DOMAIN j : k > i => j[k] \notin Resumed

Halting == {t \in Txs : OwnsHalt(journal[t])}

Fault == faults < MaxFaults /\ faults' = faults + 1

Linked(e) == ~behind /\ journal' = [journal EXCEPT ![tx] = Append(@, e)]

Appended(e) == Linked(e) /\ UNCHANGED <<residue, faults>>

\* an append fails before or after its file is linked
AppendFails(e) ==
    \/ (IF behind THEN UNCHANGED faults ELSE Fault) /\ UNCHANGED <<journal, residue, behind>>
    \/ Linked(e) /\ Fault /\ residue' \in {residue, TRUE} /\ behind' = TRUE

MarkFailure == marker' \in {marker, TRUE}

-----------------------------------------------------------------------------
(* The target. Break and Go may take effect although the call failed.       *)

BreakDone == target' = "halted" /\ UNCHANGED faults

BreakFails == Fault /\ target' \in {target, "halted"}

GoDone == target' = "running" /\ UNCHANGED faults

GoFails == Fault /\ target' \in {target, "running"}

-----------------------------------------------------------------------------
(* The capture.                                                            *)

StackInit ==
    /\ journal = [t \in Txs |-> <<>>]
    /\ residue = FALSE /\ marker = FALSE
    /\ attempt = {}
    /\ owner = [t \in Txs |-> Nobody]
    /\ staged = {}
    /\ target = "running"
    /\ pc = "idle" /\ tx = 0 /\ owns = FALSE /\ durable = FALSE /\ behind = FALSE /\ taken = 0
    /\ faults = 0

Goto(step) == pc' = step /\ UNCHANGED <<tx, owns, durable, taken>>

Reset == pc' = "idle" /\ tx' = 0 /\ owns' = FALSE /\ durable' = FALSE /\ taken' = 0

Return == Reset /\ behind' = FALSE

\* StackSessionLease: the Session exported nothing and its attempt is not spent
MayCapture(s) == s \notin attempt /\ \A t \in staged : owner[t] # s

\* mutant: an unfinished halt does not keep the next capture away
OnlyMarkerBlocks == ~marker

\* require_recovered of a capture, which is never authorized to recover
NothingPending == ~marker /\ Halting = {}

\* capture and the head of _capture_leased: the attempt is spent for good
\* before the first event
BeginCapture(s) ==
    /\ pc = "idle" /\ MayCapture(s)
    /\ JournalLoads /\ NothingPending
    /\ target = "running"
    /\ attempt' = attempt \cup {s}
    /\ \E t \in Txs \ {u \in Txs : owner[u] # Nobody} :
         /\ \A u \in Txs : owner[u] = Nobody => t <= u
         /\ tx' = t
         /\ owner' = [owner EXCEPT ![t] = s]
    /\ pc' = "capture_intent" /\ behind' = FALSE
    /\ UNCHANGED <<journal, residue, marker, staged, target, owns, durable, taken, faults>>

\* before the try block: a failure is not marked and nothing is cleaned up
CaptureIntent ==
    /\ pc = "capture_intent"
    /\ \/ Appended("capture_intent") /\ Goto("loop") /\ UNCHANGED behind
       \/ AppendFails("capture_intent") /\ Reset
    /\ UNCHANGED <<marker, attempt, owner, staged, target>>

\* an append inside the try block
TryAppend(e, next) ==
    \/ Appended(e) /\ Goto(next) /\ UNCHANGED <<marker, behind>>
    \/ AppendFails(e) /\ Goto("f_check") /\ MarkFailure

\* a target that stopped on its own is refused before the Break is intended
BreakIntent ==
    /\ pc = "loop" /\ taken < MaxSamples /\ target = "running"
    /\ \/ /\ Appended("break_intent")
          /\ pc' = "break" /\ taken' = taken + 1
          /\ UNCHANGED <<marker, tx, owns, durable, behind>>
       \/ AppendFails("break_intent") /\ Goto("f_check") /\ MarkFailure
    /\ UNCHANGED <<attempt, owner, staged, target>>

\* cancellation, or an exception of a step that only reads
Cancel ==
    /\ pc \in {"loop", "break", "frames", "cleanup_intent"}
    /\ Fault
    /\ Goto("f_check")
    /\ UNCHANGED <<disk, target, behind>>

\* ownership is set before the call, whose answer may be lost
Break ==
    /\ pc = "break"
    /\ owns' = TRUE
    /\ \/ BreakDone /\ pc' = "break_observed"
       \/ BreakFails /\ pc' = "f_check"
    /\ UNCHANGED <<disk, tx, durable, behind, taken>>

BreakObserved ==
    /\ pc = "break_observed" /\ TryAppend("break_observed", "frames")
    /\ UNCHANGED <<attempt, owner, staged, target>>

Frames ==
    /\ pc = "frames" /\ Goto("go_intent")
    /\ UNCHANGED <<disk, target, behind, faults>>

GoIntent ==
    /\ pc = "go_intent" /\ TryAppend("go_intent", "go")
    /\ UNCHANGED <<attempt, owner, staged, target>>

\* once the target runs a later failure must not lead to another Go
Go ==
    /\ pc = "go"
    /\ \/ GoDone /\ owns' = FALSE /\ pc' = "go_observed"
       \/ GoFails /\ UNCHANGED owns /\ pc' = "f_check"
    /\ UNCHANGED <<disk, tx, durable, behind, taken>>

GoObserved ==
    /\ pc = "go_observed" /\ TryAppend("go_observed", "loop")
    /\ UNCHANGED <<attempt, owner, staged, target>>

\* enough samples, or the duration is over
CaptureObserved ==
    /\ pc = "loop" /\ TryAppend("capture_observed", "cleanup_intent")
    /\ UNCHANGED <<attempt, owner, staged, target>>

CleanupIntent ==
    /\ pc = "cleanup_intent" /\ target = "running"
    /\ TryAppend("cleanup_intent", "cleanup_observed")
    /\ UNCHANGED <<attempt, owner, staged, target>>

CleanupObserved ==
    /\ pc = "cleanup_observed" /\ TryAppend("cleanup_observed", "export_intent")
    /\ UNCHANGED <<attempt, owner, staged, target>>

\* the target was found stopped by someone else
StoppedElsewhere ==
    /\ pc \in {"loop", "cleanup_intent"} /\ target # "running"
    /\ Goto("f_check")
    /\ UNCHANGED <<disk, target, behind, faults>>

\* export: an append that fails is marked, the samples may stay staged
Export ==
    /\ pc \in {"export_intent", "publish", "export_observed"}
    /\ \/ /\ pc = "export_intent" /\ Appended(pc) /\ Goto("publish")
          /\ UNCHANGED <<marker, staged, behind>>
       \/ /\ pc = "publish" /\ staged' = staged \cup {tx} /\ Goto("export_observed")
          /\ UNCHANGED <<journal, residue, marker, behind, faults>>
       \/ /\ pc = "export_observed" /\ Appended(pc) /\ Return
          /\ UNCHANGED <<marker, staged>>
       \/ pc # "publish" /\ AppendFails(pc) /\ Reset /\ MarkFailure /\ UNCHANGED staged
       \/ /\ pc # "export_observed" /\ Fault /\ Return
          /\ UNCHANGED <<journal, residue, marker, staged>>
    /\ UNCHANGED <<attempt, owner, target>>

-----------------------------------------------------------------------------
(* The finally clause of a capture that did not restore the target itself.  *)

\* a stop that is not owned is left alone, and nothing is journaled
FinallyCheck ==
    /\ pc = "f_check"
    /\ \/ (owns \/ target = "running") /\ Goto("f_intent") /\ UNCHANGED <<behind, faults>>
       \/ ~owns /\ target # "running" /\ Return /\ UNCHANGED faults
       \/ ~owns /\ Fault /\ Return \* the state is unreadable
    /\ UNCHANGED <<disk, target>>

\* the Go that follows is more important than the journal
FinallyIntent ==
    /\ pc = "f_intent" /\ pc' = "f_go"
    /\ \/ Appended("cleanup_intent") /\ durable' = TRUE /\ UNCHANGED behind
       \/ AppendFails("cleanup_intent") /\ durable' = FALSE
    /\ UNCHANGED <<marker, attempt, owner, staged, target, tx, owns, taken>>

\* mutant: Go is issued whether or not the halt is owned
GoAnyway ==
    /\ pc = "f_go" /\ GoDone
    /\ Goto(IF durable THEN "f_observed" ELSE "f_marked")
    /\ UNCHANGED <<disk, behind>>

FinallyGo ==
    /\ pc = "f_go"
    /\ \/ owns /\ GoDone /\ Goto(IF durable THEN "f_observed" ELSE "f_marked")
       \/ owns /\ GoFails /\ Goto("f_failed")
       \/ /\ ~owns /\ UNCHANGED <<target, faults>>
          /\ Goto(IF target # "running" THEN "f_failed" ELSE IF durable THEN "f_observed" ELSE "f_marked")
    /\ UNCHANGED <<disk, behind>>

FinallyObserved ==
    /\ pc = "f_observed"
    /\ \/ Appended("cleanup_observed") /\ Return
       \/ AppendFails("cleanup_observed") /\ Goto("f_failed")
    /\ UNCHANGED <<marker, attempt, owner, staged, target>>

\* cleanup_failed is appended whether or not the intent was
FinallyFailed ==
    /\ pc = "f_failed"
    /\ \/ Appended("cleanup_failed") /\ Goto("f_marked") /\ UNCHANGED behind
       \/ AppendFails("cleanup_failed") /\ Goto("f_marked")
    /\ UNCHANGED <<marker, attempt, owner, staged, target>>

FinallyMarked ==
    /\ pc = "f_marked" /\ MarkFailure /\ Return
    /\ UNCHANGED <<journal, residue, attempt, owner, staged, target, faults>>

-----------------------------------------------------------------------------
(* recover_only: a process of its own that starts no capture.               *)

RecoverBegin ==
    /\ pc = "idle" /\ JournalLoads
    /\ pc' = "recover" /\ behind' = FALSE
    /\ UNCHANGED <<disk, target, tx, owns, durable, taken, faults>>

\* an unmatched Break gets a recovery intent unless a cleanup was already begun
RecoverIntent(t) ==
    /\ pc = "recover" /\ t \in Halting
    /\ tx' = t
    /\ pc' = IF Last(journal[t]) \in Intents THEN "r_go" ELSE "r_intent"
    /\ UNCHANGED <<disk, target, owns, durable, behind, taken, faults>>

RecoverAppend ==
    /\ pc = "r_intent"
    /\ \/ Appended("recovery_intent") /\ Goto("r_go") /\ UNCHANGED behind
       \/ AppendFails("recovery_intent") /\ Reset
    /\ UNCHANGED <<marker, attempt, owner, staged, target>>

\* Go only if the target does not run; it has to run afterwards
RecoverGo ==
    /\ pc = "r_go"
    /\ \/ GoDone /\ Goto("r_observed") /\ UNCHANGED <<marker, behind>>
       \/ GoFails /\ MarkFailure /\ Return
    /\ UNCHANGED <<journal, residue, attempt, owner, staged>>

RecoverObserved ==
    /\ pc = "r_observed"
    /\ \E e \in {"cleanup_observed", "recovery_observed"} :
         /\ e = "cleanup_observed" <=> Last(journal[tx]) = "cleanup_intent"
         /\ \/ Appended(e) /\ Goto("recover") /\ UNCHANGED behind
            \/ AppendFails(e) /\ Reset
    /\ UNCHANGED <<marker, attempt, owner, staged, target>>

RecoverDone ==
    /\ pc = "recover" /\ Halting = {}
    /\ marker' = FALSE
    /\ Return
    /\ UNCHANGED <<journal, residue, attempt, owner, staged, target, faults>>

-----------------------------------------------------------------------------

Appending ==
    CASE pc \in Events -> {pc}
      [] pc = "loop" -> {"break_intent", "capture_observed"}
      [] pc = "f_intent" -> {"cleanup_intent"}
      [] pc = "f_observed" -> {"cleanup_observed"}
      [] pc = "f_failed" -> {"cleanup_failed"}
      [] pc = "r_intent" -> {"recovery_intent"}
      [] pc = "r_observed" -> {"recovery_observed"}
      [] OTHER -> {}

\* the process is killed: the target stays as it is
Crash ==
    /\ pc # "idle" /\ Fault
    /\ \/ UNCHANGED <<journal, residue>>
       \/ Appending # {} /\ residue' = TRUE /\ UNCHANGED journal
       \/ residue' = TRUE /\ \E e \in Appending : Linked(e)
    /\ Return
    /\ UNCHANGED <<marker, attempt, owner, staged, target>>

\* someone else stops a running target, outside the window between the
\* sidecar's last look at it and its Go
ExternalStop ==
    /\ target = "running" /\ ~owns
    /\ pc \notin {"break", "break_observed", "frames", "go_intent", "go", "r_go"}
    /\ target' = "stopped"
    /\ UNCHANGED <<disk, call, faults>>

ExternalGo ==
    /\ target = "stopped"
    /\ target' = "running"
    /\ UNCHANGED <<disk, call, faults>>

StackNext ==
    \/ \E s \in Sessions : BeginCapture(s)
    \/ CaptureIntent \/ BreakIntent \/ Cancel \/ Break \/ BreakObserved \/ Frames
    \/ GoIntent \/ Go \/ GoObserved \/ CaptureObserved \/ CleanupIntent \/ CleanupObserved
    \/ StoppedElsewhere \/ Export
    \/ FinallyCheck \/ FinallyIntent \/ FinallyGo \/ FinallyObserved \/ FinallyFailed \/ FinallyMarked
    \/ RecoverBegin \/ (\E t \in Txs : RecoverIntent(t)) \/ RecoverAppend \/ RecoverGo
    \/ RecoverObserved \/ RecoverDone
    \/ Crash \/ ExternalStop \/ ExternalGo

StackSpec == StackInit /\ [][StackNext]_stackVars

-----------------------------------------------------------------------------
(* Properties.                                                             *)

\* A target the sidecar has halted is on record as halted by exactly one
\* transaction, whatever failed or crashed since the Break: recovery will find
\* it, and no second capture has started over it.
HaltIsOwned == target = "halted" => Cardinality(Halting) = 1

\* A capture never resumes a target that someone else stopped, on any of its
\* failure paths; only an authorized recovery may.
ExternalStopKept ==
    [][target = "stopped" /\ target' = "running" => pc = "r_go" \/ ExternalGo]_stackVars
=============================================================================
