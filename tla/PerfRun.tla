------------------------------- MODULE PerfRun -------------------------------
(***************************************************************************)
(* From a created Session to a finished report: the managed perf_run, which *)
(* provisions, captures, normalizes, attests, analyzes and converts, and    *)
(* the single commands that do the last four on a Session perf_run does not *)
(* manage. Every stage publishes immutable artifacts and is repeated from   *)
(* the top after a crash. The Session-id execution lease admits one command *)
(* at a time; the external signer may outlive the host that started it, and *)
(* the deployment configuration may be edited at any moment.                *)
(***************************************************************************)
EXTENDS Naturals, Sequences, SequencesExt

CONSTANTS Deployments,   \* contents of the deployment configuration
          Good,          \* attestations that verify against the policy
          Flavors,       \* linker-map flavors of an analysis
          Configs,       \* normalization configurations
          MaxFaults      \* bound on crashes, errors and edits

ASSUME PerfRunAssumption ==
    /\ Deployments # {} /\ Good # {} /\ Flavors # {} /\ Configs # {}
    /\ MaxFaults \in Nat
    /\ {"none", "partial", "foreign"} \cap (Deployments \cup Good \cup Flavors \cup Configs) = {}

None == "none"

VARIABLES
  managed,    \* the Session belongs to perf_run
  valid,      \* the health verdict its observations will get
  status,     \* of the Session
  control,    \* none, open or complete: the controller's capture
  captured,   \* the deployment the workload was run under
  catalog,    \* content of each registered artifact
  staged,     \* content of each host-owned staging file
  intent,     \* the artifact whose ingest intent is on disk
  orphans,    \* committed destinations that were never registered
  manifest,   \* manifest.json exists
  out,        \* the signer's output file
  own, stray, \* a signer of this run, of a crashed run, is alive
  deployed,   \* the deployment configuration on disk
  cmd, todo,  \* running command and the steps it has left
  hurt,       \* something happened that may cost the Session
  faults

session == <<managed, valid, status, control, captured, catalog, staged, intent, orphans, manifest>>
signer == <<out, own, stray>>
call == <<cmd, todo>>
vars == <<session, signer, deployed, call, hurt, faults>>

-----------------------------------------------------------------------------
(* The stages, as the artifacts they publish and the steps in between.      *)

\* the binding comes first: everything else is provisioned under it
DeploymentBinding == <<"binding">>

Firmware == <<"firmware">>

Qualification == <<"qualification_policy", "hil_verification", "qualification", "admission">>

Scenario == <<"scenario">>

BuildResources == <<"resources">>

PolicySnapshot == <<"policy">>

ProvisioningReceipt == <<"provisioned">>

Provision ==
    DeploymentBinding \o Firmware \o Qualification \o Scenario \o BuildResources
    \o PolicySnapshot \o ProvisioningReceipt

NormalizeConfig == <<"normalize_config">>

Normalize == <<"mapping", "observations">>

SigningRequest == <<"signing_request">>

DispatchIntent == <<"dispatch">>

Attested == <<"attestation", "receipt">>

Attest == SigningRequest \o DispatchIntent \o <<"sign", "reserve", "signing">> \o Attested

\* resource reports are published only for a valid capture
ResourceReports == IF valid THEN <<"static_ram", "stack_usage">> ELSE <<>>

AnalysisOutputs ==
    <<"derived", "health">> \o (IF valid THEN <<"hotspots">> ELSE <<>>) \o ResourceReports

AnalysisStage == <<"summary", "stage">>

Analyze == <<"request", "processing">> \o AnalysisOutputs \o AnalysisStage

Convert == <<"perfetto", "manifest", "complete">>

Ingested ==
    Range(Provision \o NormalizeConfig \o SigningRequest \o DispatchIntent \o Attested) \cup {"request"}

Committed == {"mapping", "observations", "derived", "health", "hotspots", "static_ram",
              "stack_usage", "summary", "stage", "perfetto"}

Artifacts == Ingested \cup Committed

Registered(ids) == \A a \in ids : catalog[a] # None

\* the bytes the running command would publish
Want(a) ==
    CASE a \in {"binding", "provisioned", "dispatch"} -> cmd.deployment
      [] a \in {"mapping", "observations"} -> cmd.config
      [] a \in {"request", "static_ram", "summary", "stage"} -> cmd.flavor
      [] a \in {"attestation", "receipt"} -> cmd.attestation
      [] OTHER -> "data"

\* mutant: analysis does not look for a trusted receipt
NoReceipt(a) == IF a = "perfetto" THEN {"stage"} ELSE {}

\* artifacts a step reads, and refuses to go on without
Requires(a) ==
    CASE a = "attestation" -> {"observations", "policy"}
      [] a = "request" -> {"observations", "policy", "attestation", "receipt"}
      [] a = "perfetto" -> {"observations", "derived", "health", "summary", "request", "stage"}
      [] OTHER -> {}

-----------------------------------------------------------------------------

Idle == [name |-> None, deployment |-> None, flavor |-> None, config |-> None, attestation |-> None]

Init ==
    /\ managed \in BOOLEAN /\ valid \in BOOLEAN
    /\ status = IF managed THEN "created" ELSE "captured"
    /\ control = IF managed THEN "none" ELSE "complete"
    /\ captured = None
    /\ catalog = [a \in Artifacts |-> None]
    /\ staged = [a \in Ingested |-> None]
    /\ intent = None /\ orphans = {} /\ manifest = FALSE
    /\ out = None /\ own = FALSE /\ stray = FALSE
    /\ deployed \in Deployments
    /\ cmd = Idle /\ todo = <<>>
    /\ hurt = FALSE /\ faults = 0

Fault == faults < MaxFaults /\ faults' = faults + 1

End == cmd' = Idle /\ todo' = <<>>

Advance == IF Len(todo) = 1 THEN End ELSE todo' = Tail(todo) /\ UNCHANGED cmd

\* whether an error in this step makes the Session failed: perf_run fails it
\* in every stage after the capture, a command in the stage it has entered
Terminal(a) ==
    /\ status # "complete"
    /\ IF managed THEN a \notin Range(Provision) \cup {"control"}
                  ELSE a \notin {"request", "processing"}

StageError(a) == status' = (IF Terminal(a) THEN "failed" ELSE status) /\ End

\* a run of perf_run under the configuration it loaded
Begin(c, steps) ==
    /\ cmd = Idle /\ cmd' = c /\ todo' = steps
    /\ UNCHANGED <<session, signer, deployed, faults>>

Flavor == CHOOSE f \in Flavors : TRUE

Config == CHOOSE c \in Configs : TRUE

\* mutant: neither document is compared with the loaded deployment
AnyDeployment(d) == TRUE

\* the deployment binding and the provisioning receipt name this deployment
BoundTo(d) == catalog["binding"] = d /\ catalog["provisioned"] = d

\* verify_deployment_binding: a provisioned Session is resumed only under the
\* deployment it is bound to, and was captured under
Resumes ==
    \/ status = "created" /\ catalog["provisioned"] = None
    \/ BoundTo(deployed) /\ captured \in {None, deployed}

\* mutant: a Session that is already Processing is left alone
NothingLeft == status \notin {"processing", "complete"}

Resumable == status # "complete"

\* run_with_session_id: the stages that are left, by the state of the Session
PerfRun ==
    /\ managed /\ status # "failed" /\ Resumable /\ Resumes
    /\ LET finish == Analyze \o Convert
           capturedOn == NormalizeConfig \o Normalize \o Attest \o finish
       IN Begin([name |-> "perf_run", deployment |-> deployed, flavor |-> Flavor,
                 config |-> Config, attestation |-> None],
                CASE status = "created" /\ catalog["provisioned"] # None ->
                       <<"control">> \o capturedOn
                  [] status = "created" /\ catalog["provisioned"] = None ->
                       Provision \o <<"control">> \o capturedOn
                  [] status \in {"capturing", "captured"} /\ control # "complete" ->
                       <<"control">> \o capturedOn
                  [] status = "captured" /\ control = "complete" -> capturedOn
                  [] OTHER -> finish)
    /\ UNCHANGED hurt

\* the commands, which refuse a managed Session
Cli(name, f, c, att, steps) ==
    /\ ~managed
    /\ Begin([name |-> name, deployment |-> None, flavor |-> f, config |-> c, attestation |-> att], steps)

\* a second configuration fails a Session that is already normalized
CliNormalize(c) ==
    /\ status = "captured"
    /\ Cli("normalize", Flavor, c, None, Normalize)
    /\ hurt' = (hurt \/ catalog["mapping"] \notin {None, c} \/ catalog["observations"] \notin {None, c})

\* signature, signing key and claims agree with the policy and the Session
Verified(att) == att \in Good

\* the registered attestation, else the host's snapshot, else the file given
AttestationBytes(file) ==
    IF catalog["attestation"] # None THEN catalog["attestation"]
    ELSE IF staged["attestation"] # None THEN staged["attestation"] ELSE file

\* an attestation that does not verify, or comes too early, fails the Session
CliAttest(file) ==
    /\ status = "captured" /\ ~managed
    /\ LET att == AttestationBytes(file)
       IN IF Verified(att) /\ catalog["observations"] # None
          THEN Cli("attest", Flavor, Config, att, PolicySnapshot \o Attested) /\ UNCHANGED hurt
          ELSE /\ cmd = Idle /\ status' = "failed" /\ hurt' = TRUE
               /\ UNCHANGED <<managed, valid, control, captured, catalog, staged, intent, orphans,
                              manifest, signer, deployed, call, faults>>

CliAnalyze(f) ==
    /\ status \in {"captured", "processing", "complete"}
    /\ Cli("analyze", f, Config, None, Analyze)
    /\ UNCHANGED hurt

\* convert on an analysis that a crash left unfinished fails the Session
CliConvert ==
    /\ status \in {"processing", "complete"}
    /\ Cli("convert", Flavor, Config, None, Convert)
    /\ hurt' = (hurt \/ catalog["stage"] = None)

-----------------------------------------------------------------------------
(* One step of the running command.                                        *)

Here(a) == todo # <<>> /\ Head(todo) = a

\* stages before analysis revalidate the deployment they started with, and
\* after provisioning the documents that bind the Session to it
Revalidates(a) ==
    managed /\ a \in Range(Provision) \cup {"control", "normalize_config", "signing_request", "reserve"}

Moved(a) ==
    /\ Revalidates(a)
    /\ \/ deployed # cmd.deployment
       \/ a \in {"control", "normalize_config", "signing_request"} /\ ~BoundTo(cmd.deployment)

\* the artifact is registered with exactly these bytes
Adopts(a) == catalog[a] # None /\ catalog[a] = Want(a)

\* an unregistered artifact cannot be published: another ingest intent is on
\* disk, the staging file has other bytes, or the destination is an orphan
Obstructed(a) ==
    IF a \in Ingested THEN intent \notin {None, a} \/ staged[a] \notin {None, Want(a)}
                      ELSE a \in orphans

CanPublish(a) == catalog[a] = None /\ ~Obstructed(a)

Stored(a) ==
    /\ catalog' = [catalog EXCEPT ![a] = Want(a)]
    /\ staged' = IF a \in Ingested THEN [staged EXCEPT ![a] = Want(a)] ELSE staged

\* ensure_exact_ingested_artifact, ensure_artifact_writer and their kin
Publish(a) ==
    /\ Here(a) /\ (a = "attestation" => cmd.attestation # None)
    /\ IF Moved(a)
       THEN StageError(a) /\ hurt' = (hurt \/ Terminal(a)) /\ UNCHANGED <<catalog, staged, intent>>
       ELSE /\ UNCHANGED hurt
            /\ IF Registered(Requires(a)) /\ (Adopts(a) \/ CanPublish(a))
               THEN /\ Advance /\ UNCHANGED status
                    /\ IF Adopts(a) \/ catalog[a] # None
                       THEN UNCHANGED <<catalog, staged, intent>>
                       ELSE Stored(a) /\ intent' = (IF a \in Ingested THEN None ELSE intent)
               ELSE StageError(a) /\ UNCHANGED <<catalog, staged, intent>>
    /\ UNCHANGED <<managed, valid, control, captured, orphans, manifest, signer, deployed, faults>>

\* the Controller driver captures the workload, or has to be resumed, or fails
Control ==
    /\ Here("control")
    /\ \/ /\ Moved("control") \/ intent # None
          /\ End /\ UNCHANGED <<status, control, captured, hurt, faults>>
       \/ /\ ~Moved("control") /\ captured' = cmd.deployment
          /\ \/ intent = None /\ status' = "captured" /\ control' = "complete" /\ Advance /\ UNCHANGED <<hurt, faults>>
             \/ /\ Fault /\ End /\ control' = "open" /\ UNCHANGED hurt
                /\ \/ status' \in {status, "capturing"} \ {"created"}
                   \/ status' = "captured"
             \/ Fault /\ End /\ status' = "failed" /\ hurt' = TRUE /\ UNCHANGED control
    /\ UNCHANGED <<managed, valid, catalog, staged, intent, orphans, manifest, signer, deployed>>

\* the transition to Processing tolerates no ingest intent
Processing ==
    /\ Here("processing")
    /\ IF status = "captured" /\ intent # None THEN StageError("processing")
       ELSE Advance /\ status' = IF status = "captured" THEN "processing" ELSE status
    /\ UNCHANGED <<managed, valid, control, captured, catalog, staged, intent, orphans, manifest,
                   signer, deployed, hurt, faults>>

\* finalize: the manifest first, then the state
Manifest ==
    /\ Here("manifest")
    /\ IF intent # None THEN StageError("manifest") /\ UNCHANGED manifest
       ELSE Advance /\ manifest' = TRUE /\ UNCHANGED status
    /\ UNCHANGED <<managed, valid, control, captured, catalog, staged, intent, orphans,
                   signer, deployed, hurt, faults>>

Complete ==
    /\ Here("complete") /\ status' = "complete" /\ Advance
    /\ UNCHANGED <<managed, valid, control, captured, catalog, staged, intent, orphans, manifest,
                   signer, deployed, hurt, faults>>

-----------------------------------------------------------------------------
(* The signer. It writes one file, whose path the signing request fixes.    *)

Drop(n) == todo' = SubSeq(todo, n + 1, Len(todo)) /\ UNCHANGED cmd

\* the signer is started only when its output does not exist yet
Sign ==
    /\ Here("sign")
    /\ IF out # None THEN Drop(3) ELSE Drop(1)
    /\ UNCHANGED <<session, signer, deployed, hurt, faults>>

\* an output that appeared in the meantime is not the one that was asked for
Reserve ==
    /\ Here("reserve")
    /\ IF Moved("reserve") \/ out # None
       THEN StageError("reserve") /\ hurt' = TRUE /\ UNCHANGED own
       ELSE Drop(1) /\ own' = TRUE /\ UNCHANGED <<status, hurt>>
    /\ UNCHANGED <<managed, valid, control, captured, catalog, staged, intent, orphans, manifest,
                   out, stray, deployed, faults>>

\* the host waits for its signer and looks at what it wrote
Signing ==
    /\ Here("signing") /\ ~own
    /\ IF Verified(out) THEN Drop(1) /\ UNCHANGED <<status, hurt>>
                       ELSE StageError("signing") /\ hurt' = TRUE
    /\ UNCHANGED <<managed, valid, control, captured, catalog, staged, intent, orphans, manifest,
                   signer, deployed, faults>>

\* a signer writes its file piece by piece, may write nonsense, and may die
SignerWrites ==
    /\ own \/ stray
    /\ \/ out = None /\ out' = "partial" /\ UNCHANGED <<own, stray, faults>>
       \/ /\ \/ out' \in Good /\ UNCHANGED faults
             \/ Fault /\ out' \in {out, "foreign"}
          /\ \/ own /\ own' = FALSE /\ UNCHANGED stray
             \/ stray /\ stray' = FALSE /\ UNCHANGED own
    /\ UNCHANGED <<session, deployed, call, hurt>>

\* mutant: the signer's file is preferred to the host's own copies
SignerFirst == out

\* ATTESTATION_SIGNER_OUTPUT_PENDING leaves the Session as it is
Pending == End /\ UNCHANGED status

TakenBytes == AttestationBytes(out)

\* ensure_capture_attestation_artifact selects and verifies the bytes; another
\* ingest intent stops it unless the attestation is registered
TakeAttestation ==
    /\ Here("attestation") /\ cmd.attestation = None
    /\ IF Verified(TakenBytes) /\ (catalog["attestation"] # None \/ intent \in {None, "attestation"})
       THEN cmd' = [cmd EXCEPT !.attestation = TakenBytes] /\ UNCHANGED <<status, todo>>
       ELSE IF TakenBytes \in {None, "partial"} /\ intent \in {None, "attestation"}
            THEN Pending ELSE StageError("attestation")
    /\ hurt' = (hurt \/ TakenBytes = "foreign")
    /\ UNCHANGED <<managed, valid, control, captured, catalog, staged, intent, orphans, manifest,
                   signer, deployed, faults>>

-----------------------------------------------------------------------------
(* Faults.                                                                 *)

\* the host is killed; what it was publishing is left at any of its steps,
\* and its signer lives on or dies with it
Crash ==
    /\ cmd # Idle /\ Fault /\ End
    /\ LET a == Head(todo) IN
         \/ UNCHANGED <<catalog, staged, intent, orphans, hurt>>
         \/ /\ a \in Ingested /\ CanPublish(a) /\ ~Moved(a) /\ Registered(Requires(a))
            /\ a = "attestation" => cmd.attestation # None
            /\ staged' = [staged EXCEPT ![a] = Want(a)]
            /\ \/ intent' \in {intent, a} /\ UNCHANGED <<catalog, hurt>>
               \/ intent' = a /\ hurt' = TRUE /\ catalog' = [catalog EXCEPT ![a] = Want(a)]
            /\ UNCHANGED orphans
         \/ /\ a \in Committed /\ CanPublish(a) /\ Registered(Requires(a))
            /\ orphans' = orphans \cup {a} /\ hurt' = TRUE
            /\ UNCHANGED <<catalog, staged, intent>>
    /\ own' = FALSE /\ stray' \in {stray, stray \/ own}
    /\ UNCHANGED <<managed, valid, status, control, captured, manifest, out, deployed>>

\* a step fails for a reason of its own; a signer past its deadline is killed
StepFails ==
    /\ cmd # Idle /\ Fault /\ StageError(Head(todo))
    /\ hurt' = (hurt \/ Terminal(Head(todo))) /\ own' = FALSE
    /\ UNCHANGED <<managed, valid, control, captured, catalog, staged, intent, orphans, manifest,
                   out, stray, deployed>>

\* a lock or a lease is taken: retryable, the Session stays as it is
Contended ==
    /\ managed /\ cmd # Idle /\ Fault /\ End
    /\ Head(todo) \in Range(Provision) \cup {"control", "normalize_config", "signing_request", "attestation"}
    /\ UNCHANGED <<session, signer, deployed, hurt>>

EditDeployment ==
    /\ managed /\ Fault
    /\ deployed' \in Deployments \ {deployed}
    /\ UNCHANGED <<session, signer, call, hurt>>

-----------------------------------------------------------------------------

Step ==
    \/ \E a \in Artifacts : Publish(a)
    \/ Control \/ Processing \/ Manifest \/ Complete
    \/ Sign \/ Reserve \/ Signing \/ TakeAttestation

Command ==
    \/ PerfRun
    \/ \E c \in Configs : CliNormalize(c)
    \/ \E att \in Good \cup {"foreign"} : CliAttest(att)
    \/ \E f \in Flavors : CliAnalyze(f)
    \/ CliConvert

Next == Command \/ Step \/ SignerWrites \/ Crash \/ StepFails \/ Contended \/ EditDeployment

\* perf_run is run again until the Session is finished ("rerun perf_run to
\* continue"), a running command goes on, and a signer ends
Fairness == WF_vars(PerfRun) /\ WF_vars(Step) /\ WF_vars(SignerWrites)

Spec == Init /\ [][Next]_vars /\ Fairness

-----------------------------------------------------------------------------
(* Properties.                                                             *)

\* A Session is made Failed only by something that went wrong: an error of a
\* step, a bad signature, two signers at once, an edited deployment, a command
\* given what contradicts the Session, or a crash in the moment between a
\* publication and the removal of its intent or its registration. Crashes
\* anywhere else, busy locks, an unfinished signature and any number of reruns
\* never cost the Session.
FailedHasCause == status = "failed" => hurt

\* One analysis, one signature and one deployment stand behind a Session: every
\* output comes from the analysis request on record, whatever crashed and
\* whatever other flavors were asked for in between; the receipt speaks of the
\* attestation on record although the signer's file may have changed since; and
\* provisioning, capture and signature all happened under the same deployment.
OneOrigin ==
    /\ \A a \in {"static_ram", "summary", "stage"} :
          catalog[a] # None => catalog[a] = catalog["request"]
    /\ catalog["receipt"] # None => catalog["receipt"] = catalog["attestation"]
    /\ managed => \A d \in {captured, catalog["provisioned"], catalog["dispatch"]} \ {None} :
                     d = catalog["binding"]

\* A complete Session has its whole chain on record: trusted receipt, analysis
\* and report, with nothing half published left behind.
CompleteIsWhole ==
    status = "complete" =>
        /\ Registered({"observations", "attestation", "receipt", "request", "stage", "perfetto"})
        /\ intent = None /\ manifest
        /\ managed => control = "complete" /\ Registered(Range(Provision))

\* what only an operator can resolve
Stuck ==
    \/ intent # None /\ catalog[intent] # None
    \/ out = "partial" /\ catalog["attestation"] = None
    \/ staged["binding"] \notin {None, deployed}

\* A managed Session that is run again and again is finished, or failed, or
\* waits for an operator.
RunSettles == managed ~> (status \in {"complete", "failed"} \/ Stuck)
=============================================================================
