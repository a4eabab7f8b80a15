---------------------------- MODULE PerfRunProofs ----------------------------
(***************************************************************************)
(* What PerfRun's runs check on a small instance, proved for every set of   *)
(* deployments, signatures, flavors and configurations and any number of    *)
(* faults: a Session is made Failed only by what went wrong, it has one     *)
(* origin, and it is complete only when it is whole.                        *)
(*                                                                          *)
(* The argument numbers the steps of all stages. A command has before it    *)
(* the rest of its plan in that order (Ahead) and on record what it has     *)
(* passed (Behind); artifacts are therefore registered in order (InOrder),  *)
(* so that the only intent an undamaged Session can have is that of the     *)
(* step to be repeated. What is on record comes from one request, one       *)
(* signature and one deployment (Origins), and the running command works    *)
(* with the same (Inputs): it adopts what it finds, and nothing stops it.   *)
(***************************************************************************)
EXTENDS PerfRun, TLAPS

\* steps that publish nothing
Waypoints == {"control", "sign", "reserve", "signing", "processing", "manifest", "complete"}

Steps == Artifacts \cup Waypoints

(* The place of a step in the order of all stages.                          *)
Rank(x) ==
    CASE x = "binding" -> 1 [] x = "firmware" -> 2 [] x = "qualification_policy" -> 3
      [] x = "hil_verification" -> 4 [] x = "qualification" -> 5 [] x = "admission" -> 6
      [] x = "scenario" -> 7 [] x = "resources" -> 8 [] x = "policy" -> 9
      [] x = "provisioned" -> 10 [] x = "control" -> 11 [] x = "normalize_config" -> 12
      [] x = "mapping" -> 13 [] x = "observations" -> 14 [] x = "signing_request" -> 15
      [] x = "dispatch" -> 16 [] x = "sign" -> 17 [] x = "reserve" -> 18 [] x = "signing" -> 19
      [] x = "attestation" -> 20 [] x = "receipt" -> 21 [] x = "request" -> 22
      [] x = "processing" -> 23 [] x = "derived" -> 24 [] x = "health" -> 25
      [] x = "hotspots" -> 26 [] x = "static_ram" -> 27 [] x = "stack_usage" -> 28
      [] x = "summary" -> 29 [] x = "stage" -> 30 [] x = "perfetto" -> 31
      [] x = "manifest" -> 32 [] x = "complete" -> 33 [] OTHER -> 0

ValidOnly == {"hotspots", "static_ram", "stack_usage"}

(* The steps of each command.                                               *)
PlanOf(name) ==
    {x \in Steps :
        /\ x \in ValidOnly => valid
        /\ \/ name = "perf_run"
           \/ name = "normalize" /\ Rank(x) \in {13, 14}
           \/ name = "attest" /\ Rank(x) \in {9, 20, 21}
           \/ name = "analyze" /\ Rank(x) \in 22..30
           \/ name = "convert" /\ Rank(x) \in 31..33}

Names == IF managed THEN {"perf_run"} ELSE {"normalize", "attest", "analyze", "convert"}

Calls ==
    [name : {"perf_run", "normalize", "attest", "analyze", "convert", None},
     deployment : Deployments \cup {None}, flavor : Flavors \cup {None},
     config : Configs \cup {None}, attestation : Good \cup {None}]

Values == Deployments \cup Good \cup Flavors \cup Configs \cup {"data", None}

TypeOK ==
    /\ managed \in BOOLEAN /\ valid \in BOOLEAN /\ hurt \in BOOLEAN
    /\ status \in {"created", "capturing", "captured", "processing", "complete", "failed"}
    /\ control \in {"none", "open", "complete"}
    /\ catalog \in [Artifacts -> Values]
    /\ staged \in [Ingested -> Values]
    /\ intent \in Ingested \cup {None}
    /\ orphans \subseteq Committed
    /\ deployed \in Deployments
    /\ out \in Good \cup {None, "partial", "foreign"}
    /\ todo \in Seq(Steps)
    /\ cmd \in Calls

(* What a command has before it: the rest of its plan, in order.            *)
Follows(s, name) ==
    /\ s \in Seq(Steps)
    /\ \A i, j \in 1..Len(s) : i < j => Rank(s[i]) < Rank(s[j])
    /\ \A i \in 1..Len(s) : s[i] \in PlanOf(name)
    /\ \A x \in PlanOf(name) :
          Rank(x) >= Rank(s[1]) => \E i \in 1..Len(s) : s[i] = x

Ahead ==
    /\ cmd = Idle <=> todo = <<>>
    /\ todo # <<>> => cmd.name \in Names /\ Follows(todo, cmd.name)

(* What it has behind it is on record.                                      *)
Behind ==
    todo # <<>> =>
        \A x \in PlanOf(cmd.name) \cap Artifacts : Rank(x) < Rank(todo[1]) => catalog[x] # None

(* Artifacts are recorded in the order of the stages.                       *)
Begun(a) == catalog[a] # None \/ intent = a
InOrder ==
    /\ \A n \in Names : \A x, y \in PlanOf(n) \cap Artifacts :
          Rank(x) < Rank(y) /\ Begun(y) => catalog[x] # None
    /\ \A y \in Artifacts : Begun(y) => Registered(Requires(y))
    /\ intent # None => \E n \in Names : intent \in PlanOf(n)

(* Where the values on record come from.                                    *)
Plain ==
    Artifacts \ {"binding", "provisioned", "dispatch", "mapping", "observations", "request",
                 "static_ram", "summary", "stage", "attestation", "receipt"}

OnRecord(a) == {catalog[a]} \cup (IF a \in Ingested THEN {staged[a]} ELSE {})

Origins ==
    /\ \A a \in Plain : OnRecord(a) \subseteq {None, "data"}
    /\ managed => \A a \in {"provisioned", "dispatch"} : OnRecord(a) \subseteq {None, catalog["binding"]}
    /\ managed => captured \in {None, catalog["binding"]}
    /\ managed => \A a \in {"mapping", "observations"} : catalog[a] \in {None, Config}
    /\ managed => OnRecord("request") \subseteq {None, Flavor}
    /\ \A a \in {"static_ram", "summary", "stage"} : catalog[a] \in {None, catalog["request"]}
    /\ OnRecord("attestation") \subseteq {None} \cup Good
    /\ OnRecord("receipt") \subseteq {None, catalog["attestation"]}

(* What a running command works with.                                       *)
Inputs ==
    todo # <<>> =>
        /\ cmd.flavor \in Flavors /\ cmd.config \in Configs
        /\ cmd.attestation \in Good \cup {None}
        /\ managed => /\ cmd.flavor = Flavor /\ cmd.config = Config /\ cmd.deployment \in Deployments
                      /\ todo[1] # "binding" => catalog["binding"] = cmd.deployment
        /\ cmd.name = "attest" => cmd.attestation # None /\ catalog["observations"] # None
        /\ cmd.attestation # None =>
             IF catalog["attestation"] # None THEN catalog["attestation"] = cmd.attestation
             ELSE staged["attestation"] \in {None, cmd.attestation}
        /\ todo[1] = "receipt" => cmd.attestation # None
        /\ cmd.name \in {"perf_run", "analyze"} /\ Rank(todo[1]) > 22 => catalog["request"] = cmd.flavor
        /\ cmd.name = "normalize" /\ ~hurt =>
             \A a \in {"mapping", "observations"} : catalog[a] \in {None, cmd.config}
        /\ cmd.name = "convert" /\ ~hurt => catalog["stage"] # None

(* The state of the Session and how far it has come.                        *)
Progress ==
    /\ managed /\ status \in {"processing", "complete"} => catalog["request"] # None
    /\ managed => \/ control = "complete"
                  \/ /\ status \notin {"processing", "complete"}
                     /\ todo # <<>> => Rank(todo[1]) <= 11
    /\ managed /\ status \in {"created", "capturing"} => control # "complete"
    /\ managed /\ todo # <<>> /\ Rank(todo[1]) <= 11 => status \notin {"processing", "complete"}
    /\ managed /\ status = "complete" => todo = <<>>
    /\ todo # <<>> /\ cmd.name \in {"normalize", "attest"} => status = "captured"
    /\ todo # <<>> /\ todo[1] = "complete" => manifest /\ intent = None

Unhurt ==
    ~hurt => /\ orphans = {}
             /\ intent # None => catalog[intent] = None
             /\ status # "failed"

IInv ==
    /\ TypeOK /\ Ahead /\ Behind /\ InOrder /\ Origins /\ Inputs /\ Progress /\ Unhurt
    /\ CompleteIsWhole

-----------------------------------------------------------------------------
(* The order of the steps.                                                  *)

AllSteps ==
    {"binding", "firmware", "qualification_policy", "hil_verification", "qualification",
     "admission", "scenario", "resources", "policy", "provisioned", "control",
     "normalize_config", "mapping", "observations", "signing_request", "dispatch", "sign",
     "reserve", "signing", "attestation", "receipt", "request", "processing", "derived",
     "health", "hotspots", "static_ram", "stack_usage", "summary", "stage", "perfetto",
     "manifest", "complete"}

(* Which step has which rank.                                               *)
LEMMA RankIs ==
    /\ Rank("binding") = 1 /\ Rank("firmware") = 2 /\ Rank("qualification_policy") = 3
    /\ Rank("hil_verification") = 4 /\ Rank("qualification") = 5 /\ Rank("admission") = 6
    /\ Rank("scenario") = 7 /\ Rank("resources") = 8 /\ Rank("policy") = 9
    /\ Rank("provisioned") = 10 /\ Rank("control") = 11 /\ Rank("normalize_config") = 12
    /\ Rank("mapping") = 13 /\ Rank("observations") = 14 /\ Rank("signing_request") = 15
    /\ Rank("dispatch") = 16 /\ Rank("sign") = 17 /\ Rank("reserve") = 18
    /\ Rank("signing") = 19 /\ Rank("attestation") = 20 /\ Rank("receipt") = 21
    /\ Rank("request") = 22 /\ Rank("processing") = 23 /\ Rank("derived") = 24
    /\ Rank("health") = 25 /\ Rank("hotspots") = 26 /\ Rank("static_ram") = 27
    /\ Rank("stack_usage") = 28 /\ Rank("summary") = 29 /\ Rank("stage") = 30
    /\ Rank("perfetto") = 31 /\ Rank("manifest") = 32 /\ Rank("complete") = 33
<1> USE DEF Rank
<1>1. Rank("binding") = 1 /\ Rank("firmware") = 2 /\ Rank("qualification_policy") = 3
    OBVIOUS
<1>2. Rank("hil_verification") = 4 /\ Rank("qualification") = 5 /\ Rank("admission") = 6
    OBVIOUS
<1>3. Rank("scenario") = 7 /\ Rank("resources") = 8 /\ Rank("policy") = 9
    OBVIOUS
<1>4. Rank("provisioned") = 10 /\ Rank("control") = 11 /\ Rank("normalize_config") = 12
    OBVIOUS
<1>5. Rank("mapping") = 13 /\ Rank("observations") = 14 /\ Rank("signing_request") = 15
    OBVIOUS
<1>6. Rank("dispatch") = 16 /\ Rank("sign") = 17 /\ Rank("reserve") = 18
    OBVIOUS
<1>7. Rank("signing") = 19 /\ Rank("attestation") = 20 /\ Rank("receipt") = 21
    OBVIOUS
<1>8. Rank("request") = 22 /\ Rank("processing") = 23 /\ Rank("derived") = 24
    OBVIOUS
<1>9. Rank("health") = 25 /\ Rank("hotspots") = 26 /\ Rank("static_ram") = 27
    OBVIOUS
<1>10. Rank("stack_usage") = 28 /\ Rank("summary") = 29 /\ Rank("stage") = 30
    OBVIOUS
<1>11. Rank("perfetto") = 31 /\ Rank("manifest") = 32 /\ Rank("complete") = 33
    OBVIOUS
<1> QED
    BY <1>1, <1>2, <1>3, <1>4, <1>5, <1>6, <1>7, <1>8, <1>9, <1>10, <1>11

(* What a joined sequence ranges over.                                      *)
LEMMA RangeJoined ==
    ASSUME NEW S, NEW s \in Seq(S), NEW t \in Seq(S)
    PROVE  s \o t \in Seq(S) /\ Range(s \o t) = Range(s) \cup Range(t)
<1>1. /\ s \o t \in Seq(S) /\ Len(s \o t) = Len(s) + Len(t)
      /\ Len(s) \in Nat /\ Len(t) \in Nat
      /\ \A i \in 1..Len(s) : (s \o t)[i] = s[i]
      /\ \A i \in 1..Len(t) : (s \o t)[Len(s) + i] = t[i]
    OBVIOUS
<1>2. /\ DOMAIN s = 1..Len(s) /\ DOMAIN t = 1..Len(t) /\ DOMAIN (s \o t) = 1..(Len(s) + Len(t))
    BY <1>1
<1>3. ASSUME NEW x \in Range(s \o t) PROVE x \in Range(s) \cup Range(t)
    <2>1. PICK i \in 1..(Len(s) + Len(t)) : x = (s \o t)[i]
        BY <1>2 DEF Range
    <2>2. CASE i <= Len(s)
        BY <1>1, <1>2, <2>1, <2>2 DEF Range
    <2>3. CASE i > Len(s)
        <3>1. PICK k \in 1..Len(t) : i = Len(s) + k
            <4>1. i - Len(s) \in 1..Len(t) /\ i = Len(s) + (i - Len(s))
                BY <1>1, <2>1, <2>3
            <4> QED
                BY <4>1
        <3> QED
            BY <1>1, <1>2, <2>1, <3>1 DEF Range
    <2> QED
        BY <1>1, <2>2, <2>3
<1>4. ASSUME NEW x \in Range(s) PROVE x \in Range(s \o t)
    BY <1>1, <1>2, <1>4 DEF Range
<1>5. ASSUME NEW x \in Range(t) PROVE x \in Range(s \o t)
    <2>1. PICK k \in 1..Len(t) : x = t[k]
        BY <1>2 DEF Range
    <2>2. Len(s) + k \in 1..(Len(s) + Len(t))
        BY <1>1
    <2> QED
        BY <1>1, <1>2, <2>1, <2>2 DEF Range
<1> QED
    BY <1>1, <1>3, <1>4, <1>5

(* The artifacts that are ingested, and those of the provisioning stage.    *)
LEMMA SetsAre ==
    /\ Range(Provision) =
          {"binding", "firmware", "qualification_policy", "hil_verification", "qualification",
           "admission", "scenario", "resources", "policy", "provisioned"}
    /\ Ingested =
          {"binding", "firmware", "qualification_policy", "hil_verification", "qualification",
           "admission", "scenario", "resources", "policy", "provisioned", "normalize_config",
           "signing_request", "dispatch", "attestation", "receipt", "request"}
    /\ Steps = AllSteps
<1>1. /\ DeploymentBinding \in Seq(AllSteps) /\ Range(DeploymentBinding) = {"binding"}
      /\ Firmware \in Seq(AllSteps) /\ Range(Firmware) = {"firmware"}
      /\ Scenario \in Seq(AllSteps) /\ Range(Scenario) = {"scenario"}
      /\ BuildResources \in Seq(AllSteps) /\ Range(BuildResources) = {"resources"}
    BY DEF AllSteps, Range, DeploymentBinding, Firmware, Scenario, BuildResources
<1>2. /\ PolicySnapshot \in Seq(AllSteps) /\ Range(PolicySnapshot) = {"policy"}
      /\ ProvisioningReceipt \in Seq(AllSteps) /\ Range(ProvisioningReceipt) = {"provisioned"}
      /\ NormalizeConfig \in Seq(AllSteps) /\ Range(NormalizeConfig) = {"normalize_config"}
      /\ SigningRequest \in Seq(AllSteps) /\ Range(SigningRequest) = {"signing_request"}
      /\ DispatchIntent \in Seq(AllSteps) /\ Range(DispatchIntent) = {"dispatch"}
    BY DEF AllSteps, Range, PolicySnapshot, ProvisioningReceipt, NormalizeConfig, SigningRequest,
        DispatchIntent
<1>3. /\ Qualification \in Seq(AllSteps)
      /\ Range(Qualification) =
            {"qualification_policy", "hil_verification", "qualification", "admission"}
    BY DEF AllSteps, Range, Qualification
<1>4. Attested \in Seq(AllSteps) /\ Range(Attested) = {"attestation", "receipt"}
    BY DEF AllSteps, Range, Attested
<1>5. PICK a : a = DeploymentBinding \o Firmware
    OBVIOUS
<1>6. a \in Seq(AllSteps) /\ Range(a) = {"binding", "firmware"}
    <2>1. PICK z \in Seq(AllSteps), y \in Seq(AllSteps) : z = DeploymentBinding /\ y = Firmware
        BY <1>1
    <2>2. a = z \o y
        BY <1>5, <2>1
    <2>3. Range(a) = Range(z) \cup Range(y) /\ a \in Seq(AllSteps)
        BY <2>2, RangeJoined
    <2> QED
        BY <1>1, <2>1, <2>3
<1>7. PICK b : b = a \o Qualification
    OBVIOUS
<1>8. b \in Seq(AllSteps) /\ Range(b) = Range(a) \cup Range(Qualification)
    BY <1>3, <1>6, <1>7, RangeJoined
<1>9. PICK c : c = b \o Scenario \o BuildResources \o PolicySnapshot \o ProvisioningReceipt
    OBVIOUS
<1>10. c \in Seq(AllSteps) /\ Range(c) = Range(b) \cup {"scenario", "resources", "policy", "provisioned"}
    <2>1. PICK d : d = b \o Scenario
        OBVIOUS
    <2>2. d \in Seq(AllSteps) /\ Range(d) = Range(b) \cup Range(Scenario)
        BY <1>1, <1>8, <2>1, RangeJoined
    <2>3. PICK e : e = d \o BuildResources
        OBVIOUS
    <2>4. e \in Seq(AllSteps) /\ Range(e) = Range(d) \cup Range(BuildResources)
        BY <1>1, <2>2, <2>3, RangeJoined
    <2>5. PICK f : f = e \o PolicySnapshot
        OBVIOUS
    <2>6. f \in Seq(AllSteps) /\ Range(f) = Range(e) \cup Range(PolicySnapshot)
        BY <1>2, <2>4, <2>5, RangeJoined
    <2>7. c = f \o ProvisioningReceipt
        BY <1>9, <2>1, <2>3, <2>5
    <2>8. c \in Seq(AllSteps) /\ Range(c) = Range(f) \cup Range(ProvisioningReceipt)
        BY <1>2, <2>6, <2>7, RangeJoined
    <2> QED
        BY <1>1, <1>2, <2>2, <2>4, <2>6, <2>8
<1>11. Provision = c
    BY <1>5, <1>7, <1>9 DEF Provision
<1>12. /\ Provision \in Seq(AllSteps)
       /\ Range(Provision) =
             {"binding", "firmware", "qualification_policy", "hil_verification", "qualification",
              "admission", "scenario", "resources", "policy", "provisioned"}
    BY <1>3, <1>6, <1>8, <1>10, <1>11
<1>13. PICK f : f = c \o NormalizeConfig
    OBVIOUS
<1>14. f \in Seq(AllSteps) /\ Range(f) = Range(c) \cup Range(NormalizeConfig)
    BY <1>2, <1>10, <1>13, RangeJoined
<1>15. PICK g : g = f \o SigningRequest
    OBVIOUS
<1>16. g \in Seq(AllSteps) /\ Range(g) = Range(f) \cup Range(SigningRequest)
    BY <1>2, <1>14, <1>15, RangeJoined
<1>17. PICK h : h = g \o DispatchIntent
    OBVIOUS
<1>18. h \in Seq(AllSteps) /\ Range(h) = Range(g) \cup Range(DispatchIntent)
    BY <1>2, <1>16, <1>17, RangeJoined
<1>19. PICK k : k = h \o Attested
    OBVIOUS
<1>20. Ingested = Range(k) \cup {"request"} /\ Range(k) = Range(h) \cup Range(Attested)
    <2>1. Range(k) = Range(h) \cup Range(Attested)
        BY <1>4, <1>18, <1>19, RangeJoined
    <2> QED
        BY <1>11, <1>13, <1>15, <1>17, <1>19, <2>1 DEF Ingested
<1>21. Ingested =
          {"binding", "firmware", "qualification_policy", "hil_verification", "qualification",
           "admission", "scenario", "resources", "policy", "provisioned", "normalize_config",
           "signing_request", "dispatch", "attestation", "receipt", "request"}
    BY <1>2, <1>4, <1>11, <1>12, <1>14, <1>16, <1>18, <1>20
<1>22. Steps = AllSteps
    BY <1>21 DEF Steps, Artifacts, Committed, Waypoints, AllSteps
<1> QED
    BY <1>12, <1>21, <1>22

(* The ranks are a numbering: no two steps share one.                       *)
LEMMA RankTyped ==
    /\ \A x \in Steps : Rank(x) \in 1..33
    /\ \A x \in Steps : \A y \in Steps : Rank(x) = Rank(y) => x = y
<1> DEFINE InOrderOfRank ==
        << "binding", "firmware", "qualification_policy", "hil_verification", "qualification",
           "admission", "scenario", "resources", "policy", "provisioned", "control",
           "normalize_config", "mapping", "observations", "signing_request", "dispatch", "sign",
           "reserve", "signing", "attestation", "receipt", "request", "processing", "derived",
           "health", "hotspots", "static_ram", "stack_usage", "summary", "stage", "perfetto",
           "manifest", "complete" >>
<1>1. \A x \in AllSteps : Rank(x) \in 1..33 /\ InOrderOfRank[Rank(x)] = x
    BY RankIs DEF AllSteps
<1> HIDE DEF InOrderOfRank
<1> QED
    BY <1>1, SetsAre

(* The steps with ranks in an interval, as far as the capture has them.     *)
Slice(lo, hi) == {x \in Steps : (x \in ValidOnly => valid) /\ Rank(x) \in lo..hi}

Chain(s, lo, hi) ==
    /\ s \in Seq(Steps)
    /\ \A i, j \in 1..Len(s) : i < j => Rank(s[i]) < Rank(s[j])
    /\ \A i \in 1..Len(s) : s[i] \in Slice(lo, hi)
    /\ \A x \in Slice(lo, hi) : \E i \in 1..Len(s) : s[i] = x

(* Two chains that follow each other make one chain.                        *)
LEMMA Joined ==
    ASSUME NEW lo \in Nat, NEW mid \in Nat, NEW hi \in Nat, lo <= mid + 1, mid <= hi,
           NEW s, NEW t, Chain(s, lo, mid), Chain(t, mid + 1, hi)
    PROVE  Chain(s \o t, lo, hi)
<1>0. s \in Seq(Steps) /\ t \in Seq(Steps)
    BY DEF Chain
<1>u. PICK u : u = s \o t
    OBVIOUS
<1>m. PICK m \in Nat : m = Len(s)
    BY <1>0
<1>n. PICK n \in Nat : n = Len(t)
    BY <1>0
<1>1. u = s \o t /\ m = Len(s) /\ n = Len(t)
    BY <1>u, <1>m, <1>n
<1>2. /\ u \in Seq(Steps) /\ Len(u) = m + n
      /\ \A i \in 1..m : u[i] = s[i]
      /\ \A i \in 1..n : u[m + i] = t[i]
    BY <1>0, <1>1
<1>3. ASSUME NEW i \in 1..(m + n) PROVE i \in 1..m \/ \E k \in 1..n : i = m + k
    <2>1. i \in 1..m \/ (i - m \in 1..n /\ i = m + (i - m))
        OBVIOUS
    <2> QED
        BY <2>1
<1>4. /\ \A i \in 1..m : s[i] \in Slice(lo, mid)
      /\ \A i \in 1..n : t[i] \in Slice(mid + 1, hi)
      /\ \A i, j \in 1..m : i < j => Rank(s[i]) < Rank(s[j])
      /\ \A i, j \in 1..n : i < j => Rank(t[i]) < Rank(t[j])
      /\ \A x \in Slice(lo, mid) : \E i \in 1..m : s[i] = x
      /\ \A x \in Slice(mid + 1, hi) : \E i \in 1..n : t[i] = x
    BY <1>1 DEF Chain
<1>5. /\ Slice(lo, hi) = Slice(lo, mid) \cup Slice(mid + 1, hi)
      /\ \A x \in Slice(lo, mid), y \in Slice(mid + 1, hi) : Rank(x) < Rank(y)
    BY RankTyped DEF Slice
<1>6. ASSUME NEW i \in 1..(m + n) PROVE u[i] \in Slice(lo, hi)
    <2>1. CASE i \in 1..m
        BY <1>2, <1>4, <1>5, <2>1
    <2>2. ASSUME NEW k \in 1..n, i = m + k PROVE u[i] \in Slice(lo, hi)
        BY <1>2, <1>4, <1>5, <2>2
    <2> QED
        BY <1>3, <2>1, <2>2
<1>7. ASSUME NEW x \in Slice(lo, hi) PROVE \E i \in 1..(m + n) : u[i] = x
    <2>1. CASE x \in Slice(lo, mid)
        <3>1. PICK k \in 1..m : s[k] = x
            BY <1>4, <2>1
        <3>2. k \in 1..(m + n)
            OBVIOUS
        <3> QED
            BY <1>2, <3>1, <3>2
    <2>2. CASE x \in Slice(mid + 1, hi)
        <3>1. PICK k \in 1..n : t[k] = x
            BY <1>4, <2>2
        <3>2. m + k \in 1..(m + n)
            OBVIOUS
        <3> QED
            BY <1>2, <3>1, <3>2
    <2> QED
        BY <1>5, <2>1, <2>2
<1>8. ASSUME NEW i \in 1..(m + n), NEW j \in 1..(m + n), i < j PROVE Rank(u[i]) < Rank(u[j])
    <2>1. CASE i \in 1..m /\ j \in 1..m
        BY <1>2, <1>4, <1>8, <2>1
    <2>2. ASSUME i \in 1..m, NEW k \in 1..n, j = m + k PROVE Rank(u[i]) < Rank(u[j])
        BY <1>2, <1>4, <1>5, <2>2
    <2>3. ASSUME NEW k \in 1..n, NEW l \in 1..n, i = m + k, j = m + l PROVE Rank(u[i]) < Rank(u[j])
        <3>1. k < l
            BY <1>8, <2>3
        <3> QED
            BY <1>2, <1>4, <2>3, <3>1
    <2>4. ASSUME NEW k \in 1..n, i = m + k PROVE j \notin 1..m
        BY <1>8, <2>4
    <2> QED
        BY <1>3, <2>1, <2>2, <2>3, <2>4
<1>9. Chain(u, lo, hi)
    BY <1>2, <1>6, <1>7, <1>8 DEF Chain
<1> QED
    BY <1>1, <1>9

(* A slice of the order, over the steps by name.                            *)
LEMMA SliceIs ==
    ASSUME NEW lo \in 1..33, NEW hi \in 1..33
    PROVE  Slice(lo, hi) = {x \in AllSteps : (x \in ValidOnly => valid) /\ Rank(x) \in lo..hi}
BY SetsAre DEF Slice

(* A single step is a chain.                                                *)
LEMMA OneStep ==
    ASSUME NEW x \in Steps, x \in ValidOnly => valid, NEW n \in Nat, Rank(x) = n
    PROVE  Chain(<<x>>, n, n)
<1>1. Slice(n, n) = {x}
    BY RankTyped DEF Slice
<1> QED
    BY <1>1 DEF Chain

(* Each stage, as a part of the order.                                      *)
LEMMA Stages ==
    /\ Chain(DeploymentBinding, 1, 1)
    /\ Chain(Firmware, 2, 2)
    /\ Chain(Qualification, 3, 6)
    /\ Chain(Scenario, 7, 7)
    /\ Chain(BuildResources, 8, 8)
    /\ Chain(PolicySnapshot, 9, 9)
    /\ Chain(ProvisioningReceipt, 10, 10)
    /\ Chain(NormalizeConfig, 12, 12)
    /\ Chain(Normalize, 13, 14)
    /\ Chain(SigningRequest, 15, 15)
    /\ Chain(DispatchIntent, 16, 16)
    /\ Chain(Attested, 20, 21)
    /\ Chain(AnalysisStage, 29, 30)
    /\ Chain(Convert, 31, 33)
    /\ Chain(<<"control">>, 11, 11)
    /\ Chain(<<"sign", "reserve", "signing">>, 17, 19)
    /\ Chain(<<"request", "processing">>, 22, 23)
    /\ Chain(AnalysisOutputs, 24, 28)
<1>1. Chain(DeploymentBinding, 1, 1)
    <2>1. "binding" \in Steps \ ValidOnly /\ Rank("binding") = 1
        BY RankIs, SetsAre DEF AllSteps, ValidOnly
    <2> QED
        BY <2>1, OneStep DEF DeploymentBinding
<1>2. Chain(Firmware, 2, 2)
    <2>1. "firmware" \in Steps \ ValidOnly /\ Rank("firmware") = 2
        BY RankIs, SetsAre DEF AllSteps, ValidOnly
    <2> QED
        BY <2>1, OneStep DEF Firmware
<1>3. Chain(Qualification, 3, 6)
    <2>1. Slice(3, 6) = {"qualification_policy", "hil_verification", "qualification", "admission"}
        BY SliceIs, RankIs DEF AllSteps, ValidOnly
    <2> QED
        BY <2>1, RankIs, SetsAre DEF AllSteps, ValidOnly, Chain, Qualification
<1>4. Chain(Scenario, 7, 7)
    <2>1. "scenario" \in Steps \ ValidOnly /\ Rank("scenario") = 7
        BY RankIs, SetsAre DEF AllSteps, ValidOnly
    <2> QED
        BY <2>1, OneStep DEF Scenario
<1>5. Chain(BuildResources, 8, 8)
    <2>1. "resources" \in Steps \ ValidOnly /\ Rank("resources") = 8
        BY RankIs, SetsAre DEF AllSteps, ValidOnly
    <2> QED
        BY <2>1, OneStep DEF BuildResources
<1>6. Chain(PolicySnapshot, 9, 9)
    <2>1. "policy" \in Steps \ ValidOnly /\ Rank("policy") = 9
        BY RankIs, SetsAre DEF AllSteps, ValidOnly
    <2> QED
        BY <2>1, OneStep DEF PolicySnapshot
<1>7. Chain(ProvisioningReceipt, 10, 10)
    <2>1. "provisioned" \in Steps \ ValidOnly /\ Rank("provisioned") = 10
        BY RankIs, SetsAre DEF AllSteps, ValidOnly
    <2> QED
        BY <2>1, OneStep DEF ProvisioningReceipt
<1>8. Chain(NormalizeConfig, 12, 12)
    <2>1. "normalize_config" \in Steps \ ValidOnly /\ Rank("normalize_config") = 12
        BY RankIs, SetsAre DEF AllSteps, ValidOnly
    <2> QED
        BY <2>1, OneStep DEF NormalizeConfig
<1>9. Chain(Normalize, 13, 14)
    <2>1. Slice(13, 14) = {"mapping", "observations"}
        BY SliceIs, RankIs DEF AllSteps, ValidOnly
    <2> QED
        BY <2>1, RankIs, SetsAre DEF AllSteps, ValidOnly, Chain, Normalize
<1>10. Chain(SigningRequest, 15, 15)
    <2>1. "signing_request" \in Steps \ ValidOnly /\ Rank("signing_request") = 15
        BY RankIs, SetsAre DEF AllSteps, ValidOnly
    <2> QED
        BY <2>1, OneStep DEF SigningRequest
<1>11. Chain(DispatchIntent, 16, 16)
    <2>1. "dispatch" \in Steps \ ValidOnly /\ Rank("dispatch") = 16
        BY RankIs, SetsAre DEF AllSteps, ValidOnly
    <2> QED
        BY <2>1, OneStep DEF DispatchIntent
<1>12. Chain(Attested, 20, 21)
    <2>1. Slice(20, 21) = {"attestation", "receipt"}
        BY SliceIs, RankIs DEF AllSteps, ValidOnly
    <2> QED
        BY <2>1, RankIs, SetsAre DEF AllSteps, ValidOnly, Chain, Attested
<1>13. Chain(AnalysisStage, 29, 30)
    <2>1. Slice(29, 30) = {"summary", "stage"}
        BY SliceIs, RankIs DEF AllSteps, ValidOnly
    <2> QED
        BY <2>1, RankIs, SetsAre DEF AllSteps, ValidOnly, Chain, AnalysisStage
<1>14. Chain(Convert, 31, 33)
    <2>1. Slice(31, 33) = {"perfetto", "manifest", "complete"}
        BY SliceIs, RankIs DEF AllSteps, ValidOnly
    <2> QED
        BY <2>1, RankIs, SetsAre DEF AllSteps, ValidOnly, Chain, Convert
<1>15. Chain(<<"control">>, 11, 11)
    <2>1. "control" \in Steps \ ValidOnly /\ Rank("control") = 11
        BY RankIs, SetsAre DEF AllSteps, ValidOnly
    <2> QED
        BY <2>1, OneStep
<1>16. Chain(<<"sign", "reserve", "signing">>, 17, 19)
    <2>1. Slice(17, 19) = {"sign", "reserve", "signing"}
        BY SliceIs, RankIs DEF AllSteps, ValidOnly
    <2> QED
        BY <2>1, RankIs, SetsAre DEF AllSteps, ValidOnly, Chain
<1>17. Chain(<<"request", "processing">>, 22, 23)
    <2>1. Slice(22, 23) = {"request", "processing"}
        BY SliceIs, RankIs DEF AllSteps, ValidOnly
    <2> QED
        BY <2>1, RankIs, SetsAre DEF AllSteps, ValidOnly, Chain
<1>18. Chain(AnalysisOutputs, 24, 28)
    <2>1. Chain(<<"derived", "health">>, 24, 25)
        <3>1. Slice(24, 25) = {"derived", "health"}
            BY SliceIs, RankIs DEF AllSteps, ValidOnly
        <3> QED
            BY <3>1, RankIs, SetsAre DEF AllSteps, ValidOnly, Chain
    <2>2. PICK h : h = (IF valid THEN <<"hotspots">> ELSE <<>>)
        OBVIOUS
    <2>3. Chain(h, 26, 26)
        <3>1. "hotspots" \in Steps /\ "hotspots" \in ValidOnly /\ Rank("hotspots") = 26
            BY RankIs, SetsAre DEF AllSteps, ValidOnly
        <3>2. CASE valid
            BY <2>2, <3>1, <3>2, OneStep
        <3>3. CASE ~valid
            <4>1. Slice(26, 26) = {}
                BY <3>1, <3>3, RankTyped DEF Slice
            <4> QED
                BY <2>2, <3>3, <4>1 DEF Chain
        <3> QED
            BY <3>2, <3>3
    <2>4. Chain(ResourceReports, 27, 28)
        <3>1. Slice(27, 28) = (IF valid THEN {"static_ram", "stack_usage"} ELSE {})
            BY SliceIs, RankIs DEF AllSteps, ValidOnly
        <3>2. CASE valid
            BY <3>1, <3>2, RankIs, SetsAre DEF AllSteps, ValidOnly, Chain, ResourceReports
        <3>3. CASE ~valid
            BY <3>1, <3>3 DEF Chain, ResourceReports
        <3> QED
            BY <3>2, <3>3
    <2>5. Chain(<<"derived", "health">> \o h, 24, 26)
        BY <2>1, <2>3, Joined
    <2>6. Chain((<<"derived", "health">> \o h) \o ResourceReports, 24, 28)
        BY <2>4, <2>5, Joined
    <2> QED
        BY <2>2, <2>6 DEF AnalysisOutputs
<1> QED
    BY <1>1, <1>2, <1>3, <1>4, <1>5, <1>6, <1>7, <1>8, <1>9, <1>10, <1>11, <1>12, <1>13, <1>14, <1>15, <1>16, <1>17, <1>18

(* What run_with_session_id may have before it.                             *)
LEMMA Plans ==
    LET finish == Analyze \o Convert
        capturedOn == NormalizeConfig \o Normalize \o Attest \o finish
    IN  /\ Chain(Analyze, 22, 30)
        /\ Chain(finish, 22, 33)
        /\ Chain(capturedOn, 12, 33)
        /\ Chain(<<"control">> \o capturedOn, 11, 33)
        /\ Chain(Provision \o <<"control">> \o capturedOn, 1, 33)
<1>1. Chain(Provision, 1, 10)
    <2>1. Chain(DeploymentBinding \o Firmware, 1, 2)
        BY Stages, Joined
    <2>2. Chain(DeploymentBinding \o Firmware \o Qualification, 1, 6)
        BY <2>1, Stages, Joined
    <2>3. Chain(DeploymentBinding \o Firmware \o Qualification \o Scenario, 1, 7)
        BY <2>2, Stages, Joined
    <2>4. Chain(DeploymentBinding \o Firmware \o Qualification \o Scenario \o BuildResources, 1, 8)
        BY <2>3, Stages, Joined
    <2>5. Chain(DeploymentBinding \o Firmware \o Qualification \o Scenario \o BuildResources
                  \o PolicySnapshot, 1, 9)
        BY <2>4, Stages, Joined
    <2> QED
        BY <2>5, Stages, Joined DEF Provision
<1>2. Chain(Attest, 15, 21)
    <2>1. Chain(SigningRequest \o DispatchIntent, 15, 16)
        BY Stages, Joined
    <2>2. Chain(SigningRequest \o DispatchIntent \o <<"sign", "reserve", "signing">>, 15, 19)
        BY <2>1, Stages, Joined
    <2> QED
        BY <2>2, Stages, Joined DEF Attest
<1>3. Chain(Analyze, 22, 30)
    <2>1. Chain(<<"request", "processing">> \o AnalysisOutputs, 22, 28)
        BY Stages, Joined
    <2> QED
        BY <2>1, Stages, Joined DEF Analyze
<1>4. PICK finish : finish = Analyze \o Convert
    OBVIOUS
<1>5. Chain(finish, 22, 33)
    BY <1>3, <1>4, Stages, Joined
<1>6. PICK on : on = NormalizeConfig \o Normalize \o Attest \o finish
    OBVIOUS
<1>7. Chain(on, 12, 33)
    <2>1. Chain(NormalizeConfig \o Normalize, 12, 14)
        BY Stages, Joined
    <2>2. Chain(NormalizeConfig \o Normalize \o Attest, 12, 21)
        BY <1>2, <2>1, Joined
    <2> QED
        BY <1>5, <1>6, <2>2, Joined
<1>8. Chain(<<"control">> \o on, 11, 33)
    BY <1>7, Stages, Joined
<1>9. Chain(Provision \o <<"control">>, 1, 11)
    BY <1>1, Stages, Joined
<1>10. Chain(Provision \o <<"control">> \o on, 1, 33)
    BY <1>7, <1>9, Joined
<1> QED
    BY <1>3, <1>4, <1>5, <1>6, <1>7, <1>8, <1>10

-----------------------------------------------------------------------------
(* How a command gets on.                                                   *)

(* The plan of a command is a slice of the order, but for attest, which     *)
(* skips.                                                                   *)
LEMMA PlansAre ==
    /\ PlanOf("perf_run") = Slice(1, 33)
    /\ PlanOf("normalize") = Slice(13, 14)
    /\ PlanOf("analyze") = Slice(22, 30)
    /\ PlanOf("convert") = Slice(31, 33)
    /\ PlanOf("attest") = {"policy", "attestation", "receipt"}
<1>1. PlanOf("perf_run") = Slice(1, 33)
    BY RankTyped DEF PlanOf, Slice
<1>2. PlanOf("normalize") = Slice(13, 14)
    BY RankTyped DEF PlanOf, Slice
<1>3. PlanOf("analyze") = Slice(22, 30)
    BY RankTyped DEF PlanOf, Slice
<1>4. PlanOf("convert") = Slice(31, 33)
    BY RankTyped DEF PlanOf, Slice
<1>5. PlanOf("attest") = {"policy", "attestation", "receipt"}
    <2>1. /\ {"policy", "attestation", "receipt"} \subseteq Steps \ ValidOnly
          /\ Rank("policy") = 9 /\ Rank("attestation") = 20 /\ Rank("receipt") = 21
        BY RankIs, SetsAre DEF AllSteps, ValidOnly
    <2> QED
        BY <2>1, RankTyped DEF PlanOf
<1> QED
    BY <1>1, <1>2, <1>3, <1>4, <1>5

\* the plan of a command from a rank on
Rest(name, lo) == {x \in PlanOf(name) : Rank(x) >= lo}

(* A chain up to the end of a command's plan is what the command may have   *)
(* before it.                                                               *)
LEMMA ChainFollows ==
    ASSUME NEW lo \in 1..33, NEW hi \in 1..33, NEW s, NEW name, Chain(s, lo, hi),
           Slice(lo, hi) = Rest(name, lo),
           NEW y \in Slice(lo, hi), Rank(y) = lo
    PROVE  Follows(s, name) /\ s # <<>> /\ s[1] = y
<1>0. /\ Slice(lo, hi) \subseteq PlanOf(name)
      /\ \A x \in PlanOf(name) : Rank(x) >= lo => x \in Slice(lo, hi)
    BY DEF Rest
<1>1. PICK k \in 1..Len(s) : s[k] = y
    BY DEF Chain
<1>2. Len(s) \in Nat /\ s # <<>> /\ 1 \in 1..Len(s) /\ s \in Seq(Steps)
    BY <1>1 DEF Chain
<1>3. s[1] \in Slice(lo, hi)
    BY <1>2 DEF Chain
<1>4. s[1] = y
    <2>1. k > 1 => Rank(s[1]) < Rank(y)
        BY <1>1, <1>2 DEF Chain
    <2>2. Rank(s[1]) \in Nat /\ Rank(s[1]) >= lo
        BY <1>3, RankTyped DEF Slice
    <2>3. k = 1
        BY <1>1, <1>2, <2>1, <2>2
    <2> QED
        BY <1>1, <2>3
<1>5. \A x \in PlanOf(name) : Rank(x) >= Rank(s[1]) => \E i \in 1..Len(s) : s[i] = x
    BY <1>0, <1>4 DEF Chain
<1>6. \A i \in 1..Len(s) : s[i] \in PlanOf(name)
    BY <1>0 DEF Chain
<1> QED
    BY <1>2, <1>4, <1>5, <1>6 DEF Chain, Follows

(* Whatever a command plans is a step with a rank.                          *)
LEMMA PlanTyped ==
    \A name : \A x \in PlanOf(name) : x \in Steps /\ Rank(x) \in 1..33 /\ Rank(x) \in Nat
<1>1. \A k \in 1..33 : k \in Nat
    OBVIOUS
<1> QED
    BY <1>1, RankTyped DEF PlanOf

(* The order, with a natural number for the length.                         *)
LEMMA FollowsIs ==
    ASSUME NEW s, NEW name, Follows(s, name)
    PROVE  \E m \in Nat :
              /\ m = Len(s) /\ s \in Seq(Steps)
              /\ \A i \in 1..m : s[i] \in PlanOf(name) /\ Rank(s[i]) \in Nat
              /\ \A i, j \in 1..m : i < j => Rank(s[i]) < Rank(s[j])
              /\ \A i, j \in 1..m : i <= j => Rank(s[i]) <= Rank(s[j])
              /\ \A x \in PlanOf(name) : Rank(x) >= Rank(s[1]) => \E i \in 1..m : s[i] = x
<1>1. PICK m \in Nat : m = Len(s)
    BY DEF Follows
<1>2. \A i \in 1..m : s[i] \in PlanOf(name) /\ Rank(s[i]) \in Nat
    BY <1>1, PlanTyped DEF Follows
<1>3. \A i, j \in 1..m : i < j => Rank(s[i]) < Rank(s[j])
    BY <1>1 DEF Follows
<1>4. \A i, j \in 1..m : i <= j => Rank(s[i]) <= Rank(s[j])
    <2> SUFFICES ASSUME NEW i \in 1..m, NEW j \in 1..m, i <= j PROVE Rank(s[i]) <= Rank(s[j])
        OBVIOUS
    <2>1. Rank(s[i]) \in Nat /\ Rank(s[j]) \in Nat
        BY <1>2
    <2>2. CASE i = j
        BY <2>1, <2>2
    <2>3. CASE i < j
        <3>1. Rank(s[i]) < Rank(s[j])
            BY <1>3, <2>3
        <3> QED
            BY <2>1, <3>1
    <2> QED
        BY <2>2, <2>3
<1>5. \A x \in PlanOf(name) : Rank(x) >= Rank(s[1]) => \E i \in 1..m : s[i] = x
    BY <1>1 DEF Follows
<1> QED
    BY <1>1, <1>2, <1>3, <1>4, <1>5 DEF Follows

(* The step after one of which the next rank is planned.                    *)
LEMMA Successor ==
    ASSUME NEW s, NEW name, Follows(s, name), NEW k \in 1..Len(s), NEW x \in PlanOf(name),
           Rank(x) = Rank(s[k]) + 1
    PROVE  k + 1 \in 1..Len(s) /\ s[k + 1] = x
<1>1. PICK m \in Nat :
              /\ m = Len(s) /\ s \in Seq(Steps)
              /\ \A i \in 1..m : s[i] \in PlanOf(name) /\ Rank(s[i]) \in Nat
              /\ \A i, j \in 1..m : i < j => Rank(s[i]) < Rank(s[j])
              /\ \A i, j \in 1..m : i <= j => Rank(s[i]) <= Rank(s[j])
              /\ \A y \in PlanOf(name) : Rank(y) >= Rank(s[1]) => \E i \in 1..m : s[i] = y
    BY FollowsIs
<1>2. k \in 1..m /\ 1 \in 1..m /\ 1 <= k
    BY <1>1
<1>3. Rank(s[1]) <= Rank(s[k]) /\ Rank(s[1]) \in Nat /\ Rank(s[k]) \in Nat
    BY <1>1, <1>2
<1>4. PICK i \in 1..m : s[i] = x
    <2>1. Rank(x) >= Rank(s[1])
        BY <1>3
    <2> QED
        BY <1>1, <2>1
<1>5. ~(i <= k)
    <2>1. i <= k => Rank(x) <= Rank(s[k])
        BY <1>1, <1>2, <1>4
    <2> QED
        BY <1>3, <2>1
<1>6. k + 1 \in 1..m /\ k < k + 1
    BY <1>2, <1>5
<1>7. Rank(s[k]) < Rank(s[k + 1]) /\ Rank(s[k + 1]) \in Nat
    BY <1>1, <1>2, <1>6
<1>8. ~(k + 1 < i)
    <2>1. k + 1 < i => Rank(s[k + 1]) < Rank(x)
        BY <1>1, <1>4, <1>6
    <2> QED
        BY <1>3, <1>7, <2>1
<1>9. i = k + 1
    BY <1>5, <1>6, <1>8
<1> QED
    BY <1>1, <1>4, <1>6, <1>9

(* Some steps of the plan are left behind.                                  *)
LEMMA Dropped ==
    ASSUME NEW s, NEW name, Follows(s, name), NEW n \in Nat, n >= 1, n < Len(s), NEW t,
           t = SubSeq(s, n + 1, Len(s))
    PROVE  /\ Follows(t, name) /\ t # <<>>
           /\ t[1] = s[n + 1] /\ t[1] \in PlanOf(name) /\ Rank(s[n]) < Rank(t[1])
           /\ \A x \in PlanOf(name) : Rank(x) < Rank(t[1]) => Rank(x) <= Rank(s[n])
<1>1. PICK l \in Nat :
              /\ l = Len(s) /\ s \in Seq(Steps)
              /\ \A i \in 1..l : s[i] \in PlanOf(name) /\ Rank(s[i]) \in Nat
              /\ \A i, j \in 1..l : i < j => Rank(s[i]) < Rank(s[j])
              /\ \A i, j \in 1..l : i <= j => Rank(s[i]) <= Rank(s[j])
              /\ \A y \in PlanOf(name) : Rank(y) >= Rank(s[1]) => \E i \in 1..l : s[i] = y
    BY FollowsIs
<1>2. PICK m \in Nat : m = l - n /\ m >= 1
    <2>1. l - n \in Nat /\ l - n >= 1
        BY <1>1
    <2> QED
        BY <2>1
<1>3. /\ t \in Seq(Steps) /\ Len(t) = m
      /\ \A i \in 1..m : t[i] = s[n + i] /\ n + i \in 1..l
    BY <1>1, <1>2
<1>4. /\ t # <<>> /\ 1 \in 1..m /\ t[1] = s[n + 1] /\ n + 1 \in 1..l /\ n \in 1..l /\ 1 \in 1..l
      /\ 1 <= n /\ n < n + 1
    <2>0. n + 1 <= l /\ l \in Nat /\ m \in Nat
        BY <1>2
    <2>1. 1 \in 1..m /\ n + 1 \in 1..l /\ n \in 1..l /\ 1 \in 1..l /\ 1 <= n /\ n < n + 1
        BY <1>2, <2>0
    <2>2. t[1] = s[n + 1]
        BY <1>3, <2>1
    <2>3. t # <<>>
        <3>1. Len(t) # 0
            BY <1>2, <1>3
        <3> QED
            BY <3>1
    <2> QED
        BY <2>1, <2>2, <2>3
<1>5. \A i \in 1..m : t[i] \in PlanOf(name)
    BY <1>1, <1>3
<1>6. ASSUME NEW i \in 1..m, NEW j \in 1..m, i < j PROVE Rank(t[i]) < Rank(t[j])
    <2>1. n + i < n + j
        BY <1>6
    <2> QED
        BY <1>1, <1>3, <2>1
<1>7. /\ Rank(s[n]) < Rank(t[1]) /\ Rank(s[1]) <= Rank(s[n])
      /\ Rank(s[1]) \in Nat /\ Rank(s[n]) \in Nat /\ Rank(t[1]) \in Nat
    BY <1>1, <1>4
<1>8. ASSUME NEW x \in PlanOf(name), Rank(x) > Rank(s[n])
      PROVE  \E i \in 1..m : t[i] = x
    <2>1. Rank(x) \in Nat
        BY PlanTyped
    <2>2. Rank(x) >= Rank(s[1])
        BY <1>7, <1>8, <2>1
    <2>3. PICK k \in 1..l : s[k] = x
        BY <1>1, <2>2
    <2>4. ~(k <= n)
        <3>1. k <= n => Rank(x) <= Rank(s[n])
            BY <1>1, <1>4, <2>3
        <3> QED
            BY <1>7, <1>8, <2>1, <3>1
    <2>5. PICK i \in 1..m : k = n + i
        <3>1. k - n \in 1..m /\ k = n + (k - n)
            BY <1>1, <1>2, <2>4
        <3> QED
            BY <3>1
    <2> QED
        BY <1>3, <2>3, <2>5
<1>9. ASSUME NEW x \in PlanOf(name), Rank(x) >= Rank(t[1])
      PROVE  \E i \in 1..m : t[i] = x
    <2>1. Rank(x) > Rank(s[n])
        BY <1>7, <1>9, PlanTyped
    <2> QED
        BY <1>8, <2>1
<1>10. ASSUME NEW x \in PlanOf(name), Rank(x) < Rank(t[1]) PROVE Rank(x) <= Rank(s[n])
    <2>1. Rank(x) \in Nat
        BY PlanTyped
    <2>2. ASSUME Rank(x) > Rank(s[n]) PROVE FALSE
        <3>1. PICK i \in 1..m : t[i] = x
            BY <1>8, <2>2
        <3>2. CASE i = 1
            BY <1>7, <1>10, <3>1, <3>2
        <3>3. CASE 1 < i
            <4>1. Rank(t[1]) < Rank(x)
                BY <1>4, <1>6, <3>1, <3>3
            <4> QED
                BY <1>7, <1>10, <2>1, <4>1
        <3> QED
            BY <3>2, <3>3
    <2> QED
        BY <1>7, <2>1, <2>2
<1>11. Follows(t, name)
    BY <1>3, <1>4, <1>5, <1>6, <1>9 DEF Follows
<1>12. t[1] \in PlanOf(name)
    BY <1>4, <1>5
<1> QED
    BY <1>4, <1>7, <1>10, <1>11, <1>12

-----------------------------------------------------------------------------
(* Where a running command is, and what a step of it leaves alone.          *)

(* A running command stands at a step of its plan.                          *)
LEMMA Where ==
    ASSUME IInv, todo # <<>>
    PROVE  /\ Head(todo) = todo[1] /\ 1 \in 1..Len(todo) /\ Len(todo) \in Nat
           /\ cmd # Idle /\ cmd.name \in Names /\ Follows(todo, cmd.name)
           /\ todo[1] \in PlanOf(cmd.name) /\ todo[1] \in Steps
           /\ Rank(todo[1]) \in 1..33 /\ Rank(todo[1]) \in Nat
<1>1. todo \in Seq(Steps) /\ cmd.name \in Names /\ cmd # Idle /\ Follows(todo, cmd.name)
    BY DEF IInv, TypeOK, Ahead
<1>2. Len(todo) \in Nat /\ 1 \in 1..Len(todo) /\ Head(todo) = todo[1]
    BY <1>1
<1>3. todo[1] \in PlanOf(cmd.name)
    BY <1>1, <1>2 DEF Follows
<1> QED
    BY <1>1, <1>2, <1>3, PlanTyped

\* the step that starts the signer and those it waits in publish nothing
Handshake == {"sign", "reserve", "signing"}

\* the command goes on to a later step, and passes over nothing
Onward ==
    /\ todo' # <<>> /\ Follows(todo', cmd.name)
    /\ todo'[1] \in PlanOf(cmd.name) /\ Rank(todo[1]) < Rank(todo'[1])
    /\ \A x \in PlanOf(cmd.name) \ Handshake :
          Rank(x) < Rank(todo'[1]) => Rank(x) <= Rank(todo[1])

Stops == cmd' = Idle /\ todo' = <<>>

(* Advance ends the command, or brings it to the next step of its plan.     *)
LEMMA Advances ==
    ASSUME IInv, todo # <<>>, Advance
    PROVE  Stops \/ (cmd' = cmd /\ Onward)
<1>1. CASE Len(todo) = 1
    BY <1>1 DEF Advance, End, Stops
<1>2. CASE Len(todo) # 1
    <2>1. Len(todo) \in Nat /\ 1 < Len(todo)
        <3>1. Len(todo) \in Nat /\ 1 \in 1..Len(todo)
            BY Where
        <3> QED
            BY <1>2, <3>1
    <2>2. todo \in Seq(Steps) /\ Tail(todo) = SubSeq(todo, 2, Len(todo))
        BY <2>1 DEF IInv, TypeOK
    <2>3. todo' = SubSeq(todo, 1 + 1, Len(todo)) /\ cmd' = cmd
        BY <1>2, <2>2 DEF Advance
    <2>4. Follows(todo, cmd.name) /\ 1 < Len(todo)
        BY <2>1, Where
    <2>5. PICK t : t = todo'
        OBVIOUS
    <2>6. /\ Follows(t, cmd.name) /\ t # <<>> /\ t[1] \in PlanOf(cmd.name)
          /\ Rank(todo[1]) < Rank(t[1])
          /\ \A x \in PlanOf(cmd.name) : Rank(x) < Rank(t[1]) => Rank(x) <= Rank(todo[1])
        <3>1. PICK n \in Nat : n = 1
            OBVIOUS
        <3>2. n >= 1 /\ n < Len(todo) /\ t = SubSeq(todo, n + 1, Len(todo))
            BY <2>3, <2>4, <2>5, <3>1
        <3>3. PICK s, name : s = todo /\ name = cmd.name
            OBVIOUS
        <3>4. Follows(s, name) /\ n < Len(s) /\ t = SubSeq(s, n + 1, Len(s))
            BY <2>4, <3>2, <3>3
        <3>5. /\ Follows(t, name) /\ t # <<>> /\ t[1] \in PlanOf(name)
              /\ Rank(s[n]) < Rank(t[1])
              /\ \A x \in PlanOf(name) : Rank(x) < Rank(t[1]) => Rank(x) <= Rank(s[n])
            BY <3>2, <3>4, Dropped
        <3> QED
            BY <3>1, <3>3, <3>5
    <2> QED
        BY <2>3, <2>5, <2>6 DEF Onward
<1> QED
    BY <1>1, <1>2

(* What the plans have in common.                                           *)
LEMMA PlanFacts ==
    /\ \A name : "receipt" \in PlanOf(name) => "attestation" \in PlanOf(name)
    /\ \A name : "complete" \in PlanOf(name) => "manifest" \in PlanOf(name)
    /\ "control" \in PlanOf("perf_run") /\ "binding" \in PlanOf("perf_run")
    /\ "request" \in PlanOf("perf_run") /\ "request" \in PlanOf("analyze")
<1>1. {"receipt", "attestation", "complete", "manifest", "control", "binding", "request"} \subseteq Steps \ ValidOnly
    BY SetsAre DEF AllSteps, ValidOnly
<1>2. /\ Rank("receipt") = 21 /\ Rank("attestation") = 20 /\ Rank("complete") = 33
      /\ Rank("manifest") = 32 /\ Rank("request") = 22
    BY RankIs
<1> QED
    BY <1>1, <1>2 DEF PlanOf

(* What the step gone on to says of the step left: nothing is passed over.  *)
LEMMA OnwardFacts ==
    ASSUME IInv, todo # <<>>, Onward
    PROVE  /\ Rank(todo'[1]) \in Nat /\ todo'[1] # "binding"
           /\ cmd.name = "perf_run" /\ Rank(todo'[1]) > 11 => Rank(todo[1]) >= 11
           /\ todo'[1] = "receipt" => todo[1] = "attestation"
           /\ cmd.name \in {"perf_run", "analyze"} /\ Rank(todo'[1]) > 22 => Rank(todo[1]) >= 22
           /\ todo'[1] = "complete" => todo[1] = "manifest"
<1>1. /\ Rank(todo'[1]) \in Nat /\ Rank(todo[1]) \in 1..33 /\ Rank(todo[1]) \in Nat
      /\ todo[1] \in Steps
    BY Where, PlanTyped DEF Onward
<1>2. /\ Rank("binding") = 1 /\ Rank("control") = 11 /\ Rank("attestation") = 20
      /\ Rank("receipt") = 21 /\ Rank("request") = 22 /\ Rank("manifest") = 32
      /\ Rank("complete") = 33
    BY RankIs
<1>3. todo'[1] # "binding"
    <2>1. Rank(todo'[1]) # 1
        <3>1. Rank(todo[1]) < Rank(todo'[1])
            BY DEF Onward
        <3>2. \A k \in 1..33 : k >= 1
            OBVIOUS
        <3>3. PICK r \in 1..33, q \in Nat : r = Rank(todo[1]) /\ q = Rank(todo'[1])
            BY <1>1
        <3>4. r < q
            BY <3>1, <3>3
        <3>5. q # 1
            BY <3>4
        <3> QED
            BY <3>3, <3>5
    <2> QED
        BY <1>2, <2>1
<1>4. ASSUME cmd.name = "perf_run", Rank(todo'[1]) > 11 PROVE Rank(todo[1]) >= 11
    <2>1. "control" \in PlanOf(cmd.name) \ Handshake
        BY <1>4, PlanFacts DEF Handshake
    <2> QED
        BY <1>1, <1>2, <1>4, <2>1 DEF Onward
<1>5. ASSUME cmd.name \in {"perf_run", "analyze"}, Rank(todo'[1]) > 22 PROVE Rank(todo[1]) >= 22
    <2>1. "request" \in PlanOf(cmd.name) \ Handshake
        BY <1>5, PlanFacts DEF Handshake
    <2> QED
        BY <1>1, <1>2, <1>5, <2>1 DEF Onward
<1>6. ASSUME todo'[1] = "receipt" PROVE todo[1] = "attestation"
    <2>1. "attestation" \in PlanOf(cmd.name) \ Handshake
        BY <1>6, PlanFacts DEF Handshake, Onward
    <2>2. Rank(todo[1]) = Rank("attestation")
        BY <1>1, <1>2, <1>6, <2>1 DEF Onward
    <2>3. "attestation" \in Steps
        BY SetsAre DEF AllSteps
    <2> QED
        BY <1>1, <2>2, <2>3, RankTyped
<1>7. ASSUME todo'[1] = "complete" PROVE todo[1] = "manifest"
    <2>1. "manifest" \in PlanOf(cmd.name) \ Handshake
        BY <1>7, PlanFacts DEF Handshake, Onward
    <2>2. Rank(todo[1]) = Rank("manifest")
        BY <1>1, <1>2, <1>7, <2>1 DEF Onward
    <2>3. "manifest" \in Steps
        BY SetsAre DEF AllSteps
    <2> QED
        BY <1>1, <2>2, <2>3, RankTyped
<1> QED
    BY <1>1, <1>3, <1>4, <1>5, <1>6, <1>7

(* The plans depend on the verdict alone, which never changes.              *)
LEMMA SamePlans ==
    ASSUME valid' = valid
    PROVE  /\ \A name : PlanOf(name)' = PlanOf(name)
           /\ \A s, name : Follows(s, name)' <=> Follows(s, name)
<1>1. \A name : PlanOf(name)' = PlanOf(name)
    BY DEF PlanOf
<1>2. \A s, name : Follows(s, name)' <=> Follows(s, name)
    BY <1>1 DEF Follows
<1> QED
    BY <1>1, <1>2

(* A command that goes on keeps to its plan.                                *)
LEMMA StaysAhead ==
    ASSUME IInv, todo # <<>>, managed' = managed, valid' = valid,
           Stops \/ (cmd'.name = cmd.name /\ cmd' # Idle /\ Onward)
    PROVE  Ahead'
<1>1. CASE Stops
    BY <1>1 DEF Stops, Ahead, Idle
<1>2. CASE cmd'.name = cmd.name /\ cmd' # Idle /\ Onward
    <2>1. cmd.name \in Names /\ Names' = Names
        BY Where DEF Names
    <2> QED
        BY <1>2, <2>1, SamePlans DEF Onward, Ahead
<1> QED
    BY <1>1, <1>2

-----------------------------------------------------------------------------
(* Writing an artifact down.                                                *)

(* Which commands plan which ranks, on a managed Session and on others.     *)
LEMMA PlanRanks ==
    ASSUME NEW name \in Names, NEW x \in PlanOf(name), managed \in BOOLEAN
    PROVE  /\ managed <=> name = "perf_run"
           /\ ~managed => /\ name \in {"normalize", "attest", "analyze", "convert"}
                          /\ Rank(x) \in {9, 13, 14, 20, 21} \cup 22..33
           /\ Rank(x) \in 22..30 => name \in {"perf_run", "analyze"}
           /\ Rank(x) \in {20, 21} => name \in {"perf_run", "attest"}
           /\ Rank(x) \in {13, 14} => name \in {"perf_run", "normalize"}
<1>1. Rank(x) \in 1..33
    BY PlanTyped
<1>2. (managed <=> name = "perf_run") /\ (~managed => name \in {"normalize", "attest", "analyze", "convert"})
    BY DEF Names
<1>3. /\ name = "normalize" => Rank(x) \in {13, 14}
      /\ name = "attest" => Rank(x) \in {9, 20, 21}
      /\ name = "analyze" => Rank(x) \in 22..30
      /\ name = "convert" => Rank(x) \in 31..33
    BY DEF PlanOf
<1>4. name \in {"perf_run", "normalize", "attest", "analyze", "convert"}
    BY DEF Names
<1>5. CASE name = "perf_run"
    BY <1>2, <1>5
<1>6. CASE name = "normalize"
    BY <1>2, <1>3, <1>6
<1>7. CASE name = "attest"
    BY <1>2, <1>3, <1>7
<1>8. CASE name = "analyze"
    BY <1>2, <1>3, <1>8
<1>9. CASE name = "convert"
    BY <1>2, <1>3, <1>9
<1> QED
    BY <1>4, <1>5, <1>6, <1>7, <1>8, <1>9

(* No step is planned by two commands that can run on one Session.          *)
LEMMA PlansApart ==
    ASSUME NEW m \in Names, NEW n \in Names, NEW x, x \in PlanOf(m), x \in PlanOf(n),
           managed \in BOOLEAN
    PROVE  m = n
<1>1. CASE managed
    BY <1>1 DEF Names
<1>2. CASE ~managed
    <2>1. \A k \in Names : x \in PlanOf(k) =>
              \/ k = "normalize" /\ Rank(x) \in {13, 14}
              \/ k = "attest" /\ Rank(x) \in {9, 20, 21}
              \/ k = "analyze" /\ Rank(x) \in 22..30
              \/ k = "convert" /\ Rank(x) \in 31..33
        BY <1>2 DEF PlanOf, Names
    <2> QED
        BY <2>1
<1> QED
    BY <1>1, <1>2

(* What the running command would publish now.                              *)
LEMMA WantIs ==
    ASSUME IInv, todo # <<>>, NEW a \in Artifacts, a = todo[1],
           a = "attestation" => cmd.attestation # None
    PROVE  /\ Want(a) \in Values /\ Want(a) # None
           /\ a \in Plain => Want(a) = "data"
           /\ a \in {"binding", "provisioned", "dispatch"} => managed /\ Want(a) = cmd.deployment
           /\ a \in {"provisioned", "dispatch"} => Want(a) = catalog["binding"]
           /\ a \in {"mapping", "observations"} => Want(a) = cmd.config
           /\ a = "request" => Want(a) = cmd.flavor
           /\ a \in {"static_ram", "summary", "stage"} => Want(a) = cmd.flavor /\ Want(a) = catalog["request"]
           /\ a = "attestation" => Want(a) = cmd.attestation /\ Want(a) \in Good
           /\ a = "receipt" => /\ cmd.attestation # None /\ Want(a) = cmd.attestation
                               /\ Want(a) = catalog["attestation"]
<1>1. /\ managed \in BOOLEAN /\ cmd.name \in Names /\ a \in PlanOf(cmd.name) /\ Rank(a) \in 1..33
    BY Where DEF IInv, TypeOK
<1>2. /\ "none" \notin Deployments /\ "none" \notin Good /\ "none" \notin Flavors /\ "none" \notin Configs
    BY PerfRunAssumption
<1>3. CASE a \in {"binding", "provisioned", "dispatch"}
    <2>1. Rank(a) \in {1, 10, 16}
        BY <1>3, RankIs
    <2>2. managed
        BY <1>1, <2>1, PlanRanks
    <2>3. cmd.deployment \in Deployments /\ (a # "binding" => catalog["binding"] = cmd.deployment)
        BY <2>2 DEF IInv, Inputs
    <2>4. Want(a) = cmd.deployment
        BY <1>3 DEF Want
    <2> QED
        BY <1>2, <1>3, <2>2, <2>3, <2>4 DEF Values, None, Plain
<1>4. CASE a \in {"mapping", "observations"}
    <2>1. Want(a) = cmd.config /\ cmd.config \in Configs
        BY <1>4 DEF Want, IInv, Inputs
    <2> QED
        BY <1>2, <1>4, <2>1 DEF Values, None, Plain
<1>5. CASE a \in {"request", "static_ram", "summary", "stage"}
    <2>1. Want(a) = cmd.flavor /\ cmd.flavor \in Flavors
        BY <1>5 DEF Want, IInv, Inputs
    <2>2. a # "request" => catalog["request"] = cmd.flavor
        <3>1. a # "request" => Rank(a) \in {27, 29, 30}
            BY <1>5, RankIs
        <3>2. a # "request" => cmd.name \in {"perf_run", "analyze"} /\ Rank(todo[1]) > 22
            BY <1>1, <3>1, PlanRanks
        <3> QED
            BY <3>2 DEF IInv, Inputs
    <2> QED
        BY <1>2, <1>5, <2>1, <2>2 DEF Values, None, Plain
<1>6. CASE a \in {"attestation", "receipt"}
    <2>1. Want(a) = cmd.attestation /\ cmd.attestation \in Good \cup {None} /\ cmd.attestation # None
        BY <1>6 DEF Want, IInv, Inputs
    <2>2. a = "receipt" => catalog["attestation"] = cmd.attestation
        <3>1. Rank("receipt") = 21 /\ Rank("attestation") = 20
            BY RankIs
        <3>2. "attestation" \in Artifacts
            BY SetsAre DEF Artifacts
        <3>3. a = "receipt" => catalog["attestation"] # None
            BY <1>1, <3>1, <3>2, PlanFacts DEF IInv, Behind
        <3> QED
            BY <2>1, <3>3 DEF IInv, Inputs
    <2> QED
        BY <1>2, <1>6, <2>1, <2>2 DEF Values, None, Plain
<1>7. CASE a \in Plain
    <2>1. Want(a) = "data"
        BY <1>7 DEF Want, Plain
    <2> QED
        BY <1>7, <2>1 DEF Values, None, Plain
<1> QED
    BY <1>3, <1>4, <1>5, <1>6, <1>7 DEF Plain

\* the artifact of the present step is written down: in part or whole
Writes(a) ==
    /\ managed' = managed /\ valid' = valid /\ captured' = captured
    /\ catalog' = catalog \/ catalog' = [catalog EXCEPT ![a] = Want(a)]
    /\ staged' = staged \/ (a \in Ingested /\ staged' = [staged EXCEPT ![a] = Want(a)])
    /\ intent' \in {intent, None} \/ (a \in Ingested /\ intent' = a)

(* Writing down the artifact of the present step, in part or whole, keeps   *)
(* the record in order and of one origin.                                   *)
LEMMA WritesKeep ==
    ASSUME IInv, todo # <<>>, NEW a \in Artifacts, a = todo[1],
           a = "attestation" => cmd.attestation # None,
           catalog[a] = None, Registered(Requires(a)), Writes(a)
    PROVE  /\ catalog' \in [Artifacts -> Values] /\ staged' \in [Ingested -> Values]
           /\ intent' \in Ingested \cup {None}
           /\ \A x \in Artifacts : x # a => catalog'[x] = catalog[x]
           /\ \A x \in Artifacts : catalog[x] # None => catalog'[x] = catalog[x]
           /\ InOrder' /\ Origins'
<1>1. /\ managed \in BOOLEAN /\ catalog \in [Artifacts -> Values] /\ staged \in [Ingested -> Values]
      /\ intent \in Ingested \cup {None}
    BY DEF IInv, TypeOK
<1>2. /\ cmd.name \in Names /\ a \in PlanOf(cmd.name)
    BY Where
<1>3. Want(a) \in Values
    BY WantIs
<1>4. /\ catalog' \in [Artifacts -> Values]
      /\ \A x \in Artifacts : x # a => catalog'[x] = catalog[x]
      /\ catalog'[a] \in {None, Want(a)}
    BY <1>1, <1>3 DEF Writes
<1>5. \A x \in Artifacts : catalog[x] # None => catalog'[x] = catalog[x]
    BY <1>4
<1>6. /\ staged' \in [Ingested -> Values]
      /\ \A x \in Ingested : x # a => staged'[x] = staged[x]
      /\ a \in Ingested => staged'[a] \in {staged[a], Want(a)}
    BY <1>1, <1>3 DEF Writes
<1>7. intent' \in Ingested \cup {None}
    BY <1>1 DEF Writes
<1>8. \A y \in Artifacts : Begun(y)' => Begun(y) \/ y = a
    <2> SUFFICES ASSUME NEW y \in Artifacts, y # a, Begun(y)' PROVE Begun(y)
        OBVIOUS
    <2>1. y # None
        BY SetsAre DEF Artifacts, Committed, None
    <2>2. catalog'[y] # None \/ intent' = y
        BY DEF Begun
    <2> QED
        BY <1>4, <2>1, <2>2 DEF Begun, Writes
<1>9. InOrder'
    <2>1. /\ Names' = Names /\ \A n : PlanOf(n)' = PlanOf(n)
        BY SamePlans DEF Writes, Names
    <2>2. ASSUME NEW n \in Names, NEW x \in PlanOf(n) \cap Artifacts, NEW y \in PlanOf(n) \cap Artifacts,
                 Rank(x) < Rank(y), Begun(y)'
          PROVE  catalog'[x] # None
        <3>1. CASE Begun(y)
            BY <1>5, <2>2, <3>1 DEF IInv, InOrder
        <3>2. CASE y = a
            <4>1. n = cmd.name
                BY <1>1, <1>2, <2>2, <3>2, PlansApart
            <4>2. catalog[x] # None
                BY <2>2, <3>2, <4>1 DEF IInv, Behind
            <4> QED
                BY <1>5, <4>2
        <3> QED
            BY <1>8, <2>2, <3>1, <3>2
    <2>3. ASSUME NEW y \in Artifacts, Begun(y)' PROVE Registered(Requires(y))'
        <3>1. Registered(Requires(y))
            BY <1>8, <2>3 DEF IInv, InOrder
        <3>2. Requires(y) \subseteq Artifacts
            BY SetsAre DEF Requires, Artifacts, Committed
        <3> QED
            BY <1>5, <3>1, <3>2 DEF Registered, Requires
    <2>4. intent' # None => \E n \in Names : intent' \in PlanOf(n)
        <3>1. intent' \in {intent, None, a}
            BY DEF Writes
        <3> QED
            BY <1>2, <3>1 DEF IInv, InOrder
    <2> QED
        BY <2>1, <2>2, <2>3, <2>4 DEF InOrder
<1>10. Origins'
    <2>1. {"binding", "provisioned", "dispatch", "request", "attestation", "receipt"} \subseteq Ingested
        BY SetsAre
    <2>2. {"mapping", "observations", "static_ram", "summary", "stage"} \subseteq Artifacts \ Ingested
        BY SetsAre DEF Artifacts, Committed
    <2>3. Ingested \subseteq Artifacts /\ Plain \subseteq Artifacts
        BY DEF Artifacts, Plain
    <2>4. \A b \in Artifacts : b # a => OnRecord(b)' = OnRecord(b)
        BY <1>4, <1>6 DEF OnRecord
    <2>5. \A S : a \in Artifacts /\ OnRecord(a) \subseteq S /\ Want(a) \in S => OnRecord(a)' \subseteq S
        BY <1>4, <1>6 DEF OnRecord
    <2>6. \A b \in Artifacts : catalog[b] \in OnRecord(b)
        BY DEF OnRecord
    <2>7. \A b \in Plain : OnRecord(b)' \subseteq {None, "data"}
        <3> SUFFICES ASSUME NEW b \in Plain PROVE OnRecord(b)' \subseteq {None, "data"}
            OBVIOUS
        <3>1. OnRecord(b) \subseteq {None, "data"}
            BY DEF IInv, Origins
        <3>2. b = a => Want(a) = "data"
            BY WantIs
        <3> QED
            BY <2>3, <2>4, <2>5, <3>1, <3>2
    <2>8. ASSUME managed, NEW b \in {"provisioned", "dispatch"}
          PROVE  OnRecord(b)' \subseteq {None, catalog'["binding"]}
        <3>1. OnRecord(b) \subseteq {None, catalog["binding"]}
            BY <2>8 DEF IInv, Origins
        <3>2. CASE a = "binding"
            BY <2>1, <2>3, <2>4, <2>8, <3>1, <3>2
        <3>3. CASE a # "binding"
            <4>1. b = a => Want(a) = catalog["binding"]
                BY WantIs, <2>8
            <4>2. catalog'["binding"] = catalog["binding"]
                BY <1>4, <2>1, <2>3, <3>3
            <4> QED
                BY <2>1, <2>3, <2>4, <2>5, <2>8, <3>1, <4>1, <4>2
        <3> QED
            BY <3>2, <3>3
    <2>9. managed => captured' \in {None, catalog'["binding"]}
        <3>1. managed => captured' \in {None, catalog["binding"]}
            BY DEF IInv, Origins, Writes
        <3>2. catalog["binding"] # None => catalog'["binding"] = catalog["binding"]
            BY <1>5, <2>1, <2>3
        <3> QED
            BY <3>1, <3>2
    <2>10. ASSUME managed, NEW b \in {"mapping", "observations"} PROVE catalog'[b] \in {None, Config}
        <3>1. catalog[b] \in {None, Config}
            BY <2>10 DEF IInv, Origins
        <3>2. b = a => Want(a) = Config
            BY <2>10, WantIs DEF IInv, Inputs
        <3> QED
            BY <1>4, <2>2, <3>1, <3>2
    <2>11. ASSUME managed PROVE OnRecord("request")' \subseteq {None, Flavor}
        <3>1. OnRecord("request") \subseteq {None, Flavor}
            BY <2>11 DEF IInv, Origins
        <3>2. a = "request" => Want(a) = Flavor
            BY <2>11, WantIs DEF IInv, Inputs
        <3> QED
            BY <2>1, <2>3, <2>4, <2>5, <3>1, <3>2
    <2>12. ASSUME NEW b \in {"static_ram", "summary", "stage"} PROVE catalog'[b] \in {None, catalog'["request"]}
        <3>1. catalog[b] \in {None, catalog["request"]}
            BY DEF IInv, Origins
        <3>2. CASE a = "request"
            BY <1>4, <2>1, <2>2, <2>3, <3>1, <3>2
        <3>3. CASE a # "request"
            <4>1. b = a => Want(a) = catalog["request"]
                BY WantIs, <2>12
            <4>2. catalog'["request"] = catalog["request"]
                BY <1>4, <2>1, <2>3, <3>3
            <4> QED
                BY <1>4, <2>2, <3>1, <4>1, <4>2
        <3> QED
            BY <3>2, <3>3
    <2>13. OnRecord("attestation")' \subseteq {None} \cup Good
        <3>1. OnRecord("attestation") \subseteq {None} \cup Good
            BY DEF IInv, Origins
        <3>2. a = "attestation" => Want(a) \in Good
            BY WantIs
        <3> QED
            BY <2>1, <2>3, <2>4, <2>5, <3>1, <3>2
    <2>14. OnRecord("receipt")' \subseteq {None, catalog'["attestation"]}
        <3>1. OnRecord("receipt") \subseteq {None, catalog["attestation"]}
            BY DEF IInv, Origins
        <3>2. CASE a = "attestation"
            BY <2>1, <2>3, <2>4, <3>1, <3>2
        <3>3. CASE a # "attestation"
            <4>1. "receipt" = a => Want(a) = catalog["attestation"]
                BY WantIs
            <4>2. catalog'["attestation"] = catalog["attestation"]
                BY <1>4, <2>1, <2>3, <3>3
            <4> QED
                BY <2>1, <2>3, <2>4, <2>5, <3>1, <4>1, <4>2
        <3> QED
            BY <3>2, <3>3
    <2> QED
        BY <2>7, <2>8, <2>9, <2>10, <2>11, <2>12, <2>13, <2>14 DEF Origins, Writes
<1> QED
    BY <1>4, <1>5, <1>6, <1>7, <1>9, <1>10

-----------------------------------------------------------------------------
(* Steps that stop the command, and steps that bring it forward.            *)

(* No command is a command record too.                                      *)
LEMMA IdleTyped ==
    Idle \in Calls
BY DEF Idle, Calls

(* The command record stays one.                                            *)
LEMMA CallTyped ==
    ASSUME IInv, Stops \/ (cmd' = cmd /\ Onward)
    PROVE  /\ todo' \in Seq(Steps)
           /\ cmd' \in Calls
<1>1. CASE Stops
    <2>1. <<>> \in Seq(Steps)
        OBVIOUS
    <2> QED
        BY <1>1, <2>1, IdleTyped DEF Stops
<1>2. CASE cmd' = cmd /\ Onward
    <2>1. todo' \in Seq(Steps)
        BY <1>2 DEF Onward, Follows
    <2> QED
        BY <1>2, <2>1 DEF IInv, TypeOK
<1> QED
    BY <1>1, <1>2

(* A step that stops the command and writes nothing down keeps everything   *)
(* that was known, when only a damaged Session is made Failed.              *)
LEMMA Rests ==
    ASSUME IInv, Stops, out' = out, deployed' = deployed,
           UNCHANGED <<managed, valid, control, captured, catalog, staged, intent, orphans, manifest>>,
           hurt' \in BOOLEAN, hurt => hurt',
           status' = status \/ (status' = "failed" /\ hurt')
    PROVE  IInv'
<1>1. todo' = <<>> /\ cmd' = Idle
    BY DEF Stops
<1>2. TypeOK'
    <2>1. todo' \in Seq(Steps)
        BY <1>1
    <2> QED
        BY <1>1, <2>1, IdleTyped DEF IInv, TypeOK
<1>3. Ahead' /\ Behind' /\ Inputs'
    BY <1>1 DEF Ahead, Behind, Inputs
<1>4. InOrder'
    <2>1. Names' = Names /\ (\A n : PlanOf(n)' = PlanOf(n)) /\ (\A y : Begun(y)' <=> Begun(y))
        BY SamePlans DEF Names, Begun
    <2>2. \A y \in Artifacts : Registered(Requires(y))' <=> Registered(Requires(y))
        BY DEF Registered, Requires
    <2> QED
        BY <2>1, <2>2 DEF IInv, InOrder
<1>5. Origins'
    <2>1. \A b : OnRecord(b)' = OnRecord(b)
        BY DEF OnRecord
    <2> QED
        BY <2>1 DEF IInv, Origins
<1>6. Progress'
    BY <1>1 DEF IInv, Progress
<1>7. Unhurt'
    BY DEF IInv, Unhurt
<1>8. CompleteIsWhole'
    BY DEF IInv, CompleteIsWhole, Registered
<1> QED
    BY <1>2, <1>3, <1>4, <1>5, <1>6, <1>7, <1>8 DEF IInv

(* A step that brings the command forward, when what it publishes is on     *)
(* record afterwards.                                                       *)
LEMMA Proceeds ==
    ASSUME IInv, todo # <<>>, managed' = managed, valid' = valid, hurt' = hurt,
           Stops \/ (cmd' = cmd /\ Onward),
           \A x \in Artifacts : catalog[x] # None => catalog'[x] = catalog[x],
           \A x \in Artifacts : x # todo[1] => catalog'[x] = catalog[x],
           todo[1] \in Artifacts => catalog'[todo[1]] = Want(todo[1]),
           staged'["attestation"] \in {staged["attestation"], cmd.attestation},
           todo[1] = "attestation" => cmd.attestation # None
    PROVE  Ahead' /\ Behind' /\ Inputs'
<1>1. Ahead'
    BY StaysAhead, Where
<1>2. CASE Stops
    BY <1>1, <1>2 DEF Stops, Behind, Inputs
<1>3. CASE cmd' = cmd /\ Onward
    <2>1. /\ todo[1] \in PlanOf(cmd.name) /\ todo[1] \in Steps /\ cmd.name \in Names
          /\ Rank(todo[1]) \in Nat /\ managed \in BOOLEAN
        BY Where DEF IInv, TypeOK
    <2>2. todo[1] \in Artifacts => Want(todo[1]) # None
        BY WantIs
    <2>3. Behind'
        <3> SUFFICES ASSUME NEW x \in PlanOf(cmd.name), x \in Artifacts, Rank(x) < Rank(todo'[1])
                     PROVE  catalog'[x] # None
            BY <1>3, SamePlans DEF Behind
        <3>1. x \notin Handshake /\ x \in Steps /\ Rank(x) \in Nat
            BY SetsAre, PlanTyped DEF Handshake, Artifacts, Committed
        <3>2. Rank(x) <= Rank(todo[1])
            BY <1>3, <3>1 DEF Onward
        <3>3. CASE Rank(x) = Rank(todo[1])
            <4>1. x = todo[1]
                BY <2>1, <3>1, <3>3, RankTyped
            <4> QED
                BY <2>2, <4>1
        <3>4. CASE Rank(x) < Rank(todo[1])
            BY <3>4 DEF IInv, Behind
        <3> QED
            BY <2>1, <3>1, <3>2, <3>3, <3>4
    <2>4. /\ todo'[1] # "binding"
          /\ todo'[1] = "receipt" => todo[1] = "attestation"
          /\ cmd.name \in {"perf_run", "analyze"} /\ Rank(todo'[1]) > 22 => Rank(todo[1]) >= 22
        BY <1>3, OnwardFacts
    <2>5. {"binding", "attestation", "request", "mapping", "observations", "stage"} \subseteq Artifacts
        BY SetsAre DEF Artifacts, Committed
    <2>6. managed => catalog'["binding"] = cmd.deployment
        <3>1. CASE todo[1] = "binding"
            BY <2>5, <3>1, WantIs
        <3>2. CASE todo[1] # "binding"
            BY <2>5, <3>2 DEF IInv, Inputs
        <3> QED
            BY <3>1, <3>2
    <2>7. cmd.name = "attest" => catalog'["observations"] # None
        BY <2>5 DEF IInv, Inputs
    <2>8. cmd.attestation # None =>
             IF catalog'["attestation"] # None THEN catalog'["attestation"] = cmd.attestation
             ELSE staged'["attestation"] \in {None, cmd.attestation}
        <3>1. CASE todo[1] = "attestation"
            <4>1. catalog'["attestation"] = cmd.attestation
                BY <2>5, <3>1, WantIs
            <4> QED
                BY <4>1
        <3>2. CASE todo[1] # "attestation"
            <4>1. catalog'["attestation"] = catalog["attestation"]
                BY <2>5, <3>2
            <4> QED
                BY <4>1 DEF IInv, Inputs
        <3> QED
            BY <3>1, <3>2
    <2>9. cmd.name \in {"perf_run", "analyze"} /\ Rank(todo'[1]) > 22 => catalog'["request"] = cmd.flavor
        <3> SUFFICES ASSUME cmd.name \in {"perf_run", "analyze"}, Rank(todo[1]) >= 22
                     PROVE  catalog'["request"] = cmd.flavor
            BY <2>4
        <3>1. CASE todo[1] = "request"
            BY <2>5, <3>1, WantIs
        <3>2. CASE todo[1] # "request"
            <4>1. "request" \in Steps /\ Rank("request") = 22
                BY RankIs, SetsAre DEF AllSteps
            <4>2. Rank(todo[1]) # 22
                BY <2>1, <3>2, <4>1, RankTyped
            <4>3. catalog["request"] = cmd.flavor
                BY <2>1, <4>2 DEF IInv, Inputs
            <4> QED
                BY <2>5, <3>2, <4>3
        <3> QED
            BY <3>1, <3>2
    <2>10. cmd.name = "normalize" /\ ~hurt =>
             \A b \in {"mapping", "observations"} : catalog'[b] \in {None, cmd.config}
        <3> SUFFICES ASSUME cmd.name = "normalize", ~hurt, NEW b \in {"mapping", "observations"}
                     PROVE  catalog'[b] \in {None, cmd.config}
            OBVIOUS
        <3>1. CASE todo[1] = b
            BY <2>5, <3>1, WantIs
        <3>2. CASE todo[1] # b
            BY <2>5, <3>2 DEF IInv, Inputs
        <3> QED
            BY <3>1, <3>2
    <2>11. cmd.name = "convert" /\ ~hurt => catalog'["stage"] # None
        BY <2>5 DEF IInv, Inputs
    <2>12. todo'[1] = "receipt" => cmd.attestation # None
        BY <2>4
    <2>13. /\ cmd.flavor \in Flavors /\ cmd.config \in Configs
           /\ cmd.attestation \in Good \cup {None}
           /\ managed => cmd.flavor = Flavor /\ cmd.config = Config /\ cmd.deployment \in Deployments
           /\ cmd.name = "attest" => cmd.attestation # None
        BY DEF IInv, Inputs
    <2>14. Inputs'
        BY <1>3, <2>6, <2>7, <2>8, <2>9, <2>10, <2>11, <2>12, <2>13 DEF Inputs
    <2> QED
        BY <1>1, <2>3, <2>14
<1> QED
    BY <1>2, <1>3

(* A step other than the capture itself changes nothing of how far the      *)
(* Session has come before it is Processing.                                *)
LEMMA ProgressOn ==
    ASSUME IInv, todo # <<>>, managed' = managed, Stops \/ (cmd' = cmd /\ Onward),
           status' = status, control' = control, todo[1] # "control",
           catalog["request"] # None => catalog'["request"] # None,
           todo[1] = "manifest" => manifest' /\ intent' = None
    PROVE  Progress'
<1>1. CASE Stops
    BY <1>1 DEF Stops, IInv, Progress
<1>2. CASE cmd' = cmd /\ Onward
    <2>1. /\ Rank(todo'[1]) \in Nat /\ Rank(todo[1]) \in Nat /\ Rank(todo[1]) < Rank(todo'[1])
          /\ cmd.name \in Names /\ todo[1] \in Steps
        BY <1>2, OnwardFacts, Where DEF Onward
    <2>2. managed => cmd.name = "perf_run"
        BY <2>1 DEF Names
    <2>3. Rank(todo[1]) # 11
        <3>1. "control" \in Steps /\ Rank("control") = 11
            BY RankIs, SetsAre DEF AllSteps
        <3> QED
            BY <2>1, <3>1, RankTyped
    <2>4. managed /\ Rank(todo[1]) <= 11 => Rank(todo'[1]) <= 11
        BY <1>2, <2>1, <2>2, <2>3, OnwardFacts
    <2>5. Rank(todo'[1]) <= 11 => Rank(todo[1]) <= 11
        BY <2>1
    <2>6. todo'[1] = "complete" => todo[1] = "manifest"
        BY <1>2, OnwardFacts
    <2>7. todo' # <<>>
        BY <1>2 DEF Onward
    <2> QED
        BY <1>2, <2>4, <2>5, <2>6, <2>7 DEF IInv, Progress
<1> QED
    BY <1>1, <1>2

-----------------------------------------------------------------------------
(* Publishing.                                                              *)

(* No artifact is both ingested and committed.                              *)
LEMMA Apart == Ingested \cap Committed = {} /\ None \notin Artifacts
BY SetsAre DEF Artifacts, Committed, None

(* A publication, or the adoption of what is registered already, keeps the  *)
(* invariant.                                                               *)
LEMMA PublishKeeps ==
    ASSUME IInv, NEW a \in Artifacts, Here(a), a = "attestation" => cmd.attestation # None,
           Registered(Requires(a)), Adopts(a) \/ CanPublish(a), Advance,
           IF Adopts(a) \/ catalog[a] # None
             THEN UNCHANGED <<catalog, staged, intent>>
             ELSE Stored(a) /\ intent' = (IF a \in Ingested THEN None ELSE intent),
           UNCHANGED <<managed, valid, status, control, captured, orphans, manifest, out, deployed, hurt>>
    PROVE  IInv'
<1>1. todo # <<>> /\ a = todo[1] /\ a # "control" /\ a # "manifest"
    BY Where, SetsAre DEF Here, Artifacts, Committed
<1>2. Stops \/ (cmd' = cmd /\ Onward)
    BY <1>1, Advances
<1>3. /\ catalog' \in [Artifacts -> Values] /\ staged' \in [Ingested -> Values]
      /\ intent' \in Ingested \cup {None} /\ InOrder' /\ Origins'
      /\ \A x \in Artifacts : x # a => catalog'[x] = catalog[x]
      /\ \A x \in Artifacts : catalog[x] # None => catalog'[x] = catalog[x]
      /\ catalog'[a] = Want(a)
      /\ staged'["attestation"] \in {staged["attestation"], cmd.attestation}
      /\ intent' \in {None, intent}
      /\ intent' # None => catalog'[intent] = catalog[intent]
    <2>1. CASE Adopts(a)
        <3>1. UNCHANGED <<catalog, staged, intent>> /\ catalog[a] = Want(a)
            BY <2>1 DEF Adopts
        <3>2. InOrder'
            <4>1. Names' = Names /\ (\A n : PlanOf(n)' = PlanOf(n)) /\ (\A y : Begun(y)' <=> Begun(y))
                BY <3>1, SamePlans DEF Names, Begun
            <4>2. \A y \in Artifacts : Registered(Requires(y))' <=> Registered(Requires(y))
                BY <3>1 DEF Registered, Requires
            <4> QED
                BY <3>1, <4>1, <4>2 DEF IInv, InOrder
        <3>3. Origins'
            <4>1. \A b : OnRecord(b)' = OnRecord(b)
                BY <3>1 DEF OnRecord
            <4> QED
                BY <3>1, <4>1 DEF IInv, Origins
        <3> QED
            BY <3>1, <3>2, <3>3 DEF IInv, TypeOK
    <2>2. CASE ~Adopts(a)
        <3>1. /\ catalog[a] = None /\ Stored(a)
              /\ intent' = (IF a \in Ingested THEN None ELSE intent)
            BY <2>2 DEF CanPublish
        <3>2. Writes(a)
            BY <3>1 DEF Stored, Writes
        <3>3. catalog \in [Artifacts -> Values] /\ staged \in [Ingested -> Values]
            BY DEF IInv, TypeOK
        <3>4. catalog'[a] = Want(a)
            BY <3>1, <3>3 DEF Stored
        <3>5. staged'["attestation"] \in {staged["attestation"], cmd.attestation}
            <4>1. "attestation" \in Ingested
                BY SetsAre
            <4>2. a = "attestation" => Want(a) = cmd.attestation
                BY <1>1, WantIs
            <4> QED
                BY <3>1, <3>3, <4>1, <4>2 DEF Stored
        <3>6. intent' # None => catalog'[intent] = catalog[intent]
            <4>1. intent' # None => intent \in Ingested /\ a \notin Ingested
                BY <3>1 DEF IInv, TypeOK
            <4> QED
                BY <3>1, <3>3, <4>1 DEF Stored, Artifacts
        <3>7. /\ catalog' \in [Artifacts -> Values] /\ staged' \in [Ingested -> Values]
              /\ intent' \in Ingested \cup {None} /\ InOrder' /\ Origins'
              /\ \A x \in Artifacts : x # a => catalog'[x] = catalog[x]
              /\ \A x \in Artifacts : catalog[x] # None => catalog'[x] = catalog[x]
            BY <1>1, <3>1, <3>2, WritesKeep
        <3> QED
            BY <3>1, <3>4, <3>5, <3>6, <3>7
    <2> QED
        BY <2>1, <2>2
<1>4. Ahead' /\ Behind' /\ Inputs'
    BY <1>1, <1>2, <1>3, Proceeds
<1>5. "request" \in Artifacts
    BY SetsAre DEF Artifacts
<1>6. Progress'
    BY <1>1, <1>2, <1>3, <1>5, ProgressOn
<1>7. TypeOK'
    BY <1>2, <1>3, CallTyped DEF IInv, TypeOK
<1>8. Unhurt'
    BY <1>3 DEF IInv, Unhurt
<1>9. CompleteIsWhole'
    <2>1. {"observations", "attestation", "receipt", "request", "stage", "perfetto"} \subseteq Artifacts
        BY SetsAre DEF Artifacts, Committed
    <2>2. Range(Provision) \subseteq Artifacts
        BY SetsAre DEF Artifacts
    <2> QED
        BY <1>3, <2>1, <2>2 DEF IInv, CompleteIsWhole, Registered
<1> QED
    BY <1>3, <1>4, <1>6, <1>7, <1>8, <1>9 DEF IInv

(* An intent that no crash has left behind is that of the step that has to  *)
(* be repeated.                                                             *)
LEMMA IntentIsNext ==
    ASSUME IInv, ~hurt, todo # <<>>, NEW a \in Ingested, a = todo[1], catalog[a] = None,
           managed \/ a # "request"
    PROVE  intent \in {None, a}
<1> SUFFICES ASSUME intent # None PROVE intent = a
    OBVIOUS
<1>1. PICK i : i = intent
    OBVIOUS
<1>2. /\ managed \in BOOLEAN /\ i \in Ingested /\ i \in Artifacts /\ a \in Artifacts
      /\ catalog[i] = None /\ Begun(i)
    BY <1>1 DEF IInv, TypeOK, Unhurt, Artifacts, Begun
<1>3. PICK n \in Names : i \in PlanOf(n)
    BY <1>1 DEF IInv, InOrder
<1>4. /\ cmd.name \in Names /\ a \in PlanOf(cmd.name) /\ a \in Steps /\ Rank(a) \in Nat
      /\ i \in Steps /\ Rank(i) \in Nat
    BY <1>3, Where, PlanTyped
<1>5. CASE n = cmd.name
    <2>1. ~(Rank(i) < Rank(a))
        BY <1>2, <1>3, <1>5 DEF IInv, Behind
    <2>2. ~(Rank(a) < Rank(i))
        BY <1>2, <1>3, <1>4, <1>5 DEF IInv, InOrder
    <2>3. Rank(i) = Rank(a)
        BY <1>4, <2>1, <2>2
    <2> QED
        BY <1>1, <1>4, <2>3, RankTyped
<1>6. CASE n # cmd.name
    <2>1. ~managed
        BY <1>3, <1>4, <1>6 DEF Names
    <2>2. Rank(a) \in {9, 13, 14, 20, 21} \cup 22..33 /\ Rank(i) \in {9, 13, 14, 20, 21} \cup 22..33
        BY <1>2, <1>3, <1>4, <2>1, PlanRanks
    <2>3. a \in {"policy", "attestation", "receipt"} /\ i \in {"policy", "attestation", "receipt", "request"}
        <3>1. \A x \in Ingested \ {"policy", "attestation", "receipt", "request"} :
                  Rank(x) \in {1, 2, 3, 4, 5, 6, 7, 8, 10, 12, 15, 16}
            BY SetsAre, RankIs
        <3>2. \A k \in {1, 2, 3, 4, 5, 6, 7, 8, 10, 12, 15, 16} : k \notin {9, 13, 14, 20, 21} \cup 22..33
            OBVIOUS
        <3> QED
            BY <1>2, <2>1, <2>2, <3>1, <3>2
    <2>4. CASE i = "request"
        <3>1. Registered({"observations", "policy", "attestation", "receipt"})
            BY <1>2, <2>4 DEF IInv, InOrder, Requires
        <3> QED
            BY <2>3, <3>1 DEF Registered
    <2>5. CASE i # "request"
        <3>1. i \in PlanOf("attest") /\ a \in PlanOf("attest") /\ "attest" \in Names
            BY <2>1, <2>3, <2>5, PlansAre DEF Names
        <3>2. n = "attest" /\ cmd.name = "attest"
            BY <1>2, <1>3, <1>4, <3>1, PlansApart
        <3> QED
            BY <1>6, <3>2
    <2> QED
        BY <2>4, <2>5
<1> QED
    BY <1>5, <1>6

(* A Session nothing has happened to never fails a stage.                   *)
LEMMA NotBlocked ==
    ASSUME IInv, ~hurt, NEW a \in Artifacts, Here(a), a = "attestation" => cmd.attestation # None,
           Terminal(a)
    PROVE  Registered(Requires(a)) /\ (Adopts(a) \/ CanPublish(a))
<1>1. /\ todo # <<>> /\ a = todo[1] /\ managed \in BOOLEAN /\ cmd.name \in Names
      /\ a \in PlanOf(cmd.name) /\ Rank(a) \in Nat
    BY Where DEF Here, IInv, TypeOK
<1>2. /\ managed => a \notin Range(Provision)
      /\ ~managed => a # "request"
    BY DEF Terminal
<1>3. managed => cmd.name = "perf_run"
    BY <1>1 DEF Names
<1>4. Registered(Requires(a))
    <2>1. CASE a = "attestation"
        <3>1. /\ Rank("attestation") = 20 /\ Rank("policy") = 9 /\ Rank("observations") = 14
              /\ {"policy", "observations"} \subseteq Artifacts
              /\ {"policy", "observations"} \subseteq Steps \ ValidOnly
            BY RankIs, SetsAre DEF Artifacts, Committed, AllSteps, ValidOnly
        <3>2. cmd.name \in {"perf_run", "attest"}
            BY <1>1, <2>1, <3>1, PlanRanks
        <3>3. "policy" \in PlanOf(cmd.name) /\ (cmd.name = "perf_run" => "observations" \in PlanOf(cmd.name))
            BY <3>1, <3>2 DEF PlanOf
        <3>4. catalog["policy"] # None
            BY <1>1, <2>1, <3>1, <3>3 DEF IInv, Behind
        <3>5. catalog["observations"] # None
            <4>1. CASE cmd.name = "perf_run"
                BY <1>1, <2>1, <3>1, <3>3, <4>1 DEF IInv, Behind
            <4>2. CASE cmd.name = "attest"
                BY <1>1, <4>2 DEF IInv, Inputs
            <4> QED
                BY <3>2, <4>1, <4>2
        <3> QED
            BY <2>1, <3>4, <3>5 DEF Requires, Registered
    <2>2. CASE a = "request"
        <3>1. /\ Rank("request") = 22 /\ Rank("policy") = 9 /\ Rank("observations") = 14
              /\ Rank("attestation") = 20 /\ Rank("receipt") = 21
              /\ {"policy", "observations", "attestation", "receipt"} \subseteq Artifacts
              /\ {"policy", "observations", "attestation", "receipt"} \subseteq Steps \ ValidOnly
            BY RankIs, SetsAre DEF Artifacts, Committed, AllSteps, ValidOnly
        <3>2. cmd.name = "perf_run"
            BY <1>1, <1>2, <1>3, <2>2
        <3>3. {"policy", "observations", "attestation", "receipt"} \subseteq PlanOf(cmd.name)
            BY <3>1, <3>2 DEF PlanOf
        <3> QED
            BY <1>1, <2>2, <3>1, <3>3 DEF IInv, Behind, Requires, Registered
    <2>3. CASE a = "perfetto"
        <3>1. /\ Rank("perfetto") = 31 /\ Rank("request") = 22 /\ Rank("observations") = 14
              /\ Rank("derived") = 24 /\ Rank("health") = 25 /\ Rank("summary") = 29 /\ Rank("stage") = 30
            BY RankIs
        <3>2. /\ {"observations", "derived", "health", "summary", "request", "stage"} \subseteq Artifacts
              /\ {"observations", "derived", "health", "summary", "request", "stage"} \subseteq Steps \ ValidOnly
            BY SetsAre DEF Artifacts, Committed, AllSteps, ValidOnly
        <3>3. CASE managed
            <4>1. {"observations", "derived", "health", "summary", "request", "stage"} \subseteq PlanOf(cmd.name)
                BY <1>3, <3>2, <3>3 DEF PlanOf
            <4> QED
                BY <1>1, <2>3, <3>1, <3>2, <4>1 DEF IInv, Behind, Requires, Registered
        <3>4. CASE ~managed
            <4>1. cmd.name = "convert"
                <5>1. cmd.name \in {"normalize", "attest", "analyze", "convert"}
                    BY <1>1, <3>4 DEF Names
                <5> QED
                    BY <1>1, <2>3, <3>1, <5>1 DEF PlanOf
            <4>2. catalog["stage"] # None
                BY <1>1, <4>1 DEF IInv, Inputs
            <4>3. {"derived", "health", "summary", "request", "stage"} \subseteq PlanOf("analyze")
                BY <3>1, <3>2 DEF PlanOf
            <4>4. "analyze" \in Names /\ Begun("stage")
                BY <3>4, <4>2 DEF Names, Begun
            <4>5. \A x \in {"derived", "health", "summary", "request"} : Rank(x) < Rank("stage")
                BY <3>1
            <4>6. \A x \in {"derived", "health", "summary", "request"} : catalog[x] # None
                BY <3>2, <4>3, <4>4, <4>5 DEF IInv, InOrder
            <4>7. Begun("request")
                BY <4>6 DEF Begun
            <4>8. catalog["observations"] # None
                BY <3>2, <4>7 DEF IInv, InOrder, Requires, Registered
            <4> QED
                BY <2>3, <4>2, <4>6, <4>8 DEF Requires, Registered
        <3> QED
            BY <1>1, <3>3, <3>4
    <2>4. CASE a \notin {"attestation", "request", "perfetto"}
        BY <2>4 DEF Requires, Registered
    <2> QED
        BY <2>1, <2>2, <2>3, <2>4
<1>5. a \notin {"binding", "provisioned"}
    <2>1. {"binding", "provisioned"} \subseteq Range(Provision)
        BY SetsAre
    <2> QED
        BY <1>1, <1>2, <2>1, WantIs
<1>6. /\ catalog[a] \in {None, Want(a)}
      /\ a \in Ingested /\ catalog[a] = None => staged[a] \in {None, Want(a)}
    <2>1. CASE a \in Plain
        <3>1. OnRecord(a) \subseteq {None, "data"} /\ Want(a) = "data"
            BY <1>1, <2>1, WantIs DEF IInv, Origins
        <3> QED
            BY <3>1 DEF OnRecord
    <2>2. CASE a = "dispatch"
        <3>1. OnRecord(a) \subseteq {None, catalog["binding"]} /\ Want(a) = catalog["binding"]
            BY <1>1, <2>2, WantIs DEF IInv, Origins
        <3> QED
            BY <3>1 DEF OnRecord
    <2>3. CASE a \in {"mapping", "observations"}
        <3>1. Want(a) = cmd.config /\ a \notin Ingested
            BY <1>1, <2>3, WantIs, SetsAre
        <3>2. CASE managed
            BY <1>1, <2>3, <3>1, <3>2 DEF IInv, Inputs, Origins
        <3>3. CASE ~managed
            <4>1. Rank(a) \in {13, 14}
                BY <2>3, RankIs
            <4>2. cmd.name = "normalize"
                BY <1>1, <3>3, <4>1, PlanRanks
            <4> QED
                BY <1>1, <2>3, <3>1, <4>2 DEF IInv, Inputs
        <3> QED
            BY <1>1, <3>2, <3>3
    <2>4. CASE a = "request"
        <3>1. managed /\ Want(a) = cmd.flavor
            BY <1>1, <1>2, <2>4, WantIs
        <3>2. OnRecord(a) \subseteq {None, Flavor} /\ cmd.flavor = Flavor
            BY <1>1, <2>4, <3>1 DEF IInv, Origins, Inputs
        <3> QED
            BY <3>1, <3>2 DEF OnRecord
    <2>5. CASE a \in {"static_ram", "summary", "stage"}
        <3>1. Want(a) = catalog["request"] /\ a \notin Ingested
            BY <1>1, <2>5, WantIs, SetsAre
        <3> QED
            BY <2>5, <3>1 DEF IInv, Origins
    <2>6. CASE a = "attestation"
        <3>1. Want(a) = cmd.attestation /\ cmd.attestation # None
            BY <1>1, <2>6, WantIs
        <3> QED
            BY <1>1, <2>6, <3>1 DEF IInv, Inputs
    <2>7. CASE a = "receipt"
        <3>1. Want(a) = catalog["attestation"]
            BY <1>1, <2>7, WantIs
        <3>2. OnRecord(a) \subseteq {None, Want(a)}
            BY <2>7, <3>1 DEF IInv, Origins
        <3> QED
            BY <3>2 DEF OnRecord
    <2> QED
        BY <1>5, <2>1, <2>2, <2>3, <2>4, <2>5, <2>6, <2>7 DEF Plain
<1>7. catalog[a] = None => ~Obstructed(a)
    <2>1. CASE a \in Ingested
        <3>1. catalog[a] = None => intent \in {None, a}
            BY <1>1, <1>2, <2>1, IntentIsNext
        <3> QED
            BY <1>6, <2>1, <3>1 DEF Obstructed
    <2>2. CASE a \notin Ingested
        BY <2>2 DEF Obstructed, IInv, Unhurt
    <2> QED
        BY <2>1, <2>2
<1> QED
    BY <1>4, <1>6, <1>7 DEF Adopts, CanPublish

(* Publish keeps the invariant, its two ways to fail included.              *)
LEMMA PublishStep ==
    ASSUME IInv, NEW a \in Artifacts, Publish(a)
    PROVE  IInv'
<1>1. /\ Here(a) /\ (a = "attestation" => cmd.attestation # None)
      /\ UNCHANGED <<managed, valid, control, captured, orphans, manifest, out, deployed>>
      /\ hurt \in BOOLEAN /\ (status # "failed" \/ hurt)
    BY DEF Publish, signer, IInv, TypeOK, Unhurt
<1>2. CASE Moved(a)
    <2>1. /\ StageError(a) /\ hurt' = (hurt \/ Terminal(a)) /\ UNCHANGED <<catalog, staged, intent>>
        BY <1>2 DEF Publish
    <2>2. Stops /\ (status' = status \/ (status' = "failed" /\ Terminal(a)))
        BY <2>1 DEF StageError, End, Stops
    <2>3. hurt' \in BOOLEAN /\ (hurt => hurt') /\ (Terminal(a) => hurt')
        BY <2>1
    <2> QED
        BY <1>1, <2>1, <2>2, <2>3, Rests
<1>3. CASE ~Moved(a) /\ Registered(Requires(a)) /\ (Adopts(a) \/ CanPublish(a))
    <2>1. /\ Advance /\ UNCHANGED <<status, hurt>>
          /\ IF Adopts(a) \/ catalog[a] # None
             THEN UNCHANGED <<catalog, staged, intent>>
             ELSE Stored(a) /\ intent' = (IF a \in Ingested THEN None ELSE intent)
        BY <1>3 DEF Publish
    <2> QED
        BY <1>1, <1>3, <2>1, PublishKeeps
<1>4. CASE ~Moved(a) /\ ~(Registered(Requires(a)) /\ (Adopts(a) \/ CanPublish(a)))
    <2>1. StageError(a) /\ UNCHANGED <<catalog, staged, intent, hurt>>
        BY <1>4 DEF Publish
    <2>2. Stops /\ (status' = status \/ (status' = "failed" /\ Terminal(a)))
        BY <2>1 DEF StageError, End, Stops
    <2>3. Terminal(a) => hurt
        BY <1>1, <1>4, NotBlocked
    <2> QED
        BY <1>1, <2>1, <2>2, <2>3, Rests
<1> QED
    BY <1>2, <1>3, <1>4

-----------------------------------------------------------------------------
(* The steps that publish nothing.                                          *)

(* The command goes on; of the Session at most its state and whether it has *)
(* a manifest is changed.                                                   *)
LEMMA StepsOn ==
    ASSUME IInv, todo # <<>>, todo[1] \in Waypoints, Stops \/ (cmd' = cmd /\ Onward),
           UNCHANGED <<managed, valid, catalog, staged, intent, orphans, out, deployed, hurt>>
    PROVE  /\ Ahead' /\ Behind' /\ Inputs' /\ InOrder'
           /\ todo' \in Seq(Steps)
           /\ cmd' \in Calls
           /\ (captured' \in {captured, catalog["binding"]} => Origins')
<1>1. todo[1] \notin Artifacts
    BY SetsAre DEF Waypoints, Artifacts, Committed
<1>2. "attestation" \in Artifacts
    BY SetsAre DEF Artifacts
<1>3. Ahead' /\ Behind' /\ Inputs'
    BY <1>1, <1>2, Proceeds
<1>4. InOrder'
    <2>1. Names' = Names /\ (\A n : PlanOf(n)' = PlanOf(n)) /\ (\A y : Begun(y)' <=> Begun(y))
        BY SamePlans DEF Names, Begun
    <2>2. \A y \in Artifacts : Registered(Requires(y))' <=> Registered(Requires(y))
        BY DEF Registered, Requires
    <2> QED
        BY <2>1, <2>2 DEF IInv, InOrder
<1>5. captured' \in {captured, catalog["binding"]} => Origins'
    <2>1. \A b : OnRecord(b)' = OnRecord(b)
        BY DEF OnRecord
    <2> QED
        BY <2>1 DEF IInv, Origins
<1> QED
    BY <1>3, <1>4, <1>5, CallTyped

(* The capture keeps the invariant: it happens under the deployment bound   *)
(* to.                                                                      *)
LEMMA ControlStep ==
    ASSUME IInv, Control
    PROVE  IInv'
<1>1. /\ todo # <<>> /\ todo[1] = "control" /\ cmd.name \in Names /\ todo[1] \in PlanOf(cmd.name)
      /\ UNCHANGED <<managed, valid, catalog, staged, intent, orphans, manifest, out, deployed>>
      /\ managed \in BOOLEAN /\ hurt \in BOOLEAN /\ Rank(todo[1]) = 11
    BY Where, RankIs DEF Control, Here, IInv, TypeOK, signer
<1>2. managed
    BY <1>1, PlanRanks
<1>3. status \notin {"processing", "complete"} /\ catalog["binding"] = cmd.deployment
    BY <1>1, <1>2 DEF IInv, Progress, Inputs
<1>4. CASE End /\ UNCHANGED <<status, control, captured, hurt>>
    BY <1>1, <1>4, Rests DEF End, Stops
<1>5. CASE /\ captured' = cmd.deployment /\ status' = "captured" /\ control' = "complete"
           /\ Advance /\ UNCHANGED hurt
    <2>1. Stops \/ (cmd' = cmd /\ Onward)
        BY <1>1, <1>5, Advances
    <2>2. /\ Ahead' /\ Behind' /\ Inputs' /\ InOrder' /\ Origins' /\ todo' \in Seq(Steps)
          /\ cmd' \in Calls
        BY <1>1, <1>3, <1>5, <2>1, StepsOn DEF Waypoints
    <2>3. TypeOK'
        BY <1>1, <1>5, <2>2 DEF IInv, TypeOK
    <2>4. Progress'
        <3>1. CASE Stops
            BY <1>5, <3>1 DEF Stops, Progress
        <3>2. CASE cmd' = cmd /\ Onward
            <4>1. todo'[1] # "complete"
                BY <1>1, <3>2, OnwardFacts
            <4> QED
                BY <1>5, <4>1 DEF Progress
        <3> QED
            BY <2>1, <3>1, <3>2
    <2>5. Unhurt' /\ CompleteIsWhole'
        BY <1>1, <1>5 DEF IInv, Unhurt, CompleteIsWhole
    <2> QED
        BY <2>2, <2>3, <2>4, <2>5 DEF IInv
<1>6. CASE /\ captured' = cmd.deployment /\ Stops
           /\ \/ control' = "open" /\ status' \in {status, "capturing", "captured"} /\ UNCHANGED hurt
              \/ status' = "failed" /\ hurt' = TRUE /\ UNCHANGED control
    <2>1. todo' = <<>> /\ cmd' = Idle /\ todo' \in Seq(Steps)
        BY <1>6 DEF Stops
    <2>2. TypeOK'
        <3>1. /\ status' \in {"created", "capturing", "captured", "processing", "complete", "failed"}
              /\ control' \in {"none", "open", "complete"} /\ hurt' \in BOOLEAN
            BY <1>1, <1>6 DEF IInv, TypeOK
        <3> QED
            BY <1>1, <2>1, <3>1, IdleTyped DEF IInv, TypeOK
    <2>3. Ahead' /\ Behind' /\ Inputs'
        BY <2>1 DEF Ahead, Behind, Inputs
    <2>4. InOrder'
        <3>1. Names' = Names /\ (\A n : PlanOf(n)' = PlanOf(n)) /\ (\A y : Begun(y)' <=> Begun(y))
            BY <1>1, SamePlans DEF Names, Begun
        <3>2. \A y \in Artifacts : Registered(Requires(y))' <=> Registered(Requires(y))
            BY <1>1 DEF Registered, Requires
        <3> QED
            BY <1>1, <3>1, <3>2 DEF IInv, InOrder
    <2>5. Origins'
        <3>1. \A b : OnRecord(b)' = OnRecord(b)
            BY <1>1 DEF OnRecord
        <3> QED
            BY <1>1, <1>3, <1>6, <3>1 DEF IInv, Origins
    <2>6. Progress'
        BY <1>3, <1>6, <2>1 DEF Progress
    <2>7. Unhurt' /\ CompleteIsWhole'
        BY <1>1, <1>3, <1>6 DEF IInv, Unhurt, CompleteIsWhole
    <2> QED
        BY <2>2, <2>3, <2>4, <2>5, <2>6, <2>7 DEF IInv
<1> QED
    BY <1>4, <1>5, <1>6 DEF Control, End, Stops

(* The transition to Processing keeps the invariant.                        *)
LEMMA ProcessingStep ==
    ASSUME IInv, Processing
    PROVE  IInv'
<1>1. /\ todo # <<>> /\ todo[1] = "processing" /\ cmd.name \in Names /\ todo[1] \in PlanOf(cmd.name)
      /\ UNCHANGED <<managed, valid, control, captured, catalog, staged, intent, orphans, manifest,
                     out, deployed, hurt>>
      /\ managed \in BOOLEAN /\ hurt \in BOOLEAN /\ Rank(todo[1]) = 23
    BY Where, RankIs DEF Processing, Here, IInv, TypeOK, signer
<1>2. cmd.name \in {"perf_run", "analyze"}
    BY <1>1, PlanRanks
<1>3. "request" \in Artifacts /\ Rank("request") = 22
    BY SetsAre, RankIs DEF Artifacts
<1>4. catalog["request"] # None
    BY <1>1, <1>2, <1>3, PlanFacts DEF IInv, Behind
<1>5. CASE status = "captured" /\ intent # None
    <2>1. Stops /\ (status' = status \/ (status' = "failed" /\ Terminal("processing")))
        BY <1>5 DEF Processing, StageError, End, Stops
    <2>2. Terminal("processing") => hurt
        <3> SUFFICES ASSUME managed, ~hurt PROVE FALSE
            BY <1>1 DEF Terminal
        <3>1. PICK i : i = intent
            OBVIOUS
        <3>2. i \in Ingested /\ i \in Artifacts /\ catalog[i] = None /\ cmd.name = "perf_run"
            BY <1>1, <1>5, <3>1 DEF IInv, TypeOK, Unhurt, Artifacts, Names
        <3>3. i \in PlanOf("perf_run")
            BY <1>5, <3>1 DEF IInv, InOrder, Names
        <3>4. Rank(i) < 23
            BY <3>2, SetsAre, RankIs
        <3> QED
            BY <1>1, <3>2, <3>3, <3>4 DEF IInv, Behind
    <2> QED
        BY <1>1, <2>1, <2>2, Rests
<1>6. CASE ~(status = "captured" /\ intent # None)
    <2>1. Advance /\ status' = IF status = "captured" THEN "processing" ELSE status
        BY <1>6 DEF Processing
    <2>2. Stops \/ (cmd' = cmd /\ Onward)
        BY <1>1, <2>1, Advances
    <2>3. /\ Ahead' /\ Behind' /\ Inputs' /\ InOrder' /\ Origins' /\ todo' \in Seq(Steps)
          /\ cmd' \in Calls
        BY <1>1, <2>2, StepsOn DEF Waypoints
    <2>4. TypeOK'
        BY <1>1, <2>1, <2>3 DEF IInv, TypeOK
    <2>5. Progress'
        <3>1. managed => control = "complete"
            BY <1>1 DEF IInv, Progress
        <3>2. managed => status # "complete"
            BY <1>1 DEF IInv, Progress
        <3>3. managed => status \notin {"created", "capturing"}
            BY <3>1 DEF IInv, Progress
        <3>4. CASE Stops
            BY <1>1, <1>4, <2>1, <3>1, <3>2, <3>3, <3>4 DEF Stops, Progress
        <3>5. CASE cmd' = cmd /\ Onward
            <4>1. todo'[1] # "complete" /\ Rank(todo'[1]) \in Nat /\ Rank(todo'[1]) > 23
                BY <1>1, <3>5, OnwardFacts DEF Onward
            <4> QED
                BY <1>1, <1>2, <1>4, <2>1, <3>1, <3>2, <3>3, <3>5, <4>1 DEF Progress
        <3> QED
            BY <2>2, <3>4, <3>5
    <2>6. Unhurt' /\ CompleteIsWhole'
        BY <1>1, <2>1 DEF IInv, Unhurt, CompleteIsWhole, Registered
    <2> QED
        BY <2>3, <2>4, <2>5, <2>6 DEF IInv
<1> QED
    BY <1>5, <1>6

(* What stands behind the report.                                           *)
LEMMA BehindReport ==
    ASSUME IInv, todo # <<>>, todo[1] \in {"manifest", "complete"}
    PROVE  /\ Registered({"observations", "policy", "attestation", "receipt", "request", "stage", "perfetto"})
           /\ managed => Registered(Range(Provision))
           /\ ~hurt => intent = None
<1>1. /\ cmd.name \in Names /\ todo[1] \in PlanOf(cmd.name) /\ managed \in BOOLEAN
      /\ Rank(todo[1]) \in {32, 33}
    BY Where, RankIs DEF IInv, TypeOK
<1>2. cmd.name \in {"perf_run", "convert"}
    BY <1>1 DEF PlanOf, Names
<1>3. /\ {"perfetto", "request"} \subseteq Artifacts /\ "perfetto" \in Steps \ ValidOnly /\ Rank("perfetto") = 31
    BY SetsAre, RankIs DEF Artifacts, Committed, AllSteps, ValidOnly
<1>4. "perfetto" \in PlanOf(cmd.name)
    BY <1>2, <1>3 DEF PlanOf
<1>5. catalog["perfetto"] # None
    BY <1>1, <1>3, <1>4 DEF IInv, Behind
<1>6. Registered({"observations", "derived", "health", "summary", "request", "stage"})
    BY <1>3, <1>5 DEF IInv, InOrder, Begun, Requires
<1>7. Registered({"observations", "policy", "attestation", "receipt"})
    BY <1>3, <1>6 DEF IInv, InOrder, Begun, Requires, Registered
<1>8. managed => cmd.name = "perf_run"
    BY <1>1 DEF Names
<1>9. ASSUME managed, NEW x \in Ingested PROVE catalog[x] # None
    <2>1. /\ x \in Artifacts /\ x \in Steps \ ValidOnly
          /\ Rank(x) \in {1, 2, 3, 4, 5, 6, 7, 8, 9, 10, 12, 15, 16, 20, 21, 22}
        <3>1. x \in Artifacts /\ x \in Steps
            BY DEF Artifacts, Steps
        <3>2. x \notin ValidOnly
            BY SetsAre DEF ValidOnly
        <3>3. Rank(x) \in {1, 2, 3, 4, 5, 6, 7, 8, 9, 10, 12, 15, 16, 20, 21, 22}
            BY SetsAre, RankIs
        <3> QED
            BY <3>1, <3>2, <3>3
    <2>2. x \in PlanOf(cmd.name)
        BY <1>8, <1>9, <2>1 DEF PlanOf
    <2> QED
        BY <1>1, <2>1, <2>2 DEF IInv, Behind
<1>10. managed => Registered(Range(Provision))
    BY <1>9, SetsAre DEF Registered
<1>11. ASSUME ~hurt, intent # None PROVE FALSE
    <2>1. PICK i : i = intent
        OBVIOUS
    <2>2. i \in Ingested /\ catalog[i] = None /\ ~managed
        BY <1>1, <1>9, <1>11, <2>1 DEF IInv, TypeOK, Unhurt
    <2>3. PICK n \in Names : i \in PlanOf(n)
        BY <1>11, <2>1 DEF IInv, InOrder
    <2>4. Rank(i) \in {9, 13, 14, 20, 21} \cup 22..33
        BY <1>1, <2>2, <2>3, PlanRanks
    <2>5. i \in {"policy", "attestation", "receipt", "request"}
        <3>1. \A x \in Ingested \ {"policy", "attestation", "receipt", "request"} :
                  Rank(x) \in {1, 2, 3, 4, 5, 6, 7, 8, 10, 12, 15, 16}
            BY SetsAre, RankIs
        <3>2. \A k \in {1, 2, 3, 4, 5, 6, 7, 8, 10, 12, 15, 16} : k \notin {9, 13, 14, 20, 21} \cup 22..33
            OBVIOUS
        <3> QED
            BY <2>2, <2>4, <3>1, <3>2
    <2> QED
        BY <1>6, <1>7, <2>2, <2>5 DEF Registered
<1> QED
    BY <1>5, <1>6, <1>7, <1>10, <1>11 DEF Registered

(* Writing the manifest keeps the invariant.                                *)
LEMMA ManifestStep ==
    ASSUME IInv, Manifest
    PROVE  IInv'
<1>1. /\ todo # <<>> /\ todo[1] = "manifest"
      /\ UNCHANGED <<managed, valid, control, captured, catalog, staged, intent, orphans,
                     out, deployed, hurt>>
      /\ hurt \in BOOLEAN
    BY Where DEF Manifest, Here, IInv, TypeOK, signer
<1>2. CASE intent # None
    <2>1. Stops /\ manifest' = manifest /\ (status' = status \/ status' = "failed")
        BY <1>2 DEF Manifest, StageError, End, Stops
    <2>2. hurt
        BY <1>1, <1>2, BehindReport
    <2> QED
        BY <1>1, <2>1, <2>2, Rests
<1>3. CASE intent = None
    <2>1. Advance /\ manifest' = TRUE /\ status' = status
        BY <1>3 DEF Manifest
    <2>2. Stops \/ (cmd' = cmd /\ Onward)
        BY <1>1, <2>1, Advances
    <2>3. /\ Ahead' /\ Behind' /\ Inputs' /\ InOrder' /\ Origins' /\ todo' \in Seq(Steps)
          /\ cmd' \in Calls
        BY <1>1, <2>2, StepsOn DEF Waypoints
    <2>4. TypeOK'
        BY <1>1, <2>1, <2>3 DEF IInv, TypeOK
    <2>5. Progress'
        BY <1>1, <1>3, <2>1, <2>2, ProgressOn
    <2>6. Unhurt' /\ CompleteIsWhole'
        BY <1>1, <2>1 DEF IInv, Unhurt, CompleteIsWhole, Registered
    <2> QED
        BY <2>3, <2>4, <2>5, <2>6 DEF IInv
<1> QED
    BY <1>2, <1>3

(* The transition to Complete keeps the invariant: the chain is whole.      *)
LEMMA CompleteStep ==
    ASSUME IInv, Complete
    PROVE  IInv'
<1>1. /\ todo # <<>> /\ todo[1] = "complete" /\ Rank(todo[1]) = 33 /\ status' = "complete" /\ Advance
      /\ UNCHANGED <<managed, valid, control, captured, catalog, staged, intent, orphans, manifest,
                     out, deployed, hurt>>
      /\ managed \in BOOLEAN
    BY Where, RankIs DEF Complete, Here, IInv, TypeOK, signer
<1>2. Stops
    <2>1. Stops \/ (cmd' = cmd /\ Onward)
        BY <1>1, Advances
    <2>2. ASSUME Onward PROVE FALSE
        <3>1. Rank(todo'[1]) \in 1..33 /\ 33 < Rank(todo'[1])
            BY <1>1, <2>2, PlanTyped DEF Onward
        <3> QED
            BY <3>1
    <2> QED
        BY <2>1, <2>2
<1>3. /\ Ahead' /\ Behind' /\ Inputs' /\ InOrder' /\ Origins' /\ todo' \in Seq(Steps)
      /\ cmd' \in Calls
    BY <1>1, <1>2, StepsOn DEF Waypoints
<1>4. TypeOK'
    BY <1>1, <1>3 DEF IInv, TypeOK
<1>5. /\ Registered({"observations", "attestation", "receipt", "request", "stage", "perfetto"})
      /\ managed => Registered(Range(Provision)) /\ control = "complete"
      /\ manifest /\ intent = None
    <2>1. /\ Registered({"observations", "attestation", "receipt", "request", "stage", "perfetto"})
          /\ managed => Registered(Range(Provision))
        BY <1>1, BehindReport DEF Registered
    <2> QED
        BY <1>1, <2>1 DEF IInv, Progress
<1>6. Progress'
    BY <1>1, <1>2, <1>5 DEF Progress, Stops, Registered
<1>7. Unhurt' /\ CompleteIsWhole'
    BY <1>1, <1>5 DEF IInv, Unhurt, CompleteIsWhole, Registered
<1> QED
    BY <1>3, <1>4, <1>6, <1>7 DEF IInv

-----------------------------------------------------------------------------
(* The signer.                                                              *)

(* Leaving the steps of the handshake with the signer leaves no artifact    *)
(* out.                                                                     *)
LEMMA DropsOn ==
    ASSUME IInv, todo # <<>>, NEW n \in {1, 3}, Drop(n),
           todo[1] \in Handshake, n = 3 => todo[1] = "sign"
    PROVE  cmd' = cmd /\ Onward
<1>1. PICK s, name, t : s = todo /\ name = cmd.name /\ t = todo'
    OBVIOUS
<1>2. /\ Follows(s, name) /\ s[1] \in Handshake /\ 1 \in 1..Len(s) /\ name \in Names
      /\ s[1] \in PlanOf(name) /\ managed \in BOOLEAN
      /\ t = SubSeq(s, n + 1, Len(s)) /\ cmd' = cmd
    BY <1>1, Where DEF IInv, TypeOK, Drop
<1>3. /\ Rank("sign") = 17 /\ Rank("reserve") = 18 /\ Rank("signing") = 19 /\ Rank("attestation") = 20
      /\ {"sign", "reserve", "signing", "attestation"} \subseteq Steps \ ValidOnly
    BY RankIs, SetsAre DEF AllSteps, ValidOnly
<1>4. Rank(s[1]) \in {17, 18, 19}
    BY <1>2, <1>3 DEF Handshake
<1>5. managed /\ name = "perf_run"
    <2>1. \A k \in {17, 18, 19} : k \notin {9, 13, 14, 20, 21} \cup 22..33
        OBVIOUS
    <2> QED
        BY <1>2, <1>4, <2>1, PlanRanks
<1>6. {"sign", "reserve", "signing", "attestation"} \subseteq PlanOf(name)
    BY <1>3, <1>5 DEF PlanOf
<1>7. PICK m \in Nat : m = Len(s)
    BY <1>2 DEF Follows
<1>8. CASE n = 1
    <2>1. 1 + 1 \in 1..Len(s)
        <3>1. CASE s[1] = "sign"
            BY <1>2, <1>3, <1>6, <3>1, Successor
        <3>2. CASE s[1] = "reserve"
            BY <1>2, <1>3, <1>6, <3>2, Successor
        <3>3. CASE s[1] = "signing"
            BY <1>2, <1>3, <1>6, <3>3, Successor
        <3> QED
            BY <1>2, <3>1, <3>2, <3>3 DEF Handshake
    <2>2. PICK k \in Nat : k = n /\ k >= 1 /\ k < Len(s)
        BY <1>7, <1>8, <2>1
    <2>3. /\ Follows(t, name) /\ t # <<>> /\ t[1] \in PlanOf(name) /\ Rank(s[k]) < Rank(t[1])
          /\ \A x \in PlanOf(name) : Rank(x) < Rank(t[1]) => Rank(x) <= Rank(s[k])
        <3>1. t = SubSeq(s, k + 1, Len(s))
            BY <1>2, <2>2
        <3> QED
            BY <1>2, <2>2, <3>1, Dropped
    <2> QED
        BY <1>1, <1>2, <1>8, <2>2, <2>3 DEF Onward
<1>9. CASE n = 3
    <2>1. s[1] = "sign"
        BY <1>1, <1>9
    <2>2. 2 \in 1..Len(s) /\ s[2] = "reserve"
        <3>1. 1 + 1 \in 1..Len(s) /\ s[1 + 1] = "reserve"
            BY <1>2, <1>3, <1>6, <2>1, Successor
        <3> QED
            BY <3>1
    <2>3. 3 \in 1..Len(s) /\ s[3] = "signing"
        <3>1. 2 + 1 \in 1..Len(s) /\ s[2 + 1] = "signing"
            BY <1>2, <1>3, <1>6, <2>2, Successor
        <3> QED
            BY <3>1
    <2>4. 4 \in 1..Len(s)
        <3>1. 3 + 1 \in 1..Len(s)
            BY <1>2, <1>3, <1>6, <2>3, Successor
        <3> QED
            BY <3>1
    <2>5. PICK k \in Nat : k = n /\ k >= 1 /\ k < Len(s)
        BY <1>7, <1>9, <2>4
    <2>6. /\ Follows(t, name) /\ t # <<>> /\ t[1] \in PlanOf(name) /\ Rank(s[k]) < Rank(t[1])
          /\ \A x \in PlanOf(name) : Rank(x) < Rank(t[1]) => Rank(x) <= Rank(s[k])
        <3>1. t = SubSeq(s, k + 1, Len(s))
            BY <1>2, <2>5
        <3> QED
            BY <1>2, <2>5, <3>1, Dropped
    <2>7. Rank(s[k]) = 19 /\ Rank(s[1]) = 17
        BY <1>3, <1>9, <2>1, <2>3, <2>5
    <2>8. Rank(t[1]) \in Nat /\ Rank(s[1]) < Rank(t[1])
        BY <2>6, <2>7, PlanTyped
    <2>9. ASSUME NEW x \in PlanOf(name) \ Handshake, Rank(x) < Rank(t[1]) PROVE Rank(x) <= Rank(s[1])
        <3>1. Rank(x) \in Nat /\ x \in Steps /\ Rank(x) <= 19
            BY <2>6, <2>7, <2>9, PlanTyped
        <3>2. Rank(x) # 17 /\ Rank(x) # 18 /\ Rank(x) # 19
            BY <1>3, <2>9, <3>1, RankTyped DEF Handshake
        <3> QED
            BY <2>7, <3>1, <3>2
    <2> QED
        BY <1>1, <1>2, <2>6, <2>8, <2>9 DEF Onward
<1> QED
    BY <1>8, <1>9

(* Going on within the handshake keeps the invariant.                       *)
LEMMA SignKeeps ==
    ASSUME IInv, todo # <<>>, todo[1] \in Handshake, cmd' = cmd /\ Onward,
           UNCHANGED <<session, out, deployed, hurt>>
    PROVE  IInv'
<1>1. /\ UNCHANGED <<managed, valid, status, control, captured, catalog, staged, intent, orphans, manifest>>
      /\ todo[1] \in Waypoints /\ todo[1] \notin {"control", "manifest"}
    BY DEF session, Waypoints, Handshake
<1>2. /\ Ahead' /\ Behind' /\ Inputs' /\ InOrder' /\ Origins' /\ todo' \in Seq(Steps)
      /\ cmd' \in Calls
    BY <1>1, StepsOn
<1>3. TypeOK'
    BY <1>1, <1>2 DEF IInv, TypeOK
<1>4. Progress'
    BY <1>1, ProgressOn
<1>5. Unhurt' /\ CompleteIsWhole'
    BY <1>1 DEF IInv, Unhurt, CompleteIsWhole, Registered
<1> QED
    BY <1>2, <1>3, <1>4, <1>5 DEF IInv

(* The handshake with the signer keeps the invariant.                       *)
LEMMA SignStep ==
    ASSUME IInv, Sign \/ Reserve \/ Signing
    PROVE  IInv'
<1>0. hurt \in BOOLEAN
    BY DEF IInv, TypeOK
<1>1. CASE Sign
    <2>1. /\ todo # <<>> /\ todo[1] = "sign" /\ (Drop(3) \/ Drop(1))
          /\ UNCHANGED <<session, out, deployed, hurt>>
        BY <1>1, Where DEF Sign, Here, signer
    <2>2. cmd' = cmd /\ Onward
        BY <2>1, DropsOn DEF Handshake
    <2> QED
        BY <2>1, <2>2, SignKeeps DEF Handshake
<1>2. CASE Reserve
    <2>1. /\ todo # <<>> /\ todo[1] = "reserve"
          /\ UNCHANGED <<managed, valid, control, captured, catalog, staged, intent, orphans, manifest,
                         out, deployed>>
        BY <1>2, Where DEF Reserve, Here
    <2>2. CASE StageError("reserve") /\ hurt' = TRUE
        <3>1. Stops /\ (status' = status \/ status' = "failed")
            BY <2>2 DEF StageError, End, Stops
        <3> QED
            BY <2>1, <2>2, <3>1, Rests
    <2>3. CASE Drop(1) /\ UNCHANGED <<status, hurt>>
        <3>1. cmd' = cmd /\ Onward
            BY <2>1, <2>3, DropsOn DEF Handshake
        <3> QED
            BY <2>1, <2>3, <3>1, SignKeeps DEF Handshake, session
    <2> QED
        BY <1>2, <2>2, <2>3 DEF Reserve
<1>3. CASE Signing
    <2>1. /\ todo # <<>> /\ todo[1] = "signing"
          /\ UNCHANGED <<managed, valid, control, captured, catalog, staged, intent, orphans, manifest,
                         out, deployed>>
        BY <1>3, Where DEF Signing, Here, signer
    <2>2. CASE StageError("signing") /\ hurt' = TRUE
        <3>1. Stops /\ (status' = status \/ status' = "failed")
            BY <2>2 DEF StageError, End, Stops
        <3> QED
            BY <2>1, <2>2, <3>1, Rests
    <2>3. CASE Drop(1) /\ UNCHANGED <<status, hurt>>
        <3>1. cmd' = cmd /\ Onward
            BY <2>1, <2>3, DropsOn DEF Handshake
        <3> QED
            BY <2>1, <2>3, <3>1, SignKeeps DEF Handshake, session
    <2> QED
        BY <1>3, <2>2, <2>3 DEF Signing
<1> QED
    BY <1>1, <1>2, <1>3

(* The bytes of the attestation are one of the good ones, or there are none *)
(* yet, or they are not what was asked for.                                 *)
LEMMA TakenTyped ==
    ASSUME IInv
    PROVE  /\ TakenBytes \in Good \cup {None, "partial", "foreign"}
           /\ catalog["attestation"] # None => TakenBytes \in Good
<1>1. /\ out \in Good \cup {None, "partial", "foreign"}
      /\ OnRecord("attestation") \subseteq {None} \cup Good /\ "attestation" \in Ingested
    BY SetsAre DEF IInv, TypeOK, Origins
<1>2. catalog["attestation"] \in {None} \cup Good /\ staged["attestation"] \in {None} \cup Good
    BY <1>1 DEF OnRecord
<1> QED
    BY <1>1, <1>2 DEF TakenBytes, AttestationBytes

(* Selecting the attestation keeps the invariant: bytes on record are       *)
(* preferred.                                                               *)
LEMMA TakeStep ==
    ASSUME IInv, TakeAttestation
    PROVE  IInv'
<1>1. /\ todo # <<>> /\ todo[1] = "attestation" /\ cmd.attestation = None
      /\ UNCHANGED <<managed, valid, control, captured, catalog, staged, intent, orphans, manifest,
                     out, deployed>>
      /\ hurt' = (hurt \/ TakenBytes = "foreign")
      /\ managed \in BOOLEAN /\ hurt \in BOOLEAN
    BY Where DEF TakeAttestation, Here, signer, IInv, TypeOK
<1>2. /\ cmd.name \in Names /\ todo[1] \in PlanOf(cmd.name) /\ Rank("attestation") = 20
      /\ "attestation" \in Ingested /\ "attestation" \in Artifacts
    BY <1>1, Where, RankIs, SetsAre DEF Artifacts
<1>3. cmd.name = "perf_run" /\ managed
    <2>1. cmd.name \in {"perf_run", "attest"}
        BY <1>1, <1>2, PlanRanks
    <2>2. cmd.name # "attest"
        BY <1>1 DEF IInv, Inputs
    <2> QED
        BY <1>1, <1>2, <2>1, <2>2, PlanRanks
<1>4. CASE /\ Verified(TakenBytes) /\ (catalog["attestation"] # None \/ intent \in {None, "attestation"})
    <2>1. /\ cmd' = [cmd EXCEPT !.attestation = TakenBytes] /\ UNCHANGED <<status, todo>>
          /\ TakenBytes \in Good
        BY <1>4 DEF TakeAttestation, Verified
    <2>2. /\ TakenBytes # None /\ TakenBytes # "foreign"
        BY <2>1, PerfRunAssumption DEF None
    <2>3. hurt' = hurt
        BY <1>1, <2>2
    <2>4. cmd \in Calls
        BY DEF IInv, TypeOK
    <2>5. /\ cmd' \in Calls
          /\ cmd'.name = cmd.name /\ cmd'.deployment = cmd.deployment /\ cmd'.flavor = cmd.flavor
          /\ cmd'.config = cmd.config /\ cmd'.attestation = TakenBytes
        BY <2>1, <2>4 DEF Calls
    <2>6. TypeOK'
        BY <1>1, <2>1, <2>3, <2>5 DEF IInv, TypeOK
    <2>7. cmd' # Idle
        BY <1>3, <2>5 DEF Idle, None
    <2>8. Ahead'
        <3>1. Names' = Names
            BY <1>1 DEF Names
        <3>2. Follows(todo, cmd.name)
            BY <1>1, Where
        <3> QED
            BY <1>1, <1>2, <2>1, <2>5, <2>7, <3>1, <3>2, SamePlans DEF Ahead
    <2>9. Behind'
        BY <1>1, <2>1, <2>5, SamePlans DEF IInv, Behind
    <2>10. InOrder'
        <3>1. Names' = Names /\ (\A n : PlanOf(n)' = PlanOf(n)) /\ (\A y : Begun(y)' <=> Begun(y))
            BY <1>1, SamePlans DEF Names, Begun
        <3>2. \A y \in Artifacts : Registered(Requires(y))' <=> Registered(Requires(y))
            BY <1>1 DEF Registered, Requires
        <3> QED
            BY <1>1, <3>1, <3>2 DEF IInv, InOrder
    <2>11. Origins'
        <3>1. \A b : OnRecord(b)' = OnRecord(b)
            BY <1>1 DEF OnRecord
        <3> QED
            BY <1>1, <3>1 DEF IInv, Origins
    <2>12. Inputs'
        <3>1. IF catalog["attestation"] # None THEN catalog["attestation"] = TakenBytes
              ELSE staged["attestation"] \in {None, TakenBytes}
            BY DEF TakenBytes, AttestationBytes
        <3>2. Rank(todo'[1]) = 20 /\ todo'[1] # "binding"
            BY <1>1, <1>2, <2>1
        <3> QED
            BY <1>1, <1>3, <2>1, <2>2, <2>5, <3>1, <3>2 DEF IInv, Inputs
    <2>13. Progress' /\ Unhurt' /\ CompleteIsWhole'
        BY <1>1, <1>3, <2>1, <2>3, <2>5 DEF IInv, Progress, Unhurt, CompleteIsWhole, Registered
    <2> QED
        BY <2>6, <2>8, <2>9, <2>10, <2>11, <2>12, <2>13 DEF IInv
<1>5. CASE ~(Verified(TakenBytes) /\ (catalog["attestation"] # None \/ intent \in {None, "attestation"}))
    <2>1. /\ Stops
          /\ \/ status' = status
             \/ status' = "failed" /\ ~(TakenBytes \in {None, "partial"} /\ intent \in {None, "attestation"})
        BY <1>5 DEF TakeAttestation, Pending, StageError, End, Stops
    <2>2. ASSUME ~(TakenBytes \in {None, "partial"} /\ intent \in {None, "attestation"}), ~hurt
          PROVE  TakenBytes = "foreign"
        <3>1. catalog["attestation"] = None
            BY <1>5, TakenTyped DEF Verified
        <3>2. intent \in {None, "attestation"}
            BY <1>1, <1>2, <1>3, <2>2, <3>1, IntentIsNext
        <3> QED
            BY <1>5, <2>2, <3>2, TakenTyped DEF Verified
    <2>3. hurt' \in BOOLEAN /\ (hurt => hurt')
        BY <1>1
    <2>4. status' = status \/ (status' = "failed" /\ hurt')
        BY <1>1, <2>1, <2>2
    <2> QED
        BY <1>1, <2>1, <2>3, <2>4, Rests
<1> QED
    BY <1>4, <1>5

-----------------------------------------------------------------------------
(* The commands.                                                            *)

(* A command that starts at the beginning of its plan, or at a place up to  *)
(* which everything is on record.                                           *)
LEMMA Begins ==
    ASSUME IInv, NEW c, NEW steps, NEW h, Begin(c, steps), hurt' \in BOOLEAN, hurt => hurt',
           c \in [name : {"perf_run", "normalize", "attest", "analyze", "convert"},
                  deployment : Deployments \cup {None}, flavor : Flavors,
                  config : Configs, attestation : Good \cup {None}],
           c.name \in Names, Follows(steps, c.name), steps # <<>>, steps[1] = h,
           \A x \in PlanOf(c.name) \cap Artifacts : Rank(x) < Rank(h) => catalog[x] # None,
           managed => /\ c.flavor = Flavor /\ c.config = Config /\ c.deployment \in Deployments
                      /\ h # "binding" => catalog["binding"] = c.deployment
                      /\ status # "complete"
                      /\ control = "complete" \/ Rank(h) <= 11
                      /\ Rank(h) <= 11 => status \notin {"processing", "complete"},
           c.attestation # None =>
             IF catalog["attestation"] # None THEN catalog["attestation"] = c.attestation
             ELSE staged["attestation"] \in {None, c.attestation},
           c.name = "attest" => c.attestation # None /\ catalog["observations"] # None,
           c.name \in {"normalize", "attest"} => status = "captured",
           c.name = "normalize" /\ ~hurt' =>
             \A b \in {"mapping", "observations"} : catalog[b] \in {None, c.config},
           c.name = "convert" /\ ~hurt' => catalog["stage"] # None,
           Rank(h) <= 22 \/ c.name \notin {"perf_run", "analyze"}, h # "receipt", h # "complete"
    PROVE  IInv'
<1>1. /\ cmd' = c /\ todo' = steps
      /\ UNCHANGED <<managed, valid, status, control, captured, catalog, staged, intent, orphans, manifest,
                     out, deployed>>
    BY DEF Begin, session, signer
<1>2. Names' = Names /\ (\A n : PlanOf(n)' = PlanOf(n)) /\ (\A s, n : Follows(s, n)' <=> Follows(s, n))
    BY <1>1, SamePlans DEF Names
<1>3. TypeOK'
    <2>1. steps \in Seq(Steps)
        BY DEF Follows
    <2> QED
        BY <1>1, <2>1 DEF IInv, TypeOK, Calls
<1>4. Ahead'
    <2>1. c # Idle
        BY DEF Idle, None
    <2> QED
        BY <1>1, <1>2, <2>1 DEF Ahead
<1>5. Behind'
    BY <1>1, <1>2 DEF Behind
<1>6. InOrder'
    <2>1. \A y : Begun(y)' <=> Begun(y)
        BY <1>1 DEF Begun
    <2>2. \A y \in Artifacts : Registered(Requires(y))' <=> Registered(Requires(y))
        BY <1>1 DEF Registered, Requires
    <2> QED
        BY <1>1, <1>2, <2>1, <2>2 DEF IInv, InOrder
<1>7. Origins'
    <2>1. \A b : OnRecord(b)' = OnRecord(b)
        BY <1>1 DEF OnRecord
    <2> QED
        BY <1>1, <2>1 DEF IInv, Origins
<1>8. Rank(h) \in Nat
    <2>1. 1 \in 1..Len(steps)
        BY DEF Follows
    <2> QED
        BY <2>1, PlanTyped DEF Follows
<1>9. Inputs'
    BY <1>1, <1>8 DEF Inputs
<1>10. Progress'
    BY <1>1 DEF IInv, Progress
<1>11. Unhurt' /\ CompleteIsWhole'
    BY <1>1 DEF IInv, Unhurt, CompleteIsWhole, Registered
<1> QED
    BY <1>3, <1>4, <1>5, <1>6, <1>7, <1>9, <1>10, <1>11 DEF IInv

(* A chain that ends with a command's plan begins with its lowest rank.     *)
LEMMA PlanStarts ==
    ASSUME NEW lo \in 1..33, NEW hi \in 1..33, NEW s, Chain(s, lo, hi), NEW y \in Steps \ ValidOnly,
           Rank(y) = lo, NEW name,
           \/ name = "perf_run" /\ hi = 33
           \/ name = "normalize" /\ lo = 13 /\ hi = 14
           \/ name = "analyze" /\ lo = 22 /\ hi = 30
           \/ name = "convert" /\ lo = 31 /\ hi = 33
    PROVE  Follows(s, name) /\ s # <<>> /\ s[1] = y
<1>1. lo <= hi /\ \A k \in lo..hi : k \in 1..33
    OBVIOUS
<1>2. y \in Slice(lo, hi)
    BY <1>1 DEF Slice
<1>3. Slice(lo, hi) \subseteq PlanOf(name)
    BY <1>1, PlansAre DEF Slice
<1>4. \A x \in PlanOf(name) : Rank(x) >= lo => x \in Slice(lo, hi)
    BY RankTyped, PlansAre DEF Slice
<1>5. Slice(lo, hi) = Rest(name, lo)
    <2>1. \A x \in Slice(lo, hi) : Rank(x) >= lo
        BY DEF Slice
    <2> QED
        BY <1>3, <1>4, <2>1 DEF Rest
<1> QED
    BY <1>2, <1>5, ChainFollows

(* perf_run has a flavor and a configuration.                               *)
LEMMA Chosen == Flavor \in Flavors /\ Config \in Configs
BY PerfRunAssumption DEF Flavor, Config

(* perf_run resumes where everything before is on record.                   *)
LEMMA PerfRunStep ==
    ASSUME IInv, PerfRun
    PROVE  IInv'
<1> DEFINE finish == Analyze \o Convert
           capturedOn == NormalizeConfig \o Normalize \o Attest \o finish
           c == [name |-> "perf_run", deployment |-> deployed, flavor |-> Flavor,
                 config |-> Config, attestation |-> None]
<1>1. /\ managed /\ status # "failed" /\ status # "complete" /\ Resumes /\ hurt' = hurt
      /\ Begin(c, CASE status = "created" /\ catalog["provisioned"] # None ->
                         <<"control">> \o capturedOn
                    [] status = "created" /\ catalog["provisioned"] = None ->
                         Provision \o <<"control">> \o capturedOn
                    [] status \in {"capturing", "captured"} /\ control # "complete" ->
                         <<"control">> \o capturedOn
                    [] status = "captured" /\ control = "complete" -> capturedOn
                    [] OTHER -> finish)
    BY DEF PerfRun, Resumable
<1>2. /\ Chain(finish, 22, 33) /\ Chain(capturedOn, 12, 33)
      /\ Chain(<<"control">> \o capturedOn, 11, 33)
      /\ Chain(Provision \o <<"control">> \o capturedOn, 1, 33)
    BY Plans
<1> HIDE DEF finish, capturedOn
<1>3. /\ c.name = "perf_run" /\ c.deployment = deployed /\ c.flavor = Flavor /\ c.config = Config
      /\ c.attestation = None
      /\ c \in [name : {"perf_run", "normalize", "attest", "analyze", "convert"},
                deployment : Deployments \cup {None}, flavor : Flavors,
                config : Configs, attestation : Good \cup {None}]
    BY Chosen DEF IInv, TypeOK
<1> HIDE DEF c
<1>4. /\ "perf_run" \in Names /\ deployed \in Deployments /\ deployed # None /\ hurt \in BOOLEAN
      /\ status \in {"created", "capturing", "captured", "processing"}
      /\ Names = {"perf_run"}
    BY <1>1, PerfRunAssumption DEF IInv, TypeOK, Names, None
<1>5. /\ Rank("binding") = 1 /\ Rank("control") = 11 /\ Rank("normalize_config") = 12
      /\ Rank("request") = 22 /\ Rank("provisioned") = 10
      /\ {"binding", "control", "normalize_config", "request", "provisioned"} \subseteq Steps \ ValidOnly
      /\ {"provisioned", "request"} \subseteq Artifacts
    BY RankIs, SetsAre DEF AllSteps, ValidOnly, Artifacts
<1>6. ASSUME NEW steps, NEW h, Begin(c, steps), Follows(steps, "perf_run"), steps # <<>>, steps[1] = h,
             \A x \in PlanOf("perf_run") \cap Artifacts : Rank(x) < Rank(h) => catalog[x] # None,
             h # "binding" => catalog["binding"] = deployed,
             control = "complete" \/ Rank(h) <= 11,
             Rank(h) <= 11 => status \notin {"processing", "complete"},
             Rank(h) <= 22, h # "receipt", h # "complete"
      PROVE  IInv'
    BY <1>1, <1>3, <1>4, <1>6, Begins
<1>7. ASSUME BoundTo(deployed), NEW x \in PlanOf("perf_run") \cap Artifacts, Rank(x) < 12
      PROVE  catalog[x] # None
    <2>1. catalog["provisioned"] # None /\ Begun("provisioned") /\ "provisioned" \in PlanOf("perf_run")
        BY <1>4, <1>5, <1>7 DEF BoundTo, Begun, PlanOf
    <2>2. Rank(x) \in Nat /\ x \in Steps
        BY PlanTyped
    <2>3. Rank(x) # 11
        <3>1. x # "control"
            BY SetsAre DEF Artifacts, Committed
        <3> QED
            BY <1>5, <2>2, <3>1, RankTyped
    <2>4. CASE Rank(x) < 10
        BY <1>4, <1>5, <2>1, <2>4 DEF IInv, InOrder
    <2>5. CASE Rank(x) = 10
        BY <1>5, <2>1, <2>2, <2>5, RankTyped
    <2> QED
        BY <1>7, <2>2, <2>3, <2>4, <2>5
<1>8. CASE status = "created" /\ catalog["provisioned"] = None
    <2>1. Begin(c, Provision \o <<"control">> \o capturedOn)
        BY <1>1, <1>8
    <2>2. PICK s : s = Provision \o <<"control">> \o capturedOn
        OBVIOUS
    <2>3. Follows(s, "perf_run") /\ s # <<>> /\ s[1] = "binding"
        <3>1. 1 \in 1..33 /\ 33 \in 1..33 /\ Chain(s, 1, 33)
            BY <1>2, <2>2
        <3> QED
            BY <1>5, <3>1, PlanStarts
    <2>4. \A x \in PlanOf("perf_run") : ~(Rank(x) < 1)
        BY PlanTyped
    <2> QED
        <3>1. /\ Rank("binding") <= 11 /\ Rank("binding") <= 22
              /\ \A x \in PlanOf("perf_run") : ~(Rank(x) < Rank("binding"))
            BY <1>5, <2>4
        <3>2. Begin(c, s)
            BY <2>1, <2>2
        <3> QED
            BY <1>6, <1>8, <2>3, <3>1, <3>2
<1>9. CASE ~(status = "created" /\ catalog["provisioned"] = None)
    <2>1. BoundTo(deployed) /\ catalog["binding"] = deployed
        BY <1>1, <1>9 DEF Resumes, BoundTo
    <2>2. CASE status = "created" \/ (status \in {"capturing", "captured"} /\ control # "complete")
        <3>1. Begin(c, <<"control">> \o capturedOn)
            BY <1>1, <1>9, <2>2
        <3>2. PICK s : s = <<"control">> \o capturedOn
            OBVIOUS
        <3>3. Follows(s, "perf_run") /\ s # <<>> /\ s[1] = "control"
            BY <1>2, <1>5, <3>2, PlanStarts
        <3>4. \A x \in PlanOf("perf_run") \cap Artifacts : Rank(x) < 11 => catalog[x] # None
            BY <1>7, <2>1, PlanTyped
        <3> QED
            <4>1. /\ Rank("control") <= 11 /\ Rank("control") <= 22 /\ Begin(c, s)
                  /\ \A x \in PlanOf("perf_run") \cap Artifacts : Rank(x) < Rank("control") => catalog[x] # None
                BY <1>5, <3>1, <3>2, <3>4
            <4> QED
                BY <1>6, <2>1, <2>2, <3>3, <4>1
    <2>3. CASE status = "captured" /\ control = "complete"
        <3>1. Begin(c, capturedOn)
            BY <1>1, <2>3
        <3>3. Follows(capturedOn, "perf_run") /\ capturedOn # <<>> /\ capturedOn[1] = "normalize_config"
            BY <1>2, <1>5, PlanStarts
        <3>4. \A x \in PlanOf("perf_run") \cap Artifacts : Rank(x) < 12 => catalog[x] # None
            BY <1>7, <2>1
        <3> QED
            BY <1>5, <1>6, <2>1, <2>3, <3>1, <3>3, <3>4
    <2>4. CASE status = "processing"
        <3>1. Begin(c, finish)
            BY <1>1, <2>4
        <3>2. Follows(finish, "perf_run") /\ finish # <<>> /\ finish[1] = "request"
            BY <1>2, <1>5, PlanStarts
        <3>3. catalog["request"] # None /\ Begun("request") /\ "request" \in PlanOf("perf_run") /\ control = "complete"
            BY <1>1, <2>4, PlanFacts DEF IInv, Progress, Begun
        <3>4. \A x \in PlanOf("perf_run") \cap Artifacts : Rank(x) < 22 => catalog[x] # None
            BY <1>4, <1>5, <3>3 DEF IInv, InOrder
        <3> QED
            BY <1>5, <1>6, <2>1, <2>4, <3>1, <3>2, <3>3, <3>4
    <2>5. status = "capturing" => control # "complete"
        BY <1>1 DEF IInv, Progress
    <2> QED
        BY <1>4, <2>2, <2>3, <2>4, <2>5
<1> QED
    BY <1>8, <1>9

(* The commands that refuse a managed Session start with the first step of  *)
(* their plan.                                                              *)
LEMMA CliBegins ==
    ASSUME IInv, ~managed, NEW name \in {"normalize", "attest", "analyze", "convert"},
           NEW f \in Flavors, NEW g \in Configs, NEW att \in Good \cup {None}, NEW steps, NEW h,
           Begin([name |-> name, deployment |-> None, flavor |-> f, config |-> g, attestation |-> att], steps),
           hurt' \in BOOLEAN, hurt => hurt',
           Follows(steps, name), steps # <<>>, steps[1] = h,
           \A x \in PlanOf(name) : ~(Rank(x) < Rank(h)),
           att # None =>
             IF catalog["attestation"] # None THEN catalog["attestation"] = att
             ELSE staged["attestation"] \in {None, att},
           name = "attest" => att # None /\ catalog["observations"] # None,
           name \in {"normalize", "attest"} => status = "captured",
           name = "normalize" /\ ~hurt' =>
             \A b \in {"mapping", "observations"} : catalog[b] \in {None, g},
           name = "convert" /\ ~hurt' => catalog["stage"] # None,
           Rank(h) <= 22 \/ name \notin {"perf_run", "analyze"}, h # "receipt", h # "complete"
    PROVE  IInv'
<1>1. PICK c : c = [name |-> name, deployment |-> None, flavor |-> f, config |-> g, attestation |-> att]
    OBVIOUS
<1>2. /\ c.name = name /\ c.flavor = f /\ c.config = g /\ c.attestation = att
      /\ c \in [name : {"perf_run", "normalize", "attest", "analyze", "convert"},
                deployment : Deployments \cup {None}, flavor : Flavors,
                config : Configs, attestation : Good \cup {None}]
    BY <1>1
<1>3. name \in Names
    BY DEF Names
<1>4. Begin(c, steps)
    BY <1>1
<1> QED
    BY <1>2, <1>3, <1>4, Begins

(* normalize keeps the invariant.                                           *)
LEMMA NormalizeStep ==
    ASSUME IInv, NEW c \in Configs, CliNormalize(c)
    PROVE  IInv'
<1>1. /\ ~managed /\ status = "captured"
      /\ Begin([name |-> "normalize", deployment |-> None, flavor |-> Flavor, config |-> c,
                attestation |-> None], Normalize)
      /\ hurt' = (hurt \/ catalog["mapping"] \notin {None, c} \/ catalog["observations"] \notin {None, c})
      /\ hurt \in BOOLEAN
    BY DEF CliNormalize, Cli, IInv, TypeOK
<1>2. "mapping" \in Steps \ ValidOnly /\ Rank("mapping") = 13
    BY RankIs, SetsAre DEF AllSteps, ValidOnly
<1>3. Follows(Normalize, "normalize") /\ Normalize # <<>> /\ Normalize[1] = "mapping"
    BY <1>2, Stages, PlanStarts
<1>4. \A x \in PlanOf("normalize") : ~(Rank(x) < Rank("mapping"))
    BY <1>2 DEF PlanOf
<1>5. hurt' \in BOOLEAN /\ (hurt => hurt')
    BY <1>1
<1>6. ~hurt' => \A b \in {"mapping", "observations"} : catalog[b] \in {None, c}
    BY <1>1
<1> QED
    BY <1>1, <1>3, <1>4, <1>5, <1>6, CliBegins, Chosen

(* analyze keeps the invariant.                                             *)
LEMMA AnalyzeStep ==
    ASSUME IInv, NEW f \in Flavors, CliAnalyze(f)
    PROVE  IInv'
<1>1. /\ ~managed /\ hurt' = hurt /\ hurt \in BOOLEAN
      /\ Begin([name |-> "analyze", deployment |-> None, flavor |-> f, config |-> Config,
                attestation |-> None], Analyze)
    BY DEF CliAnalyze, Cli, IInv, TypeOK
<1>2. "request" \in Steps \ ValidOnly /\ Rank("request") = 22
    BY RankIs, SetsAre DEF AllSteps, ValidOnly
<1>3. Follows(Analyze, "analyze") /\ Analyze # <<>> /\ Analyze[1] = "request"
    BY <1>2, Plans, PlanStarts
<1>4. \A x \in PlanOf("analyze") : ~(Rank(x) < Rank("request"))
    BY <1>2 DEF PlanOf
<1>5. Rank("request") <= 22
    BY <1>2
<1> QED
    BY <1>1, <1>3, <1>4, <1>5, CliBegins, Chosen

(* convert keeps the invariant.                                             *)
LEMMA ConvertStep ==
    ASSUME IInv, CliConvert
    PROVE  IInv'
<1>1. /\ ~managed /\ hurt' = (hurt \/ catalog["stage"] = None) /\ hurt \in BOOLEAN
      /\ Begin([name |-> "convert", deployment |-> None, flavor |-> Flavor, config |-> Config,
                attestation |-> None], Convert)
    BY DEF CliConvert, Cli, IInv, TypeOK
<1>2. "perfetto" \in Steps \ ValidOnly /\ Rank("perfetto") = 31
    BY RankIs, SetsAre DEF AllSteps, ValidOnly
<1>3. Follows(Convert, "convert") /\ Convert # <<>> /\ Convert[1] = "perfetto"
    <2>1. PICK lo \in 1..33, hi \in 1..33 : lo = 31 /\ hi = 33
        OBVIOUS
    <2>2. PICK s, name : s = Convert /\ name = "convert"
        OBVIOUS
    <2>3. /\ Chain(s, lo, hi) /\ Rank("perfetto") = lo
          /\ name = "convert" /\ lo = 31 /\ hi = 33
        BY <1>2, <2>1, <2>2, Stages
    <2>4. Follows(s, name) /\ s # <<>> /\ s[1] = "perfetto"
        <3>1. Slice(lo, hi) = PlanOf(name)
            BY <2>3, PlansAre
        <3>2. \A x \in PlanOf(name) : Rank(x) >= lo
            BY <2>3, <3>1 DEF Slice
        <3>3. Slice(lo, hi) = Rest(name, lo)
            BY <3>1, <3>2 DEF Rest
        <3>4. "perfetto" \in Slice(lo, hi)
            BY <1>2, <2>3 DEF Slice
        <3> QED
            BY <2>3, <3>3, <3>4, ChainFollows
    <2> QED
        BY <2>2, <2>4
<1>4. \A x \in PlanOf("convert") : ~(Rank(x) < Rank("perfetto"))
    BY <1>2 DEF PlanOf
<1>5. hurt' \in BOOLEAN /\ (hurt => hurt') /\ (~hurt' => catalog["stage"] # None)
    BY <1>1
<1> QED
    BY <1>1, <1>3, <1>4, <1>5, CliBegins, Chosen

(* attest keeps the invariant, whatever file it is given.                   *)
LEMMA AttestStep ==
    ASSUME IInv, NEW file, CliAttest(file)
    PROVE  IInv'
<1>1. PICK att : att = AttestationBytes(file)
    OBVIOUS
<1>2. /\ ~managed /\ status = "captured" /\ hurt \in BOOLEAN
    BY DEF CliAttest, IInv, TypeOK
<1>3. CASE Verified(att) /\ catalog["observations"] # None
    <2>1. /\ Begin([name |-> "attest", deployment |-> None, flavor |-> Flavor, config |-> Config,
                    attestation |-> att], PolicySnapshot \o Attested)
          /\ hurt' = hurt /\ att \in Good /\ att # None
        BY <1>1, <1>3, PerfRunAssumption DEF CliAttest, Cli, Verified, None
    <2>2. PICK s : s = PolicySnapshot \o Attested
        OBVIOUS
    <2>4. /\ Rank("policy") = 9 /\ Rank("attestation") = 20 /\ Rank("receipt") = 21
          /\ {"policy", "attestation", "receipt"} \subseteq Steps
        BY RankIs, SetsAre DEF AllSteps
    <2>3. /\ s \in Seq(Steps) /\ Len(s) = 3
          /\ s[1] = "policy" /\ s[2] = "attestation" /\ s[3] = "receipt"
        <3>1. PICK p \in Seq(Steps), q \in Seq(Steps) : p = <<"policy">> /\ q = <<"attestation", "receipt">>
            <4>1. <<"policy">> \in Seq(Steps) /\ <<"attestation", "receipt">> \in Seq(Steps)
                BY <2>4
            <4> QED
                BY <4>1
        <3>2. s = p \o q /\ Len(p) = 1 /\ Len(q) = 2
            BY <2>2, <3>1 DEF PolicySnapshot, Attested
        <3>3. /\ p \o q \in Seq(Steps) /\ Len(p \o q) = Len(p) + Len(q)
              /\ \A i \in 1..Len(p) : (p \o q)[i] = p[i]
              /\ \A i \in 1..Len(q) : (p \o q)[Len(p) + i] = q[i]
            OBVIOUS
        <3>4. s \in Seq(Steps) /\ Len(s) = 3
            BY <3>2, <3>3
        <3>5. s[1] = p[1]
            BY <3>2, <3>3
        <3>6. s[2] = q[1] /\ s[3] = q[2]
            <4>1. 1 \in 1..Len(q) /\ 2 \in 1..Len(q) /\ Len(p) + 1 = 2 /\ Len(p) + 2 = 3
                BY <3>2
            <4> QED
                BY <3>2, <3>3, <4>1
        <3> QED
            BY <3>1, <3>4, <3>5, <3>6
    <2>5. Follows(s, "attest")
        <3>2. PlanOf("attest") = {"policy", "attestation", "receipt"}
            BY PlansAre
        <3>3. 1..3 = {1, 2, 3}
            OBVIOUS
        <3>4. \A i, j \in {1, 2, 3} : i < j => Rank(s[i]) < Rank(s[j])
            BY <2>4, <2>3
        <3>5. \A i \in {1, 2, 3} : s[i] \in PlanOf("attest")
            BY <2>3, <3>2
        <3>6. \A x \in PlanOf("attest") : \E i \in {1, 2, 3} : s[i] = x
            BY <2>3, <3>2
        <3> QED
            BY <2>3, <3>3, <3>4, <3>5, <3>6 DEF Follows
    <2>6. s # <<>> /\ s[1] = "policy"
        BY <2>3
    <2>7. \A x \in PlanOf("attest") : ~(Rank(x) < Rank("policy"))
        BY <2>4, PlansAre
    <2>8. IF catalog["attestation"] # None THEN catalog["attestation"] = att
          ELSE staged["attestation"] \in {None, att}
        BY <1>1 DEF AttestationBytes
    <2> QED
        BY <1>2, <1>3, <2>1, <2>2, <2>5, <2>6, <2>7, <2>8, CliBegins, Chosen
<1>4. CASE ~(Verified(att) /\ catalog["observations"] # None)
    <2>1. /\ cmd = Idle /\ status' = "failed" /\ hurt' = TRUE
          /\ UNCHANGED <<managed, valid, control, captured, catalog, staged, intent, orphans,
                         manifest, out, deployed, cmd, todo>>
        BY <1>1, <1>4 DEF CliAttest, signer, call
    <2>2. Stops
        BY <2>1 DEF IInv, Ahead, Stops
    <2> QED
        BY <2>1, <2>2, Rests
<1> QED
    BY <1>3, <1>4

-----------------------------------------------------------------------------
(* Faults.                                                                  *)

(* A crash, with what it leaves half published, keeps the invariant.        *)
LEMMA CrashStep ==
    ASSUME IInv, Crash
    PROVE  IInv'
<1>1. /\ todo # <<>> /\ Head(todo) = todo[1] /\ Stops /\ todo' = <<>> /\ cmd' = Idle
      /\ UNCHANGED <<managed, valid, status, control, captured, manifest, out, deployed>>
      /\ managed \in BOOLEAN /\ hurt \in BOOLEAN
    <2>1. todo # <<>>
        BY DEF Crash, IInv, Ahead
    <2> QED
        BY <2>1, Where DEF Crash, End, Stops, IInv, TypeOK
<1> DEFINE a == todo[1]
<1>2. CASE UNCHANGED <<catalog, staged, intent, orphans, hurt>>
    BY <1>1, <1>2, Rests
<1>3. ASSUME a \in Artifacts, CanPublish(a), Registered(Requires(a)), a = "attestation" => cmd.attestation # None,
             Writes(a), orphans' \subseteq Committed, hurt' \in BOOLEAN,
             hurt' \/ (hurt' = hurt /\ orphans' = orphans /\ catalog' = catalog /\ intent' \in {intent, a}),
             intent' = intent \/ (a \in Ingested /\ intent' = a)
      PROVE  IInv'
    <2>1. catalog[a] = None
        BY <1>3 DEF CanPublish
    <2>2. /\ catalog' \in [Artifacts -> Values] /\ staged' \in [Ingested -> Values]
          /\ intent' \in Ingested \cup {None}
          /\ \A x \in Artifacts : catalog[x] # None => catalog'[x] = catalog[x]
          /\ InOrder' /\ Origins'
        BY <1>1, <1>3, <2>1, WritesKeep
    <2>3. TypeOK'
        <3>1. todo' \in Seq(Steps)
            BY <1>1
        <3> QED
            BY <1>1, <1>3, <2>2, <3>1, IdleTyped DEF IInv, TypeOK
    <2>4. Ahead' /\ Behind' /\ Inputs'
        BY <1>1 DEF Ahead, Behind, Inputs
    <2>5. {"observations", "attestation", "receipt", "request", "stage", "perfetto"} \subseteq Artifacts
        BY SetsAre DEF Artifacts, Committed
    <2>6. Progress'
        BY <1>1, <2>2, <2>5 DEF IInv, Progress
    <2>7. Unhurt'
        BY <1>1, <1>3, <2>1 DEF IInv, Unhurt
    <2>8. CompleteIsWhole'
        <3> SUFFICES ASSUME status = "complete" PROVE CompleteIsWhole'
            BY <1>1 DEF CompleteIsWhole
        <3>1. ~managed
            BY <1>1 DEF IInv, Progress
        <3>2. a \notin Ingested
            <4> SUFFICES ASSUME a \in Ingested PROVE FALSE
                OBVIOUS
            <4>1. cmd.name \in Names /\ a \in PlanOf(cmd.name)
                BY <1>1, Where
            <4>2. Rank(a) \in {9, 13, 14, 20, 21} \cup 22..33
                BY <1>1, <3>1, <4>1, PlanRanks
            <4>3. a \in {"policy", "attestation", "receipt", "request"}
                <5>1. \A x \in Ingested \ {"policy", "attestation", "receipt", "request"} :
                          Rank(x) \in {1, 2, 3, 4, 5, 6, 7, 8, 10, 12, 15, 16}
                    BY SetsAre, RankIs
                <5>2. \A k \in {1, 2, 3, 4, 5, 6, 7, 8, 10, 12, 15, 16} : k \notin {9, 13, 14, 20, 21} \cup 22..33
                    OBVIOUS
                <5> QED
                    BY <4>2, <5>1, <5>2
            <4>4. catalog["request"] # None
                BY DEF IInv, CompleteIsWhole, Registered
            <4>5. Registered({"observations", "policy", "attestation", "receipt"})
                BY <2>5, <4>4 DEF IInv, InOrder, Begun, Requires
            <4> QED
                BY <2>1, <4>3, <4>4, <4>5 DEF Registered
        <3>3. intent' = intent
            BY <1>3, <3>2
        <3> QED
            BY <1>1, <2>2, <2>5, <3>1, <3>3 DEF IInv, CompleteIsWhole, Registered
    <2> QED
        BY <2>2, <2>3, <2>4, <2>6, <2>7, <2>8 DEF IInv
<1>4. CASE /\ a \in Ingested /\ CanPublish(a) /\ Registered(Requires(a))
           /\ a = "attestation" => cmd.attestation # None
           /\ staged' = [staged EXCEPT ![a] = Want(a)]
           /\ \/ intent' \in {intent, a} /\ UNCHANGED <<catalog, hurt>>
              \/ intent' = a /\ hurt' = TRUE /\ catalog' = [catalog EXCEPT ![a] = Want(a)]
           /\ UNCHANGED orphans
    <2>1. a \in Artifacts /\ orphans' \subseteq Committed
        BY <1>4 DEF Artifacts, IInv, TypeOK
    <2>2. Writes(a)
        BY <1>1, <1>4 DEF Writes
    <2>3. /\ hurt' \in BOOLEAN
          /\ hurt' \/ (hurt' = hurt /\ orphans' = orphans /\ catalog' = catalog /\ intent' \in {intent, a})
          /\ intent' = intent \/ (a \in Ingested /\ intent' = a)
        BY <1>1, <1>4
    <2> QED
        BY <1>3, <1>4, <2>1, <2>2, <2>3
<1>5. CASE /\ a \in Committed /\ CanPublish(a) /\ Registered(Requires(a))
           /\ orphans' = orphans \cup {a} /\ hurt' = TRUE
           /\ UNCHANGED <<catalog, staged, intent>>
    <2>1. a \in Artifacts /\ orphans' \subseteq Committed /\ a # "attestation"
        BY <1>5, Apart, SetsAre DEF Artifacts, IInv, TypeOK
    <2>2. Writes(a)
        BY <1>1, <1>5 DEF Writes
    <2> QED
        BY <1>3, <1>5, <2>1, <2>2
<1> QED
    BY <1>1, <1>2, <1>4, <1>5 DEF Crash

(* A failing step and a busy lock keep the invariant.                       *)
LEMMA FaultStep ==
    ASSUME IInv, StepFails \/ Contended
    PROVE  IInv'
<1>0. hurt \in BOOLEAN
    BY DEF IInv, TypeOK
<1>1. CASE StepFails
    <2>1. /\ Stops /\ out' = out /\ deployed' = deployed
          /\ UNCHANGED <<managed, valid, control, captured, catalog, staged, intent, orphans, manifest>>
          /\ status' = status \/ (status' = "failed" /\ Terminal(Head(todo)))
          /\ hurt' = (hurt \/ Terminal(Head(todo)))
        BY <1>1 DEF StepFails, StageError, End, Stops
    <2>2. hurt' \in BOOLEAN /\ (hurt => hurt') /\ (Terminal(Head(todo)) => hurt')
        BY <1>0, <2>1
    <2> QED
        BY <2>1, <2>2, Rests
<1>2. CASE Contended
    <2>1. /\ Stops /\ out' = out /\ deployed' = deployed /\ hurt' = hurt /\ status' = status
          /\ UNCHANGED <<managed, valid, control, captured, catalog, staged, intent, orphans, manifest>>
        BY <1>2 DEF Contended, End, Stops, session, signer
    <2> QED
        BY <1>0, <2>1, Rests
<1> QED
    BY <1>1, <1>2

(* Neither the signer's file nor the deployment on disk is part of what a   *)
(* Session has on record.                                                   *)
LEMMA OutsideStep ==
    ASSUME IInv, UNCHANGED <<session, call, hurt>>, deployed' \in Deployments,
           out' \in Good \cup {None, "partial", "foreign"}
    PROVE  IInv'
<1>1. UNCHANGED <<managed, valid, status, control, captured, catalog, staged, intent, orphans, manifest,
                  cmd, todo, hurt>>
    BY DEF session, call
<1>2. Names' = Names /\ (\A n : PlanOf(n)' = PlanOf(n)) /\ (\A s, n : Follows(s, n)' <=> Follows(s, n))
    BY <1>1, SamePlans DEF Names
<1>3. TypeOK'
    BY <1>1 DEF IInv, TypeOK
<1>4. Ahead' /\ Behind'
    BY <1>1, <1>2 DEF IInv, Ahead, Behind
<1>5. InOrder'
    <2>1. \A y : Begun(y)' <=> Begun(y)
        BY <1>1 DEF Begun
    <2>2. \A y \in Artifacts : Registered(Requires(y))' <=> Registered(Requires(y))
        BY <1>1 DEF Registered, Requires
    <2> QED
        BY <1>1, <1>2, <2>1, <2>2 DEF IInv, InOrder
<1>6. Origins'
    <2>1. \A b : OnRecord(b)' = OnRecord(b)
        BY <1>1 DEF OnRecord
    <2> QED
        BY <1>1, <2>1 DEF IInv, Origins
<1>7. Inputs'
    BY <1>1 DEF IInv, Inputs
<1>8. Progress' /\ Unhurt' /\ CompleteIsWhole'
    BY <1>1 DEF IInv, Progress, Unhurt, CompleteIsWhole, Registered
<1> QED
    BY <1>3, <1>4, <1>5, <1>6, <1>7, <1>8 DEF IInv

-----------------------------------------------------------------------------
(* The invariant, and what it says about a Session.                         *)

(* A new Session satisfies the invariant.                                   *)
LEMMA InitHolds == Init => IInv
<1> SUFFICES ASSUME Init PROVE IInv
    OBVIOUS
<1>1. /\ managed \in BOOLEAN /\ valid \in BOOLEAN /\ hurt = FALSE /\ cmd = Idle /\ todo = <<>>
      /\ status = (IF managed THEN "created" ELSE "captured")
      /\ control = (IF managed THEN "none" ELSE "complete")
      /\ captured = None /\ intent = None /\ orphans = {} /\ out = None /\ deployed \in Deployments
      /\ catalog = [a \in Artifacts |-> None] /\ staged = [a \in Ingested |-> None]
    BY DEF Init
<1>2. TypeOK
    <2>1. <<>> \in Seq(Steps) /\ None \in Values
        BY DEF Values
    <2> QED
        BY <1>1, <2>1, IdleTyped DEF TypeOK
<1>3. Ahead /\ Behind /\ Inputs
    BY <1>1 DEF Ahead, Behind, Inputs
<1>4. \A y \in Artifacts : ~Begun(y) /\ catalog[y] = None
    BY <1>1, Apart DEF Begun
<1>5. InOrder
    BY <1>1, <1>4 DEF InOrder
<1>6. Origins
    <2>1. \A b \in Artifacts : OnRecord(b) = {None}
        BY <1>1, <1>4 DEF OnRecord
    <2>2. {"provisioned", "dispatch", "mapping", "observations", "request", "static_ram", "summary",
           "stage", "attestation", "receipt"} \subseteq Artifacts /\ Plain \subseteq Artifacts
        BY SetsAre DEF Artifacts, Committed, Plain
    <2> QED
        BY <1>1, <1>4, <2>1, <2>2 DEF Origins
<1>7. Progress /\ Unhurt /\ CompleteIsWhole
    BY <1>1 DEF Progress, Unhurt, CompleteIsWhole
<1> QED
    BY <1>2, <1>3, <1>5, <1>6, <1>7 DEF IInv

(* Every step keeps the invariant.                                          *)
LEMMA NextKeeps ==
    ASSUME IInv, [Next]_vars
    PROVE  IInv'
<1>0. deployed \in Deployments /\ out \in Good \cup {None, "partial", "foreign"}
    BY DEF IInv, TypeOK
<1>1. CASE Command
    BY <1>1, PerfRunStep, NormalizeStep, AttestStep, AnalyzeStep, ConvertStep DEF Command
<1>2. CASE Step
    BY <1>2, PublishStep, ControlStep, ProcessingStep, ManifestStep, CompleteStep, SignStep, TakeStep DEF Step
<1>3. CASE SignerWrites
    <2>1. /\ UNCHANGED <<session, call, hurt>> /\ deployed' = deployed
          /\ out' \in Good \cup {out, "partial", "foreign"}
        BY <1>3 DEF SignerWrites
    <2> QED
        BY <1>0, <2>1, OutsideStep
<1>4. CASE Crash
    BY <1>4, CrashStep
<1>5. CASE StepFails \/ Contended
    BY <1>5, FaultStep
<1>6. CASE EditDeployment
    <2>1. /\ UNCHANGED <<session, call, hurt>> /\ deployed' \in Deployments /\ out' = out
        BY <1>6 DEF EditDeployment, signer
    <2> QED
        BY <1>0, <2>1, OutsideStep
<1>7. CASE UNCHANGED vars
    <2>1. /\ UNCHANGED <<session, call, hurt>> /\ deployed' = deployed /\ out' = out
        BY <1>7 DEF vars, signer
    <2> QED
        BY <1>0, <2>1, OutsideStep
<1> QED
    BY <1>1, <1>2, <1>3, <1>4, <1>5, <1>6, <1>7 DEF Next

(* Whatever the commands, the signers, the crashes and the operator do, the *)
(* record of a Session grows in the order of the stages, from one origin,   *)
(* and a command has everything it has passed on record.                    *)
THEOREM PerfRunInvariant == Spec => []IInv
<1>1. Init => IInv
    BY InitHolds
<1>2. IInv /\ [Next]_vars => IInv'
    BY NextKeeps
<1> QED
    BY <1>1, <1>2, PTL DEF Spec

(* Only what has gone wrong makes a Session Failed: not a rerun, not an     *)
(* unfinished signature, not a crash that left nothing half published.      *)
THEOREM FailedAlwaysCaused == Spec => []FailedHasCause
<1>1. IInv => FailedHasCause
    BY DEF IInv, Unhurt, FailedHasCause
<1> QED
    BY <1>1, PerfRunInvariant, PTL

(* One analysis, one signature and one deployment stand behind a Session,   *)
(* for every set of flavors, signatures, deployments and configurations.    *)
THEOREM OriginAlwaysOne == Spec => []OneOrigin
<1>1. IInv => OneOrigin
    <2> SUFFICES ASSUME IInv PROVE OneOrigin
        OBVIOUS
    <2>1. \A b \in {"provisioned", "dispatch", "receipt"} : catalog[b] \in OnRecord(b)
        BY DEF OnRecord
    <2>2. /\ \A a \in {"static_ram", "summary", "stage"} : catalog[a] # None => catalog[a] = catalog["request"]
          /\ catalog["receipt"] # None => catalog["receipt"] = catalog["attestation"]
        BY <2>1 DEF IInv, Origins
    <2>3. ASSUME managed, NEW d \in {captured, catalog["provisioned"], catalog["dispatch"]} \ {None}
          PROVE  d = catalog["binding"]
        BY <2>1, <2>3 DEF IInv, Origins
    <2> QED
        BY <2>2, <2>3 DEF OneOrigin
<1> QED
    BY <1>1, PerfRunInvariant, PTL

(* A complete Session has its whole chain on record.                        *)
THEOREM CompleteAlwaysWhole == Spec => []CompleteIsWhole
<1>1. IInv => CompleteIsWhole
    BY DEF IInv
<1> QED
    BY <1>1, PerfRunInvariant, PTL
=============================================================================
