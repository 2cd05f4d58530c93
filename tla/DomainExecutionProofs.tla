----------------------- MODULE DomainExecutionProofs -----------------------
(***************************************************************************)
(* TypeOK, CapabilitiesEstablished, SceneIsWhole, ModelIsTheTarget,        *)
(* PassedKeptTime and OrderlyDomainQualifies for any providers, checks,    *)
(* profiles, models, scenarios and measurements, and however often runs,   *)
(* checks, manifests and changes happen.                                   *)
(***************************************************************************)
EXTENDS DomainExecution, TLAPS

\* The fold picks one of the outcomes, and passed only when all of them are
\* (worst_status).
LEMMA WorstOutcome ==
  ASSUME NEW S, S \subseteq OutcomeStatus, S # {}
  PROVE  /\ WorstStatus(S) \in S
         /\ WorstStatus(S) = "passed" <=> \A s \in S : s = "passed"
<1>1. \A s \in OutcomeStatus : StatusPriority[s] \in 0..5
  BY DEF OutcomeStatus, StatusPriority
<1>2. \A s \in OutcomeStatus : s # "passed" => ~ StatusPriority[s] <= StatusPriority["passed"]
  BY DEF OutcomeStatus, StatusPriority
<1>3. \E s \in S : \A t \in S : StatusPriority[t] <= StatusPriority[s]
  BY <1>1
<1>4. WorstStatus(S) \in S /\ \A t \in S : StatusPriority[t] <= StatusPriority[WorstStatus(S)]
  BY <1>3 DEF WorstStatus
<1>. QED
  BY <1>2, <1>4

-----------------------------------------------------------------------------
(* The invariant.                                                          *)

Established(r) ==
  /\ r.execution_subject \in Image /\ r.generated_at \in 0..MaxClock
  /\ r.checks \subseteq [capability : Capability, status : OutcomeStatus]
  /\ ConformanceWellFormed(r)

Manifested(m) ==
  /\ m.generated_at \in 0..MaxClock
  /\ \A b \in m.provider_bindings :
       /\ b.conformance \in conformances
       /\ b.scene = Shows[b.target_id][b.provider.configuration]

Reported ==
  LET model == execution.workload IN
  /\ result.measured \in Measured
  /\ result.started_at = execution.started_at
  /\ result.manifest = execution.manifest
  /\ result.deployed = execution.deployed
  /\ result.workload =
       IF model = None THEN None
       ELSE [format |-> model.format, family |-> model.family,
             provider |-> model.provider, fallback_count |-> result.measured.fallback_count]
  /\ ResultWellFormed(result)

Filed ==
  /\ clock \in 0..MaxClock
  /\ deployed.image \in Image
  /\ run # None => run.created_at \in 0..MaxClock
  /\ \A r \in conformances : Established(r)
  /\ manifest # None => run # None /\ Manifested(manifest)
  /\ execution # None =>
       /\ manifest # None /\ execution.started_at \in 0..MaxClock
       /\ Manifested(execution.manifest)
  /\ result # None => execution # None /\ Reported

\* What the validator found when it accepted; nothing changes after it.
Decided ==
  /\ verdict \in {"none", "accepted", "rejected"}
  /\ verdict = "accepted" =>
       /\ result # None
       /\ Chronological /\ Aligned /\ ModelHolds
       /\ ProvidersHold(supplied) /\ ConfigurationRetained

Inv == Filed /\ Decided

-----------------------------------------------------------------------------
(* It holds.                                                               *)

LEMMA FiledFirst ==
  Init => Inv
BY ExecutionConstants DEF Init, Inv, Filed, Decided

\* The world and the clock change; documents stay.
LEMMA ChangesKeepFiles ==
  ASSUME Filed, UNCHANGED <<scenario, documents>>,
         clock' \in 0..MaxClock, deployed'.image \in Image
  PROVE  Filed'
<1>1. UNCHANGED <<scenario, run, conformances, manifest, execution, result>>
  BY DEF documents
<1>2. Reported => Reported'
  BY <1>1 DEF Reported, ResultWellFormed, Physical
<1>. QED BY <1>1, <1>2 DEF Filed, Manifested

LEMMA WorldKeepsFiles ==
  ASSUME Filed,
         \/ Redeploy \/ Load \/ Slip \/ SetBack \/ Tick
         \/ \E p \in Provider : Reconfigure(p)
  PROVE  Filed'
<1>1. clock \in 0..MaxClock /\ deployed.image \in Image /\ MaxClock \in Nat
  BY ExecutionConstants DEF Filed
<1>2. CASE Redeploy
  <2>1. deployed'.image \in Image /\ clock' = clock /\ UNCHANGED <<scenario, documents>>
    BY <1>2 DEF Redeploy
  <2>. QED BY <2>1, <1>1, ChangesKeepFiles
<1>3. CASE Load \/ Slip \/ \E p \in Provider : Reconfigure(p)
  <2>1. UNCHANGED <<clock, deployed, scenario, documents>>
    BY <1>3 DEF Load, Slip, Reconfigure
  <2>. QED BY <2>1, <1>1, ChangesKeepFiles
<1>4. CASE SetBack \/ Tick
  <2>1. clock' \in 0..MaxClock
    BY <1>4, <1>1 DEF SetBack, Tick
  <2>2. UNCHANGED <<deployed, scenario, documents>>
    BY <1>4 DEF SetBack, Tick, world
  <2>. QED BY <2>1, <2>2, <1>1, ChangesKeepFiles
<1>. QED BY <1>2, <1>3, <1>4

LEMMA RunsKeepFiles ==
  ASSUME Filed, StartRun
  PROVE  Filed'
BY DEF StartRun, Filed, world

LEMMA ChecksKeepFiles ==
  ASSUME Filed, NEW p \in Provider, Conform(p)
  PROVE  Filed'
<1>1. UNCHANGED <<clock, scenario, deployed, run, manifest, execution, result>>
  BY DEF Conform, world
<1>2. PICK profile \in Profiles, checks \in CheckLists, s \in OutcomeStatus,
           established \in SUBSET Capability :
        LET r == [run_id |-> run.run_id, generated_at |-> clock, profile |-> profile,
                  execution_subject |-> deployed.image, provider |-> Identity(p),
                  scene |-> Scene(p), target_id |-> p, checks |-> checks, status |-> s,
                  capabilities |-> established]
        IN  ConformanceWellFormed(r) /\ conformances' = conformances \cup {r}
  BY DEF Conform
<1>3. \A r \in conformances' : Established(r)
  BY <1>2, ExecutionConstants DEF Filed, Established
<1>4. conformances \subseteq conformances'
  BY <1>2
<1>5. Reported => Reported'
  BY <1>1 DEF Reported, ResultWellFormed, Physical
<1>. QED BY <1>1, <1>3, <1>4, <1>5 DEF Filed, Manifested, Established

LEMMA ManifestsKeepFiles ==
  ASSUME Filed, WriteManifest
  PROVE  Filed'
<1>1. UNCHANGED <<clock, scenario, deployed, run, conformances, execution, result>>
  BY DEF WriteManifest, world
<1>. DEFINE binding(p, rests, boasts) ==
       [target_id |-> p, provider |-> Identity(p), scene |-> Scene(p),
        conformance |-> rests[p], profile |-> rests[p].profile,
        capabilities |-> IF boasts THEN Capability ELSE rests[p].capabilities]
<1>2. \E bound \in SUBSET Provider : \E rests \in [bound -> conformances], boasts \in BOOLEAN :
        manifest' = [generated_at |-> clock, data_source |-> scenario.data_source,
                     deployed |-> deployed, workload |-> serving, clock |-> drifting,
                     provider_bindings |-> {binding(p, rests, boasts) : p \in bound}]
  BY DEF WriteManifest
<1>3. Manifested(manifest')
  BY <1>2 DEF Filed, Manifested, Identity, Scene
<1>4. manifest' # None
  BY <1>2 DEF None
<1>5. run # None
  BY DEF WriteManifest
<1>6. Reported => Reported'
  BY <1>1 DEF Reported, ResultWellFormed, Physical
<1>. QED BY <1>1, <1>3, <1>4, <1>5, <1>6 DEF Filed, Manifested

LEMMA StartsKeepFiles ==
  ASSUME Filed, Start
  PROVE  Filed'
<1>1. UNCHANGED <<clock, scenario, deployed, run, conformances, manifest, result>>
  BY DEF Start, world
<1>2. /\ manifest # None /\ execution = None
      /\ execution'.started_at = clock /\ execution'.manifest = manifest
  BY DEF Start
<1>3. result = None
  BY <1>2 DEF Filed
<1>. QED BY <1>1, <1>2, <1>3 DEF Filed, Manifested

LEMMA ResultsKeepFiles ==
  ASSUME Filed, Finish
  PROVE  Filed'
<1>1. UNCHANGED <<clock, scenario, deployed, run, conformances, manifest, execution>>
  BY DEF Finish, world
<1>2. execution # None
  BY DEF Finish
<1>3. /\ result'.measured \in Measured
      /\ result'.started_at = execution.started_at /\ result'.manifest = execution.manifest
      /\ result'.deployed = execution.deployed
      /\ result'.workload =
           IF execution.workload = None THEN None
           ELSE [format |-> execution.workload.format, family |-> execution.workload.family,
                 provider |-> execution.workload.provider,
                 fallback_count |-> result'.measured.fallback_count]
      /\ ResultWellFormed(result')
  BY DEF Finish
<1>4. Reported'
  BY <1>1, <1>3 DEF Reported, ResultWellFormed, Physical
<1>. QED BY <1>1, <1>2, <1>4 DEF Filed, Manifested

\* The verdict is about the documents as they stay.
LEMMA ValidationDecides ==
  ASSUME Filed, Validate
  PROVE  Inv'
<1>1. UNCHANGED <<clock, scenario, deployed, serving, drifting, run, conformances, manifest,
                  execution, result>>
  BY DEF Validate, world
<1>2. Reported => Reported'
  BY <1>1 DEF Reported, ResultWellFormed, Physical
<1>3. Filed'
  BY <1>1, <1>2 DEF Filed, Manifested
<1>4. /\ result # None
      /\ verdict' = IF /\ Chronological /\ Aligned /\ ModelHolds
                       /\ ProvidersHold(supplied') /\ ConfigurationRetained
                    THEN "accepted" ELSE "rejected"
  BY DEF Validate
<1>5. Chronological => Chronological'
  BY <1>1 DEF Chronological
<1>6. Aligned => Aligned'
  BY <1>1 DEF Aligned, WorkloadAligned, PolicyAligned, Physical, WithinTimePolicy,
       RealtimeWithinPolicy, HardwareWithinPolicy
<1>7. (ModelHolds => ModelHolds') /\ (ConfigurationRetained => ConfigurationRetained')
  BY <1>1 DEF ModelHolds, ConfigurationRetained
<1>8. ProvidersHold(supplied') => ProvidersHold(supplied)'
  BY <1>1 DEF ProvidersHold, BindingHolds, InTime
<1>. QED BY <1>1, <1>3, <1>4, <1>5, <1>6, <1>7, <1>8 DEF Inv, Decided

LEMMA Invariance == Spec => []Inv
<1>1. Init => Inv
  BY FiledFirst
<1>2. Inv /\ [Next]_vars => Inv'
  <2>. SUFFICES ASSUME Inv, [Next]_vars PROVE Inv'
    OBVIOUS
  <2>1. CASE UNCHANGED vars
    <3>1. UNCHANGED <<clock, scenario, deployed, serving, drifting, run, conformances, manifest,
                      execution, result, supplied, verdict>>
      BY <2>1 DEF vars, world, documents
    <3>2. Filed'
      BY <3>1, <2>1, ChangesKeepFiles DEF Inv, Filed, vars, world, documents
    <3>3. Decided'
      BY <3>1 DEF Inv, Decided, Chronological, Aligned, ModelHolds, ProvidersHold, WorkloadAligned,
           ConfigurationRetained, PolicyAligned, Physical, WithinTimePolicy, RealtimeWithinPolicy, HardwareWithinPolicy,
           BindingHolds, InTime
    <3>. QED BY <3>2, <3>3 DEF Inv
  <2>2. CASE Validate
    BY <2>2, ValidationDecides DEF Inv
  <2>3. CASE Next /\ ~ Validate
    <3>1. verdict' = "none"
      BY <2>3 DEF Next, Redeploy, Load, Slip, SetBack, StartRun, Reconfigure, Conform,
           WriteManifest, Start, Finish, Tick
    <3>2. Filed'
      BY <2>3, WorldKeepsFiles, RunsKeepFiles, ChecksKeepFiles, ManifestsKeepFiles,
         StartsKeepFiles, ResultsKeepFiles DEF Inv, Next
    <3>. QED BY <3>1, <3>2 DEF Inv, Decided
  <2>. QED BY <2>1, <2>2, <2>3
<1>. QED BY <1>1, <1>2, PTL DEF Spec

-----------------------------------------------------------------------------
(* What it means.                                                          *)

LEMMA PassedMeansEveryCheck ==
  ASSUME NEW r, Established(r), r.status = "passed", NEW x \in r.checks
  PROVE  x.status = "passed"
<1>1. /\ {c.status : c \in r.checks} \subseteq OutcomeStatus
      /\ {c.status : c \in r.checks} # {}
  BY DEF Established
<1>2. WorstStatus({c.status : c \in r.checks}) = "passed"
  BY DEF Established, ConformanceWellFormed
<1>. QED BY <1>1, <1>2, WorstOutcome

LEMMA CapabilitiesWereChecked ==
  ASSUME NEW r, Established(r), NEW c \in r.capabilities
  PROVE  [capability |-> c, status |-> "passed"] \in r.checks
<1>1. PICK x \in r.checks : x.status = "passed" /\ c = x.capability
  BY DEF Established, ConformanceWellFormed
<1>2. x = [capability |-> c, status |-> "passed"]
  BY <1>1 DEF Established
<1>. QED BY <1>1, <1>2

\* Conformance results list what some check established, and documents rest on
\* documents there are (semantics.py, _validate_conformance_result).
THEOREM TypeCorrect == Spec => []TypeOK
<1>1. Inv => TypeOK
  <2>. SUFFICES ASSUME Inv PROVE TypeOK
    OBVIOUS
  <2>1. \A r \in conformances :
          /\ r.execution_subject \in Image /\ r.generated_at \in 0..MaxClock
          /\ \A c \in r.capabilities : [capability |-> c, status |-> "passed"] \in r.checks
    BY CapabilitiesWereChecked DEF Inv, Filed, Established
  <2>. QED BY <2>1 DEF Inv, Filed, Decided, Manifested, TypeOK
<1>. QED BY <1>1, Invariance, PTL

\* The accepted documents are those of the execution.
LEMMA AcceptedRan ==
  ASSUME Inv, verdict = "accepted"
  PROVE  /\ result # None /\ execution # None /\ manifest # None /\ run # None
         /\ Reported /\ Manifested(manifest)
         /\ execution.manifest = manifest
         /\ execution.deployed = manifest.deployed
BY DEF Inv, Filed, Decided, Reported, Aligned

LEMMA BoundWasChecked ==
  ASSUME Inv, verdict = "accepted", NEW b \in manifest.provider_bindings
  PROVE  /\ b.conformance \in conformances
         /\ Established(b.conformance)
         /\ CheckedAsRun(b.conformance, b)
         /\ b.capabilities = b.conformance.capabilities
<1>. DEFINE r == b.conformance
<1>1. BindingHolds(b, supplied)
  BY DEF Inv, Decided, ProvidersHold
<1>2. r \in conformances /\ Established(r)
  BY AcceptedRan DEF Manifested, Inv, Filed
<1>3. \A x \in r.checks : x.status = "passed"
  BY <1>1, <1>2, PassedMeansEveryCheck DEF BindingHolds
<1>4. r.generated_at \in run.created_at .. execution.started_at
  <2>1. run.created_at \in Int /\ r.generated_at \in Int /\ manifest.generated_at \in Int
        /\ execution.started_at \in Int
    BY <1>2, AcceptedRan, ExecutionConstants DEF Inv, Filed, Established, Manifested
  <2>2. run.created_at <= r.generated_at /\ r.generated_at <= manifest.generated_at
    BY <1>1 DEF BindingHolds, InTime
  <2>3. manifest.generated_at <= execution.started_at
    BY AcceptedRan DEF Inv, Decided, Chronological, Reported
  <2>. QED BY <2>1, <2>2, <2>3
<1>5. r.execution_subject = execution.deployed.image
  BY <1>1, AcceptedRan DEF BindingHolds
<1>. QED BY <1>1, <1>2, <1>3, <1>4, <1>5 DEF BindingHolds, CheckedAsRun

\* An accepted domain ran on providers checked as they were bound, with the
\* image that ran, and the checks cover what the scenario requires
\* (_validate_provider_bindings).
THEOREM AcceptedCapabilitiesWereEstablished == Spec => []CapabilitiesEstablished
<1>1. Inv => CapabilitiesEstablished
  <2>. SUFFICES ASSUME Inv, verdict = "accepted"
               PROVE  CapabilitiesEstablished!2
    BY DEF CapabilitiesEstablished
  <2>1. execution.manifest.provider_bindings = manifest.provider_bindings
    BY AcceptedRan
  <2>2. \A b \in manifest.provider_bindings : \E r \in conformances : CheckedAsRun(r, b)
    BY BoundWasChecked
  <2>3. ASSUME NEW c \in scenario.provider_requirements.capabilities
        PROVE  \E b \in manifest.provider_bindings, r \in conformances :
                 CheckedAsRun(r, b) /\ [capability |-> c, status |-> "passed"] \in r.checks
    <3>1. PICK b \in manifest.provider_bindings : c \in b.capabilities
      BY DEF Inv, Decided, ProvidersHold, RequirementsMet, Capabilities
    <3>2. [capability |-> c, status |-> "passed"] \in b.conformance.checks
      BY <3>1, BoundWasChecked, CapabilitiesWereChecked
    <3>. QED BY <3>1, <3>2, BoundWasChecked
  <2>. QED BY <2>1, <2>2, <2>3
<1>. QED BY <1>1, Invariance, PTL

\* The scene an accepted domain ran in was shown by one provider, configured
\* as it was bound and checked (providers.py, validate_provider_requirements).
THEOREM AcceptedSceneIsWhole == Spec => []SceneIsWhole
<1>1. Inv => SceneIsWhole
  <2>. SUFFICES ASSUME Inv, verdict = "accepted",
                       scenario.provider_requirements.scene # NoScene
               PROVE  \E b \in execution.manifest.provider_bindings :
                        LET shown == Shows[b.target_id][b.provider.configuration] IN
                        /\ shown # NoScene
                        /\ SceneSatisfies(scenario.provider_requirements.scene, shown)
    BY DEF SceneIsWhole
  <2>1. PICK scene \in Scenes(manifest.provider_bindings) :
          SceneSatisfies(scenario.provider_requirements.scene, scene)
    BY DEF Inv, Decided, ProvidersHold, RequirementsMet
  <2>2. PICK b \in manifest.provider_bindings : scene = b.scene /\ scene # NoScene
    BY <2>1 DEF Scenes
  <2>3. b.scene = Shows[b.target_id][b.provider.configuration]
    BY AcceptedRan DEF Manifested
  <2>. QED BY <2>1, <2>2, <2>3, AcceptedRan
<1>. QED BY <1>1, Invariance, PTL

\* The model of an accepted domain is the scenario's, in the manifest, and ran
\* as such without falling back (_validate_model_and_dataset,
\* _validate_execution_alignment).
THEOREM AcceptedModelIsTheTarget == Spec => []ModelIsTheTarget
<1>1. Inv => ModelIsTheTarget
  <2>. SUFFICES ASSUME Inv, verdict = "accepted"
               PROVE  ModelIsTheTarget!2
    BY DEF ModelIsTheTarget
  <2>. DEFINE model == execution.workload
              observed == [format |-> model.format, family |-> model.family,
                           provider |-> model.provider,
                           fallback_count |-> result.measured.fallback_count]
  <2>1. execution.manifest = manifest
    BY AcceptedRan
  <2>2. manifest.workload = scenario.model /\ result.model_manifest = scenario.model
    BY DEF Inv, Decided, ModelHolds
  <2>3. /\ (manifest.workload = None) = (result.workload = None)
        /\ manifest.workload # None =>
             result.workload = [format |-> manifest.workload.format,
                                family |-> manifest.workload.family,
                                provider |-> manifest.workload.provider, fallback_count |-> 0]
    BY DEF Inv, Decided, Aligned, WorkloadAligned
  <2>4. result.workload = IF model = None THEN None ELSE observed
    BY AcceptedRan DEF Reported
  <2>5. observed # None
    BY DEF None
  <2>6. (model = None) = (scenario.model = None)
    BY <2>2, <2>3, <2>4, <2>5
  <2>7. ASSUME scenario.model # None
        PROVE  /\ model.format = scenario.model.format /\ model.family = scenario.model.family
               /\ model.provider = scenario.model.provider
               /\ result.measured.fallback_count = 0
    <3>1. observed = [format |-> scenario.model.format, family |-> scenario.model.family,
                      provider |-> scenario.model.provider, fallback_count |-> 0]
      BY <2>2, <2>3, <2>4, <2>6, <2>7
    <3>. QED BY <3>1
  <2>. QED BY <2>1, <2>2, <2>6, <2>7
<1>. QED BY <1>1, Invariance, PTL

\* A passed result of an accepted domain was measured within the time policy,
\* and its hardware clock was where the manifest had it (_validate_result,
\* _validate_execution_alignment).
THEOREM AcceptedPassKeptTime == Spec => []PassedKeptTime
<1>1. Inv => PassedKeptTime
  <2>. SUFFICES ASSUME Inv, verdict = "accepted", result.status = "passed"
               PROVE  PassedKeptTime!2
    BY DEF PassedKeptTime
  <2>1. ResultWellFormed(result) /\ execution.manifest = manifest
    BY AcceptedRan DEF Reported
  <2>2. PolicyAligned
    BY DEF Inv, Decided, Aligned
  <2>3. result.measured.assertions \subseteq {"passed"}
    <3>. DEFINE S == {result.status} \cup result.measured.assertions
    <3>1. S \subseteq OutcomeStatus /\ S # {}
      BY AcceptedRan, ExecutionConstants DEF Reported, OutcomeStatus
    <3>2. result.measured.assertions # {} => WorstStatus(S) = "passed"
      BY <2>1 DEF ResultWellFormed
    <3>. QED BY <3>1, <3>2, WorstOutcome
  <2>. QED BY <2>1, <2>2, <2>3 DEF ResultWellFormed, PolicyAligned
<1>. QED BY <1>1, Invariance, PTL

-----------------------------------------------------------------------------
(* A run in which nothing was changed.  Its documents describe the world   *)
(* there still is, and follow one another.                                 *)

\* Nothing was changed, and there was one run at most.
Undisturbed == count["change"] = 0 /\ count["run"] <= 1

RunsCounted ==
  /\ count \in [{"run", "conformance", "manifest", "change"} -> Nat]
  /\ count["run"] = 0 => run = None /\ conformances = {}

ChecksDescribe ==
  \A r \in conformances :
    /\ r.run_id = run.run_id
    /\ r.execution_subject = deployed.image
    /\ r.provider = Identity(r.target_id)
    /\ run.created_at <= r.generated_at /\ r.generated_at <= clock

ManifestDescribes ==
  /\ manifest.deployed = deployed /\ manifest.workload = serving
  /\ manifest.clock = drifting /\ manifest.data_source = scenario.data_source
  /\ run.created_at <= manifest.generated_at /\ manifest.generated_at <= clock
  /\ \A b \in manifest.provider_bindings :
       /\ b.provider = Identity(b.target_id)
       /\ b.profile = b.conformance.profile
       /\ b.conformance.scene = Scene(b.conformance.target_id)
       /\ b.conformance.generated_at <= manifest.generated_at

ScenesShown == \A r \in conformances : r.scene = Scene(r.target_id)

ExecutionDescribes ==
  /\ execution.deployed = deployed /\ execution.workload = serving
  /\ execution.manifest.generated_at <= execution.started_at

ResultDescribes ==
  /\ result.data_source = scenario.data_source
  /\ Physical => result.hardware.clock = drifting

Described ==
  /\ run # None => run.created_at <= clock
  /\ ChecksDescribe /\ ScenesShown
  /\ manifest # None => ManifestDescribes
  /\ execution # None => ExecutionDescribes
  /\ result # None => ResultDescribes

Refused ==
  verdict = "rejected" =>
    /\ result # None
    /\ ~ /\ Chronological /\ Aligned /\ ModelHolds
         /\ ProvidersHold(supplied) /\ ConfigurationRetained

CarefulInv == RunsCounted /\ (Undisturbed => Described) /\ Refused

LEMMA CarefulInit ==
  Init => CarefulInv
BY DEF Init, CarefulInv, RunsCounted, Described, ChecksDescribe, ScenesShown, Refused, Undisturbed

LEMMA Counting ==
  ASSUME RunsCounted, NEW thing \in {"run", "conformance", "manifest", "change"}, NEW limit,
         Bound(thing, limit)
  PROVE  /\ count' \in [{"run", "conformance", "manifest", "change"} -> Nat]
         /\ count'[thing] = count[thing] + 1
         /\ \A x \in {"run", "conformance", "manifest", "change"} \ {thing} : count'[x] = count[x]
BY DEF RunsCounted, Bound

\* What is undisturbed after a step was so before it, and the step changed
\* nothing of the world.
LEMMA StepsCount ==
  ASSUME RunsCounted, Next
  PROVE  /\ RunsCounted'
         /\ Undisturbed' => Undisturbed /\ UNCHANGED world /\ ~ SetBack
         /\ Undisturbed' /\ StartRun => count["run"] = 0
<1>1. CASE Redeploy \/ Load \/ Slip \/ SetBack \/ \E p \in Provider : Reconfigure(p)
  <2>1. Change /\ UNCHANGED <<run, conformances>>
    BY <1>1 DEF Redeploy, Load, Slip, SetBack, Reconfigure, documents
  <2>2. /\ RunsCounted' /\ count'["change"] = count["change"] + 1 /\ count["change"] \in Nat
    BY <2>1, Counting DEF Change, RunsCounted
  <2>. QED
    BY <2>2 DEF Undisturbed
<1>2. CASE StartRun
  <2>1. /\ count' \in [{"run", "conformance", "manifest", "change"} -> Nat]
        /\ count'["run"] = count["run"] + 1 /\ count'["change"] = count["change"]
        /\ count["run"] \in Nat
    BY <1>2, Counting DEF StartRun, RunsCounted
  <2>2. ~ SetBack
    BY <1>2, <2>1, Counting DEF SetBack, Change
  <2>. QED
    BY <1>2, <2>1, <2>2 DEF RunsCounted, Undisturbed, StartRun
<1>3. CASE (\E p \in Provider : Conform(p)) \/ WriteManifest
  <2>1. PICK thing \in {"conformance", "manifest"} : \E limit : Bound(thing, limit)
    BY <1>3 DEF Conform, WriteManifest
  <2>2. /\ count' \in [{"run", "conformance", "manifest", "change"} -> Nat]
        /\ count'["run"] = count["run"] /\ count'["change"] = count["change"]
        /\ count["change"] \in Nat
    BY <2>1, Counting DEF RunsCounted
  <2>3. ~ SetBack /\ ~ StartRun
    BY <2>2, Counting DEF SetBack, Change, StartRun, RunsCounted
  <2>4. UNCHANGED world /\ run # None /\ run' = run
    BY <1>3 DEF Conform, WriteManifest
  <2>. QED
    BY <2>2, <2>3, <2>4 DEF RunsCounted, Undisturbed
<1>4. CASE Start \/ Finish \/ Tick \/ Validate
  <2>1. UNCHANGED <<count, world, run, conformances>>
    BY <1>4 DEF Start, Finish, Tick, Validate, documents
  <2>2. ~ SetBack /\ ~ StartRun
    BY <2>1, Counting DEF SetBack, Change, StartRun, RunsCounted
  <2>. QED
    BY <2>1, <2>2 DEF RunsCounted, Undisturbed
<1>. QED
  BY <1>1, <1>2, <1>3, <1>4 DEF Next

\* Documents that stay go on describing a world that stays.
LEMMA TimePasses ==
  ASSUME Filed, Described, UNCHANGED <<world, run, conformances, manifest, execution, result>>,
         clock' \in Nat, clock <= clock'
  PROVE  Described'
<1>1. /\ run # None => run.created_at \in Int
      /\ clock \in Int /\ \A r \in conformances : r.generated_at \in Int
      /\ manifest # None => manifest.generated_at \in Int
  BY ExecutionConstants DEF Filed, Established, Manifested
<1>2. UNCHANGED <<scenario, deployed, configured, serving, drifting>>
  BY DEF world
<1>3. ChecksDescribe' /\ ScenesShown'
  BY <1>1, <1>2 DEF Described, ChecksDescribe, ScenesShown, Identity, Scene
<1>4. manifest # None => ManifestDescribes'
  BY <1>1, <1>2 DEF Described, ManifestDescribes, Identity, Scene
<1>5. execution # None => ExecutionDescribes'
  BY <1>2 DEF Described, ExecutionDescribes
<1>6. result # None => ResultDescribes'
  BY <1>2 DEF Described, ResultDescribes, Physical
<1>. QED
  BY <1>1, <1>3, <1>4, <1>5, <1>6 DEF Described

LEMMA ConformanceDescribes ==
  ASSUME Filed, Described, NEW p \in Provider, Conform(p)
  PROVE  Described'
<1>1. UNCHANGED <<clock, scenario, deployed, configured, serving, drifting, run, manifest,
                  execution, result>>
  BY DEF Conform, world
<1>2. PICK r :
        /\ r.run_id = run.run_id /\ r.generated_at = clock /\ r.execution_subject = deployed.image
        /\ r.provider = Identity(p) /\ r.scene = Scene(p) /\ r.target_id = p
        /\ conformances' = conformances \cup {r}
  <2>1. PICK profile \in Profiles, checks \in CheckLists, s \in OutcomeStatus,
             established \in SUBSET Capability :
          conformances' = conformances \cup
            {[run_id |-> run.run_id, generated_at |-> clock, profile |-> profile,
              execution_subject |-> deployed.image, provider |-> Identity(p),
              scene |-> Scene(p), target_id |-> p, checks |-> checks, status |-> s,
              capabilities |-> established]}
    BY DEF Conform
  <2>2. PICK r : r = [run_id |-> run.run_id, generated_at |-> clock, profile |-> profile,
              execution_subject |-> deployed.image, provider |-> Identity(p),
              scene |-> Scene(p), target_id |-> p, checks |-> checks, status |-> s,
              capabilities |-> established]
    OBVIOUS
  <2>. QED
    BY <2>1, <2>2
<1>3. run # None
  BY DEF Conform
<1>4. clock \in Int /\ run.created_at \in Int
  BY <1>3, ExecutionConstants DEF Filed
<1>5. ChecksDescribe'
  BY <1>1, <1>2, <1>3, <1>4 DEF Described, ChecksDescribe, Identity
<1>6. ScenesShown'
  BY <1>1, <1>2 DEF Described, ScenesShown, Scene
<1>7. manifest # None => ManifestDescribes'
  BY <1>1 DEF Described, ManifestDescribes, Identity, Scene
<1>. QED
  BY <1>1, <1>5, <1>6, <1>7 DEF Described, ExecutionDescribes, ResultDescribes, Physical

LEMMA ManifestOfTheWorld ==
  ASSUME Filed, Described, WriteManifest
  PROVE  Described'
<1>1. UNCHANGED <<clock, scenario, deployed, configured, serving, drifting, run, conformances,
                  execution, result>> /\ run # None
  BY DEF WriteManifest, world
<1>. DEFINE binding(p, rests, boasts) ==
       [target_id |-> p, provider |-> Identity(p), scene |-> Scene(p),
        conformance |-> rests[p], profile |-> rests[p].profile,
        capabilities |-> IF boasts THEN Capability ELSE rests[p].capabilities]
<1>2. PICK bound \in SUBSET Provider : \E rests \in [bound -> conformances], boasts \in BOOLEAN :
        manifest' = [generated_at |-> clock, data_source |-> scenario.data_source,
                     deployed |-> deployed, workload |-> serving, clock |-> drifting,
                     provider_bindings |-> {binding(p, rests, boasts) : p \in bound}]
  BY DEF WriteManifest
<1>3. PICK rests \in [bound -> conformances], boasts \in BOOLEAN :
        manifest' = [generated_at |-> clock, data_source |-> scenario.data_source,
                     deployed |-> deployed, workload |-> serving, clock |-> drifting,
                     provider_bindings |-> {binding(p, rests, boasts) : p \in bound}]
  BY <1>2
<1>4. clock \in Int /\ run.created_at <= clock
  BY <1>1, ExecutionConstants DEF Filed, Described
<1>5. ASSUME NEW b \in manifest'.provider_bindings
      PROVE  /\ b.provider = Identity(b.target_id) /\ b.profile = b.conformance.profile
             /\ b.conformance \in conformances
  BY <1>3
<1>6. ASSUME NEW b \in manifest'.provider_bindings
      PROVE  /\ b.conformance.scene = Scene(b.conformance.target_id)
             /\ b.conformance.generated_at <= clock
  BY <1>5 DEF Described, ChecksDescribe, ScenesShown
<1>7. ManifestDescribes'
  BY <1>1, <1>3, <1>4, <1>5, <1>6 DEF ManifestDescribes, Identity, Scene
<1>8. ChecksDescribe' /\ ScenesShown'
  BY <1>1 DEF Described, ChecksDescribe, ScenesShown, Identity, Scene
<1>. QED
  BY <1>1, <1>7, <1>8 DEF Described, ExecutionDescribes, ResultDescribes, Physical

LEMMA ExecutionOfTheManifest ==
  ASSUME Filed, Described, Start
  PROVE  Described'
<1>1. UNCHANGED <<clock, scenario, deployed, configured, serving, drifting, run, conformances,
                  manifest, result>>
  BY DEF Start, world
<1>2. /\ manifest # None /\ result = None
      /\ execution' = [started_at |-> clock, deployed |-> deployed, workload |-> serving,
                       manifest |-> manifest]
  BY DEF Start, Filed
<1>3. ExecutionDescribes'
  BY <1>1, <1>2 DEF Described, ExecutionDescribes, ManifestDescribes
<1>4. ChecksDescribe' /\ ScenesShown' /\ ManifestDescribes'
  BY <1>1, <1>2 DEF Described, ChecksDescribe, ScenesShown, ManifestDescribes, Identity, Scene
<1>. QED
  BY <1>1, <1>2, <1>3, <1>4 DEF Described

LEMMA ResultOfTheExecution ==
  ASSUME Filed, Described, Finish
  PROVE  Described'
<1>1. UNCHANGED <<clock, scenario, deployed, configured, serving, drifting, run, conformances,
                  manifest, execution>>
  BY DEF Finish, world
<1>2. /\ result'.data_source = scenario.data_source
      /\ Physical => result'.hardware.clock = drifting
  BY DEF Finish
<1>3. ResultDescribes'
  BY <1>1, <1>2 DEF ResultDescribes, Physical
<1>4. ChecksDescribe' /\ ScenesShown' /\ (manifest # None => ManifestDescribes')
  BY <1>1 DEF Described, ChecksDescribe, ScenesShown, ManifestDescribes, Identity, Scene
<1>. QED
  BY <1>1, <1>3, <1>4 DEF Described, ExecutionDescribes

LEMMA FirstRunDescribes ==
  ASSUME RunsCounted, count["run"] = 0, StartRun, Filed
  PROVE  Described'
<1>1. /\ conformances' = {} /\ run'.created_at = clock /\ clock' = clock
      /\ manifest' = None /\ execution' = None /\ result' = None
  BY DEF RunsCounted, StartRun
<1>2. clock \in Int
  BY ExecutionConstants DEF Filed
<1>. QED
  BY <1>1, <1>2 DEF Described, ChecksDescribe, ScenesShown

LEMMA DescribedNext ==
  ASSUME Filed, RunsCounted, Undisturbed => Described, Next
  PROVE  (Undisturbed => Described)'
<1>. SUFFICES ASSUME Undisturbed'  PROVE Described'
  OBVIOUS
<1>1. /\ Described /\ UNCHANGED world /\ ~ SetBack
      /\ StartRun => count["run"] = 0
  BY StepsCount
<1>2. CASE Redeploy \/ Load \/ Slip \/ Tick \/ Validate \/ \E p \in Provider : Reconfigure(p)
  <2>1. UNCHANGED <<run, conformances, manifest, execution, result>>
    BY <1>2 DEF Redeploy, Load, Slip, Tick, Validate, Reconfigure, documents
  <2>2. clock \in Nat /\ clock' \in {clock, clock + 1}
    BY <1>2, ExecutionConstants DEF Filed, Redeploy, Load, Slip, Tick, Validate, Reconfigure
  <2>3. clock' \in Nat /\ clock <= clock'
    BY <2>2
  <2>. QED
    BY <1>1, <2>1, <2>3, TimePasses
<1>. QED
  BY <1>1, <1>2, FirstRunDescribes, ConformanceDescribes, ManifestOfTheWorld,
     ExecutionOfTheManifest, ResultOfTheExecution DEF Next

LEMMA RefusedNext ==
  ASSUME Refused, Next
  PROVE  Refused'
<1>1. CASE Validate
  <2>1. UNCHANGED <<scenario, run, manifest, execution, result>>
    BY <1>1 DEF Validate, world
  <2>2. /\ result # None
        /\ verdict' = IF /\ Chronological /\ Aligned /\ ModelHolds
                         /\ ProvidersHold(supplied') /\ ConfigurationRetained
                      THEN "accepted" ELSE "rejected"
    BY <1>1 DEF Validate
  <2>3. Chronological' => Chronological
    BY <2>1 DEF Chronological
  <2>4. Aligned' => Aligned
    BY <2>1 DEF Aligned, WorkloadAligned, PolicyAligned, Physical, WithinTimePolicy,
         RealtimeWithinPolicy, HardwareWithinPolicy
  <2>5. (ModelHolds' => ModelHolds) /\ (ConfigurationRetained' => ConfigurationRetained)
    BY <2>1 DEF ModelHolds, ConfigurationRetained
  <2>6. ProvidersHold(supplied)' => ProvidersHold(supplied')
    BY <2>1 DEF ProvidersHold, BindingHolds, InTime
  <2>. QED
    BY <2>1, <2>2, <2>3, <2>4, <2>5, <2>6 DEF Refused
<1>2. CASE ~ Validate
  <2>1. verdict' = "none"
    BY <1>2 DEF Next, Redeploy, Load, Slip, SetBack, StartRun, Reconfigure, Conform,
         WriteManifest, Start, Finish, Tick
  <2>. QED
    BY <2>1 DEF Refused
<1>. QED
  BY <1>1, <1>2

LEMMA CarefulNext ==
  ASSUME Filed, CarefulInv, [Next]_vars
  PROVE  CarefulInv'
<1>1. CASE UNCHANGED vars
  <2>1. UNCHANGED <<clock, scenario, deployed, configured, serving, drifting, run, conformances,
                    manifest, execution, result, supplied, verdict, count>>
    BY <1>1 DEF vars, world, documents
  <2>2. RunsCounted' /\ (Undisturbed' <=> Undisturbed)
    BY <2>1 DEF CarefulInv, RunsCounted, Undisturbed
  <2>3. clock' \in Nat /\ clock <= clock'
    BY <2>1, ExecutionConstants DEF Filed
  <2>4. Described => Described'
    BY <2>1, <2>3, TimePasses DEF world
  <2>5. Refused'
    BY <2>1 DEF CarefulInv, Refused, Chronological, Aligned, ModelHolds, ProvidersHold,
         ConfigurationRetained, WorkloadAligned, PolicyAligned, Physical, WithinTimePolicy,
         RealtimeWithinPolicy,
         HardwareWithinPolicy, BindingHolds, InTime
  <2>. QED
    BY <2>2, <2>4, <2>5 DEF CarefulInv
<1>2. CASE Next
  BY <1>2, StepsCount, DescribedNext, RefusedNext DEF CarefulInv
<1>. QED
  BY <1>1, <1>2

-----------------------------------------------------------------------------
(* What is undisturbed and in order passes every check.                    *)

\* What the checks are about, in a run that reached its verdict undisturbed.
LEMMA OrderlyPapers ==
  ASSUME Filed, CarefulInv, Undisturbed, result # None, InOrder
  PROVE  /\ run # None /\ manifest # None /\ execution # None
         /\ Reported /\ Manifested(manifest)
         /\ execution.manifest = manifest /\ result.manifest = manifest
         /\ ChecksDescribe /\ ScenesShown /\ ManifestDescribes
         /\ ExecutionDescribes /\ ResultDescribes
BY DEF Filed, CarefulInv, Described, InOrder, Reported

LEMMA OrderlyTimes ==
  ASSUME Filed, CarefulInv, Undisturbed, result # None, InOrder
  PROVE  Chronological
BY OrderlyPapers DEF Chronological, ManifestDescribes, ExecutionDescribes, Reported

LEMMA OrderlyAlignment ==
  ASSUME Filed, CarefulInv, Undisturbed, result # None, InOrder
  PROVE  Aligned
<1>. DEFINE model == serving
            observed == [format |-> model.format, family |-> model.family,
                         provider |-> model.provider,
                         fallback_count |-> result.measured.fallback_count]
<1>1. /\ manifest.workload = model /\ execution.workload = model
      /\ result.deployed = manifest.deployed
      /\ result.workload = IF model = None THEN None ELSE observed
  BY OrderlyPapers DEF ManifestDescribes, ExecutionDescribes, Reported
<1>2. observed # None
  BY DEF None
<1>3. WorkloadAligned
  BY <1>1, <1>2 DEF WorkloadAligned, InOrder
<1>4. PolicyAligned
  BY OrderlyPapers DEF PolicyAligned, InOrder, ResultDescribes, ManifestDescribes
<1>. QED
  BY <1>1, <1>3, <1>4, OrderlyPapers DEF Aligned, InOrder, ManifestDescribes, ResultDescribes

LEMMA OrderlyProviders ==
  ASSUME Filed, CarefulInv, Undisturbed, result # None, InOrder
  PROVE  ProvidersHold(supplied)
<1>. DEFINE bindings == manifest.provider_bindings
<1>1. /\ supplied.results = {b.conformance : b \in bindings}
      /\ supplied.profiles = {b.profile : b \in bindings}
  BY DEF InOrder
<1>2. ASSUME NEW b \in bindings  PROVE BindingHolds(b, supplied)
  <2>1. /\ b.conformance \in conformances
        /\ b.scene = Shows[b.target_id][b.provider.configuration]
    BY OrderlyPapers DEF Manifested
  <2>2. /\ b.provider = Identity(b.target_id) /\ b.profile = b.conformance.profile
        /\ b.conformance.generated_at <= manifest.generated_at
        /\ manifest.deployed = deployed
    BY OrderlyPapers DEF ManifestDescribes
  <2>3. /\ b.conformance.run_id = run.run_id
        /\ b.conformance.execution_subject = deployed.image
        /\ b.conformance.provider = Identity(b.conformance.target_id)
        /\ run.created_at <= b.conformance.generated_at
        /\ b.conformance.scene = Scene(b.conformance.target_id)
    BY <2>1, OrderlyPapers DEF ChecksDescribe, ScenesShown
  <2>4. /\ b.conformance.target_id = b.target_id /\ b.conformance.status = "passed"
        /\ b.profile.provider_kind = b.provider.kind
        /\ b.capabilities = b.conformance.capabilities
        /\ RequiredBy(b.profile) \subseteq b.capabilities
    BY DEF InOrder
  <2>5. b.conformance.scene = b.scene
    BY <2>1, <2>2, <2>3, <2>4 DEF Identity, Scene
  <2>. QED
    BY <1>1, <2>2, <2>3, <2>4, <2>5 DEF BindingHolds, InTime
<1>3. RequirementsMet(scenario.provider_requirements, bindings)
  BY DEF InOrder, RequirementsMet
<1>. QED
  BY <1>1, <1>2, <1>3 DEF ProvidersHold

\* A run in which nothing was changed, whose documents claim what was checked
\* and measured, is accepted, whatever happened at one instant
\* (_validate_links, _validate_execution_alignment,
\* _validate_provider_bindings, _validate_model_and_dataset).
THEOREM OrderlyDomainsAreAccepted == Spec => []OrderlyDomainQualifies
<1>1. Filed /\ CarefulInv => OrderlyDomainQualifies
  <2>. SUFFICES ASSUME Filed, CarefulInv, verdict = "rejected", InOrder,
                       count["change"] = 0, count["run"] = 1
                PROVE  FALSE
    BY DEF OrderlyDomainQualifies
  <2>1. Undisturbed /\ result # None
    BY DEF Undisturbed, CarefulInv, Refused
  <2>2. ModelHolds /\ ConfigurationRetained
    BY DEF ModelHolds, ConfigurationRetained, InOrder
  <2>. QED
    BY <2>1, <2>2, OrderlyTimes, OrderlyAlignment, OrderlyProviders DEF CarefulInv, Refused
<1>2. Inv => Filed
  BY DEF Inv
<1>. QED
  BY <1>1, <1>2, Invariance, CarefulInit, CarefulNext, PTL DEF Spec
=============================================================================
