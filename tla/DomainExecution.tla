-------------------------- MODULE DomainExecution --------------------------
(***************************************************************************)
(* What one domain of a run was executed on: providers are checked for     *)
(* conformance, a runtime manifest binds them, the domain executes and     *)
(* reports, and the validator decides whether what was checked is what was *)
(* bound, is what the scenario requires, and is what ran.                  *)
(*                                                                         *)
(* The image, the middleware, the configurations of providers, the served  *)
(* model and the clocks may change at any step; documents record what was  *)
(* there when they were written.  Manifests may claim more capabilities    *)
(* than were checked, results better verdicts than were measured.  Only    *)
(* the validator and the rules of documents are the code's.                *)
(*                                                                         *)
(* A digest is the document it is the digest of.  What has to be retained  *)
(* is (RetainedEvidence), permits are the subject of PhysicalAuthorization,*)
(* and the ROS graph and the names of clocks agree.                        *)
(***************************************************************************)
EXTENDS Integers, Providers

CONSTANTS
  Provider,      \* target identifiers of providers
  Kind,          \* provider -> its kind
  Shows,         \* provider -> its configurations -> the scene it shows, or NoScene
  Capability,
  CheckLists,    \* what a conformance run can find
  Profiles,      \* qualification profiles
  Image, Middleware,
  Models,        \* what the inference runtime can serve, None included
  Clocks,        \* offsets and drifts of the hardware clock
  Setups,        \* scenarios, and what they may find when they begin
  Measured,      \* what can be measured of an execution
  Verdicts,      \* what a result may claim to be
  Runs, Conformances, Manifests, Changes,
                 \* bounds: how often each of these happens
  MaxClock       \* bound: the wall clock

None == [absent |-> TRUE]

ASSUME ExecutionConstants ==
  /\ {Runs, Conformances, Manifests, Changes, MaxClock} \subseteq Nat
  /\ Verdicts \subseteq OutcomeStatus
  /\ \A profile \in Profiles : ProfileWellFormed(profile)
  /\ \A checks \in CheckLists : checks \subseteq [capability : Capability, status : OutcomeStatus]
  /\ \A o \in Measured : o.assertions \subseteq OutcomeStatus
  /\ \A x \in Setups : x.deployed.image \in Image

VARIABLES
  clock,
  scenario,
  deployed,      \* the image and the middleware configuration
  configured,    \* provider -> its configuration
  serving,       \* the model that is served, or None
  drifting,      \* offset and drift of the hardware clock
  run,           \* the acceptance run, or None
  conformances,  \* every conformance result written
  manifest, execution, result,  \* of the current run, or None
  supplied,      \* conformance results and profiles validated with it, or None
  verdict,
  count          \* how often each bounded thing happened

world == <<scenario, deployed, configured, serving, drifting>>
documents == <<run, conformances, manifest, execution, result, supplied>>
vars == <<clock, world, documents, verdict, count>>

Physical == scenario.data_source = "live_target"

Bound(thing, limit) ==
  /\ count[thing] < limit
  /\ count' = [count EXCEPT ![thing] = @ + 1]

-----------------------------------------------------------------------------
(* Results: what was measured, and what is claimed of it.                  *)

\* sample_count and the delivery latencies of the time authority
WithinTimePolicy(o) ==
  LET policy == scenario.time_policy IN
  /\ o.sample_count >= policy.time_authority_min_samples
  /\ o.p50 <= policy.p50 /\ o.p95 <= policy.p95 /\ o.max <= policy.max

RealtimeWithinPolicy(o) ==
  /\ o.real_time_factor >= scenario.time_policy.min_realtime_factor
  /\ o.deadline_misses <= scenario.time_policy.max_deadline_misses

Magnitude(x) == IF x < 0 THEN -x ELSE x

\* hardware_clock_within_policy
HardwareWithinPolicy(c, o) ==
  LET policy == scenario.time_policy IN
  /\ o.monotonic
  /\ o.sample_count >= policy.time_authority_min_samples
  /\ Magnitude(c.offset) <= policy.max_clock_offset
  /\ Magnitude(c.drift) <= policy.max_clock_drift
  /\ o.max_sample_age <= policy.max_message_age

ResultWellFormed(r) ==
  LET o == r.measured IN
  /\ r.started_at <= r.finished_at
  /\ o.assertions # {} => WorstStatus({r.status} \cup o.assertions) = r.status
  /\ o.p50 <= o.p95 /\ o.p95 <= o.max
  /\ Physical => r.started_at <= r.hardware.measured_at /\ r.hardware.measured_at <= r.finished_at
  /\ r.status = "passed" =>
       /\ o.mode = "live"
       /\ r.workload # None => r.workload.fallback_count = 0
       /\ o.monotonic /\ o.shut_down
       /\ Physical => r.hardware.within_policy
       /\ r.within_policy

-----------------------------------------------------------------------------
(* Operators, providers and runners (external).                            *)

Change == Bound("change", Changes)

Redeploy ==
  /\ Change
  /\ \E i \in Image, w \in Middleware : deployed' = [image |-> i, middleware |-> w]
  /\ deployed' # deployed
  /\ UNCHANGED <<clock, scenario, configured, serving, drifting, documents, verdict>>

Reconfigure(p) ==
  /\ Change
  /\ \E k \in DOMAIN Shows[p] \ {configured[p]} : configured' = [configured EXCEPT ![p] = k]
  /\ UNCHANGED <<clock, scenario, deployed, serving, drifting, documents, verdict>>

Load ==
  /\ Change
  /\ \E model \in Models \ {serving} : serving' = model
  /\ UNCHANGED <<clock, scenario, deployed, configured, drifting, documents, verdict>>

Slip ==
  /\ Change
  /\ \E c \in Clocks \ {drifting} : drifting' = c
  /\ UNCHANGED <<clock, scenario, deployed, configured, serving, documents, verdict>>

\* The wall clock is corrected.
SetBack ==
  /\ Change
  /\ clock' \in 0 .. (clock - 1)
  /\ UNCHANGED <<world, documents, verdict>>

\* The documents of a run before are no longer those of this one.
StartRun ==
  /\ Bound("run", Runs)
  /\ run' = [run_id |-> count["run"] + 1, created_at |-> clock]
  /\ manifest' = None /\ execution' = None /\ result' = None
  /\ UNCHANGED <<clock, world, conformances, supplied, verdict>>

Identity(p) == [kind |-> Kind[p], configuration |-> configured[p]]
Scene(p) == Shows[p][configured[p]]

\* A provider is checked against a profile for its kind.
Conform(p) ==
  /\ Bound("conformance", Conformances)
  /\ run # None
  /\ \E profile \in {x \in Profiles : x.provider_kind = Kind[p]}, checks \in CheckLists,
        s \in OutcomeStatus, established \in SUBSET Capability :
       LET r == [run_id |-> run.run_id, generated_at |-> clock, profile |-> profile,
                 execution_subject |-> deployed.image, provider |-> Identity(p),
                 scene |-> Scene(p), target_id |-> p, checks |-> checks, status |-> s,
                 capabilities |-> established]
       IN  /\ ConformanceWellFormed(r)
           /\ conformances' = conformances \cup {r}
  /\ UNCHANGED <<clock, world, run, manifest, execution, result, supplied, verdict>>

\* The manifest binds providers to whichever conformance results it likes,
\* and claims the capabilities these established, or all there are.
WriteManifest ==
  /\ Bound("manifest", Manifests)
  /\ run # None
  /\ \E bound \in SUBSET Provider : \E rests \in [bound -> conformances], boasts \in BOOLEAN :
       LET binding(p) ==
             [target_id |-> p, provider |-> Identity(p), scene |-> Scene(p),
              conformance |-> rests[p], profile |-> rests[p].profile,
              capabilities |-> IF boasts THEN Capability ELSE rests[p].capabilities]
           bindings == {binding(p) : p \in bound}
       IN  /\ BindingsFit(scenario.data_source, bindings)
           /\ manifest' = [generated_at |-> clock, data_source |-> scenario.data_source,
                           deployed |-> deployed, workload |-> serving, clock |-> drifting,
                           provider_bindings |-> bindings]
  /\ UNCHANGED <<clock, world, run, conformances, execution, result, supplied, verdict>>

Start ==
  /\ manifest # None /\ execution = None
  /\ execution' = [started_at |-> clock, deployed |-> deployed, workload |-> serving,
                   manifest |-> manifest]
  /\ UNCHANGED <<clock, world, run, conformances, manifest, result, supplied, verdict, count>>

\* The numbers are what was measured; the verdicts on them may be, too, or
\* everything is said to be within policy.  The model manifest is copied from
\* the scenario, or is the one of the model that was loaded.
Finish ==
  /\ execution # None /\ result = None
  /\ \E o \in Measured, s \in Verdicts, boasts \in BOOLEAN,
        named \in {scenario.model, execution.workload} :
       LET model == execution.workload
           r == [started_at |-> execution.started_at, finished_at |-> clock, status |-> s,
                 manifest |-> execution.manifest, data_source |-> scenario.data_source,
                 deployed |-> execution.deployed, model_manifest |-> named, measured |-> o,
                 within_policy |-> boasts \/ WithinTimePolicy(o),
                 workload |-> IF model = None THEN None
                              ELSE [format |-> model.format, family |-> model.family,
                                    provider |-> model.provider,
                                    fallback_count |-> o.fallback_count],
                 hardware |-> IF Physical
                              THEN [clock |-> drifting, measured_at |-> clock,
                                    within_policy |-> boasts \/ HardwareWithinPolicy(drifting, o)]
                              ELSE None]
       IN  /\ ResultWellFormed(r)
           /\ result' = r
  /\ UNCHANGED <<clock, world, run, conformances, manifest, execution, supplied, verdict, count>>

Tick ==
  /\ clock < MaxClock
  /\ clock' = clock + 1
  /\ UNCHANGED <<world, documents, verdict, count>>

-----------------------------------------------------------------------------
(* The validator.                                                          *)

Chronological ==
  /\ run.created_at <= manifest.generated_at
  /\ manifest.generated_at <= result.started_at

\* What is observed of an inference runtime is what the manifest names.
WorkloadAligned ==
  /\ (manifest.workload = None) = (result.workload = None)
  /\ manifest.workload # None =>
       result.workload = [format |-> manifest.workload.format,
                          family |-> manifest.workload.family,
                          provider |-> manifest.workload.provider, fallback_count |-> 0]

\* slip: the verdict of the result on its own measurement is believed
PolicyClaimed ==
  /\ result.status = "passed" => RealtimeWithinPolicy(result.measured)
  /\ Physical =>
       /\ result.hardware.clock = manifest.clock
       /\ result.hardware.within_policy = HardwareWithinPolicy(result.hardware.clock, result.measured)

\* The verdicts of the result are computed again.
PolicyAligned ==
  /\ result.within_policy = WithinTimePolicy(result.measured)
  /\ result.status = "passed" => RealtimeWithinPolicy(result.measured)
  /\ Physical =>
       /\ result.hardware.clock = manifest.clock
       /\ result.hardware.within_policy = HardwareWithinPolicy(result.hardware.clock, result.measured)

Aligned ==
  /\ result.manifest = manifest
  /\ manifest.data_source = scenario.data_source /\ result.data_source = scenario.data_source
  /\ result.deployed = manifest.deployed
  /\ WorkloadAligned
  /\ PolicyAligned

ConfigurationRetained ==
  scenario.middleware # None => manifest.deployed.middleware = scenario.middleware

\* slip: a model of the same format will do
ModelHoldsByFormat ==
  /\ result.model_manifest = scenario.model
  /\ IF scenario.model = None THEN manifest.workload = None
     ELSE manifest.workload # None /\ manifest.workload.format = scenario.model.format

\* The scenario's model, on the provider it was built for, and no other; the
\* result names it as well.
ModelHolds ==
  /\ result.model_manifest = scenario.model
  /\ IF scenario.model = None THEN manifest.workload = None
     ELSE manifest.workload # None /\ manifest.workload = scenario.model

\* slip: conformance must precede the manifest, strictly
InTimeStrictly(r) == run.created_at <= r.generated_at /\ r.generated_at < manifest.generated_at

InTime(r) == run.created_at <= r.generated_at /\ r.generated_at <= manifest.generated_at

\* slip: the result of another image will do
BindingHoldsAnywhere(b, handed) ==
  LET r == b.conformance IN
  /\ r \in handed.results /\ b.profile \in handed.profiles
  /\ r.run_id = run.run_id /\ r.target_id = b.target_id
  /\ r.profile = b.profile /\ r.provider = b.provider /\ r.capabilities = b.capabilities
  /\ b.provider.kind = b.profile.provider_kind /\ r.scene = b.scene
  /\ r.status = "passed" /\ InTime(r) /\ RequiredBy(b.profile) \subseteq r.capabilities

\* A binding and the conformance result it rests on say the same.
BindingHolds(b, handed) ==
  LET r == b.conformance IN
  /\ r \in handed.results
  /\ b.profile \in handed.profiles
  /\ r.run_id = run.run_id
  /\ r.target_id = b.target_id
  /\ r.execution_subject = manifest.deployed.image
  /\ r.profile = b.profile
  /\ r.provider = b.provider
  /\ r.capabilities = b.capabilities
  /\ b.provider.kind = b.profile.provider_kind
  /\ r.scene = b.scene
  /\ r.status = "passed"
  /\ InTime(r)
  /\ RequiredBy(b.profile) \subseteq r.capabilities

ProvidersHold(handed) ==
  LET bindings == manifest.provider_bindings IN
  /\ \A b \in bindings : BindingHolds(b, handed)
  /\ RequirementsMet(scenario.provider_requirements, bindings)
  /\ handed.results = {b.conformance : b \in bindings}
  /\ handed.profiles = {b.profile : b \in bindings}

\* Handed over are the conformance results the manifest binds, all but one
\* of them, or all there are, and the profiles of either.
Validate ==
  /\ result # None
  /\ LET bound == {b.conformance : b \in manifest.provider_bindings} IN
     \E results \in {bound, conformances} \cup {bound \ {r} : r \in bound} :
       LET handed == [results |-> results, profiles |-> {r.profile : r \in bound \cup results}] IN
       /\ supplied' = handed
       /\ verdict' = IF /\ Chronological /\ Aligned /\ ModelHolds
                        /\ ProvidersHold(handed) /\ ConfigurationRetained
                     THEN "accepted" ELSE "rejected"
  /\ UNCHANGED <<clock, world, run, conformances, manifest, execution, result, count>>

-----------------------------------------------------------------------------
Init ==
  /\ clock = 0
  /\ \E x \in Setups :
       /\ scenario = x.scenario /\ deployed = x.deployed /\ configured = x.configured
       /\ serving = x.serving /\ drifting = x.drifting
  /\ run = None /\ conformances = {}
  /\ manifest = None /\ execution = None /\ result = None
  /\ supplied = None
  /\ verdict = "none"
  /\ count = [x \in {"run", "conformance", "manifest", "change"} |-> 0]

Next ==
  /\ verdict = "none"
  /\ \/ Redeploy \/ Load \/ Slip \/ SetBack \/ StartRun
     \/ \E p \in Provider : Reconfigure(p) \/ Conform(p)
     \/ WriteManifest \/ Start \/ Finish \/ Tick \/ Validate

Spec == Init /\ [][Next]_vars

-----------------------------------------------------------------------------
(* Properties.                                                             *)

\* Type invariant.  Documents rest on documents that were written before
\* them, and a conformance result lists what its checks established.
TypeOK ==
  /\ clock \in 0..MaxClock
  /\ verdict \in {"none", "accepted", "rejected"}
  /\ \A r \in conformances :
       /\ r.execution_subject \in Image /\ r.generated_at \in 0..MaxClock
       /\ \A c \in r.capabilities : [capability |-> c, status |-> "passed"] \in r.checks
  /\ manifest # None => run # None /\ manifest.generated_at \in 0..MaxClock
  /\ execution # None => /\ manifest # None
                         /\ \A b \in execution.manifest.provider_bindings :
                              b.conformance \in conformances
  /\ result # None => execution # None

\* Every check of the run was passed by provider p, as it was configured when
\* the manifest was written, in this run, before the manifest, and with the
\* very image that was executed.
CheckedAsRun(r, b) ==
  /\ \A x \in r.checks : x.status = "passed"
  /\ r.target_id = b.target_id /\ r.provider = b.provider
  /\ r.execution_subject = execution.deployed.image
  /\ r.run_id = run.run_id
  /\ r.generated_at \in run.created_at .. execution.started_at

\* An accepted domain ran on providers that had been checked as they were
\* bound, and the checks they passed cover what the scenario requires, whatever
\* was rebuilt, reconfigured and checked again meanwhile.
CapabilitiesEstablished ==
  verdict = "accepted" =>
    LET bindings == execution.manifest.provider_bindings IN
    /\ \A b \in bindings : \E r \in conformances : CheckedAsRun(r, b)
    /\ \A c \in scenario.provider_requirements.capabilities :
         \E b \in bindings, r \in conformances :
           CheckedAsRun(r, b) /\ [capability |-> c, status |-> "passed"] \in r.checks

\* The scene was shown by one provider, in the configuration that was bound
\* and checked: no patchwork of what several providers show.
SceneIsWhole ==
  verdict = "accepted" /\ scenario.provider_requirements.scene # NoScene =>
    LET required == scenario.provider_requirements.scene IN
    \E b \in execution.manifest.provider_bindings :
      LET shown == Shows[b.target_id][b.provider.configuration] IN
      shown # NoScene /\ SceneSatisfies(required, shown)

\* The model in the manifest is the scenario's; the one that ran was of the
\* same format, on the same runtime and provider, and never fell back.  It was
\* the scenario's if the result names the model that was loaded: another one
\* passes only behind a name copied from the scenario.
ModelIsTheTarget ==
  verdict = "accepted" =>
    /\ execution.manifest.workload = scenario.model
    /\ (execution.workload = None) = (scenario.model = None)
    /\ execution.workload = scenario.model \/ execution.workload # result.model_manifest
    /\ scenario.model # None =>
         /\ \A field \in {"format", "family", "provider"} :
              execution.workload[field] = scenario.model[field]
         /\ result.measured.fallback_count = 0

\* A passed result of an accepted domain was measured to be within the time
\* policy, and its hardware clock had not moved since the manifest.
PassedKeptTime ==
  verdict = "accepted" /\ result.status = "passed" =>
    LET o == result.measured IN
    /\ o.mode = "live" /\ o.monotonic /\ o.shut_down /\ o.assertions \subseteq {"passed"}
    /\ WithinTimePolicy(o) /\ RealtimeWithinPolicy(o)
    /\ Physical => /\ HardwareWithinPolicy(result.hardware.clock, o)
                   /\ result.hardware.clock = execution.manifest.clock

\* The crew bound providers that pass, claimed what was checked and measured,
\* and handed over exactly that.
InOrder ==
  LET bindings == manifest.provider_bindings IN
  /\ result.manifest = manifest
  /\ manifest.workload = scenario.model /\ result.measured.fallback_count = 0
  /\ result.model_manifest = scenario.model
  /\ scenario.middleware \in {None, manifest.deployed.middleware}
  /\ \A b \in bindings :
       /\ b.conformance.target_id = b.target_id /\ b.conformance.status = "passed"
       /\ b.profile.provider_kind = b.provider.kind
       /\ b.capabilities = b.conformance.capabilities
       /\ RequiredBy(b.profile) \subseteq b.capabilities
  /\ scenario.provider_requirements.capabilities \subseteq Capabilities(bindings)
  /\ LET required == scenario.provider_requirements.scene IN
     required # NoScene => \E scene \in Scenes(bindings) : SceneSatisfies(required, scene)
  /\ result.within_policy = WithinTimePolicy(result.measured)
  /\ result.status = "passed" => RealtimeWithinPolicy(result.measured)
  /\ Physical => result.hardware.within_policy
                   = HardwareWithinPolicy(result.hardware.clock, result.measured)
  /\ supplied = [results |-> {b.conformance : b \in bindings},
                 profiles |-> {b.profile : b \in bindings}]

\* One run in which nothing was changed on the way and everything is in order
\* is accepted, even if it all happens at one instant.
OrderlyDomainQualifies ==
  verdict = "rejected" /\ count["change"] = 0 /\ count["run"] = 1 => ~ InOrder
=============================================================================
