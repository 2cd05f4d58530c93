----------------------- MODULE PhysicalAuthorization -----------------------
(***************************************************************************)
(* Runs on physical hardware: a permit is issued for one scenario, image   *)
(* and device, two people sign it, a verifier records their signatures,    *)
(* each domain writes its manifest and executes, and the validator decides *)
(* from the documents whether every execution was authorised.              *)
(*                                                                         *)
(* Nothing in the program stops an execution that has no permit or         *)
(* outlives it, and everything a permit is about may change after it was   *)
(* issued.  Issue (create_execution_permit) and the validator are the      *)
(* code's; the people, the verifier and the domain runners are external.   *)
(*                                                                         *)
(* A digest is the document it is the digest of.  Raw evidence is retained *)
(* and the ROS graphs agree: what refers to them is left out.  The kind of *)
(* a device identity and its digest are one value, and lists within one    *)
(* document name nothing twice.                                            *)
(***************************************************************************)
EXTENDS Integers

CONSTANTS
  Domain,
  Person,
  Target,        \* target identifiers
  Uses,          \* domain -> the targets it executes on
  Scope,         \* target -> the hardware scope it offers
  Identity,      \* identities of devices
  Image,
  Scenarios,     \* the versions of the scenario
  Environments,  \* environments a permit is asked for
  Scopes,        \* hardware scopes a permit is asked for
  MaxValidity,   \* the 1800 seconds of the code, in ticks
  Permits, Verifications, Edits, Deployments, Preflights, Manifests,
                 \* bounds: how often each of these happens
  MaxClock       \* bound: the wall clock

None == [absent |-> TRUE]

Role == {"operator", "approver"}

ScenarioDocument ==
  [version : Nat, environment : {"simulation", "hil", "real_robot"},
   trust_policy : STRING, hardware_scope : SUBSET STRING]

ASSUME AuthorizationConstants ==
  /\ Scenarios \subseteq ScenarioDocument
  /\ Uses \in [Domain -> (SUBSET Target) \ {{}}]
  /\ Environments \subseteq {"hil", "real_robot"}
  /\ MaxValidity \in Nat \ {0} /\ MaxClock \in Nat
  /\ {Permits, Verifications, Edits, Deployments, Preflights, Manifests} \subseteq Nat

VARIABLES
  clock,
  scenario,       \* scenario.json
  image,          \* domain -> the image deployed
  attached,       \* target -> the device there and its latest preflight
  permits,        \* every permit issued
  verifications,  \* every verification recorded
  manifests,      \* domain -> its runtime manifest, or None
  executions,     \* domain -> what is or was executed, or None
  results,        \* domain -> its result, or None
  submitted,      \* the authorization subjects handed to the validator, or None
  verdict,
  count           \* how often each bounded thing happened

vars == <<clock, scenario, image, attached, permits, verifications, manifests,
          executions, results, submitted, verdict, count>>

\* Simulations have no physical effect; see the scenario schema.
Physical(s) == s.environment \in {"hil", "real_robot"}
Effect(environment) == IF environment = "real_robot" THEN "observation" ELSE "none"

-----------------------------------------------------------------------------
(* The permit.                                                             *)

PermitWellFormed(p) ==
  /\ p.issued_at < p.expires_at
  /\ p.expires_at - p.issued_at <= MaxValidity
  /\ p.checked_at <= p.issued_at
  /\ p.operator # p.approver

Bound(thing, limit) ==
  /\ count[thing] < limit
  /\ count' = [count EXCEPT ![thing] = @ + 1]

\* "now" is an argument of the function: a permit may be dated ahead.
Issue ==
  /\ Bound("permit", Permits)
  /\ \E d \in Domain, environment \in Environments, scope \in Scopes,
        operator, approver \in Person, validity \in 1..MaxValidity, now \in {clock, clock + 1} :
     \E t \in Uses[d] :
       LET p == [permit_id |-> count["permit"] + 1, scenario |-> scenario,
                 image |-> image[d], trust_policy |-> scenario.trust_policy,
                 target |-> [environment |-> environment, target_id |-> t,
                             identity |-> attached[t].identity],
                 effect |-> IF environment = "hil" THEN "none" ELSE "observation",
                 hardware_scope |-> scope, issued_at |-> now, expires_at |-> now + validity,
                 operator |-> operator, approver |-> approver,
                 interlock |-> attached[t].preflight, checked_at |-> now]
       IN  /\ PermitWellFormed(p)
           /\ permits' = permits \cup {p}
  /\ UNCHANGED <<clock, scenario, image, attached, verifications, manifests, executions,
                 results, submitted, verdict>>

\* The roles are exactly operator and approver, the identities distinct.
VerificationWellFormed(v) == v.signers["operator"] # v.signers["approver"]

-----------------------------------------------------------------------------
(* People, verifier and runners (external).                                *)

\* A verification records who had signed the permit by then, in which role.
Verify ==
  /\ Bound("verification", Verifications)
  /\ \E p \in permits, signers \in [Role -> Person] :
       LET v == [permit |-> p, trust_policy |-> scenario.trust_policy,
                 target |-> p.target, verified_at |-> clock, signers |-> signers]
       IN  /\ VerificationWellFormed(v)
           /\ verifications' = verifications \cup {v}
  /\ UNCHANGED <<clock, scenario, image, attached, permits, manifests, executions, results,
                 submitted, verdict>>

EditScenario ==
  /\ Bound("scenario", Edits)
  /\ \E s \in Scenarios \ {scenario} : scenario' = s
  /\ UNCHANGED <<clock, image, attached, permits, verifications, manifests, executions,
                 results, submitted, verdict>>

Deploy(d) ==
  /\ Bound("image", Deployments)
  /\ \E i \in Image \ {image[d]} : image' = [image EXCEPT ![d] = i]
  /\ UNCHANGED <<clock, scenario, attached, permits, verifications, manifests, executions,
                 results, submitted, verdict>>

Executing(d) == executions[d] # None /\ results[d] = None

\* A device is checked, possibly after another took its place, never while
\* it is in use.
Preflight(t) ==
  /\ Bound("target", Preflights)
  /\ \A d \in Domain : t \in Uses[d] => ~ Executing(d)
  /\ \E i \in Identity :
       attached' = [attached EXCEPT ![t] =
                      [identity |-> i, preflight |-> count["target"] + 1]]
  /\ UNCHANGED <<clock, scenario, image, permits, verifications, manifests, executions,
                 results, submitted, verdict>>

\* The manifest claims a permit and a verification, whichever they are.
WriteManifest(d) ==
  /\ Bound("manifest", Manifests)
  /\ \E p \in permits \cup {None}, v \in verifications \cup {None} :
       /\ p # None <=> Physical(scenario)
       /\ v # None <=> Physical(scenario)
       /\ manifests' = [manifests EXCEPT ![d] =
            [generated_at |-> clock, environment |-> scenario.environment, image |-> image[d],
             permit |-> p, verification |-> v, trust_policy |-> scenario.trust_policy,
             physical_targets |-> [t \in Uses[d] |-> attached[t]]]]
  /\ UNCHANGED <<clock, scenario, image, attached, permits, verifications, executions,
                 results, submitted, verdict>>

Start(d) ==
  /\ manifests[d] # None /\ executions[d] = None
  /\ executions' = [executions EXCEPT ![d] =
       [started_at |-> clock, scenario |-> scenario, image |-> image[d],
        devices |-> [t \in Uses[d] |-> attached[t].identity], manifest |-> manifests[d]]]
  /\ UNCHANGED <<clock, scenario, image, attached, permits, verifications, manifests,
                 results, submitted, verdict, count>>

\* The runner reports what it executed, and the device by its identity.
Finish(d) ==
  /\ Executing(d)
  /\ \E t \in Uses[d] :
       LET run == executions[d] IN
       results' = [results EXCEPT ![d] =
         [started_at |-> run.started_at, finished_at |-> clock, scenario |-> run.scenario,
          environment |-> run.scenario.environment, image |-> run.image,
          manifest |-> run.manifest, permit |-> run.manifest.permit,
          verification |-> run.manifest.verification, trust_policy |-> run.scenario.trust_policy,
          target |-> [environment |-> run.scenario.environment, target_id |-> t,
                      identity |-> run.devices[t]]]]
  /\ UNCHANGED <<clock, scenario, image, attached, permits, verifications, manifests,
                 executions, submitted, verdict, count>>

Submit ==
  /\ \A d \in Domain : results[d] # None
  /\ \E P \in SUBSET permits, V \in SUBSET verifications :
       submitted' = [permits |-> P, verifications |-> V]
  /\ UNCHANGED <<clock, scenario, image, attached, permits, verifications, manifests,
                 executions, results, verdict, count>>

Tick ==
  /\ clock < MaxClock
  /\ clock' = clock + 1
  /\ UNCHANGED <<scenario, image, attached, permits, verifications, manifests, executions,
                 results, submitted, verdict, count>>

-----------------------------------------------------------------------------
(* The validator.  p and v are the permit and the verification a manifest  *)
(* names, m the manifest and r the result of one domain.                   *)

\* What the rest of the set compares before the authorization is looked at.
Linked(m, r) ==
  /\ m.generated_at <= r.started_at
  /\ r.scenario = scenario
  /\ r.manifest = m
  /\ m.environment = scenario.environment
  /\ r.environment = scenario.environment
  /\ r.image = m.image

SameAuthorization(m, r) ==
  /\ r.permit = m.permit
  /\ r.verification = m.verification
  /\ r.trust_policy = m.trust_policy
  /\ m.trust_policy = scenario.trust_policy

PermitCovers(p, m, r) ==
  /\ p.scenario = scenario
  /\ p.image = m.image
  /\ p.trust_policy = scenario.trust_policy
  /\ p.target = r.target
  /\ p.effect = Effect(scenario.environment)
  /\ scenario.hardware_scope \subseteq p.hardware_scope

\* slip: any verification will do
VerifiedByAnyone(p, v) ==
  /\ v.trust_policy = scenario.trust_policy
  /\ v.target = p.target
  /\ \A role \in Role : v.signers[role] = p[role]

Verified(p, v) ==
  /\ v.permit = p
  /\ v.trust_policy = scenario.trust_policy
  /\ v.target = p.target
  /\ \A role \in Role : v.signers[role] = p[role]

TargetListed(p, m) ==
  /\ p.target.target_id \in DOMAIN m.physical_targets
  /\ LET t == p.target.target_id IN
       /\ m.physical_targets[t].identity = p.target.identity
       /\ m.physical_targets[t].preflight = p.interlock
  /\ scenario.hardware_scope \subseteq {Scope[t] : t \in DOMAIN m.physical_targets}

\* slip: the permit is looked at when the execution starts
WithinPermitAtStart(p, v, r) ==
  /\ p.issued_at <= v.verified_at
  /\ v.verified_at <= r.started_at
  /\ r.started_at < p.expires_at

\* slip: a permit is not valid yet when it is issued
WithinPermitStrictly(p, v, r) ==
  /\ p.issued_at < v.verified_at
  /\ v.verified_at <= r.started_at
  /\ r.started_at <= r.finished_at
  /\ r.finished_at < p.expires_at

WithinPermit(p, v, r) ==
  /\ p.issued_at <= v.verified_at
  /\ v.verified_at <= r.started_at
  /\ r.started_at <= r.finished_at
  /\ r.finished_at < p.expires_at

DomainAuthorized(m, r) ==
  /\ SameAuthorization(m, r)
  /\ m.permit \in submitted.permits
  /\ m.verification \in submitted.verifications
  /\ PermitCovers(m.permit, m, r)
  /\ Verified(m.permit, m.verification)
  /\ TargetListed(m.permit, m)
  /\ WithinPermit(m.permit, m.verification, r)

\* slip: the permits of the domains before are forgotten
AllReferencedByLast ==
  \E d \in Domain :
    /\ submitted.permits = {manifests[d].permit}
    /\ submitted.verifications = {manifests[d].verification}

AllReferenced ==
  /\ submitted.permits = {manifests[d].permit : d \in Domain}
  /\ submitted.verifications = {manifests[d].verification : d \in Domain}

Authorization ==
  IF Physical(scenario)
  THEN /\ \A d \in Domain : DomainAuthorized(manifests[d], results[d])
       /\ AllReferenced
  ELSE submitted = [permits |-> {}, verifications |-> {}]

Validate ==
  /\ submitted # None
  /\ verdict' = IF (\A d \in Domain : Linked(manifests[d], results[d])) /\ Authorization
                THEN "accepted" ELSE "rejected"
  /\ UNCHANGED <<clock, scenario, image, attached, permits, verifications, manifests,
                 executions, results, submitted, count>>

-----------------------------------------------------------------------------
Init ==
  /\ clock = 0
  /\ scenario \in Scenarios
  /\ image \in [Domain -> Image]
  /\ attached \in [Target -> [identity : Identity, preflight : {0}]]
  /\ permits = {} /\ verifications = {}
  /\ manifests = [d \in Domain |-> None]
  /\ executions = [d \in Domain |-> None]
  /\ results = [d \in Domain |-> None]
  /\ submitted = None
  /\ verdict = "none"
  /\ count = [x \in {"permit", "verification", "scenario", "image", "target", "manifest"} |-> 0]

\* What is handed over no longer changes; how the validator reads files that
\* do is the subject of Qualification.
Next ==
  /\ verdict = "none"
  /\ \/ /\ submitted = None
        /\ \/ Issue \/ Verify \/ EditScenario \/ Submit \/ Tick
           \/ \E d \in Domain : Deploy(d) \/ WriteManifest(d) \/ Start(d) \/ Finish(d)
           \/ \E t \in Target : Preflight(t)
     \/ Validate

Spec == Init /\ [][Next]_vars

-----------------------------------------------------------------------------
(* Properties.                                                             *)

\* From the first to the last instant of the execution the permit was in
\* force, for what was executed and for a device it was executed on.
InForce(p, d) ==
  LET run == executions[d] IN
  /\ \A now \in run.started_at .. results[d].finished_at :
       p.issued_at <= now /\ now < p.expires_at
  /\ p.scenario = run.scenario /\ p.image = run.image
  /\ \E t \in Uses[d] : p.target.target_id = t /\ p.target.identity = run.devices[t]
  /\ run.scenario.hardware_scope \subseteq p.hardware_scope

\* Both the people it names, two different ones, had signed before it began.
ApprovedByTwo(p, d) ==
  /\ p.operator # p.approver
  /\ \E v \in verifications :
       /\ v.permit = p /\ v.verified_at <= executions[d].started_at
       /\ {v.signers[role] : role \in Role} = {p.operator, p.approver}

\* An accepted physical run had one permit, in force throughout and approved
\* by two people, for every domain (_validate_physical_authorization).
PhysicalRunsAreAuthorized ==
  verdict = "accepted" =>
    \A d \in Domain : Physical(executions[d].scenario) =>
      \E p \in permits : InForce(p, d) /\ ApprovedByTwo(p, d)

\* The crew named the right papers and handed over exactly these.
PapersInOrder ==
  /\ submitted.permits = {executions[d].manifest.permit : d \in Domain}
  /\ submitted.verifications = {executions[d].manifest.verification : d \in Domain}
  /\ \A d \in Domain : LET m == manifests[d] IN
       /\ m.verification.permit = m.permit
       /\ \A role \in Role : m.verification.signers[role] = m.permit[role]
       /\ m = executions[d].manifest
       /\ results[d].target.target_id = m.permit.target.target_id
       /\ m.permit.target.environment = scenario.environment
       /\ m.permit.image = m.image
       /\ InForce(m.permit, d)
       /\ ApprovedByTwo(m.permit, d)
       /\ m.permit.issued_at <= m.verification.verified_at

\* A physical run with its papers in order is accepted, provided nothing was
\* changed on the way: no check refuses what the procedure produces.
OrderlyRunsQualify ==
  /\ verdict = "rejected"
  /\ Physical(scenario)
  /\ \A thing \in {"scenario", "image", "target"} : count[thing] = 0
  /\ \A d \in Domain : scenario.hardware_scope \subseteq {Scope[t] : t \in Uses[d]}
  => ~ PapersInOrder
=============================================================================
