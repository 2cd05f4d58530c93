-------------------- MODULE PhysicalAuthorizationProofs --------------------
(***************************************************************************)
(* PhysicalRunsAreAuthorized and OrderlyRunsQualify for any number of      *)
(* domains, people, devices, permits and changes, and any clock.           *)
(***************************************************************************)
EXTENDS PhysicalAuthorization, TLAPS

-----------------------------------------------------------------------------
(* The invariant: what everything on file satisfies.                       *)

Filed ==
  /\ clock \in Int
  /\ \A p \in permits :
       PermitWellFormed(p) /\ p.issued_at \in Int /\ p.expires_at \in Int
  /\ \A v \in verifications : v.verified_at \in Int

\* A result says what was executed and when.
ResultHolds(d) ==
  LET r == results[d]
      run == executions[d]
  IN  /\ run # None
      /\ r.started_at = run.started_at /\ r.scenario = run.scenario /\ r.image = run.image
      /\ r.finished_at \in Int
      /\ \E t \in Uses[d] :
           r.target.target_id = t /\ r.target.identity = run.devices[t]

Reported ==
  /\ DOMAIN executions = Domain /\ DOMAIN results = Domain
  /\ \A d \in Domain : executions[d] # None => executions[d].started_at \in Int
  /\ \A d \in Domain : results[d] # None => ResultHolds(d)

HandedOver ==
  submitted # None =>
    /\ submitted.permits \subseteq permits
    /\ submitted.verifications \subseteq verifications
    /\ \A d \in Domain : results[d] # None

Inv == Filed /\ Reported /\ HandedOver /\ PhysicalRunsAreAuthorized

-----------------------------------------------------------------------------
\* The checks of one domain show that its permit was in force and approved.
LEMMA DomainIsAuthorized ==
  ASSUME Filed, Reported, HandedOver, submitted # None,
         NEW d \in Domain, Linked(manifests[d], results[d]),
         DomainAuthorized(manifests[d], results[d])
  PROVE  \E p \in permits : InForce(p, d) /\ ApprovedByTwo(p, d)
<1>. DEFINE m == manifests[d]
            r == results[d]
            run == executions[d]
            p == m.permit
            v == m.verification
<1>1. p \in permits /\ v \in verifications
  BY DEF HandedOver, DomainAuthorized
<1>2. /\ PermitWellFormed(p) /\ p.issued_at \in Int /\ p.expires_at \in Int
      /\ v.verified_at \in Int
  BY <1>1 DEF Filed
<1>3. /\ r.started_at = run.started_at /\ r.scenario = run.scenario /\ r.image = run.image
      /\ r.finished_at \in Int /\ run.started_at \in Int
      /\ \E t \in Uses[d] : r.target.target_id = t /\ r.target.identity = run.devices[t]
  BY DEF Reported, HandedOver, ResultHolds
<1>4. InForce(p, d)
  <2>1. /\ p.issued_at <= run.started_at
        /\ r.finished_at < p.expires_at
    BY <1>2, <1>3 DEF DomainAuthorized, WithinPermit
  <2>2. \A now \in run.started_at .. r.finished_at : p.issued_at <= now /\ now < p.expires_at
    BY <2>1, <1>2, <1>3
  <2>3. p.scenario = run.scenario /\ p.image = run.image
    BY <1>3 DEF Linked, DomainAuthorized, PermitCovers
  <2>4. \E t \in Uses[d] : p.target.target_id = t /\ p.target.identity = run.devices[t]
    BY <1>3 DEF DomainAuthorized, PermitCovers
  <2>5. run.scenario.hardware_scope \subseteq p.hardware_scope
    BY <1>3 DEF Linked, DomainAuthorized, PermitCovers
  <2>. QED
    BY <2>2, <2>3, <2>4, <2>5 DEF InForce
<1>5. ApprovedByTwo(p, d)
  <2>1. p.operator # p.approver
    BY <1>2 DEF PermitWellFormed
  <2>2. v.permit = p /\ v.verified_at <= run.started_at
    BY <1>3 DEF DomainAuthorized, Verified, WithinPermit
  <2>3. {v.signers[role] : role \in Role} = {p.operator, p.approver}
    <3>1. v.signers["operator"] = p.operator /\ v.signers["approver"] = p.approver
      BY DEF DomainAuthorized, Verified, Role
    <3>. QED
      BY <3>1 DEF Role
  <2>. QED
    BY <1>1, <2>1, <2>2, <2>3 DEF ApprovedByTwo
<1>. QED
  BY <1>1, <1>4, <1>5

LEMMA ValidateStep ==
  ASSUME Inv, Validate
  PROVE  PhysicalRunsAreAuthorized'
<1>. SUFFICES ASSUME verdict' = "accepted", NEW d \in Domain,
                     Physical(executions[d].scenario)
              PROVE  \E p \in permits : InForce(p, d) /\ ApprovedByTwo(p, d)
  BY DEF Validate, PhysicalRunsAreAuthorized, InForce, ApprovedByTwo
<1>1. /\ submitted # None /\ Authorization
      /\ \A e \in Domain : Linked(manifests[e], results[e])
  BY DEF Validate
<1>2. executions[d].scenario = scenario
  BY <1>1 DEF Inv, HandedOver, Reported, ResultHolds, Linked
<1>3. DomainAuthorized(manifests[d], results[d])
  BY <1>1, <1>2 DEF Authorization
<1>. QED
  BY <1>1, <1>3, DomainIsAuthorized DEF Inv

-----------------------------------------------------------------------------
LEMMA InitInv == Init => Inv
  BY DEF Init, Inv, Filed, Reported, HandedOver, PhysicalRunsAreAuthorized

LEMMA NextInv ==
  ASSUME Inv, [Next]_vars
  PROVE  Inv'
<1>1. CASE UNCHANGED vars
  <2>1. Filed'
    BY <1>1 DEF vars, Inv, Filed, PermitWellFormed
  <2>2. Reported'
    BY <1>1 DEF vars, Inv, Reported, ResultHolds
  <2>3. HandedOver'
    BY <1>1 DEF vars, Inv, HandedOver
  <2>4. PhysicalRunsAreAuthorized'
    BY <1>1 DEF vars, Inv, PhysicalRunsAreAuthorized, InForce, ApprovedByTwo
  <2>. QED
    BY <2>1, <2>2, <2>3, <2>4 DEF Inv
<1>. SUFFICES ASSUME Next PROVE Inv'
  BY <1>1
<1>2. CASE Validate
  BY <1>2, ValidateStep DEF Validate, Inv, Filed, Reported, ResultHolds, HandedOver
<1>. SUFFICES ASSUME ~ Validate, submitted = None, verdict' = verdict, verdict # "accepted"
              PROVE  Inv'
  BY <1>2 DEF Next, Issue, Verify, EditScenario, Submit, Tick, Deploy, WriteManifest,
     Start, Finish, Preflight
<1>3. PhysicalRunsAreAuthorized'
  BY DEF PhysicalRunsAreAuthorized
<1>4. Filed'
  <2>1. CASE Issue
    <3>1. PICK p : /\ PermitWellFormed(p) /\ permits' = permits \cup {p}
                   /\ p.issued_at \in Int /\ p.expires_at \in Int
      BY <2>1 DEF Issue, Inv, Filed, AuthorizationConstants
    <3>. QED
      BY <2>1, <3>1 DEF Issue, Inv, Filed
  <2>2. CASE Verify
    BY <2>2 DEF Verify, Inv, Filed
  <2>3. CASE Tick
    BY <2>3 DEF Tick, Inv, Filed
  <2>. QED
    BY <2>1, <2>2, <2>3 DEF Next, EditScenario, Submit, Deploy, WriteManifest, Start,
       Finish, Preflight, Inv, Filed
<1>5. Reported'
  <2>1. ASSUME NEW d \in Domain, Start(d)  PROVE Reported'
    BY <2>1 DEF Start, Inv, Filed, Reported, ResultHolds
  <2>2. ASSUME NEW d \in Domain, Finish(d)  PROVE Reported'
    BY <2>2 DEF Finish, Executing, Inv, Filed, Reported, ResultHolds
  <2>. QED
    BY <2>1, <2>2 DEF Next, Issue, Verify, EditScenario, Submit, Tick, Deploy,
       WriteManifest, Preflight, Inv, Reported, ResultHolds
<1>6. HandedOver'
  <2>1. CASE Submit
    BY <2>1 DEF Submit, HandedOver
  <2>. QED
    BY <2>1 DEF Next, Issue, Verify, EditScenario, Tick, Deploy, WriteManifest, Start,
       Finish, Preflight, HandedOver
<1>. QED
  BY <1>3, <1>4, <1>5, <1>6 DEF Inv

\* An accepted physical run had, for every domain, one permit that was in force
\* from start to finish and that two people had approved before
\* (_validate_physical_authorization).
THEOREM AcceptedRunsAreAuthorized == Spec => []PhysicalRunsAreAuthorized
<1>1. Inv => PhysicalRunsAreAuthorized
  BY DEF Inv
<1>. QED
  BY InitInv, NextInv, <1>1, PTL DEF Spec

-----------------------------------------------------------------------------
(* The procedure as it goes when nothing changes on the way: what makes    *)
(* OrderlyRunsQualify inductive.                                           *)

Things == {"permit", "verification", "scenario", "image", "target", "manifest"}

\* Papers are made in order, and copies are copies, whatever changes.
InSequence ==
  /\ count \in [Things -> Nat]
  /\ \A p \in permits :
       /\ p.effect = IF p.target.environment = "hil" THEN "none" ELSE "observation"
       /\ p.target = [environment |-> p.target.environment,
                      target_id |-> p.target.target_id, identity |-> p.target.identity]
  /\ \A v \in verifications : v.target = v.permit.target /\ v.verified_at <= clock
  /\ DOMAIN manifests = Domain
  /\ \A d \in Domain : manifests[d] # None =>
       LET m == manifests[d] IN
       /\ m.generated_at \in Int /\ m.generated_at <= clock
       /\ DOMAIN m.physical_targets = Uses[d]
       /\ m.verification # None =>
            /\ m.verification \in verifications
            /\ m.verification.verified_at <= m.generated_at
  /\ \A d \in Domain : executions[d] # None =>
       LET run == executions[d] IN
       /\ manifests[d] # None /\ run.started_at <= clock
       /\ run.manifest.generated_at <= run.started_at
  /\ \A d \in Domain : results[d] # None =>
       LET r == results[d]
           run == executions[d]
       IN  /\ run.started_at <= r.finished_at
           /\ r.manifest = run.manifest
           /\ r.permit = run.manifest.permit /\ r.verification = run.manifest.verification
           /\ r.environment = run.scenario.environment
           /\ r.trust_policy = run.scenario.trust_policy
           /\ r.target = [environment |-> run.scenario.environment,
                          target_id |-> r.target.target_id,
                          identity |-> run.devices[r.target.target_id]]

\* While the scenario is the first one, everything on file is about it.
SameScenario ==
  count["scenario"] = 0 =>
    /\ \A p \in permits : p.trust_policy = scenario.trust_policy
    /\ \A v \in verifications : v.trust_policy = scenario.trust_policy
    /\ \A d \in Domain : manifests[d] # None =>
         /\ manifests[d].environment = scenario.environment
         /\ manifests[d].trust_policy = scenario.trust_policy
         /\ Physical(scenario) => manifests[d].verification # None
    /\ \A d \in Domain : executions[d] # None => executions[d].scenario = scenario

\* While no device was checked again, everything on file is about these.
SameDevices ==
  count["target"] = 0 =>
    /\ \A p \in permits :
         /\ p.target.identity = attached[p.target.target_id].identity
         /\ p.interlock = attached[p.target.target_id].preflight
    /\ \A d \in Domain : manifests[d] # None =>
         \A t \in Uses[d] : manifests[d].physical_targets[t] = attached[t]

Refused ==
  verdict = "rejected" =>
    /\ submitted # None
    /\ ~ ((\A d \in Domain : Linked(manifests[d], results[d])) /\ Authorization)

Orderly == InSequence /\ SameScenario /\ SameDevices /\ Refused

LEMMA InitOrderly == Init => Orderly
  BY DEF Init, Orderly, InSequence, SameScenario, SameDevices, Refused, Things

\* Each bounded thing has a counter of its own.
LEMMA Counting ==
  ASSUME InSequence, NEW thing \in Things, NEW limit, Bound(thing, limit)
  PROVE  /\ count' \in [Things -> Nat] /\ count'[thing] # 0
         /\ \A x \in Things \ {thing} : count'[x] = count[x]
BY DEF InSequence, Bound

\* What a permit says of the scenario and the device it is issued for.
AboutNow(p) ==
  /\ p.effect = IF p.target.environment = "hil" THEN "none" ELSE "observation"
  /\ p.target = [environment |-> p.target.environment,
                 target_id |-> p.target.target_id, identity |-> p.target.identity]
  /\ p.trust_policy = scenario.trust_policy
  /\ p.target.identity = attached[p.target.target_id].identity
  /\ p.interlock = attached[p.target.target_id].preflight

LEMMA Issued ==
  ASSUME Issue
  PROVE  \E p : permits' = permits \cup {p} /\ AboutNow(p)
<1> DEFINE Permit(d, t, environment, scope, operator, approver, validity, now) ==
      [permit_id |-> count["permit"] + 1, scenario |-> scenario,
       image |-> image[d], trust_policy |-> scenario.trust_policy,
       target |-> [environment |-> environment, target_id |-> t,
                   identity |-> attached[t].identity],
       effect |-> IF environment = "hil" THEN "none" ELSE "observation",
       hardware_scope |-> scope, issued_at |-> now, expires_at |-> now + validity,
       operator |-> operator, approver |-> approver,
       interlock |-> attached[t].preflight, checked_at |-> now]
<1>1. PICK d \in Domain, environment \in Environments, scope \in Scopes,
           operator \in Person, approver \in Person, validity \in 1..MaxValidity,
           now \in {clock, clock + 1} :
        \E t \in Uses[d] :
          permits' = permits
            \cup {Permit(d, t, environment, scope, operator, approver, validity, now)}
  BY DEF Issue
<1>2. PICK t \in Uses[d] :
        permits' = permits
          \cup {Permit(d, t, environment, scope, operator, approver, validity, now)}
  BY <1>1
<1>3. AboutNow(Permit(d, t, environment, scope, operator, approver, validity, now))
  BY DEF AboutNow
<1>. HIDE DEF Permit
<1>. QED
  BY <1>2, <1>3

LEMMA SignaturesRecorded ==
  ASSUME Verify
  PROVE  \E v : /\ verifications' = verifications \cup {v}
                /\ v.target = v.permit.target /\ v.verified_at = clock
                /\ v.trust_policy = scenario.trust_policy
<1> DEFINE Signed(p, signers) ==
      [permit |-> p, trust_policy |-> scenario.trust_policy,
       target |-> p.target, verified_at |-> clock, signers |-> signers]
<1>1. PICK p \in permits, signers \in [Role -> Person] :
        verifications' = verifications \cup {Signed(p, signers)}
  BY DEF Verify
<1> DEFINE v == Signed(p, signers)
<1>2. /\ v.target = v.permit.target /\ v.verified_at = clock
      /\ v.trust_policy = scenario.trust_policy
  OBVIOUS
<1>. HIDE DEF Signed
<1>. QED
  BY <1>1, <1>2

\* What a manifest says of its domain.
DescribesNow(m, d) ==
  /\ m # None
  /\ m.generated_at = clock
  /\ DOMAIN m.physical_targets = Uses[d]
  /\ \A t \in Uses[d] : m.physical_targets[t] = attached[t]
  /\ m.environment = scenario.environment /\ m.trust_policy = scenario.trust_policy
  /\ m.verification \in verifications \cup {None}
  /\ Physical(scenario) => m.verification # None

LEMMA ManifestWritten ==
  ASSUME NEW d \in Domain, WriteManifest(d)
  PROVE  \E m : manifests' = [manifests EXCEPT ![d] = m] /\ DescribesNow(m, d)
<1> DEFINE Manifest(p, v) ==
      [generated_at |-> clock, environment |-> scenario.environment,
       image |-> image[d], permit |-> p, verification |-> v,
       trust_policy |-> scenario.trust_policy,
       physical_targets |-> [t \in Uses[d] |-> attached[t]]]
<1>1. PICK p \in permits \cup {None}, v \in verifications \cup {None} :
        /\ v # None <=> Physical(scenario)
        /\ manifests' = [manifests EXCEPT ![d] = Manifest(p, v)]
  BY DEF WriteManifest
<1>2. Manifest(p, v) # None
  <2>1. "permit" \in DOMAIN Manifest(p, v) /\ DOMAIN None = {"absent"}
    BY DEF None
  <2>. QED
    BY <2>1
<1>3. DescribesNow(Manifest(p, v), d)
  BY <1>1, <1>2 DEF DescribesNow
<1>. HIDE DEF Manifest
<1>. QED
  BY <1>1, <1>3

\* Nothing on file was written later than now, and what a result copies from
\* the manifest and from the run never changes under it.
LEMMA InSequenceStep ==
  ASSUME Inv, InSequence, Next
  PROVE  InSequence'
<1>. USE DEF Inv
<1>1. CASE Issue
  <2>1. count' \in [Things -> Nat]
    BY <1>1, Counting DEF Issue, Things
  <2>2. PICK p : permits' = permits \cup {p} /\ AboutNow(p)
    BY <1>1, Issued
  <2>. QED
    BY <1>1, <2>1, <2>2 DEF Issue, InSequence, AboutNow
<1>2. CASE Verify
  <2>1. count' \in [Things -> Nat]
    BY <1>2, Counting DEF Verify, Things
  <2>2. PICK v : /\ verifications' = verifications \cup {v}
                 /\ v.target = v.permit.target /\ v.verified_at = clock
    BY <1>2, SignaturesRecorded
  <2>3. clock <= clock
    BY DEF Filed
  <2>. QED
    BY <1>2, <2>1, <2>2, <2>3 DEF Verify, InSequence
<1>3. CASE EditScenario
  <2>1. count' \in [Things -> Nat]
    BY <1>3, Counting DEF EditScenario, Things
  <2>. QED
    BY <1>3, <2>1 DEF EditScenario, InSequence
<1>4. CASE Submit
  BY <1>4 DEF Submit, InSequence
<1>5. CASE Tick
  BY <1>5 DEF Tick, InSequence, Filed, Reported
<1>6. ASSUME NEW d \in Domain, Deploy(d)  PROVE InSequence'
  <2>1. count' \in [Things -> Nat]
    BY <1>6, Counting DEF Deploy, Things
  <2>. QED
    BY <1>6, <2>1 DEF Deploy, InSequence
<1>7. ASSUME NEW d \in Domain, WriteManifest(d)  PROVE InSequence'
  <2>1. count' \in [Things -> Nat]
    BY <1>7, Counting DEF WriteManifest, Things
  <2>5. PICK m : manifests' = [manifests EXCEPT ![d] = m] /\ DescribesNow(m, d)
    BY <1>7, ManifestWritten
  <2>3. m.verification # None =>
          /\ m.verification \in verifications
          /\ m.verification.verified_at <= m.generated_at
    BY <2>5 DEF InSequence, DescribesNow
  <2>4. clock \in Int
    BY DEF Filed
  <2>6. \A e \in Domain : manifests'[e] = IF e = d THEN m ELSE manifests[e]
    BY <2>5 DEF InSequence
  <2>7. DOMAIN manifests' = Domain
    BY <2>5 DEF InSequence
  <2>. QED
    BY <1>7, <2>1, <2>3, <2>4, <2>5, <2>6, <2>7
       DEF WriteManifest, InSequence, DescribesNow
<1>8. ASSUME NEW d \in Domain, Start(d)  PROVE InSequence'
  <2> DEFINE run == [started_at |-> clock, scenario |-> scenario, image |-> image[d],
                     devices |-> [t \in Uses[d] |-> attached[t].identity],
                     manifest |-> manifests[d]]
  <2>1. /\ executions' = [executions EXCEPT ![d] = run]
        /\ run.started_at = clock /\ run.manifest = manifests[d]
    BY <1>8 DEF Start
  <2>. HIDE DEF run
  <2>2. run.manifest.generated_at <= run.started_at /\ run.started_at <= clock
    BY <1>8, <2>1 DEF Start, InSequence, Filed
  <2>3. executions[d] = None /\ results[d] = None
    BY <1>8 DEF Start, Reported, ResultHolds
  <2>4. /\ DOMAIN executions = Domain
        /\ \A e \in Domain : executions'[e] = IF e = d THEN run ELSE executions[e]
    BY <2>1 DEF Reported
  <2>. QED
    BY <1>8, <2>2, <2>3, <2>4 DEF Start, InSequence
<1>9. ASSUME NEW d \in Domain, Finish(d)  PROVE InSequence'
  <2> DEFINE run == executions[d]
             Report(t) ==
               [started_at |-> run.started_at, finished_at |-> clock,
                scenario |-> run.scenario, environment |-> run.scenario.environment,
                image |-> run.image, manifest |-> run.manifest,
                permit |-> run.manifest.permit,
                verification |-> run.manifest.verification,
                trust_policy |-> run.scenario.trust_policy,
                target |-> [environment |-> run.scenario.environment, target_id |-> t,
                            identity |-> run.devices[t]]]
  <2>5. PICK t \in Uses[d] : results' = [results EXCEPT ![d] = Report(t)]
    BY <1>9 DEF Finish
  <2> DEFINE r == Report(t)
  <2>1. /\ results' = [results EXCEPT ![d] = r]
        /\ r.finished_at = clock /\ r.manifest = executions[d].manifest
        /\ r.permit = executions[d].manifest.permit
        /\ r.verification = executions[d].manifest.verification
        /\ r.environment = executions[d].scenario.environment
        /\ r.trust_policy = executions[d].scenario.trust_policy
        /\ r.target = [environment |-> executions[d].scenario.environment,
                       target_id |-> t, identity |-> executions[d].devices[t]]
    BY <2>5
  <2>. HIDE DEF r, Report
  <2>2. executions[d] # None /\ executions[d].started_at <= r.finished_at
    BY <1>9, <2>1 DEF Finish, Executing, InSequence
  <2>3. r.target.target_id = t
    BY <2>1
  <2>4. \A e \in Domain : results'[e] = IF e = d THEN r ELSE results[e]
    BY <2>1 DEF Reported
  <2>. QED
    BY <1>9, <2>1, <2>2, <2>3, <2>4 DEF Finish, InSequence
<1>10. ASSUME NEW t \in Target, Preflight(t)  PROVE InSequence'
  <2>1. count' \in [Things -> Nat]
    BY <1>10, Counting DEF Preflight, Things
  <2>. QED
    BY <1>10, <2>1 DEF Preflight, InSequence
<1>11. CASE Validate
  BY <1>11 DEF Validate, InSequence
<1>. QED
  BY <1>1, <1>2, <1>3, <1>4, <1>5, <1>6, <1>7, <1>8, <1>9, <1>10, <1>11 DEF Next

\* Whatever is filed is about the scenario of the moment.
LEMMA SameScenarioStep ==
  ASSUME Inv, InSequence, SameScenario, Next
  PROVE  SameScenario'
<1>. SUFFICES ASSUME count'["scenario"] = 0 PROVE SameScenario'
  BY DEF SameScenario
<1>1. ~ EditScenario
  BY Counting DEF EditScenario, Things
<1>2. scenario' = scenario
  BY <1>1 DEF Next, Issue, Verify, Submit, Tick, Deploy, WriteManifest, Start, Finish,
     Preflight, Validate
<1>3. count["scenario"] = 0
  <2>1. ASSUME NEW thing \in Things \ {"scenario"}, NEW limit, Bound(thing, limit)
        PROVE  count["scenario"] = 0
    BY <2>1, Counting DEF Things
  <2>2. CASE count' = count
    BY <2>2
  <2>. QED
    BY <1>1, <2>1, <2>2 DEF Next, Issue, Verify, Submit, Tick, Deploy, WriteManifest,
       Start, Finish, Preflight, Validate, Things
<1>4. CASE Issue
  <2>1. PICK p : permits' = permits \cup {p} /\ AboutNow(p)
    BY <1>4, Issued
  <2>. QED
    BY <1>2, <1>3, <1>4, <2>1 DEF Issue, SameScenario, AboutNow
<1>5. CASE Verify
  <2>1. PICK v : /\ verifications' = verifications \cup {v}
                 /\ v.trust_policy = scenario.trust_policy
    BY <1>5, SignaturesRecorded
  <2>. QED
    BY <1>2, <1>3, <1>5, <2>1 DEF Verify, SameScenario
<1>6. ASSUME NEW d \in Domain, WriteManifest(d)  PROVE SameScenario'
  <2>1. PICK m : manifests' = [manifests EXCEPT ![d] = m] /\ DescribesNow(m, d)
    BY <1>6, ManifestWritten
  <2>2. \A e \in Domain : manifests'[e] = IF e = d THEN m ELSE manifests[e]
    BY <2>1 DEF InSequence
  <2>. QED
    BY <1>2, <1>3, <1>6, <2>1, <2>2 DEF WriteManifest, SameScenario, DescribesNow
<1>7. ASSUME NEW d \in Domain, Start(d)  PROVE SameScenario'
  <2>1. \A e \in Domain : executions'[e] # None =>
          executions'[e].scenario = scenario \/ executions'[e] = executions[e]
    BY <1>7 DEF Start, Inv, Reported
  <2>. QED
    BY <1>2, <1>3, <1>7, <2>1 DEF Start, SameScenario
<1>. QED
  BY <1>1, <1>2, <1>3, <1>4, <1>5, <1>6, <1>7 DEF Next, Submit, Tick, Deploy, Finish,
     Preflight, Validate, SameScenario

\* Whatever is filed is about the devices of the moment.
LEMMA SameDevicesStep ==
  ASSUME Inv, InSequence, SameDevices, Next
  PROVE  SameDevices'
<1>. SUFFICES ASSUME count'["target"] = 0 PROVE SameDevices'
  BY DEF SameDevices
<1>1. \A t \in Target : ~ Preflight(t)
  BY Counting DEF Preflight, Things
<1>2. attached' = attached
  BY <1>1 DEF Next, Issue, Verify, EditScenario, Submit, Tick, Deploy, WriteManifest,
     Start, Finish, Validate
<1>3. count["target"] = 0
  <2>1. ASSUME NEW thing \in Things \ {"target"}, NEW limit, Bound(thing, limit)
        PROVE  count["target"] = 0
    BY <2>1, Counting DEF Things
  <2>2. CASE count' = count
    BY <2>2
  <2>. QED
    BY <1>1, <2>1, <2>2 DEF Next, Issue, Verify, EditScenario, Submit, Tick, Deploy,
       WriteManifest, Start, Finish, Validate, Things
<1>4. CASE Issue
  <2>1. PICK p : permits' = permits \cup {p} /\ AboutNow(p)
    BY <1>4, Issued
  <2>. QED
    BY <1>2, <1>3, <1>4, <2>1 DEF Issue, SameDevices, AboutNow
<1>5. ASSUME NEW d \in Domain, WriteManifest(d)  PROVE SameDevices'
  <2>1. PICK m : manifests' = [manifests EXCEPT ![d] = m] /\ DescribesNow(m, d)
    BY <1>5, ManifestWritten
  <2>2. \A e \in Domain : manifests'[e] = IF e = d THEN m ELSE manifests[e]
    BY <2>1 DEF InSequence
  <2>. QED
    BY <1>2, <1>3, <1>5, <2>1, <2>2 DEF WriteManifest, SameDevices, DescribesNow
<1>. QED
  BY <1>1, <1>2, <1>3, <1>4, <1>5 DEF Next, Verify, EditScenario, Submit, Tick, Deploy,
     Start, Finish, Validate, SameDevices

LEMMA RefusedStep ==
  ASSUME Refused, Next
  PROVE  Refused'
<1>1. CASE Validate
  BY <1>1 DEF Validate, Refused, Linked, Authorization, AllReferenced, DomainAuthorized,
     SameAuthorization, PermitCovers, Verified, TargetListed, WithinPermit
<1>2. CASE ~ Validate
  <2>1. verdict' = verdict /\ verdict = "none"
    BY <1>2 DEF Next, Issue, Verify, EditScenario, Submit, Tick, Deploy, WriteManifest,
       Start, Finish, Preflight
  <2>. QED
    BY <2>1 DEF Refused
<1>. QED
  BY <1>1, <1>2

LEMMA OrderlyStep ==
  ASSUME Inv, Orderly, [Next]_vars
  PROVE  Orderly'
<1>1. CASE UNCHANGED vars
  BY <1>1 DEF vars, Orderly, InSequence, SameScenario, SameDevices, Refused, Linked,
     Authorization, AllReferenced, DomainAuthorized, SameAuthorization, PermitCovers,
     Verified, TargetListed, WithinPermit
<1>. QED
  BY <1>1, InSequenceStep, SameScenarioStep, SameDevicesStep, RefusedStep DEF Orderly

-----------------------------------------------------------------------------
\* With its papers in order a domain passes every check: what is copied from
\* the scenario, the devices and the manifest is what the validator compares.
LEMMA PapersPass ==
  ASSUME Inv, Orderly, submitted # None, Physical(scenario),
         \A thing \in {"scenario", "image", "target"} : count[thing] = 0,
         \A d \in Domain : scenario.hardware_scope \subseteq {Scope[t] : t \in Uses[d]},
         PapersInOrder, NEW d \in Domain
  PROVE  Linked(manifests[d], results[d]) /\ DomainAuthorized(manifests[d], results[d])
<1> DEFINE m == manifests[d]
           run == executions[d]
           r == results[d]
           p == m.permit
           v == m.verification
           tid == p.target.target_id
\* what the crew saw to
<1>1. /\ v.permit = p /\ \A role \in Role : v.signers[role] = p[role]
      /\ m = run.manifest /\ r.target.target_id = tid
      /\ p.target.environment = scenario.environment /\ p.image = m.image
      /\ InForce(p, d) /\ p.issued_at <= v.verified_at
      /\ p \in submitted.permits /\ v \in submitted.verifications
  BY DEF PapersInOrder
<1>2. p \in permits /\ v \in verifications /\ r # None
  BY <1>1 DEF Inv, HandedOver
<1>3. /\ run # None /\ r.started_at = run.started_at /\ r.scenario = run.scenario
      /\ r.image = run.image /\ r.finished_at \in Int /\ run.started_at \in Int
  BY <1>2 DEF Inv, Reported, ResultHolds
<1>4. tid \in Uses[d] /\ p.target.identity = run.devices[tid]
      /\ p.scenario = run.scenario /\ p.image = run.image
      /\ run.scenario.hardware_scope \subseteq p.hardware_scope
      /\ \A now \in run.started_at .. r.finished_at : p.issued_at <= now /\ now < p.expires_at
  BY <1>1 DEF InForce
\* what nothing changed on the way
<1>5. run.scenario = scenario /\ p.trust_policy = scenario.trust_policy
      /\ v.trust_policy = scenario.trust_policy
  BY <1>2, <1>3 DEF Orderly, SameScenario
<1>6. /\ m # None /\ m.generated_at <= run.started_at
      /\ DOMAIN m.physical_targets = Uses[d]
      /\ v # None => v.verified_at <= m.generated_at
      /\ m.generated_at \in Int
  BY <1>1, <1>3 DEF Orderly, InSequence
<1>7. /\ m.environment = scenario.environment /\ m.trust_policy = scenario.trust_policy
      /\ v # None
  BY <1>6 DEF Orderly, SameScenario
<1>8. /\ tid \in DOMAIN m.physical_targets
      /\ m.physical_targets[tid].identity = p.target.identity
      /\ m.physical_targets[tid].preflight = p.interlock
  <2>1. m.physical_targets[tid] = attached[tid]
    BY <1>4, <1>6 DEF Orderly, SameDevices
  <2>2. p.target.identity = attached[tid].identity /\ p.interlock = attached[tid].preflight
    BY <1>2 DEF Orderly, SameDevices
  <2>. QED
    BY <1>4, <1>6, <2>1, <2>2
\* what is copied
<1>9. /\ run.started_at <= r.finished_at /\ r.manifest = m
      /\ r.permit = p /\ r.verification = v
      /\ r.environment = scenario.environment /\ r.trust_policy = scenario.trust_policy
      /\ r.target = [environment |-> scenario.environment, target_id |-> tid,
                     identity |-> run.devices[tid]]
  BY <1>1, <1>2, <1>5 DEF Orderly, InSequence
<1>10. p.target = r.target
  <2>1. p.target = [environment |-> p.target.environment, target_id |-> tid,
                    identity |-> p.target.identity]
    BY <1>2 DEF Orderly, InSequence
  <2>. QED
    BY <1>1, <1>4, <1>9, <2>1
<1>11. p.effect = Effect(scenario.environment)
  <2>1. p.effect = IF scenario.environment = "hil" THEN "none" ELSE "observation"
    <3>1. InSequence
      BY DEF Orderly
    <3>2. p.effect = IF p.target.environment = "hil" THEN "none" ELSE "observation"
      BY <3>1, <1>2 DEF InSequence
    <3>. QED
      BY <3>2, <1>1
  <2>2. scenario.environment \in {"hil", "real_robot"}
    BY DEF Physical
  <2>3. CASE scenario.environment = "hil"
    BY <2>1, <2>3 DEF Effect
  <2>4. CASE scenario.environment = "real_robot"
    BY <2>1, <2>4 DEF Effect
  <2>. QED
    BY <2>2, <2>3, <2>4
<1>12. v.target = p.target
  BY <1>1, <1>2 DEF Orderly, InSequence
<1>13. WithinPermit(p, v, r)
  <2>1. v.verified_at \in Int /\ p.expires_at \in Int
    BY <1>2 DEF Inv, Filed
  <2>2. r.finished_at \in run.started_at .. r.finished_at
    BY <1>3, <1>9
  <2>3. v.verified_at <= r.started_at /\ r.started_at <= r.finished_at
    BY <1>3, <1>6, <1>7, <1>9, <2>1
  <2>. QED
    BY <1>1, <1>4, <2>2, <2>3 DEF WithinPermit
<1>14. Linked(m, r)
  BY <1>1, <1>3, <1>4, <1>5, <1>6, <1>7, <1>9 DEF Linked
<1>15. SameAuthorization(m, r)
  BY <1>7, <1>9 DEF SameAuthorization
<1>16. PermitCovers(p, m, r)
  BY <1>1, <1>4, <1>5, <1>10, <1>11 DEF PermitCovers
<1>17. Verified(p, v)
  BY <1>1, <1>5, <1>12 DEF Verified
<1>18. TargetListed(p, m)
  <2>1. scenario.hardware_scope \subseteq {Scope[t] : t \in DOMAIN m.physical_targets}
    BY <1>6
  <2>. QED
    BY <1>8, <2>1 DEF TargetListed
<1>. QED
  BY <1>1, <1>13, <1>14, <1>15, <1>16, <1>17, <1>18 DEF DomainAuthorized

\* A physical run is accepted if its papers are in order and neither the
\* scenario, an image nor a device changed on the way: no check refuses what
\* the procedure produces (_validate_physical_authorization).
THEOREM OrderlyRunsAreAccepted == Spec => []OrderlyRunsQualify
<1>1. Inv /\ Orderly => OrderlyRunsQualify
  <2>. SUFFICES ASSUME Inv, Orderly, verdict = "rejected", Physical(scenario),
                       \A thing \in {"scenario", "image", "target"} : count[thing] = 0,
                       \A d \in Domain :
                         scenario.hardware_scope \subseteq {Scope[t] : t \in Uses[d]},
                       PapersInOrder
                PROVE  FALSE
    BY DEF OrderlyRunsQualify
  <2>1. /\ submitted # None
        /\ ~ ((\A d \in Domain : Linked(manifests[d], results[d])) /\ Authorization)
    BY DEF Orderly, Refused
  <2>2. \A d \in Domain : /\ Linked(manifests[d], results[d])
                          /\ DomainAuthorized(manifests[d], results[d])
    BY <2>1, PapersPass
  <2>3. AllReferenced
    BY DEF PapersInOrder, AllReferenced
  <2>. QED
    BY <2>1, <2>2, <2>3 DEF Authorization
<1>. QED
  BY InitInv, NextInv, InitOrderly, OrderlyStep, <1>1, PTL DEF Spec
=============================================================================
