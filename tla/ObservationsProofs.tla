------------------------- MODULE ObservationsProofs -------------------------
(***************************************************************************)
(* Whatever is executed, rebooted, observed and edited, and for all        *)
(* constants: what an accepted set says of shared clocks, measured skews   *)
(* and recordings is true, and a set put together with care is accepted.   *)
(***************************************************************************)
EXTENDS Observations, TLAPS

(***************************************************************************)
(* The inductive invariant.                                                *)
(***************************************************************************)

\* The observations that an execution or an index holds are of its own boot.
OwnBoot(evidence, b) == \A c \in Boot : Observation(c) \in evidence => c = b

OwnObservations ==
  /\ \A d \in Domain : execution[d] # None => OwnBoot(execution[d].evidence, execution[d].boot)
  /\ \A x \in indexed : OwnBoot({e.sha256 : e \in x.index.artifacts}, x.boot)

\* A recording is listed with the summary of some recording.
Summarized ==
  \A x \in indexed : \A e \in x.index.artifacts :
    e.sha256.kind = "recording" => e.recording_summary # None

\* A shared clock is claimed for one boot.
OneBoot(r) ==
  r.method = "shared_clock_identity" =>
    LET i == r.shared_clock_identity IN
    /\ i.boot_id \in Boot
    /\ i.source_observation_sha256 = Observation(i.boot_id)
    /\ i.destination_observation_sha256 = Observation(i.boot_id)

\* Figures and thresholds are numbers.
Measured(r) ==
  r.method = "measured_skew" =>
    /\ r.sample_count \in Nat /\ r.max_absolute_skew \in Nat
    /\ r.policy.minimum_samples \in Nat /\ r.policy.maximum_absolute_skew \in Nat

Written == \A r \in relations : RelationWellFormed(r) /\ OneBoot(r) /\ Measured(r)

\* What was handed over had been written, and acceptance was decided on it.
Handed ==
  /\ verdict = "accepted" => submitted # None
  /\ submitted # None =>
       /\ \A d \in Domain : submitted.indexes[d] \in {x.index : x \in indexed}
       /\ submitted.relations \subseteq relations
  /\ verdict = "accepted" =>
       /\ SummariesMatch(submitted)
       /\ \A r \in submitted.relations : RelationHolds(r, submitted)

Inv == OwnObservations /\ Summarized /\ Written /\ Handed

LEMMA InitInv == Init => Inv
BY DEF Init, Inv, OwnObservations, Summarized, Written, Handed

-----------------------------------------------------------------------------
(* Every step preserves the invariant.                                     *)

LEMMA NextOwn == Inv /\ Next => OwnObservations'
<1>. SUFFICES ASSUME Inv, Next PROVE OwnObservations'
  OBVIOUS
<1>. USE DEF Inv, OwnObservations
<1>1. ASSUME NEW d \in Domain, Move(d) PROVE OwnObservations'
  BY <1>1 DEF Move
<1>2. ASSUME NEW d \in Domain, Start(d) PROVE OwnObservations'
  <2>1. PICK evidence \in SUBSET ({Observation(boot[d])}
                             \cup {Retained("recording", r) : r \in Recording}
                             \cup {Retained("skew", f) : f \in Figures}) :
          execution' = [execution EXCEPT ![d] = [boot |-> boot[d], evidence |-> evidence]]
    BY <1>2 DEF Start
  <2>2. OwnBoot(evidence, boot[d])
    BY <2>1 DEF OwnBoot, Observation, Retained
  <2>. QED
    BY <1>2, <2>1, <2>2 DEF Start, OwnBoot
<1>3. ASSUME NEW d \in Domain, WriteIndex(d) PROVE OwnObservations'
  <2>. QED
    BY <1>3 DEF WriteIndex, OwnBoot
<1>4. CASE Summarize \/ RelateShared \/ RelateMeasured \/ EditScenario \/ Submit \/ Validate
  BY <1>4 DEF Summarize, RelateShared, RelateMeasured, EditScenario, Submit, Validate
<1>. QED
  BY <1>1, <1>2, <1>3, <1>4 DEF Next, Produce

LEMMA NextSummarized == Inv /\ Next => Summarized'
<1>. SUFFICES ASSUME Inv, Next PROVE Summarized'
  OBVIOUS
<1>. USE DEF Inv, Summarized
<1>1. ASSUME NEW d \in Domain, WriteIndex(d) PROVE Summarized'
  BY <1>1 DEF WriteIndex, None
<1>2. CASE ~ \E d \in Domain : WriteIndex(d)
  BY <1>2 DEF Next, Produce, Move, Start, Summarize, RelateShared, RelateMeasured,
              EditScenario, Submit, Validate
<1>. QED
  BY <1>1, <1>2

LEMMA NextWritten == Inv /\ Next => Written'
<1>. SUFFICES ASSUME Inv, Next PROVE Written'
  OBVIOUS
<1>. USE DEF Inv, Written
<1>1. ASSUME RelateShared PROVE Written'
  BY <1>1 DEF RelateShared, Related, OneBoot, Measured
<1>2. ASSUME RelateMeasured PROVE Written'
  <2>1. PICK r : /\ relations' = relations \cup {r} /\ RelationWellFormed(r)
                 /\ r.method = "measured_skew" /\ r.policy \in Policies
                 /\ r.sample_count \in Nat /\ r.max_absolute_skew \in Nat
    <3>1. PICK s, t \in Domain, f \in Figures, p \in Policies,
               violations \in SUBSET {"insufficient_samples", "clock_skew_exceeded"},
               status \in {"passed", "failed", "incomplete"} :
            Related([source_domain_id |-> s, destination_domain_id |-> t,
                     method |-> "measured_skew", scenario_sha256 |-> policy,
                     policy |-> p, violations |-> violations, status |-> status,
                     sample_count |-> f.sample_count,
                     max_absolute_skew |-> f.max_absolute_skew,
                     evidence_sha256 |-> Retained("skew", f)])
      BY <1>2 DEF RelateMeasured
    <3>2. f.sample_count \in Nat /\ f.max_absolute_skew \in Nat
      BY ObservationConstants
    <3>. QED
      BY <3>1, <3>2 DEF Related
  <2>2. r.policy.minimum_samples \in Nat /\ r.policy.maximum_absolute_skew \in Nat
    BY <2>1, ObservationConstants DEF RelationWellFormed, ClockPolicy
  <2>. QED
    BY <2>1, <2>2 DEF OneBoot, Measured
<1>3. CASE ~ (RelateShared \/ RelateMeasured)
  BY <1>3 DEF Next, Produce, Move, Start, WriteIndex, Summarize, EditScenario, Submit, Validate
<1>. QED
  BY <1>1, <1>2, <1>3

LEMMA NextHanded == Inv /\ Next => Handed'
<1>. SUFFICES ASSUME Inv, Next PROVE Handed'
  OBVIOUS
<1>. USE DEF Inv, Handed
<1>1. CASE submitted = None /\ Produce
  BY <1>1 DEF Produce, Move, Start, WriteIndex, Summarize, RelateShared, RelateMeasured,
              EditScenario
<1>2. CASE Submit
  BY <1>2 DEF Submit
<1>3. CASE Validate
  <2>1. verdict' = "accepted" => /\ SummariesMatch(submitted)
                                 /\ \A r \in submitted.relations : RelationHolds(r, submitted)
    BY <1>3 DEF Validate
  <2>. QED
    BY <1>3, <2>1 DEF Validate
<1>. QED
  BY <1>1, <1>2, <1>3 DEF Next

LEMMA StutterInv == Inv /\ UNCHANGED vars => Inv'
BY DEF Inv, OwnObservations, Summarized, Written, Handed, vars

LEMMA SpecInv == Spec => []Inv
<1>1. Inv /\ [Next]_vars => Inv'
  BY NextOwn, NextSummarized, NextWritten, NextHanded, StutterInv DEF Inv
<1>. QED
  BY InitInv, <1>1, PTL DEF Spec

LEMMA PassedWithoutViolations ==
  ASSUME NEW codes, ChannelStatus(codes) = "passed" PROVE codes = {}
BY DEF ChannelStatus

-----------------------------------------------------------------------------
(* What the invariant is for.                                              *)

\* Both ends of an accepted shared clock ran on the boot it names: an
\* observation retained by an end's own index can only be of its own boot.
THEOREM AcceptedSharedClocksAreShared == Spec => []SharedClocksAreShared
<1>1. Inv => SharedClocksAreShared
  <2>. SUFFICES ASSUME Inv, verdict = "accepted",
                       NEW r \in submitted.relations, r.method = "shared_clock_identity",
                       NEW x \in indexed,
                       x.index \in {submitted.indexes[r.source_domain_id],
                                    submitted.indexes[r.destination_domain_id]}
                PROVE  x.boot = r.shared_clock_identity.boot_id
    BY DEF SharedClocksAreShared
  <2>1. OneBoot(r) /\ ClockEvidenceHolds(r, submitted)
    BY DEF Inv, Handed, Written, RelationHolds
  <2>2. Observation(r.shared_clock_identity.boot_id) \in {e.sha256 : e \in x.index.artifacts}
    BY <2>1 DEF OneBoot, ClockEvidenceHolds, EvidenceOf
  <2>. QED
    BY <2>1, <2>2 DEF OneBoot, Inv, OwnObservations, OwnBoot
<1>. QED
  BY SpecInv, <1>1, PTL

\* A passed measured skew of an accepted set meets the thresholds of the
\* scenario in the set.
THEOREM AcceptedSkewIsWithinPolicy == Spec => []PassedSkewIsWithinPolicy
<1>1. Inv => PassedSkewIsWithinPolicy
  <2>. SUFFICES ASSUME Inv, verdict = "accepted",
                       NEW r \in submitted.relations,
                       r.method = "measured_skew", r.status = "passed"
                PROVE  /\ submitted.policy.method = "measured_skew"
                       /\ r.sample_count >= submitted.policy.minimum_samples
                       /\ r.max_absolute_skew <= submitted.policy.maximum_absolute_skew
    BY DEF PassedSkewIsWithinPolicy
  <2>1. RelationWellFormed(r) /\ Measured(r) /\ r.policy = submitted.policy
    BY DEF Inv, Handed, Written, RelationHolds
  <2>2. RelationViolations(r) = {}
    <3>1. {ChannelCode(v) : v \in RelationViolations(r)} = {}
      BY <2>1, PassedWithoutViolations DEF RelationWellFormed
    <3>. QED
      BY <3>1
  <2>. QED
    BY <2>1, <2>2 DEF RelationWellFormed, RelationViolations, Measured
<1>. QED
  BY SpecInv, <1>1, PTL

\* Every summary reference is compared with the one kept, so each holds of
\* its own recording; and every summary is referred to.
THEOREM AcceptedRecordingsAreDescribed == Spec => []RecordingsAreDescribed
<1>1. Inv => RecordingsAreDescribed
  <2>. SUFFICES ASSUME Inv, verdict = "accepted" PROVE RecordingsAreDescribed
    BY DEF RecordingsAreDescribed
  <2>. DEFINE listed == UNION {submitted.indexes[d].artifacts : d \in Domain}
              refs == References(submitted)
  <2>1. OneSourceEach(refs) /\ Described(refs, submitted)
    BY DEF Inv, Handed, SummariesMatch
  <2>2. ASSUME NEW e \in listed, e.recording_summary # None
        PROVE  /\ e.recording_summary.sha256 \in submitted.summaries
               /\ e.recording_summary.sha256.source_sha256 = e.sha256
    <3>. DEFINE p == [sha256 |-> e.recording_summary.sha256, source |-> e.sha256,
                      size_bytes |-> e.recording_summary.size_bytes]
    <3>1. p \in refs
      BY <2>2 DEF References
    <3>2. p.sha256 \in submitted.summaries
      BY <2>1, <3>1 DEF Described
    <3>3. Kept(refs, p.sha256) \in refs /\ Kept(refs, p.sha256).sha256 = p.sha256
      BY <3>1 DEF Kept
    <3>4. Kept(refs, p.sha256) = p
      BY <2>1, <3>1, <3>3 DEF OneSourceEach
    <3>. QED
      BY <2>1, <3>2, <3>4 DEF Described
  <2>3. ASSUME NEW e \in listed, e.sha256.kind = "recording" PROVE e.recording_summary # None
    BY <2>3 DEF Inv, Handed, Summarized
  <2>4. ASSUME NEW s \in submitted.summaries PROVE \E e \in listed : e.sha256 = s.source_sha256
    <3>1. PICK p \in refs : p.sha256 = s
      BY <2>1 DEF Described
    <3>2. PICK e \in listed : e.recording_summary # None /\ p.sha256 = e.recording_summary.sha256
      BY <3>1 DEF References
    <3>. QED
      BY <2>2, <3>1, <3>2
  <2>. QED
    BY <2>2, <2>3, <2>4 DEF RecordingsAreDescribed
<1>. QED
  BY SpecInv, <1>1, PTL

-----------------------------------------------------------------------------
(* What makes CarefulEvidenceQualifies inductive.                          *)

Counted == count \in [{"move", "execution", "relation", "edit"} -> Nat]

\* Only recordings are listed with a summary.
OnlyRecordings ==
  \A x \in indexed : \A e \in x.index.artifacts :
    e.recording_summary # None => e.sha256.kind = "recording"

\* Until the scenario is edited every relation names it, and what was handed
\* over is the scenario as it is.
SameScenario ==
  /\ count["edit"] = 0 => \A r \in relations : r.scenario_sha256 = policy
  /\ submitted # None => submitted.policy = policy

\* A set is refused only for one of the validator's reasons.
Refused ==
  verdict = "rejected" =>
    /\ submitted # None
    /\ ~ (/\ SummariesMatch(submitted)
          /\ \A r \in submitted.relations : RelationHolds(r, submitted))

CarefulInv == Counted /\ OnlyRecordings /\ SameScenario /\ Refused

LEMMA CarefulInit == Init => CarefulInv
BY DEF Init, CarefulInv, Counted, OnlyRecordings, SameScenario, Refused

LEMMA CountedNext ==
  ASSUME Counted, Next
  PROVE  /\ Counted'
         /\ count'["edit"] = 0 => count["edit"] = 0 /\ ~ EditScenario
<1>1. ASSUME NEW thing \in {"move", "execution", "relation", "edit"}, NEW limit,
             Bound(thing, limit)
      PROVE  /\ Counted' /\ count'[thing] # 0
             /\ \A x \in {"move", "execution", "relation", "edit"} \ {thing} : count'[x] = count[x]
  BY <1>1 DEF Bound, Counted
<1>2. CASE EditScenario
  BY <1>1, <1>2 DEF EditScenario
<1>3. ASSUME ~ EditScenario, Submit \/ Produce \/ Validate
      PROVE  Counted' /\ count'["edit"] = count["edit"]
  <2>1. ASSUME NEW d \in Domain, Move(d)
        PROVE  Counted' /\ count'["edit"] = count["edit"]
    BY <1>1, <2>1 DEF Move
  <2>2. ASSUME NEW d \in Domain, Start(d)
        PROVE  Counted' /\ count'["edit"] = count["edit"]
    BY <1>1, <2>2 DEF Start
  <2>3. CASE RelateShared
    <3>1. Bound("relation", Relations)
      BY <2>3 DEF RelateShared, Related
    <3>. QED
      BY <1>1, <3>1
  <2>4. CASE RelateMeasured
    <3>1. Bound("relation", Relations)
      BY <2>4 DEF RelateMeasured, Related
    <3>. QED
      BY <1>1, <3>1
  <2>5. CASE UNCHANGED count
    BY <2>5 DEF Counted
  <2>. QED
    BY <1>3, <2>1, <2>2, <2>3, <2>4, <2>5 DEF Produce, WriteIndex, Summarize, Submit, Validate
<1>. QED
  BY <1>2, <1>3 DEF Next, Produce

LEMMA OnlyRecordingsNext ==
  ASSUME OnlyRecordings, Next
  PROVE  OnlyRecordings'
<1>1. ASSUME NEW d \in Domain, WriteIndex(d)  PROVE OnlyRecordings'
  BY <1>1 DEF WriteIndex, OnlyRecordings
<1>2. CASE ~ \E d \in Domain : WriteIndex(d)
  BY <1>2 DEF Next, Produce, Move, Start, Summarize, RelateShared, RelateMeasured,
              EditScenario, Submit, Validate, OnlyRecordings
<1>. QED
  BY <1>1, <1>2

LEMMA SameScenarioNext ==
  ASSUME Counted, SameScenario, Next
  PROVE  SameScenario'
<1>1. CASE Submit \/ Validate
  BY <1>1, CountedNext DEF Submit, Validate, SameScenario
<1>. SUFFICES ASSUME submitted = None, Produce  PROVE SameScenario'
  BY <1>1 DEF Next
<1>2. submitted' = None
  BY DEF Produce, Move, Start, WriteIndex, Summarize, RelateShared, RelateMeasured, EditScenario
<1>. SUFFICES ASSUME count'["edit"] = 0  PROVE \A r \in relations' : r.scenario_sha256 = policy'
  BY <1>2 DEF SameScenario
<1>3. /\ count["edit"] = 0 /\ ~ EditScenario
      /\ \A r \in relations : r.scenario_sha256 = policy
  BY CountedNext DEF SameScenario
<1>4. policy' = policy
  BY <1>3 DEF Produce, Move, Start, WriteIndex, Summarize, RelateShared, RelateMeasured
<1>5. CASE RelateShared
  BY <1>3, <1>4, <1>5 DEF RelateShared, Related
<1>6. CASE RelateMeasured
  BY <1>3, <1>4, <1>6 DEF RelateMeasured, Related
<1>. QED
  BY <1>3, <1>4, <1>5, <1>6 DEF Produce, Move, Start, WriteIndex, Summarize

LEMMA RefusedNext ==
  ASSUME Refused, Next
  PROVE  Refused'
<1>1. CASE submitted = None /\ Produce
  BY <1>1 DEF Refused, Produce, Move, Start, WriteIndex, Summarize, RelateShared, RelateMeasured,
              EditScenario
<1>2. CASE Submit
  BY <1>2 DEF Refused, Submit
<1>3. CASE Validate
  BY <1>3 DEF Refused, Validate
<1>. QED
  BY <1>1, <1>2, <1>3 DEF Next

LEMMA CarefulNext ==
  ASSUME CarefulInv, [Next]_vars
  PROVE  CarefulInv'
<1>1. CASE UNCHANGED vars
  BY <1>1 DEF vars, CarefulInv, Counted, OnlyRecordings, SameScenario, Refused
<1>. QED
  BY <1>1, CountedNext, OnlyRecordingsNext, SameScenarioNext, RefusedNext DEF CarefulInv

\* With every recording listed with a summary of its own, sharing recordings
\* among domains gives no two references to one summary.
LEMMA CarefulSummariesMatch ==
  ASSUME Inv, CarefulInv, submitted # None, Careful
  PROVE  SummariesMatch(submitted)
<1> DEFINE listed == UNION {submitted.indexes[d].artifacts : d \in Domain}
           refs == References(submitted)
<1>1. ASSUME NEW p \in refs
      PROVE  /\ p = [sha256 |-> p.sha256, source |-> p.sha256.source_sha256,
                     size_bytes |-> SummarySize(p.sha256)]
             /\ p.size_bytes = SummarySize(p.sha256) /\ p.source = p.sha256.source_sha256
  <2>1. PICK e \in listed :
          /\ e.recording_summary # None
          /\ p = [sha256 |-> e.recording_summary.sha256, source |-> e.sha256,
                  size_bytes |-> e.recording_summary.size_bytes]
    BY DEF References
  <2>2. e.sha256.kind = "recording"
    BY <2>1 DEF Inv, Handed, CarefulInv, OnlyRecordings
  <2>3. /\ e.recording_summary.sha256.source_sha256 = e.sha256
        /\ e.recording_summary.size_bytes = SummarySize(e.recording_summary.sha256)
    BY <2>2 DEF Careful
  <2>. QED
    BY <2>1, <2>3
<1>2. {p.sha256 : p \in refs} = submitted.summaries
  <2> DEFINE given == {a \in listed : a.recording_summary # None}
  <2>1. submitted.summaries = {e.recording_summary.sha256 : e \in given}
    BY DEF Careful
  <2>2. ASSUME NEW p \in refs  PROVE p.sha256 \in submitted.summaries
    <3>1. PICK e \in given :
            p = [sha256 |-> e.recording_summary.sha256, source |-> e.sha256,
                 size_bytes |-> e.recording_summary.size_bytes]
      BY DEF References
    <3>. QED
      BY <2>1, <3>1
  <2>3. ASSUME NEW e \in given  PROVE \E p \in refs : p.sha256 = e.recording_summary.sha256
    <3> DEFINE q == [sha256 |-> e.recording_summary.sha256, source |-> e.sha256,
                     size_bytes |-> e.recording_summary.size_bytes]
    <3>1. q \in refs
      BY DEF References
    <3>2. q.sha256 = e.recording_summary.sha256
      OBVIOUS
    <3>. QED
      BY <3>1, <3>2
  <2>. HIDE DEF refs, given
  <2>. QED
    BY <2>1, <2>2, <2>3
<1>. HIDE DEF refs
<1>3. OneSourceEach(refs)
  BY <1>1 DEF OneSourceEach
<1>4. ASSUME NEW s \in submitted.summaries
      PROVE  /\ SummarySize(s) = Kept(refs, s).size_bytes
             /\ s.source_sha256 = Kept(refs, s).source
  <2>1. PICK p \in refs : p.sha256 = s
    BY <1>2
  <2>2. Kept(refs, s) \in refs /\ Kept(refs, s).sha256 = s
    BY <2>1 DEF Kept
  <2>. QED
    BY <1>1, <2>2
<1>. QED
  BY <1>2, <1>3, <1>4 DEF Described, SummariesMatch, refs

\* A set put together with care is accepted, also when domains share
\* recordings and their summaries (validate_clock_relation_evidence,
\* _validate_evidence).
THEOREM CarefulEvidenceIsAccepted == Spec => []CarefulEvidenceQualifies
<1>1. Inv /\ CarefulInv => CarefulEvidenceQualifies
  <2>. SUFFICES ASSUME Inv, CarefulInv, verdict = "rejected", Careful  PROVE FALSE
    BY DEF CarefulEvidenceQualifies
  <2>1. submitted # None
    BY DEF CarefulInv, Refused
  <2>2. SummariesMatch(submitted)
    BY <2>1, CarefulSummariesMatch
  <2>3. ASSUME NEW r \in submitted.relations  PROVE RelationHolds(r, submitted)
    <3>1. r \in relations /\ OneBoot(r)
      BY <2>1 DEF Inv, Handed, Written
    <3>2. r.scenario_sha256 = submitted.policy
      BY <2>1, <3>1 DEF CarefulInv, SameScenario, Careful
    <3>3. r.policy = submitted.policy
      BY <2>1 DEF CarefulInv, SameScenario, Careful
    <3>4. r.evidence_sha256 \in UNION {EvidenceOf(submitted, d) : d \in Domain}
      BY DEF Careful, EvidenceOf
    <3>5. r.method = "shared_clock_identity" =>
            /\ r.shared_clock_identity.source_observation_sha256
                 \in EvidenceOf(submitted, r.source_domain_id)
            /\ r.shared_clock_identity.destination_observation_sha256
                 \in EvidenceOf(submitted, r.destination_domain_id)
      BY <3>1 DEF OneBoot, Careful
    <3>. QED
      BY <3>2, <3>3, <3>4, <3>5 DEF RelationHolds, ClockEvidenceHolds
  <2>. QED
    BY <2>1, <2>2, <2>3 DEF CarefulInv, Refused
<1>. QED
  BY SpecInv, CarefulInit, CarefulNext, <1>1, PTL DEF Spec
=============================================================================
