---------------------------- MODULE Observations ----------------------------
(***************************************************************************)
(* What domains observe and how others refer to it.  While a domain runs   *)
(* it retains recordings, observations of its clock and measured skews; a  *)
(* summariser describes recordings, a clock observer relates the clocks of *)
(* two domains from observations it is given, and every domain lists in an *)
(* evidence index what it retained.  A domain may be executed again, on    *)
(* another machine or after a reboot, while what was derived from the      *)
(* earlier execution is still there.                                       *)
(*                                                                         *)
(* Only the validator is the repository's.  A digest is the document or    *)
(* the bytes it is the digest of.  Left to other modules: the windows of   *)
(* relations (Transport), the raw files behind the digests and receipts    *)
(* (RetainedEvidence), which index belongs to which result                 *)
(* (Qualification).  The transport of the run is evaluated.                *)
(***************************************************************************)
EXTENDS ChannelPolicy, FiniteSets

CONSTANTS
  Domain,
  Boot,       \* boots of machines
  Recording,  \* contents of recordings
  SizeOf,     \* recording -> the size of its summary
  Figures,    \* what measuring a skew may give
  Policies,   \* clock policies: of the scenario's versions, and of observers
  Executions, Relations, Moves, Edits,
              \* bounds: how often each of these happens
  Retentions  \* bound: what one execution retains

None == [absent |-> TRUE]

ClockPolicy ==
  [method : {"measured_skew"}, minimum_samples : Nat, maximum_absolute_skew : Nat]
  \cup [method : {"shared_clock_identity"}]

ASSUME ObservationConstants ==
  /\ SizeOf \in [Recording -> Nat]
  /\ Figures \subseteq [sample_count : Nat, max_absolute_skew : Nat]
  /\ Policies \subseteq ClockPolicy
  /\ {Executions, Relations, Moves, Edits, Retentions} \subseteq Nat

VARIABLES
  boot,       \* domain -> the boot of the machine it is placed on
  execution,  \* domain -> its execution and what that retained, or None
  summaries,  \* every recording summary written
  relations,  \* every clock relation written
  indexed,    \* every evidence index written, and the boot it was written on
  policy,     \* time_policy.cross_domain_clock of the scenario
  submitted,  \* the documents handed to the validator, or None
  verdict,
  count       \* how often each bounded thing happened

vars == <<boot, execution, summaries, relations, indexed, policy, submitted, verdict, count>>

Bound(thing, limit) ==
  /\ count[thing] < limit
  /\ count' = [count EXCEPT ![thing] = @ + 1]

Retained(kind, content) == [kind |-> kind, content |-> content]
Observation(b) == Retained("clock_observation", b)

\* Everything that was retained and can still be found.
Known ==
  (UNION {execution[d].evidence : d \in {e \in Domain : execution[e] # None}})
  \cup (UNION {{e.sha256 : e \in x.index.artifacts} : x \in indexed})

-----------------------------------------------------------------------------
(* The rules of a clock relation.                                          *)

RelationViolations(r) ==
  {v \in {"insufficient_samples", "clock_skew_exceeded", "invalid_observation"} :
    \/ v = "insufficient_samples" /\ r.method = "measured_skew"
         /\ r.sample_count < r.policy.minimum_samples
    \/ v = "clock_skew_exceeded" /\ r.method = "measured_skew"
         /\ r.max_absolute_skew > r.policy.maximum_absolute_skew
    \/ v = "invalid_observation" /\ v \in r.violations}

\* The violation of a channel observation that weighs the same.
ChannelCode(v) == IF v = "insufficient_samples" THEN "insufficient_messages" ELSE v

RelationWellFormed(r) ==
  /\ r.source_domain_id # r.destination_domain_id
  /\ r.policy.method = r.method
  /\ r.violations = RelationViolations(r)
  /\ r.status = ChannelStatus({ChannelCode(v) : v \in RelationViolations(r)})

-----------------------------------------------------------------------------
(* Domains, observers and the summariser (external).                       *)

\* The machine is rebooted, or the domain placed on another one: what was
\* executing there is lost.
Move(d) ==
  /\ Bound("move", Moves)
  /\ \E b \in Boot \ {boot[d]} : boot' = [boot EXCEPT ![d] = b]
  /\ execution' = [execution EXCEPT ![d] = None]
  /\ UNCHANGED <<summaries, relations, indexed, policy, submitted, verdict>>

\* An execution and what it retains before it ends.
Start(d) ==
  /\ Bound("execution", Executions)
  /\ execution[d] = None
  /\ \E evidence \in SUBSET ({Observation(boot[d])}
                             \cup {Retained("recording", r) : r \in Recording}
                             \cup {Retained("skew", f) : f \in Figures}) :
       /\ Cardinality(evidence) <= Retentions
       /\ execution' = [execution EXCEPT ![d] = [boot |-> boot[d], evidence |-> evidence]]
  /\ UNCHANGED <<boot, summaries, relations, indexed, policy, submitted, verdict>>

Summarize ==
  /\ \E r \in Recording :
       /\ Retained("recording", r) \in Known
       /\ summaries' = summaries \cup {[source_sha256 |-> Retained("recording", r)]}
  /\ UNCHANGED <<boot, execution, relations, indexed, policy, submitted, verdict, count>>

SummarySize(s) == SizeOf[s.source_sha256.content]

\* The end of an execution: everything it retained is listed.  A recording is
\* listed with a summary, which may be one left from before, and with a size
\* that may have been that of another.
WriteIndex(d) ==
  /\ execution[d] # None
  /\ LET recordings == {e \in execution[d].evidence : e.kind = "recording"} IN
     \E refs \in [recordings ->
                   [sha256 : summaries, size_bytes : {SummarySize(s) : s \in summaries}]] :
       LET entry(e) == [sha256 |-> e,
                        recording_summary |-> IF e \in recordings THEN refs[e] ELSE None]
       IN  indexed' = indexed \cup
             {[boot |-> execution[d].boot,
               index |-> [domain_id |-> d,
                          artifacts |-> {entry(e) : e \in execution[d].evidence}]]}
  /\ execution' = [execution EXCEPT ![d] = None]
  /\ UNCHANGED <<boot, summaries, relations, policy, submitted, verdict, count>>

\* The observer names the scenario as it is, and applies the policy it was
\* configured with.  What breaks the rules of a relation does not load.
Related(r) ==
  /\ Bound("relation", Relations)
  /\ RelationWellFormed(r)
  /\ relations' = relations \cup {r}

\* An observer that is given observations of one and the same boot.
RelateShared ==
  /\ \E s, t \in Domain, b, c \in Boot, p \in Policies,
        violations \in {{}, {"invalid_observation"}} :
       /\ {Observation(b), Observation(c)} \subseteq Known
       /\ Related([source_domain_id |-> s, destination_domain_id |-> t,
                   method |-> "shared_clock_identity", scenario_sha256 |-> policy,
                   policy |-> p, violations |-> violations,
                   status |-> IF violations = {} THEN "passed" ELSE "error",
                   shared_clock_identity |->
                     [boot_id |-> b, source_observation_sha256 |-> Observation(b),
                      destination_observation_sha256 |-> Observation(b)],
                   evidence_sha256 |-> Observation(c)])
  /\ UNCHANGED <<boot, execution, summaries, indexed, policy, submitted, verdict>>

RelateMeasured ==
  /\ \E s, t \in Domain, f \in Figures, p \in Policies,
        violations \in SUBSET {"insufficient_samples", "clock_skew_exceeded"},
        status \in {"passed", "failed", "incomplete"} :
       /\ Retained("skew", f) \in Known
       /\ Related([source_domain_id |-> s, destination_domain_id |-> t,
                   method |-> "measured_skew", scenario_sha256 |-> policy,
                   policy |-> p, violations |-> violations, status |-> status,
                   sample_count |-> f.sample_count,
                   max_absolute_skew |-> f.max_absolute_skew,
                   evidence_sha256 |-> Retained("skew", f)])
  /\ UNCHANGED <<boot, execution, summaries, indexed, policy, submitted, verdict>>

EditScenario ==
  /\ Bound("edit", Edits)
  /\ policy' \in Policies
  /\ UNCHANGED <<boot, execution, summaries, relations, indexed, submitted, verdict>>

\* An index of every domain, and any of the relations and summaries there are.
Submit ==
  /\ submitted = None
  /\ \E indexes \in [Domain -> {x.index : x \in indexed}],
        rs \in SUBSET relations, ss \in SUBSET summaries :
       /\ \A d \in Domain : indexes[d].domain_id = d
       /\ submitted' = [policy |-> policy, indexes |-> indexes, relations |-> rs,
                        summaries |-> ss]
  /\ UNCHANGED <<boot, execution, summaries, relations, indexed, policy, verdict, count>>

-----------------------------------------------------------------------------
(* The validator.                                                          *)

EvidenceOf(set, d) == {e.sha256 : e \in set.indexes[d].artifacts}

\* slip: an observation counts whoever retained it
ClockEvidenceHoldsAnywhere(r, set) ==
  LET retained == UNION {EvidenceOf(set, d) : d \in Domain} IN
  /\ r.evidence_sha256 \in retained
  /\ r.method = "shared_clock_identity" =>
       /\ r.shared_clock_identity.source_observation_sha256 \in retained
       /\ r.shared_clock_identity.destination_observation_sha256 \in retained

\* The evidence of a relation is retained by somebody, the observation of each
\* end of a shared clock by that end itself.
ClockEvidenceHolds(r, set) ==
  /\ r.evidence_sha256 \in UNION {EvidenceOf(set, d) : d \in Domain}
  /\ r.method = "shared_clock_identity" =>
       /\ r.shared_clock_identity.source_observation_sha256
            \in EvidenceOf(set, r.source_domain_id)
       /\ r.shared_clock_identity.destination_observation_sha256
            \in EvidenceOf(set, r.destination_domain_id)

\* slip: the digest of the scenario is thought to pin the policy
RelationHoldsByDigest(r, set) ==
  r.scenario_sha256 = set.policy /\ ClockEvidenceHolds(r, set)

RelationHolds(r, set) ==
  /\ r.scenario_sha256 = set.policy
  /\ r.policy = set.policy
  /\ ClockEvidenceHolds(r, set)

\* What the indexes say of summaries.
References(set) ==
  {[sha256 |-> e.recording_summary.sha256, source |-> e.sha256,
    size_bytes |-> e.recording_summary.size_bytes] :
     e \in {a \in UNION {set.indexes[d].artifacts : d \in Domain} :
              a.recording_summary # None}}

\* The reference to a summary that is kept.
Kept(references, s) == CHOOSE p \in references : p.sha256 = s

OneSourceEach(references) ==
  \A p, q \in references : p.sha256 = q.sha256 => p = q

Described(references, set) ==
  /\ {p.sha256 : p \in references} = set.summaries
  /\ \A s \in set.summaries :
       /\ SummarySize(s) = Kept(references, s).size_bytes
       /\ s.source_sha256 = Kept(references, s).source

\* slip: the first reference to a summary stands for the later ones
SummariesMatchFirst(set) == Described(References(set), set)

\* slip: a summary belongs to one index
SummariesMatchOnce(set) ==
  /\ \A d, e \in Domain : d # e =>
       {a \in set.indexes[d].artifacts : a.recording_summary # None}
         \cap set.indexes[e].artifacts = {}
  /\ OneSourceEach(References(set)) /\ Described(References(set), set)

SummariesMatch(set) ==
  OneSourceEach(References(set)) /\ Described(References(set), set)

Validate ==
  /\ submitted # None /\ verdict = "none"
  /\ verdict' = IF /\ SummariesMatch(submitted)
                   /\ \A r \in submitted.relations : RelationHolds(r, submitted)
                THEN "accepted" ELSE "rejected"
  /\ UNCHANGED <<boot, execution, summaries, relations, indexed, policy, submitted, count>>

-----------------------------------------------------------------------------
Init ==
  /\ boot \in [Domain -> Boot]
  /\ execution = [d \in Domain |-> None]
  /\ summaries = {} /\ relations = {} /\ indexed = {}
  /\ policy \in Policies
  /\ submitted = None /\ verdict = "none"
  /\ count = [thing \in {"move", "execution", "relation", "edit"} |-> 0]

Produce ==
  \/ \E d \in Domain : Move(d) \/ Start(d) \/ WriteIndex(d)
  \/ Summarize \/ RelateShared \/ RelateMeasured \/ EditScenario

Next == (submitted = None /\ Produce) \/ Submit \/ Validate

Spec == Init /\ [][Next]_vars

-----------------------------------------------------------------------------
(* Properties.                                                             *)

IndexedOn(b, index) == \E x \in indexed : x.index = index /\ x.boot = b

\* A relation of an accepted set that claims a shared clock is about the very
\* executions that are in the set: each ran on the boot the relation names,
\* whatever was executed, rebooted and observed before.
SharedClocksAreShared ==
  verdict = "accepted" =>
    \A r \in submitted.relations : r.method = "shared_clock_identity" =>
      \A x \in indexed :
        x.index \in {submitted.indexes[r.source_domain_id],
                     submitted.indexes[r.destination_domain_id]}
        => x.boot = r.shared_clock_identity.boot_id

\* A passed relation of an accepted set whose skew was measured is within the
\* clock policy of the scenario in the set, not of the one the observer used.
PassedSkewIsWithinPolicy ==
  verdict = "accepted" =>
    \A r \in submitted.relations : r.method = "measured_skew" /\ r.status = "passed" =>
      /\ submitted.policy.method = "measured_skew"
      /\ r.sample_count >= submitted.policy.minimum_samples
      /\ r.max_absolute_skew <= submitted.policy.maximum_absolute_skew

\* Every recording listed in an accepted set is listed with a summary that was
\* made of that recording and is in the set, however many indexes share it;
\* and no summary is of anything else.
RecordingsAreDescribed ==
  verdict = "accepted" =>
    LET listed == UNION {submitted.indexes[d].artifacts : d \in Domain} IN
    /\ \A e \in listed : e.sha256.kind = "recording" =>
         LET s == e.recording_summary.sha256 IN
         s \in submitted.summaries /\ s.source_sha256 = e.sha256
    /\ \A s \in submitted.summaries : \E e \in listed : e.sha256 = s.source_sha256

\* Nothing was executed twice, moved or edited, the observer applied the
\* scenario's policy to what the set retains, the ends of a shared clock
\* observed it, and indexes name the summaries of what they list.
Careful ==
  LET listed == UNION {submitted.indexes[d].artifacts : d \in Domain} IN
  /\ \A x, y \in indexed : x.index.domain_id = y.index.domain_id => x = y
  /\ count["move"] = 0 /\ count["edit"] = 0
  /\ \A r \in submitted.relations :
       /\ r.policy = policy
       /\ r.evidence_sha256 \in {e.sha256 : e \in listed}
       /\ r.method = "shared_clock_identity" =>
            \A d \in {r.source_domain_id, r.destination_domain_id} :
              /\ boot[d] = r.shared_clock_identity.boot_id
              /\ Observation(boot[d]) \in EvidenceOf(submitted, d)
  /\ \A e \in listed : e.sha256.kind = "recording" =>
       LET s == e.recording_summary.sha256 IN
       s.source_sha256 = e.sha256 /\ e.recording_summary.size_bytes = SummarySize(s)
  /\ submitted.summaries =
       {e.recording_summary.sha256 : e \in {a \in listed : a.recording_summary # None}}

\* A set put together with care is accepted, also when two domains share a
\* recording and its summary.
CarefulEvidenceQualifies == verdict = "rejected" => ~ Careful
=============================================================================
