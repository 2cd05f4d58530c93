-------------------------- MODULE TransportProofs --------------------------
(***************************************************************************)
(* For every run, layout of channels and chains, and every interleaving of *)
(* executions and measurements: what an accepted transport qualification   *)
(* shows.                                                                  *)
(***************************************************************************)
EXTENDS TransportProperties, TLAPS

\* The fold picks one of the outcomes, and passed only when all of them are
\* (worst_status).
LEMMA WorstOutcome ==
  ASSUME NEW S, S \subseteq OutcomeStatus, S # {}
  PROVE  /\ WorstStatus(S) \in S
         /\ WorstStatus(S) = "passed" <=> \A s \in S : s = "passed"
<1>1. \A s \in OutcomeStatus : StatusPriority[s] \in 0..5
  BY DEF OutcomeStatus, StatusPriority
<1>2. \A s \in OutcomeStatus : s # "passed" => ~ StatusPriority[s] <= StatusPriority["passed"]
  BY DEF OutcomeStatus, StatusPriority
<1>3. \E s \in S : \A t \in S : StatusPriority[t] <= StatusPriority[s]
  BY <1>1
<1>4. WorstStatus(S) \in S /\ \A t \in S : StatusPriority[t] <= StatusPriority[WorstStatus(S)]
  BY <1>3 DEF WorstStatus
<1>. QED
  BY <1>2, <1>4

\* The end-to-end fold reports passed exactly when everything passed.
LEMMA CollapsedPassed ==
  ASSUME NEW S, S \subseteq OutcomeStatus, S # {}, CollapsedWorst(S) = "passed"
  PROVE  \A s \in S : s = "passed"
<1>1. WorstStatus(S) = "passed"
  BY DEF CollapsedWorst, Collapse
<1>. QED
  BY <1>1, WorstOutcome

(***************************************************************************)
(* The documents that are there are well formed.                           *)
(***************************************************************************)
Claims(t) ==
  /\ \A c \in Channel : t.observations[c].status \in ProbeStatus
  /\ \A r \in Related(t) : t.relations[r].status \in ProbeStatus
  /\ \A h \in Chain : t.chains[h].status \in ProbeStatus

Documents ==
  /\ transport # None => TransportWellFormed(transport) /\ Claims(transport)
  /\ aggregate # None =>
       /\ AggregateWellFormed(aggregate)
       /\ transport # None
       /\ \A d \in Domain : aggregate.per_domain_results[d].status \in DomainStatus

LEMMA EntryFields ==
  ASSUME NEW doc, NEW s
  PROVE  /\ Entry(doc, s).of = doc
         /\ Entry(doc, s).status = s
         /\ Entry(doc, s) # None
<1>1. Entry(doc, s).of = doc /\ Entry(doc, s).status = s
  BY DEF Entry
<1>2. "of" \in DOMAIN Entry(doc, s) /\ "of" \notin DOMAIN None
  BY DEF Entry, None
<1>. QED
  BY <1>1, <1>2

\* Whoever leaves the documents alone leaves them in order.
LEMMA TransportKept ==
  ASSUME UNCHANGED transport
  PROVE  /\ TransportWellFormed(transport)' <=> TransportWellFormed(transport)
         /\ Claims(transport)' <=> Claims(transport)
<1>1. transport' = transport
  OBVIOUS
<1>2. TransportWellFormed(transport)' <=> TransportWellFormed(transport)
  BY <1>1 DEF TransportWellFormed, RelationsFit, RelatedPairs, DeclaredPairs, Related,
     ChainFits, Continuous, Covered, Outcomes
<1>3. Claims(transport)' <=> Claims(transport)
  BY <1>1 DEF Claims, Related
<1>. QED
  BY <1>2, <1>3

LEMMA DocumentsKept ==
  ASSUME Documents, UNCHANGED <<transport, aggregate>>
  PROVE  Documents'
<1>1. transport' # None => (TransportWellFormed(transport) /\ Claims(transport))'
  BY TransportKept DEF Documents
<1>2. aggregate' # None =>
       /\ AggregateWellFormed(aggregate)'
       /\ transport' # None
       /\ \A d \in Domain : aggregate.per_domain_results[d].status' \in DomainStatus
  BY DEF Documents, AggregateWellFormed
<1>. QED
  BY <1>1, <1>2 DEF Documents

LEMMA DocumentsInvariant == Spec => []Documents
<1>1. Init => Documents
  BY DEF Init, Documents
<1>2. ASSUME Documents, [Next]_vars  PROVE Documents'
  <2>1. CASE UNCHANGED vars
    BY <1>2, <2>1, DocumentsKept DEF vars
  <2>2. CASE \E d \in Domain : StartDomain(d) \/ FinishDomain(d)
    BY <1>2, <2>2, DocumentsKept DEF StartDomain, FinishDomain
  <2>3. CASE \E p \in Probe : StartProbe(p)
    BY <1>2, <2>3, DocumentsKept DEF StartProbe
  <2>4. CASE \E p \in Probe : FinishProbe(p)
    BY <1>2, <2>4, DocumentsKept DEF FinishProbe
  <2>5. CASE Evaluate
    <3>1. aggregate' = aggregate
      BY <2>5 DEF Evaluate
    <3>2. transport' # None
      <4>1. PICK claim \in [Probe -> ProbeStatus], judged \in [Chain -> ProbeStatus],
                 named, known \in Layouts, hops \in [Chain -> Hops], s \in OutcomeStatus :
              transport' = Evaluated(claim, judged, named, known, hops, s)
        BY <2>5 DEF Evaluate
      <4>2. "evaluated_at" \in DOMAIN transport' /\ "evaluated_at" \notin DOMAIN None
        BY <4>1 DEF Evaluated, None
      <4>. QED
        BY <4>2
    <3>3. Claims(transport)'
      BY <2>5 DEF Evaluate, Evaluated, Claims, Related, Entry, None, Probe
    <3>4. TransportWellFormed(transport)'
      <4>1. TransportWellFormed(transport')
        BY <2>5 DEF Evaluate
      <4>. QED
        BY <4>1 DEF TransportWellFormed, RelationsFit, RelatedPairs, DeclaredPairs, Related,
           ChainFits, Continuous, Covered, Outcomes
    <3>. QED
      BY <1>2, <3>1, <3>2, <3>3, <3>4 DEF Documents, AggregateWellFormed
  <2>6. CASE Aggregate
    <3>1. transport' = transport /\ transport # None
      BY <2>6 DEF Aggregate
    <3>2. AggregateWellFormed(aggregate)'
      BY <2>6 DEF Aggregate, AggregateWellFormed
    <3>3. \A d \in Domain : aggregate.per_domain_results[d].status' \in DomainStatus
      BY <2>6 DEF Aggregate, Entry
    <3>4. (TransportWellFormed(transport) /\ Claims(transport))'
      BY <1>2, <3>1, TransportKept DEF Documents
    <3>. QED
      BY <3>1, <3>2, <3>3, <3>4 DEF Documents
  <2>7. CASE Tick
    BY <1>2, <2>7, DocumentsKept DEF Tick
  <2>8. CASE Validate
    BY <1>2, <2>8, DocumentsKept DEF Validate
  <2>. QED
    BY <1>2, <2>1, <2>2, <2>3, <2>4, <2>5, <2>6, <2>7, <2>8 DEF Next
<1>. QED
  BY <1>1, <1>2, PTL DEF Spec

(***************************************************************************)
(* Time.  Measurements and executions, and what was running when the clock *)
(* ticked.                                                                 *)
(***************************************************************************)
Spans ==
  /\ clock \in Nat
  /\ executing \in [Domain -> {None} \cup [started_at : Nat, number : Nat]]
  /\ count \in [Edited -> Nat]
  /\ results \in [Domain -> {None} \cup
       [started_at : Nat, finished_at : Nat, status : DomainStatus]]
  /\ probing \in [Probe -> {None} \cup [started_at : Nat]]
  /\ reports \in [Probe -> {None} \cup
       [started_at : Nat, finished_at : Nat, status : ProbeStatus]]
  /\ author \in [Domain -> Nat]
  /\ ran \in [Domain -> Seq(Nat)]
  /\ \A d \in Domain : Len(ran[d]) = clock

\* An execution was the one running at every tick since it started; a result
\* covers ticks of the execution that wrote it only; a measurement takes time.
Recorded ==
  /\ \A d \in Domain : executing[d] # None =>
       \A k \in executing[d].started_at .. (clock - 1) : ran[d][k + 1] = executing[d].number
  /\ \A d \in Domain : results[d] # None =>
       /\ results[d].finished_at <= clock
       /\ \A k \in results[d].started_at .. (results[d].finished_at - 1) :
            ran[d][k + 1] = author[d]
  /\ \A p \in Probe : reports[p] # None => reports[p].started_at < reports[p].finished_at

\* Nothing is taken back.
Complete ==
  /\ transport # None => Reported(Channel) = Channel
  /\ aggregate # None => \A d \in Domain : results[d] # None

Timeline == Spans /\ Recorded /\ Complete

LEMMA NoneHasNoTimes ==
  /\ \A T, U : \A x \in [started_at : T, number : U] : x # None
  /\ \A T, U, V : \A x \in [started_at : T, finished_at : U, status : V] : x # None
  /\ \A T : \A x \in [started_at : T] : x # None
BY DEF None

LEMMA AppendedLast ==
  ASSUME NEW s \in Seq(Nat), NEW x \in Nat
  PROVE  /\ Append(s, x) \in Seq(Nat)
         /\ Len(Append(s, x)) = Len(s) + 1
         /\ \A k \in 1..Len(s) : Append(s, x)[k] = s[k]
         /\ Append(s, x)[Len(s) + 1] = x
OBVIOUS

LEMMA TimelineInvariant == Spec => []Timeline
<1>1. Init => Timeline
  BY DEF Init, Timeline, Spans, Recorded, Complete
<1>2. ASSUME Timeline, [Next]_vars  PROVE Timeline'
  <2>. USE <1>2 DEF Timeline, domains, probes
  <2>1. CASE UNCHANGED vars
    BY <2>1 DEF vars, Spans, Recorded, Complete, Reported
  <2>2. ASSUME NEW d \in Domain, StartDomain(d)  PROVE Timeline'
    <3>1. Spans'
      BY <2>2 DEF StartDomain, Another, Spans, Edited
    <3>2. Recorded'
      BY <2>2 DEF StartDomain, Spans, Recorded
    <3>. QED
      BY <2>2, <3>1, <3>2 DEF StartDomain, Complete, Reported
  <2>3. ASSUME NEW d \in Domain, FinishDomain(d)  PROVE Timeline'
    <3>1. PICK s \in DomainStatus :
            results' = [results EXCEPT ![d] =
              [started_at |-> executing[d].started_at, finished_at |-> clock, status |-> s]]
      BY <2>3 DEF FinishDomain
    <3>2. executing[d] \in [started_at : Nat, number : Nat]
      BY <2>3 DEF FinishDomain, Spans
    <3>3. Spans'
      BY <2>3, <3>1, <3>2 DEF FinishDomain, Spans
    <3>4. Recorded'
      <4>1. /\ executing' = [executing EXCEPT ![d] = None]
            /\ author' = [author EXCEPT ![d] = executing[d].number]
            /\ executing[d] # None /\ UNCHANGED <<clock, reports, ran>>
        BY <2>3 DEF FinishDomain, probes
      <4>2. \A c \in Domain : executing'[c] # None => executing'[c] = executing[c]
        BY <4>1 DEF Spans
      <4>3. \A c \in Domain \ {d} : results'[c] = results[c] /\ author'[c] = author[c]
        BY <3>1, <4>1 DEF Spans
      <4>4. /\ results'[d].started_at = executing[d].started_at
            /\ results'[d].finished_at = clock
            /\ author'[d] = executing[d].number /\ clock \in Nat
        BY <3>1, <4>1 DEF Spans
      <4>. QED
        BY <4>1, <4>2, <4>3, <4>4 DEF Recorded
    <3>5. results'[d] # None
      BY <3>1, NoneHasNoTimes DEF Spans
    <3>. QED
      BY <2>3, <3>1, <3>3, <3>4, <3>5 DEF FinishDomain, Complete, Reported, Spans
  <2>4. ASSUME NEW p \in Probe, StartProbe(p)  PROVE Timeline'
    <3>1. Spans'
      BY <2>4 DEF StartProbe, Another, Spans, Edited
    <3>. QED
      BY <2>4, <3>1 DEF StartProbe, Recorded, Complete, Reported
  <2>5. ASSUME NEW p \in Probe, FinishProbe(p)  PROVE Timeline'
    <3>1. PICK s \in ProbeStatus :
            reports' = [reports EXCEPT ![p] =
              [started_at |-> probing[p].started_at, finished_at |-> clock, status |-> s]]
      BY <2>5 DEF FinishProbe
    <3>2. probing[p] \in [started_at : Nat]
      BY <2>5 DEF FinishProbe, Spans
    <3>3. Spans'
      BY <2>5, <3>1, <3>2 DEF FinishProbe, Spans
    <3>4. Recorded'
      BY <2>5, <3>1, <3>2 DEF FinishProbe, Spans, Recorded
    <3>5. reports'[p] # None
      <4>1. reports'[p] =
              [started_at |-> probing[p].started_at, finished_at |-> clock, status |-> s]
        BY <3>1 DEF Spans
      <4>. QED
        BY <4>1 DEF None
    <3>6. \A q \in Channel : reports[q] # None => reports'[q] # None
      BY <2>5, <3>1, <3>5 DEF FinishProbe, Spans, Probe
    <3>7. UNCHANGED <<transport, aggregate, results>>
      BY <2>5 DEF FinishProbe, domains
    <3>8. Complete'
      BY <3>6, <3>7 DEF Complete, Reported
    <3>. QED
      BY <3>3, <3>4, <3>8
  <2>6. CASE Evaluate
    <3>1. Spans'
      BY <2>6 DEF Evaluate, Another, Spans, Edited
    <3>. QED
      BY <2>6, <3>1 DEF Evaluate, Recorded, Complete, Reported
  <2>7. CASE Aggregate
    <3>1. Spans'
      BY <2>7 DEF Aggregate, Another, Spans, Edited
    <3>. QED
      BY <2>7, <3>1 DEF Aggregate, Recorded, Complete, Reported
  <2>8. CASE Tick
    <3>. DEFINE at(d) == IF executing[d] = None THEN 0 ELSE executing[d].number
    <3>1. \A d \in Domain : ran'[d] = Append(ran[d], at(d)) /\ at(d) \in Nat
      BY <2>8 DEF Tick, Spans
    <3>2. \A d \in Domain :
            /\ ran'[d] \in Seq(Nat) /\ Len(ran'[d]) = clock + 1
            /\ \A k \in 1..clock : ran'[d][k] = ran[d][k]
            /\ ran'[d][clock + 1] = at(d)
      <4>1. ASSUME NEW d \in Domain
            PROVE  ran[d] \in Seq(Nat) /\ Len(ran[d]) = clock /\ at(d) \in Nat
                   /\ ran'[d] = Append(ran[d], at(d))
        BY <3>1 DEF Spans
      <4>. HIDE DEF at
      <4>2. ASSUME NEW d \in Domain
            PROVE  /\ ran'[d] \in Seq(Nat) /\ Len(ran'[d]) = clock + 1
                   /\ \A k \in 1..clock : ran'[d][k] = ran[d][k]
                   /\ ran'[d][clock + 1] = at(d)
        <5>. DEFINE s == ran[d]
                    x == at(d)
        <5>1. s \in Seq(Nat) /\ x \in Nat /\ Len(s) = clock /\ ran'[d] = Append(s, x)
          BY <4>1
        <5>. HIDE DEF s, x
        <5>2. /\ Append(s, x) \in Seq(Nat)
              /\ Len(Append(s, x)) = Len(s) + 1
              /\ \A k \in 1..Len(s) : Append(s, x)[k] = s[k]
              /\ Append(s, x)[Len(s) + 1] = x
          BY <5>1, AppendedLast
        <5>3. /\ ran'[d] \in Seq(Nat) /\ Len(ran'[d]) = clock + 1
              /\ \A k \in 1..clock : ran'[d][k] = s[k]
              /\ ran'[d][clock + 1] = x
          BY <5>1, <5>2
        <5>. QED
          BY <5>3 DEF s, x
      <4>. QED
        BY <4>2
    <3>3. clock' = clock + 1 /\ clock \in Nat
      BY <2>8 DEF Tick, Spans
    <3>4. Spans'
      BY <2>8, <3>2, <3>3 DEF Tick, Spans
    <3>5. UNCHANGED <<executing, results, author, reports, transport, aggregate>>
      BY <2>8 DEF Tick
    <3>6. Recorded'
      <4>1. ASSUME NEW d \in Domain, executing[d] # None,
                   NEW k \in executing[d].started_at .. clock
            PROVE  ran'[d][k + 1] = executing[d].number
        <5>1. executing[d].started_at \in Nat
          BY <4>1 DEF Spans
        <5>2. CASE k = clock
          BY <3>2, <4>1, <5>2
        <5>3. CASE k # clock
          <6>1. k \in executing[d].started_at .. (clock - 1) /\ k + 1 \in 1..clock
            BY <3>3, <4>1, <5>1, <5>3
          <6>2. ran[d][k + 1] = executing[d].number
            BY <4>1, <6>1 DEF Recorded
          <6>3. ran'[d][k + 1] = ran[d][k + 1]
            BY <3>2, <4>1, <6>1
          <6>. QED
            BY <6>2, <6>3
        <5>. QED
          BY <5>2, <5>3
      <4>2. ASSUME NEW d \in Domain, results[d] # None
            PROVE  /\ results[d].finished_at <= clock + 1
                   /\ \A k \in results[d].started_at .. (results[d].finished_at - 1) :
                        ran'[d][k + 1] = author[d]
        <5>1. results[d].started_at \in Nat /\ results[d].finished_at \in Nat
          BY <4>2 DEF Spans
        <5>. QED
          BY <3>2, <3>3, <4>2, <5>1 DEF Recorded
      <4>. QED
        BY <3>3, <3>5, <4>1, <4>2 DEF Recorded
    <3>. QED
      BY <3>4, <3>5, <3>6 DEF Complete, Reported
  <2>9. CASE Validate
    BY <2>9 DEF Validate, Spans, Recorded, Complete, Reported
  <2>. QED
    BY <2>1, <2>2, <2>3, <2>4, <2>5, <2>6, <2>7, <2>8, <2>9 DEF Next
<1>. QED
  BY <1>1, <1>2, PTL DEF Spec

(***************************************************************************)
(* An end-to-end "passed" hides nothing.                                   *)
(***************************************************************************)
StagesHold ==
  /\ Pointed
  /\ \A r \in Reported(Relation) : ProbeCheck(r) = "ok"
  /\ RelationsMatch /\ Measured /\ ContractsMatch /\ ObservationsMatch
  /\ \A c \in Channel : ProbeCheck(c) = "ok"
  /\ \A h \in Chain : ChainCheck(h) = "ok"
  /\ TraceMatches

LEMMA CheckOk ==
  ASSUME NEW b \in BOOLEAN, Check(b) = "ok"
  PROVE  b
BY DEF Check

\* No stage yields the verdict "accepted".
LEMMA OnlyAcceptAccepts ==
  ASSUME Validate, verdict' = "accepted"
  PROVE  StagesHold
<1>1. DOMAIN Stages = 1..6
  BY DEF Stages
<1>2. \A i \in 1..6 : Stages[i] \subseteq {"ok", "rejected", "crashed"}
  <2>1. \A p \in Probe : ProbeCheck(p) \in {"ok", "rejected", "crashed"}
    BY DEF ProbeCheck, EndCheck, Check
  <2>2. \A h \in Chain : ChainCheck(h) \in {"ok", "rejected", "crashed"}
    BY DEF ChainCheck
  <2>3. \A b : Check(b) \in {"ok", "rejected", "crashed"}
    BY DEF Check
  <2>. QED
    BY <2>1, <2>2, <2>3 DEF Stages, Reported, Probe
<1>3. \A i \in 1..6 : Stages[i] \subseteq {"ok"}
  BY <1>1, <1>2 DEF Validate, Accept, Stop
<1>4. /\ Stages[1] = {Check(Pointed)}
      /\ Stages[2] = {ProbeCheck(r) : r \in Reported(Relation)}
      /\ Stages[3] = {Check(RelationsMatch /\ Measured /\ ContractsMatch /\ ObservationsMatch)}
      /\ Stages[4] = {ProbeCheck(c) : c \in Channel}
      /\ Stages[5] = {ChainCheck(h) : h \in Chain}
      /\ Stages[6] = {Check(TraceMatches)}
  BY DEF Stages
<1>5. Check(Pointed) = "ok" /\ Check(TraceMatches) = "ok"
      /\ Check(RelationsMatch /\ Measured /\ ContractsMatch /\ ObservationsMatch) = "ok"
  BY <1>3, <1>4
<1>6. Pointed /\ TraceMatches /\ RelationsMatch /\ Measured /\ ContractsMatch /\ ObservationsMatch
  BY <1>5 DEF Check
<1>. QED
  BY <1>3, <1>4, <1>6 DEF StagesHold

Judged == verdict = "accepted" => aggregate # None /\ StagesHold

LEMMA JudgedInvariant == Spec => []Judged
<1>1. Init => Judged
  BY DEF Init, Judged
<1>2. ASSUME Judged, [Next]_vars  PROVE Judged'
  <2>1. CASE verdict = "accepted"
    <3>1. UNCHANGED vars
      BY <1>2, <2>1 DEF Next
    <3>2. StagesHold' <=> StagesHold
      BY <3>1 DEF vars, StagesHold, Pointed, Reported, ProbeCheck, EndCheck, Within, Source,
         Destination, Ends, RelationsMatch, Measured, RelationPairs, ChannelPairs,
         ContractsMatch, ObservationsMatch, ChainCheck, Crossed, TraceMatches
    <3>. QED
      BY <1>2, <3>1, <3>2 DEF vars, Judged
  <2>2. CASE verdict # "accepted"
    <3>. SUFFICES ASSUME verdict' = "accepted"  PROVE (aggregate # None /\ StagesHold)'
      BY DEF Judged
    <3>1. Validate
      BY <1>2, <2>2 DEF Next, vars, StartDomain, FinishDomain, StartProbe, FinishProbe,
         Evaluate, Aggregate, Tick
    <3>2. StagesHold /\ aggregate # None
      BY <3>1, OnlyAcceptAccepts DEF Validate
    <3>3. UNCHANGED <<layout, clock, domains, probes, transport, aggregate, count, ran>>
      BY <3>1 DEF Validate
    <3>4. StagesHold' <=> StagesHold
      BY <3>3 DEF domains, probes, StagesHold, Pointed, Reported, ProbeCheck, EndCheck,
         Within, Source, Destination, Ends, RelationsMatch, Measured, RelationPairs,
         ChannelPairs, ContractsMatch, ObservationsMatch, ChainCheck, Crossed, TraceMatches
    <3>. QED
      BY <3>2, <3>3, <3>4
  <2>. QED
    BY <2>1, <2>2
<1>. QED
  BY <1>1, <1>2, PTL DEF Spec

\* Whatever is folded into the verdicts is an outcome, ...
LEMMA FoldsOutcomes ==
  ASSUME Documents, aggregate # None
  PROVE  /\ Outcomes(transport) \subseteq OutcomeStatus
         /\ "passed" \in Outcomes(transport)
         /\ transport.status \in OutcomeStatus
         /\ aggregate.per_domain_aggregate \in OutcomeStatus
         /\ {aggregate.per_domain_results[d].status : d \in Domain} \subseteq OutcomeStatus
<1>1. TransportWellFormed(transport) /\ Claims(transport) /\ AggregateWellFormed(aggregate)
  BY DEF Documents
<1>2. ProbeStatus \subseteq OutcomeStatus /\ DomainStatus \subseteq OutcomeStatus
      /\ {"passed", "incomplete"} \subseteq OutcomeStatus
  BY TransportConstants DEF TransportStatus, OutcomeStatus
<1>3. Outcomes(transport) \subseteq OutcomeStatus
  BY <1>1, <1>2 DEF Outcomes, Claims
<1>4. "passed" \in Outcomes(transport)
  BY DEF Outcomes
<1>5. WorstStatus(Outcomes(transport)) \in OutcomeStatus
  BY <1>3, <1>4, WorstOutcome
<1>6. transport.status \in OutcomeStatus
  BY <1>1, <1>2, <1>5 DEF TransportWellFormed, CollapsedWorst, Collapse
<1>7. {aggregate.per_domain_results[d].status : d \in Domain} \subseteq OutcomeStatus
  BY <1>2 DEF Documents
<1>8. {aggregate.per_domain_results[d].status : d \in Domain} # {}
  BY TransportConstants
<1>9. WorstStatus({aggregate.per_domain_results[d].status : d \in Domain}) \in OutcomeStatus
  BY <1>7, <1>8, WorstOutcome
<1>10. aggregate.per_domain_aggregate \in OutcomeStatus
  BY <1>1, <1>9 DEF AggregateWellFormed
<1>. QED
  BY <1>3, <1>4, <1>6, <1>7, <1>10

\* An accepted end-to-end "passed" hides nothing (_validate_acceptance_aggregate
\* over _validate_transport_qualification over _validate_transport): no domain,
\* clock relation, channel, chain or hop behind it did anything but pass, and
\* none was left out.
THEOREM PassedEndToEnd == Spec => []EndToEnd
<1>1. ASSUME Documents, Timeline, Judged  PROVE EndToEnd
  <2>. SUFFICES ASSUME verdict = "accepted", aggregate.cross_domain = "passed"
                PROVE  /\ \A d \in Domain : results[d].status = "passed"
                       /\ \A p \in Reported(Probe) : reports[p].status = "passed"
                       /\ Reported(Channel) = Channel
                       /\ ChannelPairs = RelationPairs
                       /\ \A h \in Chain :
                            /\ HopsComplete(layout.route[h], transport.chains[h].hops)
                            /\ HopsPass(transport.chains[h].hops)
    BY DEF EndToEnd
  <2>1. aggregate # None /\ StagesHold
    BY <1>1 DEF Judged
  <2>2. TransportWellFormed(transport) /\ AggregateWellFormed(aggregate) /\ transport # None
    BY <1>1, <2>1 DEF Documents
  <2>3. aggregate.per_domain_aggregate = "passed" /\ transport.status = "passed"
    <3>1. aggregate.transport.status = transport.status
      BY <2>1, EntryFields DEF StagesHold, Pointed
    <3>2. CollapsedWorst({aggregate.per_domain_aggregate, transport.status}) = "passed"
      BY <2>2, <3>1 DEF AggregateWellFormed
    <3>3. {aggregate.per_domain_aggregate, transport.status} \subseteq OutcomeStatus
      BY <1>1, <2>1, FoldsOutcomes
    <3>. QED
      BY <3>2, <3>3, CollapsedPassed
  <2>4. \A d \in Domain : results[d].status = "passed"
    <3>. DEFINE claims == {aggregate.per_domain_results[d].status : d \in Domain}
    <3>1. claims \subseteq OutcomeStatus /\ claims # {}
      BY <1>1, <2>1, FoldsOutcomes, TransportConstants
    <3>2. WorstStatus(claims) = "passed"
      BY <2>2, <2>3 DEF AggregateWellFormed
    <3>3. \A s \in claims : s = "passed"
      <4>. HIDE DEF claims
      <4>. QED
        BY <3>1, <3>2, WorstOutcome
    <3>4. \A d \in Domain : aggregate.per_domain_results[d].status = results[d].status
      BY <2>1, EntryFields DEF StagesHold, Pointed
    <3>. QED
      BY <3>3, <3>4
  <2>5. \A s \in Outcomes(transport) : s = "passed"
    <3>1. CollapsedWorst(Outcomes(transport)) = "passed"
      BY <2>2, <2>3 DEF TransportWellFormed
    <3>. QED
      BY <1>1, <2>1, <3>1, FoldsOutcomes, CollapsedPassed
  <2>6. \A r \in Relation :
          transport.relations[r] = IF reports[r] = None THEN None
                                   ELSE Entry(reports[r], reports[r].status)
    BY <2>1 DEF StagesHold, RelationsMatch
  <2>7. Related(transport) = Reported(Relation)
    BY <2>6, EntryFields DEF Related, Reported
  <2>8. \A r \in Reported(Relation) : reports[r].status = "passed"
    <3>1. \A r \in Reported(Relation) : transport.relations[r].status = reports[r].status
      BY <2>6, EntryFields DEF Reported
    <3>2. \A r \in Related(transport) : transport.relations[r].status = "passed"
      BY <2>5 DEF Outcomes
    <3>. QED
      BY <2>7, <3>1, <3>2
  <2>9. \A c \in Channel : reports[c].status = "passed"
    <3>1. \A c \in Channel : transport.observations[c].status = reports[c].status
      BY <2>1, EntryFields DEF StagesHold, ObservationsMatch
    <3>2. \A c \in Channel : transport.observations[c].status = "passed"
      BY <2>5 DEF Outcomes
    <3>. QED
      BY <3>1, <3>2
  <2>10. Reported(Channel) = Channel
    BY <1>1, <2>2 DEF Timeline, Complete
  <2>11. ChannelPairs = RelationPairs
    BY <2>1, <2>3 DEF StagesHold, Measured
  <2>12. \A h \in Chain : /\ HopsComplete(layout.route[h], transport.chains[h].hops)
                          /\ HopsPass(transport.chains[h].hops)
    <3>1. \A h \in Chain : transport.chains[h].status = "passed"
      BY <2>5 DEF Outcomes
    <3>2. \A h \in Chain : transport.chains[h].channels = layout.route[h]
      BY <2>1 DEF StagesHold, ChainCheck
    <3>. QED
      BY <2>2, <3>1, <3>2 DEF TransportWellFormed, ChainFits
  <2>. QED
    BY <2>4, <2>8, <2>9, <2>10, <2>11, <2>12 DEF Reported, Probe
<1>. QED
  BY <1>1, DocumentsInvariant, TimelineInvariant, JudgedInvariant, PTL

\* Every measurement of an accepted set was taken while the executions whose
\* results are in the set were running, at both its ends, from its first
\* instant to its last (the time windows of _validate_transport): re-executing
\* a domain invalidates everything that was measured against it before.
THEOREM MeasuredOnTheSpot == Spec => []OwnMeasurements
<1>1. ASSUME Timeline, Judged  PROVE OwnMeasurements
  <2>. SUFFICES ASSUME verdict = "accepted",
                       NEW p \in Reported(Probe), NEW d \in Ends(p)
                PROVE  /\ d \in Domain
                       /\ reports[p].started_at < reports[p].finished_at
                       /\ \A k \in reports[p].started_at .. (reports[p].finished_at - 1) :
                            ran[d][k + 1] = author[d]
    BY DEF OwnMeasurements
  <2>1. StagesHold /\ aggregate # None
    BY <1>1 DEF Judged
  <2>2. ProbeCheck(p) = "ok"
    BY <2>1 DEF StagesHold, Reported, Probe
  <2>3. EndCheck(p, d) = "ok"
    BY <2>2 DEF ProbeCheck, Ends
  <2>4. d \in Domain /\ Within(p, d)
    BY <2>3 DEF EndCheck, Check
  <2>5. /\ results[d] \in [started_at : Nat, finished_at : Nat, status : DomainStatus]
        /\ reports[p] \in [started_at : Nat, finished_at : Nat, status : ProbeStatus]
    BY <1>1, <2>1, <2>4 DEF Timeline, Spans, Complete, Reported
  <2>6. /\ results[d].started_at <= reports[p].started_at
        /\ reports[p].finished_at <= results[d].finished_at
    BY <2>4 DEF Within, Ordered
  <2>7. /\ reports[p].started_at < reports[p].finished_at
        /\ \A k \in results[d].started_at .. (results[d].finished_at - 1) :
             ran[d][k + 1] = author[d]
    BY <1>1, <2>1, <2>4 DEF Timeline, Recorded, Complete, Reported
  <2>8. ASSUME NEW k \in reports[p].started_at .. (reports[p].finished_at - 1)
        PROVE  k \in results[d].started_at .. (results[d].finished_at - 1)
    <3>1. /\ results[d].started_at \in Int /\ results[d].finished_at \in Int
          /\ reports[p].started_at \in Int /\ reports[p].finished_at \in Int
      BY <2>5
    <3>. QED
      BY <2>6, <3>1
  <2>. QED
    BY <2>4, <2>7, <2>8
<1>. QED
  BY <1>1, TimelineInvariant, JudgedInvariant, PTL

(***************************************************************************)
(* Types.                                                                  *)
(***************************************************************************)
\* Two outcomes cannot be the end-to-end fold of others: one is folded away
\* (cancelled), the other no document reports (skipped).
LEMMA FoldedInBounds ==
  ASSUME NEW S, S \subseteq TransportStatus \cup {"cancelled"}, S # {}
  PROVE  /\ WorstStatus(S) \in S
         /\ CollapsedWorst(S) \in TransportStatus
<1>1. S \subseteq OutcomeStatus
  BY DEF TransportStatus, OutcomeStatus
<1>2. WorstStatus(S) \in S
  BY <1>1, WorstOutcome
<1>. QED
  BY <1>2 DEF CollapsedWorst, Collapse, TransportStatus

\* No time stamp lies in the future, and a result comes with its evidence.
Dated ==
  /\ layout \in Layouts
  /\ indexes \in [Domain -> {None} \cup Evidence]
  /\ verdict \in {"none", "accepted", "rejected", "crashed"}
  /\ \A d \in Domain : executing[d] # None => executing[d].started_at <= clock
  /\ \A d \in Domain : results[d] # None =>
       results[d].started_at <= clock /\ results[d].finished_at <= clock
  /\ \A p \in Probe : probing[p] # None => probing[p].started_at <= clock
  /\ \A p \in Probe : reports[p] # None =>
       reports[p].started_at <= clock /\ reports[p].finished_at <= clock
  /\ aggregate # None => aggregate.transport.status \in ProbeStatus

LEMMA DatedInit == Init => Dated
BY DEF Init, Dated

LEMMA DatedNext ==
  ASSUME Spans, Dated, [Next]_vars
  PROVE  Dated'
<1>. USE DEF domains, probes
<1>1. CASE UNCHANGED vars
  BY <1>1 DEF vars, Dated
<1>2. ASSUME NEW d \in Domain, StartDomain(d)  PROVE Dated'
  BY <1>2 DEF StartDomain, Spans, Dated
<1>3. ASSUME NEW d \in Domain, FinishDomain(d)  PROVE Dated'
  <2>1. PICK s \in DomainStatus, e \in Evidence :
          /\ results' = [results EXCEPT ![d] =
               [started_at |-> executing[d].started_at, finished_at |-> clock, status |-> s]]
          /\ indexes' = [indexes EXCEPT ![d] = e]
    BY <1>3 DEF FinishDomain
  <2>2. /\ executing' = [executing EXCEPT ![d] = None] /\ executing[d] # None
        /\ UNCHANGED <<layout, clock, probing, reports, aggregate, verdict>>
    BY <1>3 DEF FinishDomain
  <2>3. /\ results'[d].started_at = executing[d].started_at
        /\ results'[d].finished_at = clock
        /\ \A e2 \in Domain \ {d} : results'[e2] = results[e2] /\ executing'[e2] = executing[e2]
        /\ executing'[d] = None
    BY <2>1, <2>2 DEF Spans
  <2>4. indexes' \in [Domain -> {None} \cup Evidence]
    BY <2>1 DEF Dated
  <2>5. clock <= clock
    BY DEF Spans
  <2>. QED
    BY <2>2, <2>3, <2>4, <2>5 DEF Dated
<1>4. ASSUME NEW p \in Probe, StartProbe(p)  PROVE Dated'
  BY <1>4 DEF StartProbe, Spans, Dated
<1>5. ASSUME NEW p \in Probe, FinishProbe(p)  PROVE Dated'
  <2>1. PICK s \in ProbeStatus :
          reports' = [reports EXCEPT ![p] =
            [started_at |-> probing[p].started_at, finished_at |-> clock, status |-> s]]
    BY <1>5 DEF FinishProbe
  <2>2. /\ probing' = [probing EXCEPT ![p] = None] /\ probing[p] # None
        /\ UNCHANGED <<layout, clock, executing, results, indexes, aggregate, verdict>>
    BY <1>5 DEF FinishProbe
  <2>3. /\ reports'[p].started_at = probing[p].started_at
        /\ reports'[p].finished_at = clock
        /\ \A q \in Probe \ {p} : reports'[q] = reports[q] /\ probing'[q] = probing[q]
        /\ probing'[p] = None
    BY <2>1, <2>2 DEF Spans
  <2>4. clock <= clock
    BY DEF Spans
  <2>. QED
    BY <2>2, <2>3, <2>4 DEF Dated
<1>6. CASE Evaluate
  BY <1>6 DEF Evaluate, Dated
<1>7. CASE Aggregate
  <2>1. aggregate'.transport.status \in ProbeStatus
    BY <1>7, EntryFields DEF Aggregate
  <2>. QED
    BY <1>7, <2>1 DEF Aggregate, Dated
<1>8. CASE Tick
  <2>1. clock' = clock + 1 /\ clock \in Nat
    BY <1>8 DEF Tick, Spans
  <2>2. \A d \in Domain : /\ executing[d] # None => executing[d].started_at \in Nat
                          /\ results[d] # None => results[d].started_at \in Nat
                                                 /\ results[d].finished_at \in Nat
    BY DEF Spans
  <2>3. \A p \in Probe : /\ probing[p] # None => probing[p].started_at \in Nat
                         /\ reports[p] # None => reports[p].started_at \in Nat
                                                /\ reports[p].finished_at \in Nat
    BY DEF Spans
  <2>. QED
    BY <1>8, <2>1, <2>2, <2>3 DEF Tick, Dated
<1>9. CASE Validate
  <2>1. verdict' \in {"accepted", "rejected", "crashed"}
    <3>1. \A p \in Probe : ProbeCheck(p) \in {"ok", "rejected", "crashed"}
      BY DEF ProbeCheck, EndCheck, Check
    <3>2. \A h \in Chain : ChainCheck(h) \in {"ok", "rejected", "crashed"}
      BY DEF ChainCheck
    <3>3. \A b : Check(b) \in {"ok", "rejected", "crashed"}
      BY DEF Check
    <3>4. \A i \in DOMAIN Stages : Stages[i] \subseteq {"ok", "rejected", "crashed"}
      BY <3>1, <3>2, <3>3 DEF Stages, Reported, Probe
    <3>. QED
      BY <1>9, <3>4 DEF Validate, Accept, Stop
  <2>. QED
    BY <1>9, <2>1 DEF Validate, Dated
<1>. QED
  BY <1>1, <1>2, <1>3, <1>4, <1>5, <1>6, <1>7, <1>8, <1>9 DEF Next

LEMMA DatedInvariant == Spec => []Dated
<1>1. Spans /\ Dated /\ [Next]_vars => Dated'
  BY DatedNext
<1>2. Timeline => Spans
  BY DEF Timeline
<1>. QED
  BY <1>1, <1>2, DatedInit, TimelineInvariant, PTL DEF Spec

\* The outcomes folded into the two documents are outcomes their schemas
\* allow (worst_status in status.py, with collapse_cancelled): a cancelled
\* domain does not make an aggregate that cannot be written.
LEMMA StatusesAllowed ==
  ASSUME Documents, Dated
  PROVE  /\ transport # None => transport.status \in TransportStatus
         /\ aggregate # None => aggregate.cross_domain \in TransportStatus \cup {"unevaluated"}
<1>. USE TransportConstants
<1>1. ASSUME transport # None  PROVE transport.status \in TransportStatus
  <2>1. Outcomes(transport) \subseteq TransportStatus /\ Outcomes(transport) # {}
    BY <1>1 DEF Documents, Claims, Outcomes, TransportStatus
  <2>. QED
    BY <1>1, <2>1, FoldedInBounds DEF Documents, TransportWellFormed
<1>2. ASSUME aggregate # None, aggregate.cross_domain # "unevaluated"
      PROVE  aggregate.cross_domain \in TransportStatus
  <2>. DEFINE claims == {aggregate.per_domain_results[d].status : d \in Domain}
              both == {aggregate.per_domain_aggregate, aggregate.transport.status}
  <2>1. claims \subseteq TransportStatus \cup {"cancelled"} /\ claims # {}
    BY <1>2 DEF Documents
  <2>2. WorstStatus(claims) \in claims
    <3>. HIDE DEF claims
    <3>. QED
      BY <2>1, FoldedInBounds
  <2>3. both \subseteq TransportStatus \cup {"cancelled"} /\ both # {}
    BY <1>2, <2>1, <2>2 DEF Documents, AggregateWellFormed, Dated
  <2>4. CollapsedWorst(both) \in TransportStatus
    <3>. HIDE DEF both
    <3>. QED
      BY <2>3, FoldedInBounds
  <2>. QED
    BY <1>2, <2>4 DEF Documents, AggregateWellFormed
<1>. QED
  BY <1>1, <1>2

\* Documents are what their schemas allow, and none comes from the future.
THEOREM TransportTypes == Spec => []TypeOK
<1>1. ASSUME Documents, Spans, Dated  PROVE TypeOK
  <2>1. clock \in Nat
    BY <1>1 DEF Spans
  <2>2. executing \in [Domain -> {None} \cup [started_at : 0..clock, number : Nat]]
    BY <1>1, <2>1 DEF Spans, Dated
  <2>3. results \in [Domain -> {None} \cup
          [started_at : 0..clock, finished_at : 0..clock, status : DomainStatus]]
    BY <1>1, <2>1 DEF Spans, Dated
  <2>4. probing \in [Probe -> {None} \cup [started_at : 0..clock]]
    BY <1>1, <2>1 DEF Spans, Dated
  <2>5. reports \in [Probe -> {None} \cup
          [started_at : 0..clock, finished_at : 0..clock, status : ProbeStatus]]
    BY <1>1, <2>1 DEF Spans, Dated
  <2>. QED
    BY <1>1, <2>1, <2>2, <2>3, <2>4, <2>5, StatusesAllowed DEF Spans, Dated, TypeOK
<1>2. Timeline => Spans
  BY DEF Timeline
<1>. QED
  BY <1>1, <1>2, DocumentsInvariant, TimelineInvariant, DatedInvariant, PTL
=============================================================================
