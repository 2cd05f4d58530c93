----------------------------- MODULE Transport -----------------------------
(***************************************************************************)
(* Cross-domain transport: how the outcomes of separate domains and of     *)
(* what was measured between them become one end-to-end verdict.           *)
(*                                                                         *)
(* The pipeline (external) executes the domains, measures the channels and *)
(* clocks between them, evaluates the causal chains into a transport       *)
(* qualification and aggregates everything.  Nothing synchronises a        *)
(* measurement with the executions at its two ends.  Both the evaluator    *)
(* and the aggregator validate what they write (semantics.py), so only     *)
(* documents that hold on their own are written.  The validator            *)
(* (_validate_transport) then compares the documents with one another;     *)
(* how they are read is the subject of Qualification.                      *)
(*                                                                         *)
(* There is one run, created at instant 0 with its contracts, so nothing   *)
(* here precedes it; a foreign run_id and an identifier given twice, which *)
(* the validator refuses before it compares anything else, do not occur,   *)
(* nor does a set without transport, of which it compares nothing.  Every  *)
(* observer has the channel contract of the set.  The evaluator writes its *)
(* document at the instant it evaluates.                                   *)
(*                                                                         *)
(* A digest is the document it is the digest of.  The aggregate and the    *)
(* transport qualification carry outcomes next to digests: copies, which   *)
(* their authors may get wrong.                                            *)
(***************************************************************************)
EXTENDS Integers, Sequences, Status

CONSTANTS
  Domain,        \* the domains of the acceptance run
  Foreign,       \* domain identifiers outside the run
  Channel,       \* transport channels, each with its contract in the set
  Stray,         \* channel identifiers no contract in the set has
  Relation,      \* clock relations
  Chain,         \* causal chains
  Layouts,       \* versions of the contracts: the ends of channels and
                 \*   relations, the chains and the domains they require
  Evidence,      \* what an execution recorded, as its evidence index lists it
  DomainStatus,  \* outcomes of a domain
  ProbeStatus,   \* outcomes of a measurement or a chain
  HopCount,      \* bound: length of the list of observed hops
  Editions,      \* bound: how often each domain is executed, each measurement
                 \*   taken, and the two documents written
  MaxClock       \* bound: the wall clock

\* The outcomes the schemas allow: only a domain can be cancelled.
TransportStatus == {"passed", "incomplete", "failed", "error"}

DomainId == Domain \cup Foreign
Probe == Channel \cup Relation
Edited == Domain \cup Probe \cup {"transport", "aggregate"}
None == [absent |-> TRUE]

Hop == [channel : Channel \cup Stray, status : ProbeStatus]
Hops == UNION {[1..n -> Hop] : n \in 0..HopCount}

Layout ==
  [ends : [Probe -> DomainId \X DomainId], route : [Chain -> Seq(Channel) \ {<<>>}],
   requires : [Chain -> SUBSET DomainId]]

ASSUME TransportConstants ==
  /\ DomainStatus \subseteq TransportStatus \cup {"cancelled"}
  /\ ProbeStatus \subseteq TransportStatus
  /\ Domain \cap Foreign = {} /\ Channel \cap (Relation \cup Stray) = {}
  /\ Domain # {} /\ Channel # {}
  /\ Layouts \subseteq Layout
  /\ Editions \in [Edited -> Nat] /\ HopCount \in Nat /\ MaxClock \in Nat

VARIABLES
  layout,
  clock,
  executing,  \* domain -> the start and number of its execution, or None
  results,    \* domain -> its result, or None
  indexes,    \* domain -> its evidence index, or None
  probing,    \* probe -> the start of its measurement, or None
  reports,    \* probe -> its observation or clock relation, or None
  transport,  \* the transport qualification, or None
  aggregate,  \* the acceptance aggregate, or None
  verdict,
  count,      \* how often each was started or written
  author,     \* ghost: domain -> number of the execution whose result is there
  ran         \* ghost: domain -> <<which execution was running at each tick>>

domains == <<executing, results, indexes, author>>
probes  == <<probing, reports>>
vars == <<layout, clock, executing, results, indexes, probing, reports,
          transport, aggregate, verdict, count, author, ran>>

Source(p)      == layout.ends[p][1]
Destination(p) == layout.ends[p][2]
Ends(p)        == {Source(p), Destination(p)}

Reported(P)   == {p \in P : reports[p] # None}
ChannelPairs  == {layout.ends[c] : c \in Channel}
RelationPairs == {layout.ends[r] : r \in Reported(Relation)}

-----------------------------------------------------------------------------
(* What a document must satisfy on its own.                                *)

\* A copied outcome next to the digest of the document it is copied from.
Entry(doc, status) == [of |-> doc, status |-> status]

\* The ends are those the document declares.
Related(t) == {r \in Relation : t.relations[r] # None}
RelatedPairs(t) == {t.contracts.ends[r] : r \in Related(t)}
DeclaredPairs(t) == {t.contracts.ends[c] : c \in Channel}

RelationsFit(t) ==
  /\ RelatedPairs(t) \subseteq DeclaredPairs(t)
  /\ \A r, s \in Related(t) : t.contracts.ends[r] = t.contracts.ends[s] => r = s

Continuous(route, ends) ==
  \A i \in 1..(Len(route) - 1) : ends[route[i]][2] = ends[route[i + 1]][1]

HopsDistinct(hops) ==
  \A i, j \in DOMAIN hops : hops[i].channel = hops[j].channel => i = j

HopsComplete(route, hops) ==
  /\ Len(hops) = Len(route)
  /\ \A i \in DOMAIN hops : hops[i].channel = route[i]

HopsPass(hops) == \A i \in DOMAIN hops : hops[i].status = "passed"

ChainFits(chain, ends) ==
  /\ Continuous(chain.channels, ends)
  /\ HopsDistinct(chain.hops)
  /\ chain.status = "passed" =>
       HopsComplete(chain.channels, chain.hops) /\ HopsPass(chain.hops)

Covered(t) ==
  UNION {{t.chains[h].channels[i] : i \in DOMAIN t.chains[h].channels} : h \in Chain}

\* Everything the verdict folds.  A channel pair without a clock relation
\* counts as incomplete.
Outcomes(t) ==
  {"passed"}
  \cup {t.relations[r].status : r \in Related(t)}
  \cup {t.observations[c].status : c \in Channel}
  \cup {t.chains[h].status : h \in Chain}
  \cup {s \in {"incomplete"} : RelatedPairs(t) # DeclaredPairs(t)}

TransportWellFormed(t) ==
  /\ {d \in DomainId : t.trace[d] # None} = UNION {{e[1], e[2]} : e \in DeclaredPairs(t)}
  /\ \A e \in DeclaredPairs(t) : e[1] # e[2]
  /\ RelationsFit(t)
  /\ \A h \in Chain : ChainFits(t.chains[h], t.contracts.ends)
  /\ Covered(t) = Channel
  /\ t.status = CollapsedWorst(Outcomes(t))

\* The end-to-end status of an aggregate whose transport was evaluated.
AggregateWellFormed(g) ==
  /\ g.per_domain_aggregate = WorstStatus({g.per_domain_results[d].status : d \in Domain})
  /\ g.cross_domain # "unevaluated" =>
       g.cross_domain = CollapsedWorst({g.per_domain_aggregate, g.transport.status})

-----------------------------------------------------------------------------
(* The pipeline (external).                                                *)

Another(x) ==
  /\ count[x] < Editions[x]
  /\ count' = [count EXCEPT ![x] = @ + 1]

StartDomain(d) ==
  /\ executing[d] = None
  /\ Another(d)
  /\ executing' = [executing EXCEPT ![d] = [started_at |-> clock, number |-> count[d] + 1]]
  /\ UNCHANGED <<layout, clock, results, indexes, author, probes, transport, aggregate,
                 verdict, ran>>

FinishDomain(d) ==
  /\ executing[d] # None
  /\ \E s \in DomainStatus, e \in Evidence :
       /\ results' = [results EXCEPT ![d] =
            [started_at |-> executing[d].started_at, finished_at |-> clock, status |-> s]]
       /\ indexes' = [indexes EXCEPT ![d] = e]
  /\ author' = [author EXCEPT ![d] = executing[d].number]
  /\ executing' = [executing EXCEPT ![d] = None]
  /\ UNCHANGED <<layout, clock, probes, transport, aggregate, verdict, count, ran>>

\* A measurement neither waits for the domains it runs between nor stops
\* with them.
StartProbe(p) ==
  /\ probing[p] = None
  /\ Another(p)
  /\ probing' = [probing EXCEPT ![p] = [started_at |-> clock]]
  /\ UNCHANGED <<layout, clock, domains, reports, transport, aggregate, verdict, ran>>

FinishProbe(p) ==
  /\ probing[p] # None /\ probing[p].started_at < clock
  /\ \E s \in ProbeStatus :
       reports' = [reports EXCEPT ![p] =
         [started_at |-> probing[p].started_at, finished_at |-> clock, status |-> s]]
  /\ probing' = [probing EXCEPT ![p] = None]
  /\ UNCHANGED <<layout, clock, domains, transport, aggregate, verdict, count, ran>>

\* The evaluator copies the outcomes of what it finds, refers to contracts
\* and judges the chains by them, either possibly of another version.
Evaluated(claim, judged, named, known, hops, s) ==
  [evaluated_at |-> clock,
   contracts |-> named,
   observations |-> [c \in Channel |-> Entry(reports[c], claim[c])],
   relations |-> [r \in Relation |->
     IF reports[r] = None THEN None ELSE Entry(reports[r], claim[r])],
   chains |-> [h \in Chain |->
     [channels |-> known.route[h], hops |-> hops[h], status |-> judged[h]]],
   trace |-> [d \in DomainId |->
     IF d \in Foreign THEN CHOOSE e \in Evidence : TRUE ELSE indexes[d]],
   status |-> s]

Evaluate ==
  /\ Another("transport")
  /\ Reported(Channel) = Channel
  /\ \E claim \in [Probe -> ProbeStatus], judged \in [Chain -> ProbeStatus],
        named, known \in Layouts, hops \in [Chain -> Hops], s \in OutcomeStatus :
       /\ TransportWellFormed(Evaluated(claim, judged, named, known, hops, s))
       /\ transport' = Evaluated(claim, judged, named, known, hops, s)
  /\ UNCHANGED <<layout, clock, domains, probes, aggregate, verdict, ran>>

Aggregate ==
  /\ Another("aggregate")
  /\ \A d \in Domain : results[d] # None
  /\ transport # None
  /\ \E claim \in [Domain -> DomainStatus], s \in ProbeStatus,
        w \in OutcomeStatus, e \in OutcomeStatus \cup {"unevaluated"} :
       LET g == [generated_at |-> clock,
                 per_domain_results |-> [d \in Domain |-> Entry(results[d], claim[d])],
                 per_domain_aggregate |-> w,
                 transport |-> Entry(transport, s), cross_domain |-> e]
       IN  /\ AggregateWellFormed(g)
           /\ aggregate' = g
  /\ UNCHANGED <<layout, clock, domains, probes, transport, verdict, ran>>

Tick ==
  /\ clock < MaxClock
  /\ clock' = clock + 1
  /\ ran' = [d \in Domain |->
       Append(ran[d], IF executing[d] = None THEN 0 ELSE executing[d].number)]
  /\ UNCHANGED <<layout, domains, probes, transport, aggregate, verdict, count>>

-----------------------------------------------------------------------------
(* The validator.  A check of one document comes out "ok", "rejected" (the *)
(* code raises QualificationError) or "crashed" (any other exception).     *)

Check(holds) == IF holds THEN "ok" ELSE "rejected"

Ordered(a, b, c, d) == a <= b /\ b <= c /\ c <= d

\* The aggregate names the results and the transport qualification that are
\* here, and was written after them.
Pointed ==
  /\ aggregate.cross_domain # "unevaluated"
  /\ transport.evaluated_at <= aggregate.generated_at
  /\ \A d \in Domain : results[d].finished_at <= transport.evaluated_at
  /\ aggregate.transport = Entry(transport, transport.status)
  /\ \A d \in Domain : aggregate.per_domain_results[d] = Entry(results[d], results[d].status)

\* A measurement lies within the executions at both its ends.
Within(p, d) ==
  Ordered(results[d].started_at, reports[p].started_at,
          reports[p].finished_at, results[d].finished_at)

EndCheck(p, d) == IF d \in Domain THEN Check(Within(p, d)) ELSE "crashed"

\* slip: only the receiving side is compared
ProbeCheckOfReceiver(p) == EndCheck(p, Destination(p))

\* Source before destination: the first that does not hold decides.
ProbeCheck(p) ==
  IF reports[p].finished_at > transport.evaluated_at THEN "rejected"
  ELSE IF EndCheck(p, Source(p)) # "ok" THEN EndCheck(p, Source(p))
  ELSE EndCheck(p, Destination(p))

\* The declared relations, with their ends and outcomes, are the ones in the set.
RelationsMatch ==
  /\ transport.relations =
       [r \in Relation |-> IF reports[r] = None THEN None
                           ELSE Entry(reports[r], reports[r].status)]
  /\ \A r \in Reported(Relation) : transport.contracts.ends[r] = layout.ends[r]

\* Without a clock relation for every pair the verdict is not conclusive.
Measured ==
  /\ RelationPairs \subseteq ChannelPairs
  /\ RelationPairs = ChannelPairs \/ transport.status \in {"incomplete", "error"}

\* The declared contracts of chains and channels are the ones in the set.
ContractsMatch ==
  /\ transport.contracts.route = layout.route
  /\ transport.contracts.requires = layout.requires
  /\ \A c \in Channel : transport.contracts.ends[c] = layout.ends[c]

\* slip: digests are compared, the outcomes copied next to them are not
ObservationsMatchDigests ==
  \A c \in Channel :
    transport.observations[c] = Entry(reports[c], transport.observations[c].status)

ObservationsMatch ==
  transport.observations = [c \in Channel |-> Entry(reports[c], reports[c].status)]

\* The domains a chain of channels runs through.
Crossed(route) == UNION {Ends(route[i]) : i \in DOMAIN route}

ChainCheck(h) ==
  LET chain == transport.chains[h] IN
  IF chain.channels # layout.route[h] THEN "rejected"
  ELSE IF layout.requires[h] # Crossed(layout.route[h]) THEN "rejected"
  ELSE IF \E i \in DOMAIN chain.hops : chain.hops[i].channel \notin Channel THEN "crashed"
  ELSE "ok"

TraceMatches ==
  /\ {d \in DomainId : transport.trace[d] # None} = Domain
  /\ \A d \in Domain : transport.trace[d] = indexes[d]

\* The checks in code order; the documents of one stage come in any order.
Stages ==
  <<{Check(Pointed)},
    {ProbeCheck(r) : r \in Reported(Relation)},
    {Check(RelationsMatch /\ Measured /\ ContractsMatch /\ ObservationsMatch)},
    {ProbeCheck(c) : c \in Channel},
    {ChainCheck(h) : h \in Chain},
    {Check(TraceMatches)}>>

Accept ==
  /\ \A i \in DOMAIN Stages : Stages[i] \subseteq {"ok"}
  /\ verdict' = "accepted"

\* The first failing check ends the run.
Stop ==
  \E i \in DOMAIN Stages :
    /\ \A j \in 1..(i - 1) : Stages[j] \subseteq {"ok"}
    /\ \E outcome \in Stages[i] \ {"ok"} : verdict' = outcome

Validate ==
  /\ aggregate # None
  /\ Accept \/ Stop
  /\ UNCHANGED <<layout, clock, domains, probes, transport, aggregate, count, ran>>

-----------------------------------------------------------------------------
Init ==
  /\ layout \in Layouts
  /\ clock = 0
  /\ executing = [d \in Domain |-> None]
  /\ results = [d \in Domain |-> None]
  /\ indexes = [d \in Domain |-> None]
  /\ probing = [p \in Probe |-> None]
  /\ reports = [p \in Probe |-> None]
  /\ transport = None
  /\ aggregate = None
  /\ verdict = "none"
  /\ count = [x \in Edited |-> 0]
  /\ author = [d \in Domain |-> 0]
  /\ ran = [d \in Domain |-> <<>>]

\* One invocation: nothing after its verdict is of interest.
Next ==
  /\ verdict = "none"
  /\ \/ \E d \in Domain : StartDomain(d) \/ FinishDomain(d)
     \/ \E p \in Probe : StartProbe(p) \/ FinishProbe(p)
     \/ Evaluate
     \/ Aggregate
     \/ Tick
     \/ Validate

Spec == Init /\ [][Next]_vars
=============================================================================
