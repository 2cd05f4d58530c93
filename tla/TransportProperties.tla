------------------------ MODULE TransportProperties ------------------------
(***************************************************************************)
(* What an accepted set with a transport qualification shows.              *)
(***************************************************************************)
EXTENDS Transport

\* Type invariant.  No time stamp lies in the future, and the outcomes the
\* rules of the documents demand are outcomes their schemas allow: a cancelled
\* domain makes an end-to-end status the aggregate can express.
TypeOK ==
  /\ layout \in Layouts
  /\ clock \in Nat
  /\ executing \in [Domain -> {None} \cup [started_at : 0..clock, number : Nat]]
  /\ results \in [Domain -> {None} \cup
       [started_at : 0..clock, finished_at : 0..clock, status : DomainStatus]]
  /\ indexes \in [Domain -> {None} \cup Evidence]
  /\ probing \in [Probe -> {None} \cup [started_at : 0..clock]]
  /\ reports \in [Probe -> {None} \cup
       [started_at : 0..clock, finished_at : 0..clock, status : ProbeStatus]]
  /\ transport # None => transport.status \in TransportStatus
  /\ aggregate # None => aggregate.cross_domain \in TransportStatus \cup {"unevaluated"}
  /\ verdict \in {"none", "accepted", "rejected", "crashed"}
  /\ count \in [Edited -> Nat]
  /\ author \in [Domain -> Nat]
  /\ ran \in [Domain -> Seq(Nat)]

\* An accepted end-to-end "passed" hides nothing: every domain passed, every
\* pair of domains a channel joins has a clock relation, every clock relation
\* and every channel observation passed, and every chain passed hop by hop
\* along the channels of its contract.
EndToEnd ==
  verdict = "accepted" /\ aggregate.cross_domain = "passed" =>
    /\ \A d \in Domain : results[d].status = "passed"
    /\ \A p \in Reported(Probe) : reports[p].status = "passed"
    /\ Reported(Channel) = Channel
    /\ ChannelPairs = RelationPairs
    /\ \A h \in Chain :
         /\ HopsComplete(layout.route[h], transport.chains[h].hops)
         /\ HopsPass(transport.chains[h].hops)

\* Every measurement of an accepted set was taken while the very executions
\* whose results are in the set were running, at both its ends, from its
\* first instant to its last; nothing but the time windows ties them together.
OwnMeasurements ==
  verdict = "accepted" =>
    \A p \in Reported(Probe) : \A d \in Ends(p) :
      /\ d \in Domain
      /\ reports[p].started_at < reports[p].finished_at
      /\ \A k \in reports[p].started_at .. (reports[p].finished_at - 1) :
           ran[d][k + 1] = author[d]

\* Documents that contradict each other are rejected with a diagnostic
\* (QualificationError: "individually valid qualification documents
\* contradict each other"), never with another exception.
ContradictionsAreDiagnosed == verdict # "crashed"

\* The transport qualification owns its verdict: a set whose copies are
\* right, whose measurements lie in their windows and whose verdict follows
\* the rule of its own document is not rejected for that verdict.
Honest ==
  /\ \A p \in Reported(Probe) : ProbeCheck(p) = "ok"
  /\ \A h \in Chain : ChainCheck(h) = "ok"
  /\ Pointed /\ RelationsMatch /\ RelationPairs \subseteq ChannelPairs
  /\ ContractsMatch /\ ObservationsMatch /\ TraceMatches

HonestSetQualifies == verdict # "none" /\ Honest => verdict = "accepted"
=============================================================================
