----------------------------- MODULE Documents -----------------------------
(***************************************************************************)
(* The contract documents of a qualification set, and the semantic rules a *)
(* single document must satisfy before it is compared with any other.      *)
(* Source: the document kinds of _qualification.py, the fields of its      *)
(* links, and the per-document rules of semantics.py.                      *)
(*                                                                         *)
(* Bytes are kept in a ledger: the sequence of all the documents anybody   *)
(* ever wrote.  The SHA-256 digest of a document is its position there, so *)
(* equal digests mean equal bytes, and 0 is the digest of nothing.         *)
(* Identifiers that a digest already fixes (scenario_id, result_id) are    *)
(* left out.  Fields named in "ghost" are not part of the bytes: no        *)
(* operator of the validator reads them.                                   *)
(***************************************************************************)
EXTENDS Naturals, Sequences, Status

CONSTANTS
  Domain,        \* acceptance domains (one ROS graph with its own verdict)
  NoDomain,      \* the label of the documents a set has only one of
  RunId, Assertion,
  Execution,     \* target environment, data source, plant, time mode, ...
  Evidence,      \* what one execution recorded (kind, uri, sha256, size, ...)
  ClaimStatus    \* outcomes a producer may write into a document

ASSUME DocumentConstants ==
  /\ NoDomain \notin Domain
  /\ ClaimStatus \subseteq OutcomeStatus

Kind == {"scenario", "acceptance_run", "acceptance_aggregate",
         "runtime_manifest", "domain_result", "evidence_index"}

\* A subject of the set: scenario.json, results/<domain>.json, ...
File == ({"scenario", "acceptance_run", "acceptance_aggregate"} \X {NoDomain})
        \cup ({"runtime_manifest", "domain_result", "evidence_index"} \X Domain)

ScenarioFile   == <<"scenario", NoDomain>>
RunFile        == <<"acceptance_run", NoDomain>>
AggregateFile  == <<"acceptance_aggregate", NoDomain>>
RuntimeFile(d) == <<"runtime_manifest", d>>
ResultFile(d)  == <<"domain_result", d>>
IndexFile(d)   == <<"evidence_index", d>>

Digest == Nat
Time   == Nat

ScenarioDoc ==
  [kind : {"scenario"}, execution : Execution, assertions : SUBSET Assertion]

RunDoc ==
  [kind : {"acceptance_run"}, run_id : RunId, created_at : Time,
   scenario : Digest, domains : (SUBSET Domain) \ {{}}]

RuntimeDoc ==
  [kind : {"runtime_manifest"}, generated_at : Time, execution : Execution]

AssertionResults == UNION {[A -> ClaimStatus] : A \in SUBSET Assertion}

\* ghost: the evidence index the same execution wrote
ResultDoc ==
  [kind : {"domain_result"}, domain_id : Domain, run_id : RunId,
   scenario : Digest, runtime : Digest, execution : Execution,
   started_at : Time, finished_at : Time,
   assertion_results : AssertionResults, evidence : Evidence,
   status : ClaimStatus, ghost : Digest]

\* ghost: the domain whose execution wrote it (the document does not say)
IndexDoc ==
  [kind : {"evidence_index"}, run_id : RunId, generated_at : Time,
   artifacts : Evidence, ghost : Domain]

\* One entry per domain the aggregator listed; NotListed for the others.
NotListed == [digest |-> 0]

DomainEntry == {NotListed} \cup [digest : Digest \ {0}, status : ClaimStatus]

AggregateDoc ==
  [kind : {"acceptance_aggregate"}, run_id : RunId, acceptance_run : Digest,
   generated_at : Time, per_domain_results : [Domain -> DomainEntry],
   per_domain_aggregate : ClaimStatus]

\* Bytes no reader can parse: a write cut short.
Torn == [kind |-> "torn"]

Document ==
  {Torn} \cup ScenarioDoc \cup RunDoc \cup RuntimeDoc \cup ResultDoc \cup IndexDoc
              \cup AggregateDoc

-----------------------------------------------------------------------------
(* What validate_document enforces of one document on its own.             *)

Listed(g) == {d \in Domain : g.per_domain_results[d] # NotListed}

\* A result is at least as severe as each assertion it evaluated.
ResultWellFormed(r) ==
  LET outcomes == {r.assertion_results[a] : a \in DOMAIN r.assertion_results}
  IN  /\ r.started_at <= r.finished_at
      /\ outcomes # {} => WorstStatus({r.status} \cup outcomes) = r.status

\* An aggregate has a domain, and reports the worst of its domains.
AggregateWellFormed(g) ==
  /\ Listed(g) # {}
  /\ g.per_domain_aggregate
       = WorstStatus({g.per_domain_results[d].status : d \in Listed(g)})

WellFormed(doc) ==
  /\ doc.kind = "domain_result" => ResultWellFormed(doc)
  /\ doc.kind = "acceptance_aggregate" => AggregateWellFormed(doc)
=============================================================================
