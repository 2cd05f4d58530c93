-------------------------- MODULE MCQualification --------------------------
(***************************************************************************)
(* Small instances of Qualification for TLC.                               *)
(***************************************************************************)
EXTENDS QualificationProperties

CONSTANTS d1, d2, rec, sim

Same(f) == [subject |-> f, path |-> f]

OneDomainForward ==
  <<Same(ScenarioFile), Same(RunFile), Same(RuntimeFile(d1)),
    Same(IndexFile(d1)), Same(ResultFile(d1)), Same(AggregateFile)>>

OneDomainBackward ==
  <<Same(AggregateFile), Same(ResultFile(d1)), Same(IndexFile(d1)),
    Same(RuntimeFile(d1)), Same(RunFile), Same(ScenarioFile)>>

\* The index is read last, long after the result.
IndexLast ==
  <<Same(ScenarioFile), Same(RunFile), Same(RuntimeFile(d1)),
    Same(ResultFile(d1)), Same(AggregateFile), Same(IndexFile(d1))>>

\* A subject given twice, and a set without its evidence index.
Repeated == Append(OneDomainForward, Same(RunFile))
Missing  == <<Same(ScenarioFile), Same(RunFile), Same(RuntimeFile(d1)),
              Same(ResultFile(d1)), Same(AggregateFile)>>

\* Two domains, the second read last and right before the aggregate.
TwoDomains ==
  <<Same(ScenarioFile), Same(RunFile), Same(RuntimeFile(d1)), Same(RuntimeFile(d2)),
    Same(ResultFile(d1)), Same(IndexFile(d1)), Same(ResultFile(d2)), Same(IndexFile(d2)),
    Same(AggregateFile)>>

OnceMoreRequests == {OneDomainForward, IndexLast}
OutcomesRequests == {OneDomainForward, OneDomainBackward}
DomainsRequests  == {TwoDomains}
RerunRequests    == OnceMoreRequests \cup OutcomesRequests \cup DomainsRequests

EditedRequests == {OneDomainForward, OneDomainBackward, Repeated, Missing}

\* What the pipeline does after the verdict is of no interest to a search for
\* wrong verdicts.
Undecided == verdict = "none"

\* Written so often: scenario, run, runtime manifest, index, result,
\* aggregate, torn.
Bound(s, r, m, i, d, a, t) ==
  [scenario |-> s, acceptance_run |-> r, runtime_manifest |-> m,
   evidence_index |-> i, domain_result |-> d, acceptance_aggregate |-> a,
   torn |-> t]

\* The scenario and the run are replaced under everybody's feet.
EditedEditions == Bound(2, 2, 1, 1, 1, 1, 1)
-----------------------------------------------------------------------------
(* Three concerns that are searched one at a time.                         *)

RerunEditions == Bound(1, 1, 2, 2, 2, 2, 0)

Written(kind)   == {i \in DOMAIN ledger : ledger[i].kind = kind}
Once(kind)      == \A i, j \in Written(kind) : i = j
Only(kind, field, values) == \A i \in Written(kind) : ledger[i][field] \in values

\* No assertions, and nothing of the kind in results.
NoAssertions ==
  Only("scenario", "assertions", {{}}) /\ Only("domain_result", "assertion_results", {<<>>})

\* One domain is executed twice, and may die in between.  Everything is said
\* to be passed.
OnceMore ==
  /\ request \in OnceMoreRequests /\ Once("runtime_manifest")
  /\ Only("acceptance_run", "domains", {{d1}}) /\ NoAssertions
  /\ Only("domain_result", "status", {"passed"})
  /\ Only("acceptance_aggregate", "per_domain_aggregate", {"passed"})
  /\ \A i \in Written("acceptance_aggregate") : WellFormed(ledger[i])

\* Without time to tell them apart: everything is written at one instant, with
\* the same evidence.
AtOnce == clock = 0 /\ Only("evidence_index", "artifacts", {rec})

\* One domain reports twice, beside an aggregate of either report.
Outcomes ==
  /\ request \in OutcomesRequests
  /\ Once("runtime_manifest") /\ Once("acceptance_aggregate")
  /\ Only("acceptance_run", "domains", {{d1}})
  /\ AtOnce

\* Two executions: one of each domain, or two of one of them.
Domains ==
  /\ request \in DomainsRequests /\ Once("acceptance_aggregate")
  /\ Only("runtime_manifest", "execution", {sim}) /\ AtOnce /\ NoAssertions

\* Which of the two environments is asked for makes no difference.
OneConcern ==
  /\ Undecided /\ Only("scenario", "execution", {sim})
  /\ OnceMore \/ Outcomes \/ Domains
============================================================================
