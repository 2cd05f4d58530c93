--------------------------- MODULE Qualification ---------------------------
(***************************************************************************)
(* validate_qualification_artifacts: reads the files of a qualification    *)
(* set one after the other, once each, then compares the documents it read *)
(* and publishes the digests of the bytes it read.                         *)
(*                                                                         *)
(* Meanwhile the pipeline that produces those files may still be running,  *)
(* be re-run, or die: the scenario is edited, a domain is executed again,  *)
(* the aggregate is written before or after.  The pipeline is not part of  *)
(* the repository; it is modelled from the links its documents must carry. *)
(* The set holds the six kinds every qualification has; the optional kinds *)
(* (receipts, providers, models, permits, transport) are absent, for which *)
(* the remaining stages of _validate_links have nothing to compare.        *)
(***************************************************************************)
EXTENDS Documents, FiniteSets

CONSTANTS
  Requests,   \* the --artifact lists a caller may give
  Editions,   \* bound: how many documents of each kind are ever written,
              \*   and how many writes are cut short ("torn")
  MaxClock    \* bound: the wall clock

Artifact == [subject : File, path : File]

ASSUME QualificationConstants ==
  /\ Requests \subseteq Seq(Artifact)
  /\ Editions \in [Kind \cup {"torn"} -> Nat]
  /\ MaxClock \in Nat

VARIABLES
  ledger,    \* every document ever written (Documents)
  disk,      \* path -> digest of the bytes there; 0: no such file
  clock,
  runner,    \* per domain: the execution in progress
  request,   \* the --artifact list of this invocation
  position,  \* the next element of request to load
  got,       \* subject -> digest of the bytes read; 0: not in the set
  verdict,
  metadata

pipeline  == <<ledger, disk, clock, runner>>
validator == <<position, got, verdict, metadata>>
vars == <<ledger, disk, clock, runner, request, position, got, verdict, metadata>>

\* What the set read so far says.
Names(m, f) == m[f] # 0
Doc(m, f) == ledger[m[f]]

Nothing == [f \in File |-> 0]

Idle == [phase |-> "idle"]

Job ==
  [run_id : RunId, scenario : Digest, runtime : Digest, execution : Execution,
   started_at : Time]

Runner ==
  {Idle} \cup [phase : {"started"}, job : Job]
         \cup [phase : {"indexed"}, job : Job, index : Digest]

-----------------------------------------------------------------------------
(* The pipeline (external).                                                *)

OnDisk(f) == disk[f] # 0 /\ Doc(disk, f) # Torn

\* A writer replaces the bytes of one file.
WriteFile(f, doc) ==
  /\ Cardinality({i \in DOMAIN ledger : ledger[i].kind = doc.kind}) < Editions[doc.kind]
  /\ ledger' = Append(ledger, doc)
  /\ disk' = [disk EXCEPT ![f] = Len(ledger) + 1]

WriteScenario ==
  /\ \E doc \in ScenarioDoc : WriteFile(ScenarioFile, doc)
  /\ UNCHANGED <<clock, runner, request, validator>>

WriteRun ==
  /\ OnDisk(ScenarioFile)
  /\ \E r \in RunId, S \in (SUBSET Domain) \ {{}} :
       WriteFile(RunFile,
         [kind |-> "acceptance_run", run_id |-> r, created_at |-> clock,
          scenario |-> disk[ScenarioFile], domains |-> S])
  /\ UNCHANGED <<clock, runner, request, validator>>

WriteRuntime(d) ==
  /\ OnDisk(RunFile)
  /\ d \in Doc(disk, RunFile).domains
  /\ \E x \in Execution :
       WriteFile(RuntimeFile(d),
         [kind |-> "runtime_manifest", generated_at |-> clock, execution |-> x])
  /\ UNCHANGED <<clock, runner, request, validator>>

\* A domain starts executing what is on disk now ...
StartDomain(d) ==
  /\ runner[d] = Idle
  /\ OnDisk(ScenarioFile) /\ OnDisk(RunFile) /\ OnDisk(RuntimeFile(d))
  /\ d \in Doc(disk, RunFile).domains
  /\ runner' = [runner EXCEPT ![d] =
       [phase |-> "started",
        job |-> [run_id |-> Doc(disk, RunFile).run_id,
                 scenario |-> disk[ScenarioFile],
                 runtime |-> disk[RuntimeFile(d)],
                 execution |-> Doc(disk, RuntimeFile(d)).execution,
                 started_at |-> clock]]]
  /\ UNCHANGED <<ledger, disk, clock, request, validator>>

\* ... indexes what it recorded ...
WriteIndex(d) ==
  /\ runner[d].phase = "started"
  /\ \E e \in Evidence :
       WriteFile(IndexFile(d),
         [kind |-> "evidence_index", run_id |-> runner[d].job.run_id,
          generated_at |-> clock, artifacts |-> e, ghost |-> d])
  /\ runner' = [runner EXCEPT ![d] =
       [phase |-> "indexed", job |-> runner[d].job, index |-> Len(ledger) + 1]]
  /\ UNCHANGED <<clock, request, validator>>

\* ... and reports.  Which assertions it evaluated, and every outcome it
\* claims, is up to the producer.
FinishDomain(d) ==
  /\ runner[d].phase = "indexed"
  /\ \E results \in AssertionResults, s \in ClaimStatus :
       WriteFile(ResultFile(d),
         [kind |-> "domain_result", domain_id |-> d,
          run_id |-> runner[d].job.run_id, scenario |-> runner[d].job.scenario,
          runtime |-> runner[d].job.runtime,
          execution |-> runner[d].job.execution,
          started_at |-> runner[d].job.started_at, finished_at |-> clock,
          assertion_results |-> results,
          evidence |-> ledger[runner[d].index].artifacts,
          status |-> s, ghost |-> runner[d].index])
  /\ runner' = [runner EXCEPT ![d] = Idle]
  /\ UNCHANGED <<clock, request, validator>>

\* The execution dies; what it wrote stays.
AbortDomain(d) ==
  /\ runner[d] # Idle
  /\ runner' = [runner EXCEPT ![d] = Idle]
  /\ UNCHANGED <<ledger, disk, clock, request, validator>>

\* The aggregator digests the results that are there, possibly too early,
\* and may misreport an outcome.
WriteAggregate ==
  /\ OnDisk(RunFile)
  /\ LET reported == {d \in Doc(disk, RunFile).domains : OnDisk(ResultFile(d))}
     IN  /\ reported # {}
         /\ \E claim \in [reported -> ClaimStatus], s \in ClaimStatus :
              WriteFile(AggregateFile,
                [kind |-> "acceptance_aggregate",
                 run_id |-> Doc(disk, RunFile).run_id,
                 acceptance_run |-> disk[RunFile], generated_at |-> clock,
                 per_domain_results |->
                   [d \in Domain |-> IF d \in reported
                      THEN [digest |-> disk[ResultFile(d)], status |-> claim[d]]
                      ELSE NotListed],
                 per_domain_aggregate |-> s])
  /\ UNCHANGED <<clock, runner, request, validator>>

\* A writer that truncates before it writes is interrupted.
TearFile(f) ==
  /\ OnDisk(f)
  /\ WriteFile(f, Torn)
  /\ UNCHANGED <<clock, runner, request, validator>>

Tick ==
  /\ clock < MaxClock
  /\ clock' = clock + 1
  /\ UNCHANGED <<ledger, disk, runner, request, validator>>

-----------------------------------------------------------------------------
(* The validator.                                                          *)

\* Operators marked "slip" are plausible mistakes; no action uses them.

\* slip: whatever the bytes parse to is taken
LoadableOfAnyKind(a) == disk[a.path] # 0

\* _load_artifact: one read; the digest published later is of these bytes.
Loadable(a) ==
  /\ OnDisk(a.path)
  /\ Doc(disk, a.path).kind = a.subject[1]
  /\ WellFormed(Doc(disk, a.path))

LoadArtifact ==
  /\ verdict = "none" /\ position <= Len(request)
  /\ LET a == request[position] IN
     /\ Loadable(a)
     /\ got' = [got EXCEPT ![a.subject] = disk[a.path]]
  /\ position' = position + 1
  /\ UNCHANGED <<pipeline, request, verdict, metadata>>

\* slip: a missing file is waited for
RejectArtifactOnceThere ==
  /\ verdict = "none" /\ position <= Len(request)
  /\ disk[request[position].path] # 0 /\ ~ Loadable(request[position])
  /\ verdict' = "rejected"
  /\ UNCHANGED <<pipeline, request, position, got, metadata>>

RejectArtifact ==
  /\ verdict = "none" /\ position <= Len(request)
  /\ ~ Loadable(request[position])
  /\ verdict' = "rejected"
  /\ UNCHANGED <<pipeline, request, position, got, metadata>>

\* _validate_links, over the documents in memory; its checks in code order.
SubjectsUnique ==
  \A i, j \in DOMAIN request :
    request[i].subject = request[j].subject => i = j

OneOfEach(m) ==
  \A f \in {ScenarioFile, RunFile, AggregateFile} : Names(m, f)

\* slip: the run is matched to the aggregate only
RunLinksOfAggregate(m) ==
  /\ Doc(m, RunFile).run_id = Doc(m, AggregateFile).run_id
  /\ m[RunFile] = Doc(m, AggregateFile).acceptance_run

RunLinks(m) ==
  /\ m[ScenarioFile] = Doc(m, RunFile).scenario
  /\ Doc(m, RunFile).run_id = Doc(m, AggregateFile).run_id
  /\ m[RunFile] = Doc(m, AggregateFile).acceptance_run

DomainSetsEqual(m) ==
  \A kind \in {"runtime_manifest", "domain_result", "evidence_index"} :
    {d \in Domain : Names(m, <<kind, d>>)} = Doc(m, RunFile).domains

\* slip: the index may be written after the result
ChronologicalUnclosed(m, d) ==
  /\ Doc(m, RunFile).created_at <= Doc(m, RuntimeFile(d)).generated_at
  /\ Doc(m, RuntimeFile(d)).generated_at <= Doc(m, ResultFile(d)).started_at
  /\ Doc(m, ResultFile(d)).started_at <= Doc(m, IndexFile(d)).generated_at
  /\ Doc(m, ResultFile(d)).finished_at <= Doc(m, AggregateFile).generated_at

\* slip: equal timestamps are out of order
ChronologicalStrict(m, d) ==
  /\ Doc(m, RunFile).created_at < Doc(m, RuntimeFile(d)).generated_at
  /\ Doc(m, RuntimeFile(d)).generated_at < Doc(m, ResultFile(d)).started_at
  /\ Doc(m, ResultFile(d)).started_at < Doc(m, IndexFile(d)).generated_at
  /\ Doc(m, IndexFile(d)).generated_at < Doc(m, ResultFile(d)).finished_at
  /\ Doc(m, ResultFile(d)).finished_at < Doc(m, AggregateFile).generated_at

Chronological(m, d) ==
  /\ Doc(m, RunFile).created_at <= Doc(m, RuntimeFile(d)).generated_at
  /\ Doc(m, RuntimeFile(d)).generated_at <= Doc(m, ResultFile(d)).started_at
  /\ Doc(m, ResultFile(d)).started_at <= Doc(m, IndexFile(d)).generated_at
  /\ Doc(m, IndexFile(d)).generated_at <= Doc(m, ResultFile(d)).finished_at
  /\ Doc(m, ResultFile(d)).finished_at <= Doc(m, AggregateFile).generated_at

ResultLinks(m, d) ==
  LET result == Doc(m, ResultFile(d)) IN
  /\ Doc(m, RunFile).run_id = result.run_id
  /\ d = result.domain_id
  /\ m[ScenarioFile] = result.scenario
  /\ m[RuntimeFile(d)] = result.runtime

\* What the scenario asked for, in the manifest and in the result: the fields
\* of the execution, and its evaluators and security with them.
ExecutionAligned(m, d) ==
  /\ Doc(m, ScenarioFile).execution = Doc(m, RuntimeFile(d)).execution
  /\ Doc(m, ScenarioFile).execution = Doc(m, ResultFile(d)).execution

AssertionsCovered(m, d) ==
  Doc(m, ScenarioFile).assertions \subseteq DOMAIN Doc(m, ResultFile(d)).assertion_results

EvidenceIndexed(m, d) ==
  Doc(m, ResultFile(d)).evidence = Doc(m, IndexFile(d)).artifacts

DomainLinks(m) ==
  \A d \in Doc(m, RunFile).domains :
    /\ Chronological(m, d)
    /\ ResultLinks(m, d)
    /\ ExecutionAligned(m, d)
    /\ AssertionsCovered(m, d)
    /\ EvidenceIndexed(m, d)

\* slip: the aggregate names the domains of the run, with whatever outcomes
AggregateMatchesDomains(m) ==
  Listed(Doc(m, AggregateFile)) = Doc(m, RunFile).domains

\* slip: what the aggregate lists is right, a domain may be missing from it
AggregateMatchesListed(m) ==
  LET aggregate == Doc(m, AggregateFile) IN
  \A d \in Listed(aggregate) :
    aggregate.per_domain_results[d] =
      [digest |-> m[ResultFile(d)], status |-> Doc(m, ResultFile(d)).status]

\* aggregate_results = local_results, as mappings
AggregateMatches(m) ==
  LET aggregate == Doc(m, AggregateFile) IN
  /\ Listed(aggregate) = Doc(m, RunFile).domains
  /\ \A d \in Listed(aggregate) :
       aggregate.per_domain_results[d] =
         [digest |-> m[ResultFile(d)], status |-> Doc(m, ResultFile(d)).status]

IndexRuns(m) ==
  \A d \in Doc(m, RunFile).domains :
    Doc(m, IndexFile(d)).run_id = Doc(m, RunFile).run_id

LinksHold(m) ==
  /\ OneOfEach(m)
  /\ RunLinks(m)
  /\ DomainSetsEqual(m)
  /\ DomainLinks(m)
  /\ AggregateMatches(m)
  /\ IndexRuns(m)

\* The published table: subject -> digest of the bytes read.
PublishedDigests == got

AcceptSet ==
  /\ verdict = "none" /\ position > Len(request)
  /\ SubjectsUnique /\ LinksHold(got)
  /\ verdict' = "accepted"
  /\ metadata' = PublishedDigests
  /\ UNCHANGED <<pipeline, request, position, got>>

RejectSet ==
  /\ verdict = "none" /\ position > Len(request)
  /\ ~ (SubjectsUnique /\ LinksHold(got))
  /\ verdict' = "rejected"
  /\ UNCHANGED <<pipeline, request, position, got, metadata>>

-----------------------------------------------------------------------------
Init ==
  /\ ledger = <<>>
  /\ disk = Nothing
  /\ clock = 0
  /\ runner = [d \in Domain |-> Idle]
  /\ request \in Requests
  /\ position = 1
  /\ got = Nothing
  /\ verdict = "none"
  /\ metadata = Nothing

Pipeline ==
  \/ WriteScenario
  \/ WriteRun
  \/ \E d \in Domain : WriteRuntime(d)
  \/ \E d \in Domain : StartDomain(d)
  \/ \E d \in Domain : WriteIndex(d)
  \/ \E d \in Domain : FinishDomain(d)
  \/ \E d \in Domain : AbortDomain(d)
  \/ WriteAggregate
  \/ \E f \in File : TearFile(f)
  \/ Tick

Validator == LoadArtifact \/ RejectArtifact \/ AcceptSet \/ RejectSet

Next == Pipeline \/ Validator

\* The validator is a running process; nothing obliges the pipeline to act.
Spec == Init /\ [][Next]_vars /\ WF_vars(Validator)
=============================================================================
