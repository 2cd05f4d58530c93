------------------------ MODULE QualificationProofs ------------------------
(***************************************************************************)
(* Qualification is correct for every set of domains, runs, assertions and *)
(* evidence, every request, and every bound: it is well typed, it          *)
(* implements Certification, an accepted evidence index belongs to the     *)
(* execution it sits next to although no digest links the two, and a set   *)
(* written once is only rejected for a producer's fault.                   *)
(***************************************************************************)
EXTENDS QualificationProperties, FiniteSetTheorems, TLAPS

(***************************************************************************)
(* Outcomes: what worst_status returns for every non-empty collection.     *)
(***************************************************************************)
\* The fold is well defined: some outcome of the collection is at least as
\* severe as all of it (worst_status takes the max of a total order).
LEMMA SomeWorst ==
  ASSUME NEW S, S \subseteq OutcomeStatus, S # {}
  PROVE  \E s \in S : \A t \in S : StatusPriority[t] <= StatusPriority[s]
<1>1. \A s \in OutcomeStatus : StatusPriority[s] \in 0..5
  BY DEF OutcomeStatus, StatusPriority
<1>. QED
  BY <1>1

\* The result is one of the outcomes given, and none is more severe
\* (worst_status).
THEOREM WorstIsWorst ==
  ASSUME NEW S, S \subseteq OutcomeStatus, S # {}
  PROVE  /\ WorstStatus(S) \in S
         /\ \A t \in S : StatusPriority[t] <= StatusPriority[WorstStatus(S)]
BY SomeWorst DEF WorstStatus

\* Two outcomes of equal severity are the same outcome (the enum's order is
\* strict), so the worst outcome does not depend on the order of the fold.
LEMMA PriorityInjective ==
  ASSUME NEW s \in OutcomeStatus, NEW t \in OutcomeStatus,
         StatusPriority[s] = StatusPriority[t]
  PROVE  s = t
BY DEF OutcomeStatus, StatusPriority

LEMMA PriorityNat ==
  ASSUME NEW s \in OutcomeStatus
  PROVE  StatusPriority[s] \in 0..5
BY DEF OutcomeStatus, StatusPriority

\* A verdict of passed hides nothing: it is reported exactly when every
\* outcome folded into it passed (worst_status).
THEOREM PassedHidesNothing ==
  ASSUME NEW S, S \subseteq OutcomeStatus, S # {}
  PROVE  WorstStatus(S) = "passed" <=> \A s \in S : s = "passed"
<1>1. ASSUME WorstStatus(S) = "passed", NEW s \in S  PROVE s = "passed"
  <2>1. StatusPriority[s] <= StatusPriority["passed"]
    BY <1>1, WorstIsWorst
  <2>2. StatusPriority["passed"] = 0
    BY DEF StatusPriority
  <2>3. s \in OutcomeStatus /\ "passed" \in OutcomeStatus
    BY DEF OutcomeStatus
  <2>. QED
    BY <2>1, <2>2, <2>3, PriorityNat, PriorityInjective
<1>2. ASSUME \A s \in S : s = "passed"  PROVE WorstStatus(S) = "passed"
  BY <1>2, WorstIsWorst
<1>. QED
  BY <1>1, <1>2

\* Folding group by group, as results fold assertions, aggregates fold
\* results and the cross-domain status folds aggregates, gives the outcome of
\* folding everything at once: no level of the hierarchy softens a verdict.
THEOREM FoldByGroups ==
  ASSUME NEW S, S \subseteq OutcomeStatus, S # {},
         NEW T, T \subseteq OutcomeStatus, T # {}
  PROVE  WorstStatus(S \cup T) = WorstStatus({WorstStatus(S), WorstStatus(T)})
<1> DEFINE ws == WorstStatus(S)
           wt == WorstStatus(T)
           pair == WorstStatus({ws, wt})
           all == WorstStatus(S \cup T)
<1>1. ws \in S /\ wt \in T /\ ws \in OutcomeStatus /\ wt \in OutcomeStatus
  BY WorstIsWorst
<1>2. /\ pair \in {ws, wt}
      /\ StatusPriority[ws] <= StatusPriority[pair]
      /\ StatusPriority[wt] <= StatusPriority[pair]
  <2>1. {ws, wt} \subseteq OutcomeStatus /\ {ws, wt} # {}
    BY <1>1
  <2>. HIDE DEF ws, wt
  <2>. QED
    BY <2>1, WorstIsWorst
<1>3. /\ all \in S \cup T
      /\ \A t \in S \cup T : StatusPriority[t] <= StatusPriority[all]
  <2>1. S \cup T \subseteq OutcomeStatus /\ S \cup T # {}
    OBVIOUS
  <2>. QED
    BY <2>1, WorstIsWorst
<1>4. StatusPriority[pair] <= StatusPriority[all]
  BY <1>1, <1>2, <1>3
<1>5. StatusPriority[all] <= StatusPriority[pair]
  <2>1. CASE all \in S
    <3>1. StatusPriority[all] <= StatusPriority[ws]
      BY <2>1, WorstIsWorst
    <3>2. all \in OutcomeStatus /\ pair \in OutcomeStatus
      BY <1>1, <1>2, <2>1
    <3>. HIDE DEF ws, wt, pair, all
    <3>. QED
      BY <1>1, <1>2, <3>1, <3>2, PriorityNat
  <2>2. CASE all \in T
    <3>1. StatusPriority[all] <= StatusPriority[wt]
      BY <2>2, WorstIsWorst
    <3>2. all \in OutcomeStatus /\ pair \in OutcomeStatus
      BY <1>1, <1>2, <2>2
    <3>. HIDE DEF ws, wt, pair, all
    <3>. QED
      BY <1>1, <1>2, <3>1, <3>2, PriorityNat
  <2>. QED
    BY <1>3, <2>1, <2>2
<1>6. all \in OutcomeStatus /\ pair \in OutcomeStatus
  BY <1>1, <1>2, <1>3
<1>. HIDE DEF ws, wt, pair, all
<1>7. all = pair
  BY <1>4, <1>5, <1>6, PriorityNat, PriorityInjective
<1>. QED
  BY <1>7 DEF all, pair, ws, wt

(***************************************************************************)
(* Files and the documents they hold.                                      *)
(***************************************************************************)
LEMMA FileNames ==
  /\ ScenarioFile \in File /\ RunFile \in File /\ AggregateFile \in File
  /\ \A d \in Domain : /\ RuntimeFile(d) \in File
                       /\ ResultFile(d) \in File
                       /\ IndexFile(d) \in File
BY DEF File, ScenarioFile, RunFile, AggregateFile, RuntimeFile, ResultFile, IndexFile

LEMMA FileDocs ==
  /\ DocOf(ScenarioFile) = ScenarioDoc
  /\ DocOf(RunFile) = RunDoc
  /\ DocOf(AggregateFile) = AggregateDoc
  /\ \A d \in Domain : /\ DocOf(RuntimeFile(d)) = RuntimeDoc
                       /\ DocOf(ResultFile(d)) = ResultDoc
                       /\ DocOf(IndexFile(d)) = IndexDoc
BY DEF DocOf, DocTypes, ScenarioFile, RunFile, AggregateFile, RuntimeFile, ResultFile, IndexFile

LEMMA FileCases ==
  ASSUME NEW f \in File
  PROVE  \/ f = ScenarioFile \/ f = RunFile \/ f = AggregateFile
         \/ \E d \in Domain : f = RuntimeFile(d) \/ f = ResultFile(d) \/ f = IndexFile(d)
BY DEF File, ScenarioFile, RunFile, AggregateFile, RuntimeFile, ResultFile, IndexFile

LEMMA DocsAreDocuments ==
  ASSUME NEW f \in File
  PROVE  DocOf(f) \cup {Torn} \subseteq Document
BY FileCases, FileDocs DEF Document

LEMMA KindsDeclared ==
  /\ \A doc \in ScenarioDoc : doc.kind = "scenario"
  /\ \A doc \in RunDoc : doc.kind = "acceptance_run"
  /\ \A doc \in AggregateDoc : doc.kind = "acceptance_aggregate"
  /\ \A doc \in RuntimeDoc : doc.kind = "runtime_manifest"
  /\ \A doc \in ResultDoc : doc.kind = "domain_result"
  /\ \A doc \in IndexDoc : doc.kind = "evidence_index"
  /\ Torn.kind = "torn"
BY DEF ScenarioDoc, RunDoc, AggregateDoc, RuntimeDoc, ResultDoc, IndexDoc, Torn

LEMMA KindsOfFiles ==
  /\ ScenarioFile[1] = "scenario" /\ RunFile[1] = "acceptance_run"
  /\ AggregateFile[1] = "acceptance_aggregate"
  /\ \A d \in Domain : /\ RuntimeFile(d)[1] = "runtime_manifest"
                       /\ ResultFile(d)[1] = "domain_result"
                       /\ IndexFile(d)[1] = "evidence_index"
BY DEF ScenarioFile, RunFile, AggregateFile, RuntimeFile, ResultFile, IndexFile

\* A document declares the kind its file stands for, and is never torn.
LEMMA KindsOfDocs ==
  ASSUME NEW f \in File, NEW doc \in DocOf(f)
  PROVE  doc.kind = f[1] /\ doc # Torn
<1>1. doc.kind = f[1] /\ f[1] # "torn"
  BY FileCases, FileDocs, KindsDeclared, KindsOfFiles
<1>. QED
  BY <1>1, KindsDeclared

(***************************************************************************)
(* A write appends to the ledger and disturbs nothing already there.       *)
(***************************************************************************)
LEMMA WriteGrowsLedger ==
  ASSUME NEW f \in File, NEW doc \in Document, ledger \in Seq(Document),
         WriteFile(f, doc)
  PROVE  /\ ledger' \in Seq(Document)
         /\ Len(ledger') = Len(ledger) + 1
         /\ Len(ledger) \in Nat
         /\ ledger'[Len(ledger) + 1] = doc
         /\ \A i \in 1..Len(ledger) : ledger'[i] = ledger[i]
BY DEF WriteFile

LEMMA WriteKeepsTypes ==
  ASSUME TypeOK,
         NEW f \in File, NEW doc \in DocOf(f) \cup {Torn}, WriteFile(f, doc),
         UNCHANGED <<clock, request, validator>>,
         runner' \in [Domain -> Runner],
         \A d \in Domain : runner'[d].phase = "indexed" =>
           /\ runner'[d].index \in 1..Len(ledger')
           /\ ledger'[runner'[d].index] \in IndexDoc
  PROVE  TypeOK'
<1>1. /\ ledger' \in Seq(Document)
      /\ Len(ledger') = Len(ledger) + 1 /\ Len(ledger) \in Nat
      /\ ledger'[Len(ledger) + 1] = doc
      /\ \A i \in 1..Len(ledger) : ledger'[i] = ledger[i]
  BY DocsAreDocuments, WriteGrowsLedger DEF TypeOK
<1>2. /\ disk' = [disk EXCEPT ![f] = Len(ledger) + 1]
      /\ disk \in [File -> 0..Len(ledger)]
  BY DEF WriteFile, TypeOK
<1>3. disk' \in [File -> 0..Len(ledger')]
  BY <1>1, <1>2
<1>4. \A g \in File : disk'[g] # 0 => ledger'[disk'[g]] \in DocOf(g) \cup {Torn}
  <2>. TAKE g \in File
  <2>1. CASE g = f
    BY <2>1, <1>1, <1>2
  <2>2. CASE g # f
    BY <2>2, <1>1, <1>2 DEF TypeOK
  <2>. QED
    BY <2>1, <2>2
<1>5. /\ got' \in [File -> 0..Len(ledger')]
      /\ \A g \in File : got'[g] # 0 => ledger'[got'[g]] \in DocOf(g)
  BY <1>1 DEF TypeOK, validator
<1>6. /\ metadata' \in [File -> 0..Len(ledger')]
      /\ \A g \in File : metadata'[g] # 0 => ledger'[metadata'[g]] \in DocOf(g)
  BY <1>1 DEF TypeOK, validator
<1>7. /\ clock' \in Time /\ request' \in Requests
      /\ position' \in 1..(Len(request') + 1)
      /\ verdict' \in {"none", "accepted", "rejected"}
  BY DEF TypeOK, validator
<1>8. ledger' \in Seq(Document)
  BY <1>1
<1>. QED
  BY <1>3, <1>4, <1>5, <1>6, <1>7, <1>8 DEF TypeOK, DocOf

LEMMA WriteBesideRunners ==
  ASSUME TypeOK,
         NEW f \in File, NEW doc \in DocOf(f) \cup {Torn}, WriteFile(f, doc),
         UNCHANGED <<clock, runner, request, validator>>
  PROVE  TypeOK'
<1>1. doc \in Document
  BY DocsAreDocuments
<1>2. \A d \in Domain : runner'[d].phase = "indexed" =>
        /\ runner'[d].index \in 1..Len(ledger')
        /\ ledger'[runner'[d].index] \in IndexDoc
  <2>1. /\ Len(ledger') = Len(ledger) + 1 /\ Len(ledger) \in Nat
        /\ \A i \in 1..Len(ledger) : ledger'[i] = ledger[i]
    BY <1>1, WriteGrowsLedger DEF TypeOK
  <2>2. runner' = runner
    OBVIOUS
  <2>. QED
    BY <2>1, <2>2 DEF TypeOK
<1>3. runner' \in [Domain -> Runner]
  BY DEF TypeOK
<1>4. UNCHANGED <<clock, request, validator>>
  OBVIOUS
<1>. QED
  BY <1>2, <1>3, <1>4, WriteKeepsTypes

\* What the validator and the clock do leaves the pipeline's data alone.
LEMMA RunnerTypes ==
  ASSUME runner \in [Domain -> Runner], NEW d \in Domain
  PROVE  /\ runner[d].phase = "started" =>
              runner[d] = [phase |-> "started", job |-> runner[d].job]
              /\ runner[d].job \in Job
         /\ runner[d].phase = "indexed" => runner[d].job \in Job
         /\ runner[d].phase \in {"idle", "started", "indexed"}
         /\ runner[d] = Idle <=> runner[d].phase = "idle"
<1>1. runner[d] \in Runner
  OBVIOUS
<1>2. CASE runner[d] = Idle
  BY <1>2 DEF Idle
<1>3. CASE runner[d] \in [phase : {"started"}, job : Job]
  BY <1>3 DEF Idle
<1>4. CASE runner[d] \in [phase : {"indexed"}, job : Job, index : Digest]
  BY <1>4 DEF Idle
<1>. QED
  BY <1>1, <1>2, <1>3, <1>4 DEF Runner

(***************************************************************************)
(* Type correctness.                                                       *)
(***************************************************************************)
LEMMA InitTypes == Init => TypeOK
<1>. SUFFICES ASSUME Init PROVE TypeOK
  OBVIOUS
<1>1. ledger \in Seq(Document) /\ Len(ledger) = 0
  BY DEF Init
<1>2. /\ disk \in [File -> 0..Len(ledger)]
      /\ got \in [File -> 0..Len(ledger)]
      /\ metadata \in [File -> 0..Len(ledger)]
      /\ \A f \in File : disk[f] = 0 /\ got[f] = 0 /\ metadata[f] = 0
  BY <1>1 DEF Init, Nothing
<1>3. /\ runner \in [Domain -> Runner]
      /\ \A d \in Domain : runner[d].phase # "indexed"
  BY DEF Init, Runner, Idle
<1>4. request \in Requests /\ position \in 1..(Len(request) + 1)
  <2>1. request \in Seq(Artifact)
    BY QualificationConstants DEF Init
  <2>. QED
    BY <2>1 DEF Init
<1>. QED
  BY <1>1, <1>2, <1>3, <1>4 DEF TypeOK, Init, Time

LEMMA WriteScenarioTypes == TypeOK /\ WriteScenario => TypeOK'
<1>. SUFFICES ASSUME TypeOK, NEW doc \in ScenarioDoc, WriteFile(ScenarioFile, doc),
                     UNCHANGED <<clock, runner, request, validator>>
              PROVE  TypeOK'
  BY DEF WriteScenario
<1>. QED
  BY FileNames, FileDocs, WriteBesideRunners

LEMMA WriteRunTypes == TypeOK /\ WriteRun => TypeOK'
<1>. SUFFICES ASSUME TypeOK, NEW r \in RunId, NEW S \in (SUBSET Domain) \ {{}},
                     WriteFile(RunFile,
                       [kind |-> "acceptance_run", run_id |-> r, created_at |-> clock,
                        scenario |-> disk[ScenarioFile], domains |-> S]),
                     UNCHANGED <<clock, runner, request, validator>>
              PROVE  TypeOK'
  BY DEF WriteRun
<1>1. disk[ScenarioFile] \in Digest /\ clock \in Time
  BY FileNames DEF TypeOK, Digest
<1>2. [kind |-> "acceptance_run", run_id |-> r, created_at |-> clock,
       scenario |-> disk[ScenarioFile], domains |-> S] \in RunDoc
  BY <1>1 DEF RunDoc
<1>. QED
  BY <1>2, FileNames, FileDocs, WriteBesideRunners

LEMMA WriteRuntimeTypes ==
  ASSUME NEW d \in Domain PROVE TypeOK /\ WriteRuntime(d) => TypeOK'
<1>. SUFFICES ASSUME TypeOK, NEW x \in Execution,
                     WriteFile(RuntimeFile(d),
                       [kind |-> "runtime_manifest", generated_at |-> clock,
                        execution |-> x]),
                     UNCHANGED <<clock, runner, request, validator>>
              PROVE  TypeOK'
  BY DEF WriteRuntime
<1>1. [kind |-> "runtime_manifest", generated_at |-> clock, execution |-> x]
        \in RuntimeDoc
  BY DEF RuntimeDoc, TypeOK
<1>. QED
  BY <1>1, FileNames, FileDocs, WriteBesideRunners

LEMMA TearFileTypes ==
  ASSUME NEW f \in File PROVE TypeOK /\ TearFile(f) => TypeOK'
BY WriteBesideRunners DEF TearFile

\* A file that is there holds a document of its kind.
LEMMA DiskDocs ==
  ASSUME TypeOK, NEW f \in File, OnDisk(f)
  PROVE  /\ disk[f] \in 1..Len(ledger)
         /\ Doc(disk, f) \in DocOf(f)
BY DEF TypeOK, OnDisk, Doc

LEMMA StartDomainTypes ==
  ASSUME NEW d \in Domain PROVE TypeOK /\ StartDomain(d) => TypeOK'
<1>. SUFFICES ASSUME TypeOK, StartDomain(d) PROVE TypeOK'
  OBVIOUS
<1> DEFINE job == [run_id |-> Doc(disk, RunFile).run_id,
                   scenario |-> disk[ScenarioFile],
                   runtime |-> disk[RuntimeFile(d)],
                   execution |-> Doc(disk, RuntimeFile(d)).execution,
                   started_at |-> clock]
<1>1. runner' = [runner EXCEPT ![d] = [phase |-> "started", job |-> job]]
  BY DEF StartDomain
<1>2. job \in Job
  <2>1. Doc(disk, RunFile).run_id \in RunId
    <3>1. Doc(disk, RunFile) \in RunDoc
      BY DiskDocs, FileNames, FileDocs DEF StartDomain
    <3>. QED
      BY <3>1 DEF RunDoc
  <2>2. Doc(disk, RuntimeFile(d)).execution \in Execution
    <3>1. Doc(disk, RuntimeFile(d)) \in RuntimeDoc
      BY DiskDocs, FileNames, FileDocs DEF StartDomain
    <3>. QED
      BY <3>1 DEF RuntimeDoc
  <2>3. disk[ScenarioFile] \in Digest /\ disk[RuntimeFile(d)] \in Digest
    BY FileNames DEF TypeOK, Digest
  <2>. QED
    BY <2>1, <2>2, <2>3 DEF Job, TypeOK
<1>. HIDE DEF job
<1>3. [phase |-> "started", job |-> job] \in Runner
  BY <1>2 DEF Runner
<1>4. runner' \in [Domain -> Runner]
  BY <1>1, <1>3 DEF TypeOK
<1>5. \A e \in Domain : runner'[e].phase = "indexed" => runner'[e] = runner[e]
  BY <1>1 DEF TypeOK
<1>. QED
  BY <1>4, <1>5 DEF TypeOK, StartDomain, validator, DocOf

LEMMA WriteIndexTypes ==
  ASSUME NEW d \in Domain PROVE TypeOK /\ WriteIndex(d) => TypeOK'
<1>. SUFFICES ASSUME TypeOK, WriteIndex(d) PROVE TypeOK'
  OBVIOUS
<1>1. runner[d].phase = "started" /\ runner[d].job \in Job
  BY RunnerTypes DEF WriteIndex, TypeOK
<1>2. PICK e \in Evidence :
        WriteFile(IndexFile(d),
          [kind |-> "evidence_index", run_id |-> runner[d].job.run_id,
           generated_at |-> clock, artifacts |-> e, ghost |-> d])
  BY DEF WriteIndex
<1> DEFINE doc == [kind |-> "evidence_index", run_id |-> runner[d].job.run_id,
                   generated_at |-> clock, artifacts |-> e, ghost |-> d]
           next == [phase |-> "indexed", job |-> runner[d].job,
                    index |-> Len(ledger) + 1]
<1>3. doc \in IndexDoc
  BY <1>1 DEF IndexDoc, Job, TypeOK
<1>4. WriteFile(IndexFile(d), doc)
  BY <1>2
<1>. HIDE DEF doc
<1>5. /\ Len(ledger') = Len(ledger) + 1 /\ Len(ledger) \in Nat
      /\ ledger'[Len(ledger) + 1] = doc
      /\ \A i \in 1..Len(ledger) : ledger'[i] = ledger[i]
  BY <1>3, <1>4, FileNames, FileDocs, DocsAreDocuments, WriteGrowsLedger DEF TypeOK
<1>6. runner' = [runner EXCEPT ![d] = next]
  BY DEF WriteIndex
<1>7. next \in Runner /\ next.index = Len(ledger) + 1
  BY <1>1, <1>5 DEF Runner, Digest
<1>. HIDE DEF next
<1>8. runner' \in [Domain -> Runner]
  BY <1>6, <1>7 DEF TypeOK
<1>9. ASSUME NEW c \in Domain, runner'[c].phase = "indexed"
      PROVE  /\ runner'[c].index \in 1..Len(ledger')
             /\ ledger'[runner'[c].index] \in IndexDoc
  <2>1. CASE c = d
    BY <2>1, <1>3, <1>5, <1>6, <1>7 DEF TypeOK
  <2>2. CASE c # d
    BY <2>2, <1>9, <1>5, <1>6 DEF TypeOK
  <2>. QED
    BY <2>1, <2>2
<1>10. UNCHANGED <<clock, request, validator>>
  BY DEF WriteIndex
<1>. QED
  BY <1>3, <1>4, <1>8, <1>9, <1>10, FileNames, FileDocs, WriteKeepsTypes

LEMMA FinishDomainTypes ==
  ASSUME NEW d \in Domain PROVE TypeOK /\ FinishDomain(d) => TypeOK'
<1>. SUFFICES ASSUME TypeOK, FinishDomain(d) PROVE TypeOK'
  OBVIOUS
<1>1. runner[d].phase = "indexed" /\ runner[d].job \in Job
  BY RunnerTypes DEF FinishDomain, TypeOK
<1>2. PICK results \in AssertionResults, s \in ClaimStatus :
        WriteFile(ResultFile(d),
          [kind |-> "domain_result", domain_id |-> d,
           run_id |-> runner[d].job.run_id, scenario |-> runner[d].job.scenario,
           runtime |-> runner[d].job.runtime,
           execution |-> runner[d].job.execution,
           started_at |-> runner[d].job.started_at, finished_at |-> clock,
           assertion_results |-> results,
           evidence |-> ledger[runner[d].index].artifacts,
           status |-> s, ghost |-> runner[d].index])
  BY DEF FinishDomain
<1> DEFINE doc ==
      [kind |-> "domain_result", domain_id |-> d,
       run_id |-> runner[d].job.run_id, scenario |-> runner[d].job.scenario,
       runtime |-> runner[d].job.runtime,
       execution |-> runner[d].job.execution,
       started_at |-> runner[d].job.started_at, finished_at |-> clock,
       assertion_results |-> results,
       evidence |-> ledger[runner[d].index].artifacts,
       status |-> s, ghost |-> runner[d].index]
<1>3. doc \in ResultDoc
  <2>1. /\ runner[d].index \in 1..Len(ledger) /\ Len(ledger) \in Nat
        /\ ledger[runner[d].index] \in IndexDoc
    BY <1>1 DEF TypeOK
  <2>2. /\ runner[d].index \in Digest
        /\ ledger[runner[d].index].artifacts \in Evidence
    BY <2>1 DEF Digest, IndexDoc
  <2>3. clock \in Time
    BY Zenon DEF TypeOK
  <2>. QED
    BY <1>1, <2>2, <2>3 DEF ResultDoc, Job
<1>4. WriteFile(ResultFile(d), doc)
  BY <1>2
<1>. HIDE DEF doc
<1>5. /\ Len(ledger') = Len(ledger) + 1 /\ Len(ledger) \in Nat
      /\ \A i \in 1..Len(ledger) : ledger'[i] = ledger[i]
  BY <1>3, <1>4, FileNames, FileDocs, DocsAreDocuments, WriteGrowsLedger DEF TypeOK
<1>6. runner' = [runner EXCEPT ![d] = Idle]
  BY DEF FinishDomain
<1>7. runner' \in [Domain -> Runner]
  BY <1>6 DEF TypeOK, Runner
<1>8. ASSUME NEW c \in Domain, runner'[c].phase = "indexed"
      PROVE  /\ runner'[c].index \in 1..Len(ledger')
             /\ ledger'[runner'[c].index] \in IndexDoc
  <2>1. c # d
    BY <1>6, <1>8 DEF TypeOK, Idle
  <2>2. runner'[c] = runner[c]
    BY <2>1, <1>6 DEF TypeOK
  <2>3. /\ runner[c].index \in 1..Len(ledger)
        /\ ledger[runner[c].index] \in IndexDoc
    BY <2>2, <1>8 DEF TypeOK
  <2>. QED
    BY <2>2, <2>3, <1>5
<1>9. UNCHANGED <<clock, request, validator>>
  BY DEF FinishDomain
<1>. QED
  BY <1>3, <1>4, <1>7, <1>8, <1>9, FileNames, FileDocs, WriteKeepsTypes

LEMMA AbortDomainTypes ==
  ASSUME NEW d \in Domain PROVE TypeOK /\ AbortDomain(d) => TypeOK'
<1>. SUFFICES ASSUME TypeOK, AbortDomain(d) PROVE TypeOK'
  OBVIOUS
<1>1. runner' = [runner EXCEPT ![d] = Idle]
  BY DEF AbortDomain
<1>2. runner' \in [Domain -> Runner]
  BY <1>1 DEF TypeOK, Runner
<1>3. \A c \in Domain : runner'[c].phase = "indexed" => runner'[c] = runner[c]
  BY <1>1 DEF TypeOK, Idle
<1>. QED
  BY <1>2, <1>3 DEF TypeOK, AbortDomain, validator, DocOf

LEMMA WriteAggregateTypes == TypeOK /\ WriteAggregate => TypeOK'
<1>. SUFFICES ASSUME TypeOK, WriteAggregate PROVE TypeOK'
  OBVIOUS
<1> DEFINE reported == {d \in Doc(disk, RunFile).domains : OnDisk(ResultFile(d))}
           entries(claim) == [d \in Domain |-> IF d \in reported
              THEN [digest |-> disk[ResultFile(d)], status |-> claim[d]]
              ELSE NotListed]
<1>1. PICK claim \in [reported -> ClaimStatus], s \in ClaimStatus :
        WriteFile(AggregateFile,
          [kind |-> "acceptance_aggregate", run_id |-> Doc(disk, RunFile).run_id,
           acceptance_run |-> disk[RunFile], generated_at |-> clock,
           per_domain_results |-> entries(claim), per_domain_aggregate |-> s])
  BY DEF WriteAggregate
<1>2. entries(claim) \in [Domain -> DomainEntry]
  <2>1. ASSUME NEW d \in reported
        PROVE  [digest |-> disk[ResultFile(d)], status |-> claim[d]] \in DomainEntry
    <3>1. d \in Domain
      <4>1. Doc(disk, RunFile) \in RunDoc
        BY DiskDocs, FileNames, FileDocs DEF WriteAggregate
      <4>. QED
        BY <4>1 DEF RunDoc
    <3>2. disk[ResultFile(d)] \in 0..Len(ledger) /\ disk[ResultFile(d)] # 0
      BY <3>1, FileNames DEF TypeOK, OnDisk
    <3>3. disk[ResultFile(d)] \in Digest \ {0}
      BY <3>2 DEF Digest, TypeOK
    <3>4. claim[d] \in ClaimStatus
      OBVIOUS
    <3>. QED
      BY <3>3, <3>4 DEF DomainEntry
  <2>2. NotListed \in DomainEntry
    BY DEF DomainEntry
  <2>. QED
    BY <2>1, <2>2
<1>. HIDE DEF entries
<1>3. /\ Doc(disk, RunFile).run_id \in RunId
      /\ disk[RunFile] \in Digest
      /\ clock \in Time
  <2>1. Doc(disk, RunFile) \in RunDoc
    BY DiskDocs, FileNames, FileDocs DEF WriteAggregate
  <2>. QED
    BY <2>1, FileNames DEF RunDoc, TypeOK, Digest
<1>4. [kind |-> "acceptance_aggregate", run_id |-> Doc(disk, RunFile).run_id,
       acceptance_run |-> disk[RunFile], generated_at |-> clock,
       per_domain_results |-> entries(claim), per_domain_aggregate |-> s]
        \in AggregateDoc
  BY <1>2, <1>3 DEF AggregateDoc
<1>5. UNCHANGED <<clock, runner, request, validator>>
  BY DEF WriteAggregate
<1>. QED
  BY <1>1, <1>4, <1>5, FileNames, FileDocs, WriteBesideRunners

LEMMA TickTypes == TypeOK /\ Tick => TypeOK'
BY DEF TypeOK, Tick, Time, validator, DocOf

\* A document that loads is typed by its subject, and well formed.
LEMMA LoadableDocs ==
  ASSUME TypeOK, NEW a \in Artifact, Loadable(a)
  PROVE  /\ disk[a.path] \in 1..Len(ledger)
         /\ ledger[disk[a.path]] \in DocOf(a.subject)
         /\ WellFormed(ledger[disk[a.path]])
         /\ a.subject \in File
<1>1. a.path \in File /\ a.subject \in File
  BY DEF Artifact
<1>2. disk[a.path] \in 1..Len(ledger) /\ ledger[disk[a.path]] \in DocOf(a.path)
  BY <1>1, DiskDocs DEF Loadable, Doc
<1>3. a.path[1] = a.subject[1]
  BY <1>1, <1>2, KindsOfDocs DEF Loadable, Doc
<1>4. DocOf(a.path) = DocOf(a.subject)
  BY <1>3 DEF DocOf
<1>. QED
  BY <1>1, <1>2, <1>4 DEF Loadable, Doc

LEMMA RequestTypes ==
  ASSUME TypeOK
  PROVE  /\ request \in Seq(Artifact) /\ Len(request) \in Nat
         /\ position \in Nat
         /\ position <= Len(request) => request[position] \in Artifact
BY QualificationConstants DEF TypeOK

LEMMA LoadArtifactTypes == TypeOK /\ LoadArtifact => TypeOK'
<1>. SUFFICES ASSUME TypeOK, LoadArtifact PROVE TypeOK'
  OBVIOUS
<1> DEFINE a == request[position]
<1>1. a \in Artifact /\ Loadable(a) /\ got' = [got EXCEPT ![a.subject] = disk[a.path]]
  BY RequestTypes DEF LoadArtifact
<1>2. /\ disk[a.path] \in 1..Len(ledger)
      /\ ledger[disk[a.path]] \in DocOf(a.subject)
      /\ a.subject \in File
  BY <1>1, LoadableDocs
<1>. HIDE DEF a
<1>3. got' \in [File -> 0..Len(ledger)]
  BY <1>1, <1>2 DEF TypeOK
<1>4. \A f \in File : got'[f] # 0 => ledger[got'[f]] \in DocOf(f)
  <2>. TAKE f \in File
  <2>1. CASE f = a.subject
    BY <2>1, <1>1, <1>2 DEF TypeOK
  <2>2. CASE f # a.subject
    BY <2>2, <1>1, <1>2 DEF TypeOK
  <2>. QED
    BY <2>1, <2>2
<1>5. position' \in 1..(Len(request) + 1)
  BY RequestTypes DEF LoadArtifact, TypeOK
<1>6. UNCHANGED <<ledger, disk, clock, runner, request, verdict, metadata>>
  BY DEF LoadArtifact, pipeline
<1>. QED
  BY <1>3, <1>4, <1>5, <1>6 DEF TypeOK, DocOf

LEMMA VerdictTypes ==
  TypeOK /\ (RejectArtifact \/ AcceptSet \/ RejectSet) => TypeOK'
BY DEF TypeOK, RejectArtifact, AcceptSet, RejectSet, PublishedDigests, pipeline, DocOf

LEMMA StutterTypes == TypeOK /\ UNCHANGED vars => TypeOK'
BY DEF TypeOK, vars, DocOf

LEMMA NextTypes == TypeOK /\ [Next]_vars => TypeOK'
BY WriteScenarioTypes, WriteRunTypes, WriteRuntimeTypes, StartDomainTypes,
   WriteIndexTypes, FinishDomainTypes, AbortDomainTypes, WriteAggregateTypes,
   TearFileTypes, TickTypes, LoadArtifactTypes, VerdictTypes, StutterTypes
   DEF Next, Pipeline, Validator

\* Every reachable state is well typed: whatever is on disk, read, in use by
\* an execution or published is a document of the right kind that somebody
\* wrote (_load_artifact's schema selection by subject kind).
THEOREM TypeCorrect == Spec => []TypeOK
<1>. QED
  BY InitTypes, NextTypes, PTL DEF Spec

(***************************************************************************)
(* Qualification implements Certification: an accepted set certifies one   *)
(* run of one scenario, and a passed verdict was earned.                   *)
(***************************************************************************)
LEMMA SameFiles ==
  /\ Certified!File = File
  /\ Certified!ScenarioFile = ScenarioFile
  /\ Certified!RunFile = RunFile
  /\ Certified!AggregateFile = AggregateFile
  /\ \A d : /\ Certified!RuntimeFile(d) = RuntimeFile(d)
            /\ Certified!ResultFile(d) = ResultFile(d)
            /\ Certified!IndexFile(d) = IndexFile(d)
BY DEF Certified!File, File, Certified!ScenarioFile, ScenarioFile,
       Certified!RunFile, RunFile, Certified!AggregateFile, AggregateFile,
       Certified!RuntimeFile, RuntimeFile, Certified!ResultFile, ResultFile,
       Certified!IndexFile, IndexFile

\* A table whose documents exist, are of the right kind, and are well formed.
Sound(m) ==
  /\ m \in [File -> 0..Len(ledger)]
  /\ \A f \in File : m[f] # 0 =>
       /\ m[f] \in DOMAIN ledger
       /\ ledger[m[f]] \in DocOf(f)
       /\ WellFormed(ledger[m[f]])

\* The documents a table with valid links holds, by name.
LEMMA LinkedDocs ==
  ASSUME NEW m, Sound(m), LinksHold(m)
  PROVE  /\ Doc(m, ScenarioFile) \in ScenarioDoc
         /\ Doc(m, RunFile) \in RunDoc
         /\ Doc(m, AggregateFile) \in AggregateDoc
         /\ WellFormed(Doc(m, AggregateFile))
         /\ Doc(m, RunFile).domains \subseteq Domain
         /\ \A d \in Doc(m, RunFile).domains :
              /\ d \in Domain
              /\ Doc(m, RuntimeFile(d)) \in RuntimeDoc
              /\ Doc(m, IndexFile(d)) \in IndexDoc
              /\ Doc(m, ResultFile(d)) \in ResultDoc
              /\ WellFormed(Doc(m, ResultFile(d)))
<1>1. /\ m[ScenarioFile] # 0 /\ m[RunFile] # 0 /\ m[AggregateFile] # 0
      /\ ScenarioFile \in File /\ RunFile \in File /\ AggregateFile \in File
  BY FileNames DEF LinksHold, OneOfEach, Names
<1>2. /\ Doc(m, ScenarioFile) \in ScenarioDoc
      /\ Doc(m, RunFile) \in RunDoc
      /\ Doc(m, AggregateFile) \in AggregateDoc
      /\ WellFormed(Doc(m, AggregateFile))
  BY <1>1, FileDocs DEF Sound, Doc
<1>3. Doc(m, RunFile).domains \subseteq Domain
  BY <1>2 DEF RunDoc
<1>4. ASSUME NEW d \in Doc(m, RunFile).domains
      PROVE  /\ Doc(m, RuntimeFile(d)) \in RuntimeDoc
             /\ Doc(m, IndexFile(d)) \in IndexDoc
             /\ Doc(m, ResultFile(d)) \in ResultDoc
             /\ WellFormed(Doc(m, ResultFile(d)))
  <2>1. d \in Domain
    BY <1>3
  <2>2. m[RuntimeFile(d)] # 0 /\ m[ResultFile(d)] # 0 /\ m[IndexFile(d)] # 0
    BY DEF LinksHold, DomainSetsEqual, Names, RuntimeFile, ResultFile, IndexFile
  <2>3. RuntimeFile(d) \in File /\ ResultFile(d) \in File /\ IndexFile(d) \in File
    BY <2>1, FileNames
  <2>. QED
    BY <2>1, <2>2, <2>3, FileDocs DEF Sound, Doc
<1>. QED
  BY <1>2, <1>3, <1>4

LEMMA LinksComplete ==
  ASSUME NEW m, Sound(m), LinksHold(m)
  PROVE  Certified!Complete(m)
<1>1. \A f \in {ScenarioFile, RunFile, AggregateFile} : m[f] \in DOMAIN ledger
  BY FileNames DEF Sound, LinksHold, OneOfEach, Names
<1>2. ASSUME NEW d \in Domain, NEW f \in {RuntimeFile(d), ResultFile(d), IndexFile(d)}
      PROVE  IF d \in Doc(m, RunFile).domains THEN m[f] \in DOMAIN ledger ELSE m[f] = 0
  <2>1. f \in File
    BY FileNames
  <2>2. d \in Doc(m, RunFile).domains <=> m[f] # 0
    BY DEF LinksHold, DomainSetsEqual, Names, RuntimeFile, ResultFile, IndexFile
  <2>. QED
    BY <2>1, <2>2 DEF Sound
<1>. QED
  BY <1>1, <1>2, SameFiles
     DEF Certified!Complete, Certified!Names, Certified!DomainsOf, Certified!Doc, Doc

LEMMA LinksOneRun ==
  ASSUME NEW m, LinksHold(m)
  PROVE  Certified!OneRun(m)
<1>1. /\ Doc(m, RunFile).scenario = m[ScenarioFile]
      /\ Doc(m, AggregateFile).acceptance_run = m[RunFile]
      /\ Doc(m, AggregateFile).run_id = Doc(m, RunFile).run_id
  BY DEF LinksHold, RunLinks
<1>2. ASSUME NEW d \in Doc(m, RunFile).domains
      PROVE  /\ Doc(m, ResultFile(d)).domain_id = d
             /\ Doc(m, ResultFile(d)).run_id = Doc(m, RunFile).run_id
             /\ Doc(m, IndexFile(d)).run_id = Doc(m, RunFile).run_id
  BY DEF LinksHold, DomainLinks, ResultLinks, IndexRuns
<1>. QED
  BY <1>1, <1>2, SameFiles DEF Certified!OneRun, Certified!DomainsOf, Certified!Doc, Doc

LEMMA LinksAsSpecified ==
  ASSUME NEW m, LinksHold(m)
  PROVE  Certified!AsSpecified(m)
<1>1. ASSUME NEW d \in Doc(m, RunFile).domains
      PROVE  /\ Doc(m, ResultFile(d)).scenario = m[ScenarioFile]
             /\ Doc(m, ResultFile(d)).runtime = m[RuntimeFile(d)]
             /\ Doc(m, ResultFile(d)).execution = Doc(m, ScenarioFile).execution
             /\ Doc(m, RuntimeFile(d)).execution = Doc(m, ScenarioFile).execution
  BY DEF LinksHold, DomainLinks, ResultLinks, ExecutionAligned
<1>. QED
  BY <1>1, SameFiles DEF Certified!AsSpecified, Certified!DomainsOf, Certified!Doc, Doc

\* The chain of folds: assertions into a result, results into the aggregate.
LEMMA LinksEarnPassed ==
  ASSUME NEW m, Sound(m), LinksHold(m)
  PROVE  Certified!PassedIsEarned(m)
<1> DEFINE aggregate == Doc(m, AggregateFile)
           domains == Doc(m, RunFile).domains
           declared == Doc(m, ScenarioFile).assertions
           result(d) == Doc(m, ResultFile(d))
<1>. SUFFICES ASSUME aggregate.per_domain_aggregate = "passed",
                     NEW d \in domains
              PROVE  /\ result(d).status = "passed"
                     /\ \A a \in declared :
                          /\ a \in DOMAIN result(d).assertion_results
                          /\ result(d).assertion_results[a] = "passed"
  BY SameFiles
     DEF Certified!PassedIsEarned, Certified!DomainsOf, Certified!Doc, Doc
<1>1. aggregate \in AggregateDoc /\ WellFormed(aggregate)
  BY LinkedDocs
<1>2. result(d) \in ResultDoc /\ WellFormed(result(d)) /\ d \in Domain
  BY LinkedDocs
<1>3. /\ Listed(aggregate) = domains
      /\ \A e \in domains : aggregate.per_domain_results[e]
           = [digest |-> m[ResultFile(e)], status |-> result(e).status]
  BY DEF LinksHold, AggregateMatches
<1> DEFINE reported == {aggregate.per_domain_results[e].status : e \in Listed(aggregate)}
<1>4. WorstStatus(reported) = "passed"
  BY <1>1, KindsDeclared DEF WellFormed, AggregateWellFormed
<1>5. /\ reported \subseteq OutcomeStatus
      /\ result(d).status \in reported
  <2>1. \A e \in domains : result(e) \in ResultDoc
    BY LinkedDocs
  <2>2. \A e \in domains : result(e).status \in OutcomeStatus
    BY <2>1, DocumentConstants DEF ResultDoc
  <2>3. \A e \in Listed(aggregate) :
          /\ aggregate.per_domain_results[e].status = result(e).status
          /\ e \in domains
    <3>. TAKE e \in Listed(aggregate)
    <3>1. e \in domains
      BY <1>3
    <3>2. aggregate.per_domain_results[e]
            = [digest |-> m[ResultFile(e)], status |-> result(e).status]
      BY <1>3, <3>1
    <3>. HIDE DEF aggregate, domains, result
    <3>. QED
      BY <3>1, <3>2
  <2>4. d \in Listed(aggregate)
    BY <1>3
  <2>5. aggregate.per_domain_results[d].status \in reported
    BY <2>4
  <2>6. ASSUME NEW s \in reported  PROVE s \in OutcomeStatus
    <3>1. PICK e \in Listed(aggregate) : s = aggregate.per_domain_results[e].status
      OBVIOUS
    <3>. QED
      BY <3>1, <2>2, <2>3
  <2>. QED
    BY <2>3, <2>4, <2>5, <2>6
<1>6. result(d).status = "passed"
  <2>. HIDE DEF reported, result
  <2>. QED
    BY <1>4, <1>5, PassedHidesNothing
<1>7. ASSUME NEW a \in declared
      PROVE  /\ a \in DOMAIN result(d).assertion_results
             /\ result(d).assertion_results[a] = "passed"
  <2>. DEFINE outcomes == {result(d).assertion_results[b] :
                             b \in DOMAIN result(d).assertion_results}
  <2>1. a \in DOMAIN result(d).assertion_results
    BY DEF LinksHold, DomainLinks, AssertionsCovered
  <2>2. outcomes \subseteq OutcomeStatus
    <3>1. result(d).assertion_results \in AssertionResults
      BY <1>2 DEF ResultDoc
    <3>. QED
      BY <3>1, DocumentConstants DEF AssertionResults
  <2>3. result(d).assertion_results[a] \in outcomes
    BY <2>1
  <2>4. WorstStatus({result(d).status} \cup outcomes) = "passed"
    BY <1>2, <1>6, <2>3, KindsDeclared DEF WellFormed, ResultWellFormed
  <2>5. "passed" \in OutcomeStatus
    BY DEF OutcomeStatus
  <2>6. \A s \in {result(d).status} \cup outcomes : s = "passed"
    <3>. HIDE DEF outcomes, result
    <3>. QED
      BY <1>6, <2>2, <2>4, <2>5, PassedHidesNothing
  <2>. QED
    BY <2>1, <2>3, <2>6
<1>. QED
  BY <1>6, <1>7

LEMMA LinksCertify ==
  ASSUME NEW m, Sound(m), LinksHold(m)
  PROVE  Certified!Certifies(m)
BY LinksComplete, LinksOneRun, LinksAsSpecified, LinksEarnPassed
   DEF Certified!Certifies

(***************************************************************************)
(* What the validator holds in memory is sound at all times: documents are *)
(* checked when they are read, and the ledger never changes underneath.    *)
(***************************************************************************)
Loaded ==
  /\ \A f \in File : got[f] # 0 => WellFormed(ledger[got[f]])
  /\ verdict # "accepted" => metadata = Nothing

LEMMA LoadedSound ==
  ASSUME TypeOK, Loaded
  PROVE  Sound(got)
BY DEF TypeOK, Loaded, Sound

\* Every action of the pipeline leaves the validator alone, and writes at
\* most one document.
Appends ==
  /\ Len(ledger') = Len(ledger) + 1
  /\ \A i \in DOMAIN ledger : ledger'[i] = ledger[i]

LEMMA WriteAppends ==
  ASSUME TypeOK, NEW f, NEW doc, WriteFile(f, doc)
  PROVE  Appends
<1>1. ledger' = Append(ledger, doc) /\ ledger \in Seq(Document)
  BY DEF WriteFile, TypeOK
<1>. QED
  BY <1>1 DEF Appends

LEMMA PipelineAppends ==
  ASSUME TypeOK, Pipeline
  PROVE  /\ Appends \/ UNCHANGED ledger
         /\ UNCHANGED <<request, position, got, verdict, metadata>>
<1>1. CASE WriteScenario
  BY <1>1, WriteAppends DEF WriteScenario, validator
<1>2. CASE WriteRun
  BY <1>2, WriteAppends DEF WriteRun, validator
<1>3. CASE \E d \in Domain : WriteRuntime(d)
  BY <1>3, WriteAppends DEF WriteRuntime, validator
<1>4. CASE \E d \in Domain : StartDomain(d)
  BY <1>4 DEF StartDomain, validator
<1>5. CASE \E d \in Domain : WriteIndex(d)
  BY <1>5, WriteAppends DEF WriteIndex, validator
<1>6. CASE \E d \in Domain : FinishDomain(d)
  BY <1>6, WriteAppends DEF FinishDomain, validator
<1>7. CASE \E d \in Domain : AbortDomain(d)
  BY <1>7 DEF AbortDomain, validator
<1>8. CASE WriteAggregate
  BY <1>8, WriteAppends DEF WriteAggregate, validator
<1>9. CASE \E f \in File : TearFile(f)
  BY <1>9, WriteAppends DEF TearFile, validator
<1>10. CASE Tick
  BY <1>10 DEF Tick, validator
<1>. QED
  BY <1>1, <1>2, <1>3, <1>4, <1>5, <1>6, <1>7, <1>8, <1>9, <1>10 DEF Pipeline

LEMMA InitLoaded == Init => Loaded
BY DEF Init, Loaded, Nothing

LEMMA NextLoaded == TypeOK /\ Loaded /\ [Next]_vars => Loaded'
<1>. SUFFICES ASSUME TypeOK, Loaded, [Next]_vars PROVE Loaded'
  OBVIOUS
<1>1. CASE Pipeline
  <2>1. /\ got' = got /\ verdict' = verdict /\ metadata' = metadata
        /\ \A i \in DOMAIN ledger : ledger'[i] = ledger[i]
    BY <1>1, PipelineAppends DEF Appends
  <2>2. \A f \in File : got[f] # 0 => got[f] \in DOMAIN ledger
    BY LoadedSound DEF Sound
  <2>. QED
    BY <2>1, <2>2 DEF Loaded, WellFormed, Nothing
<1>2. CASE LoadArtifact
  <2> DEFINE a == request[position]
  <2>1. a \in Artifact /\ Loadable(a) /\ got' = [got EXCEPT ![a.subject] = disk[a.path]]
    BY <1>2, RequestTypes DEF LoadArtifact
  <2>2. WellFormed(ledger[disk[a.path]]) /\ a.subject \in File
    BY <2>1, LoadableDocs
  <2>3. UNCHANGED <<ledger, verdict, metadata>>
    BY <1>2 DEF LoadArtifact, pipeline
  <2>. HIDE DEF a
  <2>4. ASSUME NEW f \in File, got'[f] # 0  PROVE WellFormed(ledger[got'[f]])
    <3>1. CASE f = a.subject
      BY <3>1, <2>1, <2>2 DEF TypeOK
    <3>2. CASE f # a.subject
      BY <3>2, <2>4, <2>1 DEF TypeOK, Loaded
    <3>. QED
      BY <3>1, <3>2
  <2>. QED
    BY <2>3, <2>4 DEF Loaded, WellFormed, Nothing
<1>3. CASE RejectArtifact \/ AcceptSet \/ RejectSet \/ UNCHANGED vars
  <2>1. /\ UNCHANGED <<ledger, got>>
        /\ verdict' # "accepted" => verdict # "accepted" /\ metadata' = metadata
    BY <1>3 DEF RejectArtifact, AcceptSet, RejectSet, vars, pipeline
  <2>. QED
    BY <2>1 DEF Loaded, WellFormed, Nothing
<1>. QED
  BY <1>1, <1>2, <1>3 DEF Next, Validator

(***************************************************************************)
(* The refinement.                                                         *)
(***************************************************************************)
LEMMA InitRefines == Init => Certified!Init
BY SameFiles DEF Init, Certified!Init, Nothing, Certified!Nothing

LEMMA NextRefines ==
  TypeOK /\ Loaded /\ [Next]_vars => [Certified!Next]_Certified!cvars
<1>. SUFFICES ASSUME TypeOK, Loaded, [Next]_vars
              PROVE  Certified!Next \/ UNCHANGED Certified!cvars
  OBVIOUS
<1>1. CASE Pipeline
  BY <1>1, PipelineAppends
     DEF Appends, Certified!Next, Certified!Write, Certified!cvars
<1>2. CASE LoadArtifact \/ UNCHANGED vars
  BY <1>2 DEF LoadArtifact, vars, pipeline, Certified!cvars
<1>3. CASE AcceptSet
  <2>1. LinksHold(got) /\ Sound(got)
    BY <1>3, LoadedSound DEF AcceptSet
  <2>2. Certified!Certifies(got)
    BY <2>1, LinksCertify
  <2>3. /\ metadata' = got /\ UNCHANGED ledger
        /\ verdict = "none" /\ verdict' = "accepted"
    BY <1>3 DEF AcceptSet, PublishedDigests, pipeline
  <2>. QED
    BY <2>2, <2>3 DEF Certified!Next, Certified!Accept
<1>4. CASE RejectArtifact \/ RejectSet
  BY <1>4 DEF RejectArtifact, RejectSet, pipeline, Certified!Next, Certified!Reject
<1>. QED
  BY <1>1, <1>2, <1>3, <1>4 DEF Next, Validator

\* However reads and rewrites interleave, validate_qualification_artifacts
\* behaves as one atomic decision about documents that exist; an accepted
\* table names one run of one scenario, and reports passed only if every
\* declared assertion passed in every domain.
THEOREM Implements == Spec => ImplementsCertification
<1>1. Init => TypeOK /\ Loaded /\ Certified!Init
  BY InitTypes, InitLoaded, InitRefines
<1>2. TypeOK /\ Loaded /\ [Next]_vars
        => TypeOK' /\ Loaded' /\ [Certified!Next]_Certified!cvars
  BY NextTypes, NextLoaded, NextRefines
<1>. QED
  BY <1>1, <1>2, PTL DEF Spec, ImplementsCertification, Certified!Spec

(***************************************************************************)
(* Indexes and executions.                                                 *)
(***************************************************************************)
IsIndex(x, d) ==
  /\ x \in DOMAIN ledger
  /\ ledger[x] \in IndexDoc
  /\ ledger[x].ghost = d

IsResult(y, d) ==
  /\ y \in DOMAIN ledger
  /\ ledger[y] \in ResultDoc
  /\ ledger[y].domain_id = d

\* Nothing is dated in the future.
Dated ==
  \A d \in Domain :
    /\ runner[d] # Idle => runner[d].job.started_at <= clock
    /\ \A x \in DOMAIN ledger : IsIndex(x, d) => ledger[x].generated_at <= clock
    /\ \A y \in DOMAIN ledger : IsResult(y, d) => ledger[y].finished_at <= clock

\* An execution starts when the domain's earlier ones are over.
Sequential ==
  \A d \in Domain : runner[d] # Idle =>
    /\ \A x \in DOMAIN ledger :
         IsIndex(x, d) /\ (runner[d].phase = "indexed" => x # runner[d].index)
           => ledger[x].generated_at <= runner[d].job.started_at
    /\ \A y \in DOMAIN ledger :
         IsResult(y, d) => ledger[y].finished_at <= runner[d].job.started_at

\* The inductive strengthening: an index of another execution is never dated
\* strictly inside an execution's interval.
Apart ==
  \A d \in Domain : \A x, y \in DOMAIN ledger :
    IsIndex(x, d) /\ IsResult(y, d) /\ ledger[y].ghost # x =>
      \/ ledger[x].generated_at <= ledger[y].started_at
      \/ ledger[x].generated_at >= ledger[y].finished_at

\* What the link checks established about the documents published for a
\* domain, kept while the pipeline goes on.
Matched(result, index, d) ==
  /\ result.domain_id = d
  /\ result.run_id = index.run_id
  /\ result.evidence = index.artifacts
  /\ result.started_at <= index.generated_at
  /\ index.generated_at <= result.finished_at

Checked ==
  verdict = "accepted" =>
    /\ Sound(metadata)
    /\ metadata[RunFile] # 0
    /\ \A d \in Doc(metadata, RunFile).domains :
         /\ d \in Domain
         /\ metadata[ResultFile(d)] # 0 /\ metadata[IndexFile(d)] # 0
         /\ Matched(Doc(metadata, ResultFile(d)), Doc(metadata, IndexFile(d)), d)

(***************************************************************************)
(* The validator's part.                                                   *)
(***************************************************************************)
LEMMA LinksMatch ==
  ASSUME NEW m, Sound(m), LinksHold(m)
  PROVE  /\ m[RunFile] # 0
         /\ \A d \in Doc(m, RunFile).domains :
              /\ d \in Domain
              /\ m[ResultFile(d)] # 0 /\ m[IndexFile(d)] # 0
              /\ Matched(Doc(m, ResultFile(d)), Doc(m, IndexFile(d)), d)
<1>1. m[RunFile] # 0
  BY DEF LinksHold, OneOfEach, Names
<1>. SUFFICES ASSUME NEW d \in Doc(m, RunFile).domains
              PROVE  /\ d \in Domain
                     /\ m[ResultFile(d)] # 0 /\ m[IndexFile(d)] # 0
                     /\ Matched(Doc(m, ResultFile(d)), Doc(m, IndexFile(d)), d)
  BY <1>1
<1>2. d \in Domain
  BY LinkedDocs
<1>3. m[ResultFile(d)] # 0 /\ m[IndexFile(d)] # 0
  BY DEF LinksHold, DomainSetsEqual, Names, ResultFile, IndexFile
<1>4. /\ Chronological(m, d) /\ ResultLinks(m, d) /\ EvidenceIndexed(m, d)
      /\ Doc(m, IndexFile(d)).run_id = Doc(m, RunFile).run_id
  BY DEF LinksHold, DomainLinks, IndexRuns
<1>5. Matched(Doc(m, ResultFile(d)), Doc(m, IndexFile(d)), d)
  BY <1>4 DEF Matched, Chronological, ResultLinks, EvidenceIndexed
<1>. QED
  BY <1>2, <1>3, <1>5

LEMMA CheckedStable ==
  ASSUME TypeOK, Checked, Appends \/ UNCHANGED ledger, UNCHANGED <<verdict, metadata>>,
         TypeOK'
  PROVE  Checked'
<1>. SUFFICES ASSUME verdict = "accepted" PROVE Checked'
  BY DEF Checked
<1>1. /\ Len(ledger) \in Nat /\ Len(ledger') \in Nat
      /\ DOMAIN ledger = 1..Len(ledger) /\ DOMAIN ledger' = 1..Len(ledger')
      /\ Len(ledger') >= Len(ledger)
      /\ \A i \in DOMAIN ledger : i \in DOMAIN ledger' /\ ledger'[i] = ledger[i]
  <2>1. ledger \in Seq(Document) /\ ledger' \in Seq(Document)
    BY DEF TypeOK
  <2>. QED
    BY <2>1 DEF Appends
<1>2. \A f \in File : metadata[f] # 0 =>
        /\ metadata[f] \in DOMAIN ledger
        /\ ledger'[metadata[f]] = ledger[metadata[f]]
  BY <1>1 DEF Checked, Sound
<1>3. Sound(metadata)'
  BY <1>1, <1>2 DEF Checked, Sound, DocOf, WellFormed, TypeOK
<1>4. metadata[RunFile] # 0 /\ Doc(metadata, RunFile)' = Doc(metadata, RunFile)
  BY <1>2, FileNames DEF Checked, Doc
<1>5. ASSUME NEW d \in Doc(metadata, RunFile).domains
      PROVE  /\ d \in Domain
             /\ metadata[ResultFile(d)] # 0 /\ metadata[IndexFile(d)] # 0
             /\ Matched(Doc(metadata, ResultFile(d))', Doc(metadata, IndexFile(d))', d)
  <2>1. /\ d \in Domain
        /\ metadata[ResultFile(d)] # 0 /\ metadata[IndexFile(d)] # 0
        /\ Matched(Doc(metadata, ResultFile(d)), Doc(metadata, IndexFile(d)), d)
    BY DEF Checked
  <2>2. /\ Doc(metadata, ResultFile(d))' = Doc(metadata, ResultFile(d))
        /\ Doc(metadata, IndexFile(d))' = Doc(metadata, IndexFile(d))
    BY <1>2, <2>1, FileNames DEF Doc
  <2>. QED
    BY <2>1, <2>2
<1>6. \A d \in Doc(metadata, RunFile)'.domains :
        /\ d \in Domain
        /\ metadata'[ResultFile(d)] # 0 /\ metadata'[IndexFile(d)] # 0
        /\ Matched(Doc(metadata, ResultFile(d))', Doc(metadata, IndexFile(d))', d)
  BY <1>4, <1>5
<1>. QED
  BY <1>3, <1>4, <1>6 DEF Checked, Matched

LEMMA NextChecked ==
  ASSUME TypeOK, Loaded, Checked, [Next]_vars
  PROVE  Checked'
<1>0. TypeOK'
  BY NextTypes
<1>1. CASE Pipeline
  BY <1>0, <1>1, PipelineAppends, CheckedStable
<1>2. CASE LoadArtifact \/ UNCHANGED vars
  BY <1>0, <1>2, CheckedStable DEF LoadArtifact, vars, pipeline
<1>3. CASE RejectArtifact \/ RejectSet
  BY <1>3 DEF RejectArtifact, RejectSet, Checked
<1>4. CASE AcceptSet
  <2>1. LinksHold(got) /\ Sound(got) /\ metadata' = got /\ UNCHANGED ledger
    BY <1>4, LoadedSound DEF AcceptSet, PublishedDigests, pipeline
  <2>2. /\ got[RunFile] # 0
        /\ \A d \in Doc(got, RunFile).domains :
             /\ d \in Domain
             /\ got[ResultFile(d)] # 0 /\ got[IndexFile(d)] # 0
             /\ Matched(Doc(got, ResultFile(d)), Doc(got, IndexFile(d)), d)
    BY <2>1, LinksMatch
  <2>3. /\ Sound(metadata)' /\ metadata'[RunFile] # 0
        /\ \A f \in File : Doc(metadata, f)' = Doc(got, f)
    BY <2>1, <2>2 DEF Sound, Doc, DocOf, WellFormed
  <2>4. Doc(metadata, RunFile)' = Doc(got, RunFile)
    BY <2>3, FileNames
  <2>5. ASSUME NEW d \in Doc(got, RunFile).domains
        PROVE  /\ d \in Domain
               /\ metadata'[ResultFile(d)] # 0 /\ metadata'[IndexFile(d)] # 0
               /\ Matched(Doc(metadata, ResultFile(d))', Doc(metadata, IndexFile(d))', d)
    <3>1. /\ Doc(metadata, ResultFile(d))' = Doc(got, ResultFile(d))
          /\ Doc(metadata, IndexFile(d))' = Doc(got, IndexFile(d))
      BY <2>1 DEF Doc
    <3>. QED
      BY <2>1, <2>2, <3>1
  <2>. QED
    BY <2>3, <2>4, <2>5 DEF Checked, Matched
<1>. QED
  BY <1>1, <1>2, <1>3, <1>4 DEF Next, Validator

(***************************************************************************)
(* The pipeline's part.                                                    *)
(***************************************************************************)
Executions == Dated /\ Sequential /\ Apart

\* What one write does to the indexes and results of the ledger.
LEMMA WriteAdds ==
  ASSUME TypeOK, NEW f \in File, NEW doc \in DocOf(f) \cup {Torn}, WriteFile(f, doc),
         NEW n, n = Len(ledger) + 1
  PROVE  /\ n \notin DOMAIN ledger
         /\ DOMAIN ledger' = DOMAIN ledger \cup {n}
         /\ ledger'[n] = doc
         /\ \A x \in DOMAIN ledger : ledger'[x] = ledger[x]
         /\ \A d \in Domain : \A x \in DOMAIN ledger :
              /\ IsIndex(x, d)' <=> IsIndex(x, d)
              /\ IsResult(x, d)' <=> IsResult(x, d)
         /\ \A d \in Domain :
              /\ IsIndex(n, d)' <=> doc \in IndexDoc /\ doc.ghost = d
              /\ IsResult(n, d)' <=> doc \in ResultDoc /\ doc.domain_id = d
<1>1. doc \in Document
  BY DocsAreDocuments
<1>2. /\ ledger \in Seq(Document) /\ ledger' \in Seq(Document)
      /\ Len(ledger') = Len(ledger) + 1 /\ Len(ledger) \in Nat
      /\ ledger'[Len(ledger) + 1] = doc
      /\ \A i \in 1..Len(ledger) : ledger'[i] = ledger[i]
  BY <1>1, WriteGrowsLedger DEF TypeOK
<1>3. DOMAIN ledger = 1..Len(ledger) /\ DOMAIN ledger' = 1..Len(ledger')
  BY <1>2
<1>4. DOMAIN ledger' = DOMAIN ledger \cup {Len(ledger) + 1}
  BY <1>2, <1>3
<1>5. Len(ledger) + 1 \notin DOMAIN ledger
  BY <1>2, <1>3
<1>6. \A x \in DOMAIN ledger : ledger'[x] = ledger[x]
  BY <1>2, <1>3
<1>7. \A d \in Domain : \A x \in DOMAIN ledger :
        (IsIndex(x, d)' <=> IsIndex(x, d)) /\ (IsResult(x, d)' <=> IsResult(x, d))
  BY <1>4, <1>6 DEF IsIndex, IsResult
<1>8. \A d \in Domain :
        /\ IsIndex(n, d)' <=> doc \in IndexDoc /\ doc.ghost = d
        /\ IsResult(n, d)' <=> doc \in ResultDoc /\ doc.domain_id = d
  BY <1>2, <1>4 DEF IsIndex, IsResult
<1>. QED
  BY <1>2, <1>4, <1>5, <1>6, <1>7, <1>8

\* A write of anything else does not concern executions.
LEMMA OtherWrites ==
  ASSUME TypeOK, Executions,
         NEW f \in File, NEW doc \in DocOf(f) \cup {Torn}, WriteFile(f, doc),
         doc \notin IndexDoc, doc \notin ResultDoc,
         runner' = runner, clock' = clock
  PROVE  Executions'
<1>. PICK n : n = Len(ledger) + 1
  OBVIOUS
<1>1. /\ DOMAIN ledger' = DOMAIN ledger \cup {n}
      /\ \A x \in DOMAIN ledger : ledger'[x] = ledger[x]
      /\ \A d \in Domain : \A x \in DOMAIN ledger :
           (IsIndex(x, d)' <=> IsIndex(x, d)) /\ (IsResult(x, d)' <=> IsResult(x, d))
      /\ \A d \in Domain : ~ IsIndex(n, d)' /\ ~ IsResult(n, d)'
  <2>1. \A d \in Domain :
          /\ IsIndex(n, d)' <=> doc \in IndexDoc /\ doc.ghost = d
          /\ IsResult(n, d)' <=> doc \in ResultDoc /\ doc.domain_id = d
    BY WriteAdds
  <2>2. /\ DOMAIN ledger' = DOMAIN ledger \cup {n}
        /\ \A x \in DOMAIN ledger : ledger'[x] = ledger[x]
        /\ \A d \in Domain : \A x \in DOMAIN ledger :
             (IsIndex(x, d)' <=> IsIndex(x, d)) /\ (IsResult(x, d)' <=> IsResult(x, d))
    BY WriteAdds
  <2>. QED
    BY <2>1, <2>2
<1>2. Dated'
  BY <1>1 DEF Executions, Dated
<1>3. Sequential'
  BY <1>1 DEF Executions, Sequential
<1>4. Apart'
  BY <1>1 DEF Executions, Apart
<1>. QED
  BY <1>2, <1>3, <1>4 DEF Executions

\* A step that writes nothing does not move documents.
LEMMA SameLedger ==
  ASSUME UNCHANGED ledger
  PROVE  \A x, d : (IsIndex(x, d)' <=> IsIndex(x, d)) /\ (IsResult(x, d)' <=> IsResult(x, d))
BY DEF IsIndex, IsResult

LEMMA QuietSteps ==
  ASSUME Executions, UNCHANGED <<ledger, clock, runner>>
  PROVE  Executions'
BY SameLedger DEF Executions, Dated, Sequential, Apart

LEMMA TickExecutions ==
  ASSUME TypeOK, Executions, Tick
  PROVE  Executions'
<1>1. /\ UNCHANGED <<ledger, runner>>
      /\ clock' = clock + 1 /\ clock \in Nat
  BY DEF Tick, TypeOK, Time
<1>2. /\ \A x \in DOMAIN ledger, d \in Domain : IsIndex(x, d) => ledger[x].generated_at \in Nat
      /\ \A y \in DOMAIN ledger, d \in Domain : IsResult(y, d) => ledger[y].finished_at \in Nat
      /\ \A d \in Domain : runner[d] # Idle => runner[d].job.started_at \in Nat
  <2>1. \A d \in Domain : runner[d] # Idle => runner[d].job \in Job
    BY RunnerTypes DEF TypeOK
  <2>. QED
    BY <2>1 DEF IsIndex, IsResult, IndexDoc, ResultDoc, Job, Time
<1>3. Dated'
  BY <1>1, <1>2, SameLedger DEF Executions, Dated
<1>4. Sequential' /\ Apart'
  BY <1>1, SameLedger DEF Executions, Sequential, Apart
<1>. QED
  BY <1>3, <1>4 DEF Executions

LEMMA AbortExecutions ==
  ASSUME TypeOK, Executions, NEW d \in Domain, AbortDomain(d)
  PROVE  Executions'
<1>1. /\ UNCHANGED <<ledger, clock>>
      /\ \A c \in Domain : runner'[c] # Idle => runner'[c] = runner[c]
  BY DEF AbortDomain, TypeOK
<1>2. Dated' /\ Sequential' /\ Apart'
  BY <1>1, SameLedger DEF Executions, Dated, Sequential, Apart
<1>. QED
  BY <1>2 DEF Executions

\* An execution starts now, after everything dated so far.
LEMMA StartExecutions ==
  ASSUME TypeOK, Executions, NEW d \in Domain, StartDomain(d)
  PROVE  Executions'
<1>1. /\ UNCHANGED <<ledger, clock>> /\ clock \in Nat
      /\ runner'[d].job.started_at = clock /\ runner'[d].phase = "started"
      /\ \A c \in Domain \ {d} : runner'[c] = runner[c]
  BY DEF StartDomain, TypeOK, Time
<1>2. Dated'
  BY <1>1, SameLedger DEF Executions, Dated
<1>3. Sequential'
  <2>. SUFFICES ASSUME NEW c \in Domain, runner'[c] # Idle
                PROVE  /\ \A x \in DOMAIN ledger :
                            IsIndex(x, c) /\ (runner'[c].phase = "indexed" => x # runner'[c].index)
                              => ledger[x].generated_at <= runner'[c].job.started_at
                       /\ \A y \in DOMAIN ledger :
                            IsResult(y, c) => ledger[y].finished_at <= runner'[c].job.started_at
    BY <1>1, SameLedger DEF Sequential
  <2>1. CASE c = d
    BY <2>1, <1>1 DEF Executions, Dated
  <2>2. CASE c # d
    BY <2>2, <1>1 DEF Executions, Sequential
  <2>. QED
    BY <2>1, <2>2
<1>4. Apart'
  BY <1>1, SameLedger DEF Executions, Apart
<1>. QED
  BY <1>2, <1>3, <1>4 DEF Executions

\* An index is dated now: after every earlier execution of its domain.
LEMMA IndexExecutions ==
  ASSUME TypeOK, Executions, NEW d \in Domain, WriteIndex(d)
  PROVE  Executions'
<1>1. runner[d].phase = "started" /\ runner[d].job \in Job /\ runner[d] # Idle
  BY RunnerTypes DEF WriteIndex, TypeOK
<1>2. PICK e \in Evidence :
        WriteFile(IndexFile(d),
          [kind |-> "evidence_index", run_id |-> runner[d].job.run_id,
           generated_at |-> clock, artifacts |-> e, ghost |-> d])
  BY DEF WriteIndex
<1>3. PICK doc : doc = [kind |-> "evidence_index", run_id |-> runner[d].job.run_id,
                        generated_at |-> clock, artifacts |-> e, ghost |-> d]
  OBVIOUS
<1>4. /\ doc \in IndexDoc /\ doc.ghost = d /\ doc.generated_at = clock
      /\ clock \in Nat
  BY <1>1, <1>3 DEF IndexDoc, Job, TypeOK, Time
<1>5. doc \notin ResultDoc
  BY <1>4, KindsDeclared
<1>6. PICK n : n = Len(ledger) + 1
  OBVIOUS
<1>7. WriteFile(IndexFile(d), doc) /\ doc \in DocOf(IndexFile(d))
  BY <1>2, <1>3, <1>4, FileDocs
<1>8. /\ n \notin DOMAIN ledger
      /\ DOMAIN ledger' = DOMAIN ledger \cup {n}
      /\ ledger'[n] = doc
      /\ \A x \in DOMAIN ledger : ledger'[x] = ledger[x]
      /\ \A c \in Domain : \A x \in DOMAIN ledger :
           (IsIndex(x, c)' <=> IsIndex(x, c)) /\ (IsResult(x, c)' <=> IsResult(x, c))
  BY <1>6, <1>7, FileNames, WriteAdds
<1>9. \A c \in Domain : (IsIndex(n, c)' <=> c = d) /\ ~ IsResult(n, c)'
  <2>1. \A c \in Domain :
          /\ IsIndex(n, c)' <=> doc \in IndexDoc /\ doc.ghost = c
          /\ IsResult(n, c)' <=> doc \in ResultDoc /\ doc.domain_id = c
    BY <1>8 DEF IsIndex, IsResult
  <2>2. doc \in IndexDoc /\ doc.ghost = d
    BY <1>4
  <2>. TAKE c \in Domain
  <2>3. IsIndex(n, c)' <=> doc.ghost = c
    BY <2>1, <2>2
  <2>4. ~ IsResult(n, c)'
    BY <2>1, <1>5
  <2>. QED
    BY <2>2, <2>3, <2>4
<1>10. /\ clock' = clock
       /\ runner'[d] = [phase |-> "indexed", job |-> runner[d].job, index |-> n]
       /\ \A c \in Domain \ {d} : runner'[c] = runner[c]
  BY <1>6 DEF WriteIndex, TypeOK
<1>11. Dated'
  BY <1>1, <1>4, <1>8, <1>9, <1>10 DEF Executions, Dated
<1>12. Sequential'
  <2>. SUFFICES ASSUME NEW c \in Domain, runner'[c] # Idle
                PROVE  /\ \A x \in DOMAIN ledger' :
                            IsIndex(x, c)' /\ (runner'[c].phase = "indexed" => x # runner'[c].index)
                              => ledger'[x].generated_at <= runner'[c].job.started_at
                       /\ \A y \in DOMAIN ledger' :
                            IsResult(y, c)' => ledger'[y].finished_at <= runner'[c].job.started_at
    BY DEF Sequential
  <2>1. CASE c = d
    BY <2>1, <1>1, <1>8, <1>9, <1>10 DEF Executions, Sequential
  <2>2. CASE c # d
    BY <2>2, <1>8, <1>9, <1>10 DEF Executions, Sequential
  <2>. QED
    BY <2>1, <2>2
<1>13. Apart'
  <2>. SUFFICES ASSUME NEW c \in Domain, NEW x \in DOMAIN ledger', NEW y \in DOMAIN ledger',
                       IsIndex(x, c)', IsResult(y, c)', ledger'[y].ghost # x
                PROVE  \/ ledger'[x].generated_at <= ledger'[y].started_at
                       \/ ledger'[x].generated_at >= ledger'[y].finished_at
    BY DEF Apart
  <2>1. y \in DOMAIN ledger /\ IsResult(y, c) /\ ledger'[y] = ledger[y]
    BY <1>8, <1>9
  <2>2. CASE x = n
    <3>1. ledger[y].finished_at <= clock /\ ledger[y].finished_at \in Nat
      BY <2>1 DEF Executions, Dated, IsResult, ResultDoc, Time
    <3>. QED
      BY <2>1, <2>2, <3>1, <1>4, <1>8
  <2>3. CASE x # n
    BY <2>1, <2>3, <1>8 DEF Executions, Apart
  <2>. QED
    BY <2>2, <2>3
<1>. QED
  BY <1>11, <1>12, <1>13 DEF Executions

\* The result an execution writes.
LEMMA FinishedDoc ==
  ASSUME TypeOK, NEW d \in Domain, FinishDomain(d), runner[d].job \in Job
  PROVE  \E doc : /\ WriteFile(ResultFile(d), doc)
                  /\ doc \in ResultDoc /\ doc.domain_id = d
                  /\ doc.started_at = runner[d].job.started_at
                  /\ doc.finished_at = clock /\ doc.ghost = runner[d].index
<1>1. PICK results \in AssertionResults, s \in ClaimStatus :
        WriteFile(ResultFile(d),
          [kind |-> "domain_result", domain_id |-> d,
           run_id |-> runner[d].job.run_id, scenario |-> runner[d].job.scenario,
           runtime |-> runner[d].job.runtime,
           execution |-> runner[d].job.execution,
           started_at |-> runner[d].job.started_at, finished_at |-> clock,
           assertion_results |-> results,
           evidence |-> ledger[runner[d].index].artifacts,
           status |-> s, ghost |-> runner[d].index])
  BY DEF FinishDomain
<1> DEFINE doc ==
      [kind |-> "domain_result", domain_id |-> d,
       run_id |-> runner[d].job.run_id, scenario |-> runner[d].job.scenario,
       runtime |-> runner[d].job.runtime,
       execution |-> runner[d].job.execution,
       started_at |-> runner[d].job.started_at, finished_at |-> clock,
       assertion_results |-> results,
       evidence |-> ledger[runner[d].index].artifacts,
       status |-> s, ghost |-> runner[d].index]
<1>2. /\ runner[d].index \in Digest
      /\ ledger[runner[d].index].artifacts \in Evidence
      /\ clock \in Time
  <2>1. /\ runner[d].index \in 1..Len(ledger) /\ Len(ledger) \in Nat
        /\ ledger[runner[d].index] \in IndexDoc
    BY DEF TypeOK, FinishDomain
  <2>. QED
    BY <2>1 DEF Digest, IndexDoc, TypeOK
<1>3. doc \in ResultDoc
  BY <1>2 DEF ResultDoc, Job
<1>4. /\ doc.domain_id = d /\ doc.started_at = runner[d].job.started_at
      /\ doc.finished_at = clock /\ doc.ghost = runner[d].index
  OBVIOUS
<1>5. WriteFile(ResultFile(d), doc)
  BY <1>1
<1>. HIDE DEF doc
<1>. QED
  BY <1>3, <1>4, <1>5

\* A result closes the interval its execution opened; the other indexes of the
\* domain are older than that.
LEMMA FinishExecutions ==
  ASSUME TypeOK, Executions, NEW d \in Domain, FinishDomain(d)
  PROVE  Executions'
<1>1. runner[d].phase = "indexed" /\ runner[d].job \in Job /\ runner[d] # Idle
  BY RunnerTypes DEF FinishDomain, TypeOK
<1>2. PICK doc : /\ WriteFile(ResultFile(d), doc)
                 /\ doc \in ResultDoc /\ doc.domain_id = d
                 /\ doc.started_at = runner[d].job.started_at
                 /\ doc.finished_at = clock /\ doc.ghost = runner[d].index
  BY <1>1, FinishedDoc
<1>3. doc \notin IndexDoc /\ doc \in DocOf(ResultFile(d)) /\ clock \in Nat
  BY <1>2, KindsDeclared, FileDocs DEF TypeOK, Time
<1>4. PICK n : n = Len(ledger) + 1
  OBVIOUS
<1>5. /\ n \notin DOMAIN ledger
      /\ DOMAIN ledger' = DOMAIN ledger \cup {n}
      /\ ledger'[n] = doc
      /\ \A x \in DOMAIN ledger : ledger'[x] = ledger[x]
      /\ \A c \in Domain : \A x \in DOMAIN ledger :
           (IsIndex(x, c)' <=> IsIndex(x, c)) /\ (IsResult(x, c)' <=> IsResult(x, c))
  BY <1>2, <1>3, <1>4, FileNames, WriteAdds
<1>6. \A c \in Domain : ~ IsIndex(n, c)' /\ (IsResult(n, c)' <=> c = d)
  <2>1. \A c \in Domain :
          /\ IsIndex(n, c)' <=> doc \in IndexDoc /\ doc.ghost = c
          /\ IsResult(n, c)' <=> doc \in ResultDoc /\ doc.domain_id = c
    BY <1>2, <1>3, <1>4, FileNames, WriteAdds
  <2>. QED
    BY <2>1, <1>2, <1>3
<1>7. /\ clock' = clock
      /\ \A c \in Domain : runner'[c] # Idle => c # d /\ runner'[c] = runner[c]
  BY DEF FinishDomain, TypeOK
<1>8. Dated'
  BY <1>2, <1>3, <1>5, <1>6, <1>7 DEF Executions, Dated
<1>9. Sequential'
  BY <1>5, <1>6, <1>7 DEF Executions, Sequential
<1>10. Apart'
  <2>. SUFFICES ASSUME NEW c \in Domain, NEW x \in DOMAIN ledger', NEW y \in DOMAIN ledger',
                       IsIndex(x, c)', IsResult(y, c)', ledger'[y].ghost # x
                PROVE  \/ ledger'[x].generated_at <= ledger'[y].started_at
                       \/ ledger'[x].generated_at >= ledger'[y].finished_at
    BY DEF Apart
  <2>1. x \in DOMAIN ledger /\ IsIndex(x, c) /\ ledger'[x] = ledger[x]
    BY <1>5, <1>6
  <2>2. CASE y = n
    <3>1. c = d /\ x # runner[d].index
      BY <2>2, <1>2, <1>5, <1>6
    <3>2. ledger[x].generated_at <= runner[d].job.started_at
      BY <2>1, <3>1, <1>1 DEF Executions, Sequential
    <3>. QED
      BY <2>1, <2>2, <3>2, <1>2, <1>5
  <2>3. CASE y # n
    BY <2>1, <2>3, <1>5 DEF Executions, Apart
  <2>. QED
    BY <2>2, <2>3
<1>. QED
  BY <1>8, <1>9, <1>10 DEF Executions

LEMMA OtherDocs ==
  ASSUME NEW doc,
         \/ doc \in ScenarioDoc \/ doc \in RunDoc \/ doc \in RuntimeDoc
         \/ doc \in AggregateDoc \/ doc = Torn
  PROVE  doc \notin IndexDoc /\ doc \notin ResultDoc
BY KindsDeclared

\* Writes of documents that are neither indexes nor results.
LEMMA OtherExecutions ==
  ASSUME TypeOK, Executions,
         \/ WriteScenario \/ WriteRun \/ WriteAggregate
         \/ \E d \in Domain : WriteRuntime(d)
         \/ \E f \in File : TearFile(f)
  PROVE  Executions'
<1>1. CASE WriteScenario
  BY <1>1, FileNames, FileDocs, OtherDocs, OtherWrites DEF WriteScenario
<1>2. CASE WriteRun
  <2>1. PICK doc : /\ WriteFile(RunFile, doc) /\ doc \in RunDoc
                   /\ UNCHANGED <<clock, runner>>
    <3>1. PICK r \in RunId, S \in (SUBSET Domain) \ {{}} :
            WriteFile(RunFile,
              [kind |-> "acceptance_run", run_id |-> r, created_at |-> clock,
               scenario |-> disk[ScenarioFile], domains |-> S])
      BY <1>2 DEF WriteRun
    <3>2. disk[ScenarioFile] \in Digest /\ clock \in Time
      BY FileNames DEF TypeOK, Digest
    <3>3. [kind |-> "acceptance_run", run_id |-> r, created_at |-> clock,
           scenario |-> disk[ScenarioFile], domains |-> S] \in RunDoc
      BY <3>2 DEF RunDoc
    <3>. QED
      BY <3>1, <3>3, <1>2 DEF WriteRun
  <2>. QED
    BY <2>1, FileNames, FileDocs, OtherDocs, OtherWrites
<1>3. CASE WriteAggregate
  <2>1. PICK doc : /\ WriteFile(AggregateFile, doc)
                   /\ doc.kind = "acceptance_aggregate"
                   /\ UNCHANGED <<clock, runner>>
    BY <1>3 DEF WriteAggregate
  <2>2. TypeOK'
    BY <1>3, WriteAggregateTypes
  <2>3. doc \in AggregateDoc
    <3>1. /\ disk' = [disk EXCEPT ![AggregateFile] = Len(ledger) + 1]
          /\ ledger' = Append(ledger, doc) /\ ledger \in Seq(Document)
          /\ disk \in [File -> 0..Len(ledger)]
      BY <2>1 DEF WriteFile, TypeOK
    <3>2. /\ disk'[AggregateFile] = Len(ledger) + 1 /\ Len(ledger) \in Nat
          /\ ledger'[Len(ledger) + 1] = doc
      BY <3>1, FileNames
    <3>3. ledger'[disk'[AggregateFile]] \in DocOf(AggregateFile) \cup {Torn}
      <4>1. \A f \in File : disk'[f] # 0 => ledger'[disk'[f]] \in DocOf(f) \cup {Torn}
        BY <2>2 DEF TypeOK, DocOf
      <4>2. disk'[AggregateFile] # 0
        BY <3>2
      <4>. QED
        BY <4>1, <4>2, FileNames
    <3>. QED
      BY <2>1, <3>2, <3>3, FileDocs, KindsDeclared
  <2>. QED
    BY <2>1, <2>3, FileNames, FileDocs, OtherDocs, OtherWrites
<1>4. ASSUME NEW d \in Domain, WriteRuntime(d)  PROVE Executions'
  <2>1. PICK doc : /\ WriteFile(RuntimeFile(d), doc) /\ doc \in RuntimeDoc
                   /\ UNCHANGED <<clock, runner>>
    <3>1. PICK x \in Execution :
            WriteFile(RuntimeFile(d),
              [kind |-> "runtime_manifest", generated_at |-> clock, execution |-> x])
      BY <1>4 DEF WriteRuntime
    <3>2. [kind |-> "runtime_manifest", generated_at |-> clock, execution |-> x]
            \in RuntimeDoc
      BY DEF RuntimeDoc, TypeOK
    <3>. QED
      BY <3>1, <3>2, <1>4 DEF WriteRuntime
  <2>. QED
    BY <2>1, FileNames, FileDocs, OtherDocs, OtherWrites
<1>5. ASSUME NEW f \in File, TearFile(f)  PROVE Executions'
  BY <1>5, OtherDocs, OtherWrites DEF TearFile
<1>. QED
  BY <1>1, <1>2, <1>3, <1>4, <1>5

LEMMA InitExecutions == Init => Executions /\ Checked
BY DEF Init, Executions, Dated, Sequential, Apart, Checked

LEMMA NextExecutions ==
  ASSUME TypeOK, Executions, [Next]_vars
  PROVE  Executions'
<1>1. CASE Pipeline
  BY <1>1, OtherExecutions, StartExecutions, IndexExecutions, FinishExecutions,
     AbortExecutions, TickExecutions DEF Pipeline
<1>2. CASE Validator
  BY <1>2, QuietSteps
     DEF Validator, LoadArtifact, RejectArtifact, AcceptSet, RejectSet, pipeline
<1>3. CASE UNCHANGED vars
  BY <1>3, QuietSteps DEF vars
<1>. QED
  BY <1>1, <1>2, <1>3 DEF Next

LEMMA ExecutionsSuffice ==
  ASSUME TypeOK, Executions, Checked
  PROVE  EvidenceIsOwn
<1>. SUFFICES ASSUME verdict = "accepted",
                     NEW d \in Doc(metadata, RunFile).domains,
                     Doc(metadata, IndexFile(d)).ghost = d,
                     Doc(metadata, ResultFile(d)).ghost # metadata[IndexFile(d)]
              PROVE  LET result == Doc(metadata, ResultFile(d))
                         index  == Doc(metadata, IndexFile(d))
                     IN  /\ index.run_id = result.run_id
                         /\ index.artifacts = result.evidence
                         /\ index.generated_at \in {result.started_at, result.finished_at}
  BY DEF EvidenceIsOwn
<1> DEFINE x == metadata[IndexFile(d)]
           y == metadata[ResultFile(d)]
<1>1. /\ d \in Domain /\ x # 0 /\ y # 0 /\ Sound(metadata)
      /\ Matched(ledger[y], ledger[x], d)
  BY DEF Checked, Doc
<1>2. /\ x \in DOMAIN ledger /\ ledger[x] \in IndexDoc
      /\ y \in DOMAIN ledger /\ ledger[y] \in ResultDoc
  BY <1>1, FileNames, FileDocs DEF Sound
<1>3. ledger[x].ghost = d /\ ledger[y].ghost # x /\ ledger[y].domain_id = d
  BY <1>1 DEF Matched, Doc
<1>4. IsIndex(x, d) /\ IsResult(y, d)
  BY <1>2, <1>3 DEF IsIndex, IsResult
<1>5. \/ ledger[x].generated_at <= ledger[y].started_at
      \/ ledger[x].generated_at >= ledger[y].finished_at
  BY <1>1, <1>2, <1>3, <1>4 DEF Executions, Apart
<1>6. /\ ledger[x].generated_at \in Nat
      /\ ledger[y].started_at \in Nat /\ ledger[y].finished_at \in Nat
  BY <1>2 DEF IndexDoc, ResultDoc, Time
<1>7. ledger[x].generated_at \in {ledger[y].started_at, ledger[y].finished_at}
  BY <1>1, <1>5, <1>6 DEF Matched
<1>. QED
  BY <1>1, <1>7 DEF Matched, Doc

\* An accepted evidence index of another execution of its domain can only be
\* one nothing tells apart: same run, same evidence, and dated at the instant
\* the accepted result's execution started or finished.
THEOREM IndexBelongs == Spec => []EvidenceIsOwn
<1>1. Init => TypeOK /\ Loaded /\ Executions /\ Checked
  BY InitTypes, InitLoaded, InitExecutions
<1>2. TypeOK /\ Loaded /\ Executions /\ Checked /\ [Next]_vars
        => TypeOK' /\ Loaded' /\ Executions' /\ Checked'
  BY NextTypes, NextLoaded, NextExecutions, NextChecked
<1>3. TypeOK /\ Executions /\ Checked => EvidenceIsOwn
  BY ExecutionsSuffice
<1>. QED
  BY <1>1, <1>2, <1>3, PTL DEF Spec

(***************************************************************************)
(* Where documents come from.  What a document refers to was there when it *)
(* was written, and agreed with it.                                        *)
(***************************************************************************)
Is(k, docs) == k \in DOMAIN ledger /\ ledger[k] \in docs

FromRun(doc) == doc \in RunDoc => Is(doc.scenario, ScenarioDoc)

FromRuntime(doc) ==
  doc \in RuntimeDoc =>
    \E k \in DOMAIN ledger : Is(k, RunDoc) /\ ledger[k].created_at <= doc.generated_at

RunOf(id) == \E k \in DOMAIN ledger : Is(k, RunDoc) /\ ledger[k].run_id = id

FromIndex(doc) == doc \in IndexDoc => RunOf(doc.run_id)

FromResult(doc) ==
  doc \in ResultDoc =>
    /\ Is(doc.scenario, ScenarioDoc)
    /\ Is(doc.runtime, RuntimeDoc) /\ ledger[doc.runtime].generated_at <= doc.started_at
    /\ RunOf(doc.run_id)
    /\ IsIndex(doc.ghost, doc.domain_id)
    /\ ledger[doc.ghost].artifacts = doc.evidence
    /\ doc.started_at <= ledger[doc.ghost].generated_at
    /\ ledger[doc.ghost].generated_at <= doc.finished_at

FromAggregate(doc) ==
  doc \in AggregateDoc =>
    /\ Is(doc.acceptance_run, RunDoc) /\ ledger[doc.acceptance_run].run_id = doc.run_id
    /\ \A d \in Listed(doc) :
         /\ IsResult(doc.per_domain_results[d].digest, d)
         /\ ledger[doc.per_domain_results[d].digest].finished_at <= doc.generated_at

Sourced(doc) ==
  FromRun(doc) /\ FromRuntime(doc) /\ FromIndex(doc) /\ FromResult(doc) /\ FromAggregate(doc)

Sources == \A i \in DOMAIN ledger : Sourced(ledger[i])

\* The run and the manifests are not from the future (indexes and results:
\* Dated).
Past ==
  \A i \in DOMAIN ledger :
    /\ ledger[i] \in RunDoc => ledger[i].created_at <= clock
    /\ ledger[i] \in RuntimeDoc => ledger[i].generated_at <= clock

\* What an execution goes by.
Jobs ==
  \A d \in Domain : runner[d] # Idle =>
    LET job == runner[d].job IN
    /\ Is(job.scenario, ScenarioDoc)
    /\ Is(job.runtime, RuntimeDoc) /\ ledger[job.runtime].generated_at <= job.started_at
    /\ RunOf(job.run_id)
    /\ runner[d].phase = "indexed" =>
         /\ IsIndex(runner[d].index, d)
         /\ job.started_at <= ledger[runner[d].index].generated_at

(***************************************************************************)
(* Where documents belong.  Results and indexes name their domain; a       *)
(* manifest does not, but it is never taken for another domain's when      *)
(* files are read under their own names.                                   *)
(***************************************************************************)
Straight == \A i \in DOMAIN request : request[i].subject = request[i].path

\* The files of table m hold documents of the domains they are named after.
AtHome(m) ==
  \A d \in Domain :
    /\ m[ResultFile(d)] # 0 /\ ledger[m[ResultFile(d)]] \in ResultDoc =>
         ledger[m[ResultFile(d)]].domain_id = d
    /\ m[IndexFile(d)] # 0 /\ ledger[m[IndexFile(d)]] \in IndexDoc =>
         ledger[m[IndexFile(d)]].ghost = d

\* Manifest i is, or was, the manifest of domain d.
RuntimeAt(i, d) ==
  \/ disk[RuntimeFile(d)] = i \/ got[RuntimeFile(d)] = i
  \/ runner[d] # Idle /\ runner[d].job.runtime = i
  \/ \E y \in DOMAIN ledger : IsResult(y, d) /\ ledger[y].runtime = i

OneHome ==
  \A i \in DOMAIN ledger : \A d, e \in Domain : RuntimeAt(i, d) /\ RuntimeAt(i, e) => d = e

Homes == AtHome(disk) /\ (Straight => AtHome(got) /\ OneHome)

\* A set that was read to its end was rejected for its links.
Failed ==
  verdict = "rejected" /\ position > Len(request) => ~ (SubjectsUnique /\ LinksHold(got))

Origins == Sources /\ Past /\ Jobs /\ Homes

(***************************************************************************)
(* What was written stays, and so does what it refers to.                  *)
(***************************************************************************)
Grown == \A i \in DOMAIN ledger : i \in DOMAIN ledger' /\ ledger'[i] = ledger[i]

LEMMA LedgerGrows ==
  ASSUME TypeOK, TypeOK', Appends \/ UNCHANGED ledger
  PROVE  Grown
<1>1. ledger \in Seq(Document) /\ ledger' \in Seq(Document)
  BY DEF TypeOK
<1>2. /\ Len(ledger) \in Nat /\ Len(ledger') \in Nat
      /\ DOMAIN ledger = 1..Len(ledger) /\ DOMAIN ledger' = 1..Len(ledger')
  BY <1>1
<1>3. CASE Appends
  BY <1>2, <1>3 DEF Appends, Grown
<1>4. CASE UNCHANGED ledger
  BY <1>4 DEF Grown
<1>. QED
  BY <1>3, <1>4

LEMMA SourcedStays ==
  ASSUME Grown, NEW doc, Sourced(doc)
  PROVE  Sourced(doc)'
<1>1. \A k, docs : Is(k, docs) => Is(k, docs)' /\ ledger'[k] = ledger[k]
  BY DEF Is, Grown
<1>2. \A id : RunOf(id) => RunOf(id)'
  BY DEF RunOf, Is, Grown
<1>3. \A k, d : /\ IsIndex(k, d) => IsIndex(k, d)' /\ ledger'[k] = ledger[k]
                /\ IsResult(k, d) => IsResult(k, d)' /\ ledger'[k] = ledger[k]
  BY DEF IsIndex, IsResult, Grown
<1>4. FromRun(doc)'
  BY <1>1 DEF Sourced, FromRun
<1>5. FromRuntime(doc)'
  BY <1>1 DEF Sourced, FromRuntime, Is
<1>6. FromIndex(doc)'
  BY <1>2 DEF Sourced, FromIndex
<1>7. FromResult(doc)'
  BY <1>1, <1>2, <1>3 DEF Sourced, FromResult
<1>8. FromAggregate(doc)'
  BY <1>1, <1>3 DEF Sourced, FromAggregate
<1>. QED
  BY <1>4, <1>5, <1>6, <1>7, <1>8 DEF Sourced

LEMMA WriteSources ==
  ASSUME TypeOK, Sources,
         NEW f \in File, NEW doc \in DocOf(f) \cup {Torn}, WriteFile(f, doc), Sourced(doc)
  PROVE  Grown /\ Sources'
<1>. PICK n : n = Len(ledger) + 1
  OBVIOUS
<1>1. /\ DOMAIN ledger' = DOMAIN ledger \cup {n} /\ ledger'[n] = doc
      /\ \A x \in DOMAIN ledger : ledger'[x] = ledger[x]
  BY WriteAdds
<1>2. Grown
  BY <1>1 DEF Grown
<1>3. ASSUME NEW i \in DOMAIN ledger'  PROVE Sourced(ledger[i])' 
  <2>1. CASE i = n
    <3>1. Sourced(doc)'
      BY <1>2, SourcedStays
    <3>. QED
      BY <2>1, <3>1, <1>1
  <2>2. CASE i # n
    <3>1. PICK old : old = ledger[i]
      OBVIOUS
    <3>2. i \in DOMAIN ledger /\ ledger'[i] = old
      BY <1>1, <2>2, <3>1
    <3>3. Sourced(old)
      BY <3>1, <3>2 DEF Sources
    <3>4. Sourced(old)'
      BY <3>3, <1>2, SourcedStays
    <3>. QED
      BY <3>2, <3>4
  <2>. QED
    BY <2>1, <2>2
<1>. QED
  BY <1>2, <1>3 DEF Sources

LEMMA SameSources ==
  ASSUME Sources, UNCHANGED ledger
  PROVE  Sources'
<1>1. ASSUME NEW i \in DOMAIN ledger'  PROVE Sourced(ledger[i])'
  <2>1. PICK doc : doc = ledger[i]
    OBVIOUS
  <2>2. Sourced(doc) /\ Grown /\ ledger'[i] = doc
    BY <2>1 DEF Sources, Grown
  <2>3. Sourced(doc)'
    BY <2>2, SourcedStays
  <2>. QED
    BY <2>2, <2>3
<1>. QED
  BY <1>1 DEF Sources

LEMMA WritePast ==
  ASSUME TypeOK, Past, clock' = clock,
         NEW f \in File, NEW doc \in DocOf(f) \cup {Torn}, WriteFile(f, doc),
         doc \in RunDoc => doc.created_at <= clock,
         doc \in RuntimeDoc => doc.generated_at <= clock
  PROVE  Past'
<1>. PICK n : n = Len(ledger) + 1
  OBVIOUS
<1>1. /\ DOMAIN ledger' = DOMAIN ledger \cup {n} /\ ledger'[n] = doc
      /\ \A x \in DOMAIN ledger : ledger'[x] = ledger[x]
  BY WriteAdds
<1>. QED
  BY <1>1 DEF Past

\* An execution that goes on keeps what it goes by.
LEMMA JobsStay ==
  ASSUME Jobs, Grown,
         \A d \in Domain : runner'[d] # Idle =>
           /\ runner[d] # Idle /\ runner'[d].job = runner[d].job
           /\ runner'[d].phase = "indexed" =>
                \/ runner[d].phase = "indexed" /\ runner'[d].index = runner[d].index
                \/ /\ IsIndex(runner[d].index, d)'
                   /\ runner[d].job.started_at <= ledger'[runner'[d].index].generated_at
  PROVE  Jobs'
<1>1. \A k, docs : Is(k, docs) => Is(k, docs)' /\ ledger'[k] = ledger[k]
  BY DEF Is, Grown
<1>2. \A id : RunOf(id) => RunOf(id)'
  BY DEF RunOf, Is, Grown
<1>3. \A k, d : IsIndex(k, d) => IsIndex(k, d)' /\ ledger'[k] = ledger[k]
  BY DEF IsIndex, Grown
<1>. SUFFICES ASSUME NEW d \in Domain, runner'[d] # Idle
              PROVE  (LET job == runner[d].job IN
                      /\ Is(job.scenario, ScenarioDoc)
                      /\ Is(job.runtime, RuntimeDoc)
                      /\ ledger[job.runtime].generated_at <= job.started_at
                      /\ RunOf(job.run_id)
                      /\ runner[d].phase = "indexed" =>
                           /\ IsIndex(runner[d].index, d)
                           /\ job.started_at <= ledger[runner[d].index].generated_at)'
  BY DEF Jobs
<1>4. PICK job, x : job = runner[d].job /\ x = runner[d].index
  OBVIOUS
<1>5. /\ Is(job.scenario, ScenarioDoc)
      /\ Is(job.runtime, RuntimeDoc) /\ ledger[job.runtime].generated_at <= job.started_at
      /\ RunOf(job.run_id)
      /\ runner[d].phase = "indexed" =>
           IsIndex(x, d) /\ job.started_at <= ledger[x].generated_at
  BY <1>4 DEF Jobs
<1>6. /\ Is(job.scenario, ScenarioDoc)'
      /\ Is(job.runtime, RuntimeDoc)' /\ ledger'[job.runtime].generated_at <= job.started_at
      /\ RunOf(job.run_id)'
  BY <1>1, <1>2, <1>5
<1>7. runner'[d].job = job
  BY <1>4
<1>8. ASSUME runner'[d].phase = "indexed"
      PROVE  /\ IsIndex(runner[d].index, d)'
             /\ job.started_at <= ledger'[runner'[d].index].generated_at
  <2>1. CASE runner[d].phase = "indexed" /\ runner'[d].index = runner[d].index
    BY <2>1, <1>3, <1>4, <1>5
  <2>2. CASE ~ (runner[d].phase = "indexed" /\ runner'[d].index = runner[d].index)
    BY <2>2, <1>4, <1>8
  <2>. QED
    BY <2>1, <2>2
<1>. QED
  BY <1>6, <1>7, <1>8

(***************************************************************************)
(* Every document keeps its home.                                          *)
(***************************************************************************)
\* What a domain goes by, or ever went by, is a document that was written.
LEMMA RuntimesWritten ==
  ASSUME TypeOK, Sources, Jobs, NEW i, NEW d \in Domain, RuntimeAt(i, d)
  PROVE  i = 0 \/ i \in DOMAIN ledger
<1>1. DOMAIN ledger = 1..Len(ledger) /\ Len(ledger) \in Nat
  BY DEF TypeOK
<1>2. disk[RuntimeFile(d)] \in 0..Len(ledger) /\ got[RuntimeFile(d)] \in 0..Len(ledger)
  BY FileNames DEF TypeOK
<1>3. runner[d] # Idle => runner[d].job.runtime \in DOMAIN ledger
  BY DEF Jobs, Is
<1>4. \A y \in DOMAIN ledger : IsResult(y, d) => ledger[y].runtime \in DOMAIN ledger
  BY DEF Sources, Sourced, FromResult, Is, IsResult
<1>. QED
  BY <1>1, <1>2, <1>3, <1>4 DEF RuntimeAt

LEMMA FileDomains ==
  /\ \A d, e : RuntimeFile(d) = RuntimeFile(e) => d = e
  /\ \A d, e : ResultFile(d) = ResultFile(e) => d = e
  /\ \A d, e : IndexFile(d) = IndexFile(e) => d = e
BY DEF RuntimeFile, ResultFile, IndexFile

LEMMA WriteOneHome ==
  ASSUME TypeOK, Sources, Jobs, OneHome, got' = got,
         NEW f \in File, NEW doc \in DocOf(f) \cup {Torn}, WriteFile(f, doc),
         \A d \in Domain : runner'[d] # Idle =>
           runner[d] # Idle /\ runner'[d].job = runner[d].job,
         doc \in ResultDoc =>
           doc.runtime \in DOMAIN ledger /\ RuntimeAt(doc.runtime, doc.domain_id)
  PROVE  OneHome'
<1>. PICK n : n = Len(ledger) + 1
  OBVIOUS
<1>1. /\ n \notin DOMAIN ledger /\ DOMAIN ledger' = DOMAIN ledger \cup {n}
      /\ ledger'[n] = doc
      /\ \A x \in DOMAIN ledger : ledger'[x] = ledger[x]
  BY WriteAdds
<1>2. \A d \in Domain : \A x \in DOMAIN ledger : IsResult(x, d)' <=> IsResult(x, d)
  BY WriteAdds
<1>3. \A d \in Domain : IsResult(n, d)' <=> doc \in ResultDoc /\ doc.domain_id = d
  BY <1>1 DEF IsResult
<1>4. 0 \notin DOMAIN ledger'
  <2>1. DOMAIN ledger = 1..Len(ledger) /\ Len(ledger) \in Nat
    BY DEF TypeOK
  <2>. QED
    BY <2>1, <1>1
<1>5. /\ disk' = [disk EXCEPT ![f] = n] /\ disk \in [File -> 0..Len(ledger)]
      /\ n # 0
  BY DEF WriteFile, TypeOK
<1>6. ASSUME NEW d \in Domain, NEW i \in DOMAIN ledger', RuntimeAt(i, d)'
      PROVE  \/ i \in DOMAIN ledger /\ RuntimeAt(i, d)
             \/ i = n /\ f = RuntimeFile(d)
  <2>1. RuntimeFile(d) \in File
    BY FileNames
  <2>2. CASE disk'[RuntimeFile(d)] = i
    <3>1. CASE f = RuntimeFile(d)
      BY <3>1, <2>1, <2>2, <1>5
    <3>2. CASE f # RuntimeFile(d)
      <4>1. disk[RuntimeFile(d)] = i
        BY <3>2, <2>1, <2>2, <1>5
      <4>2. RuntimeAt(i, d)
        BY <4>1 DEF RuntimeAt
      <4>3. i # 0
        BY <1>4
      <4>. QED
        BY <4>2, <4>3, <1>1, <1>5, RuntimesWritten
    <3>. QED
      BY <3>1, <3>2
  <2>3. CASE got[RuntimeFile(d)] = i \/ (runner'[d] # Idle /\ runner'[d].job.runtime = i)
    <3>1. RuntimeAt(i, d)
      BY <2>3 DEF RuntimeAt
    <3>2. i = 0 \/ i \in DOMAIN ledger
      BY <3>1, RuntimesWritten
    <3>3. i # 0
      BY <1>4
    <3>. QED
      BY <3>1, <3>2, <3>3
  <2>4. ASSUME NEW y \in DOMAIN ledger', IsResult(y, d)', ledger'[y].runtime = i
        PROVE  i \in DOMAIN ledger /\ RuntimeAt(i, d)
    <3>1. CASE y = n
      BY <3>1, <2>4, <1>1, <1>3
    <3>2. CASE y # n
      <4>1. y \in DOMAIN ledger /\ IsResult(y, d) /\ ledger[y].runtime = i
        BY <3>2, <2>4, <1>1, <1>2
      <4>. QED
        BY <4>1 DEF RuntimeAt, Sources, Sourced, FromResult, Is, IsResult
    <3>. QED
      BY <3>1, <3>2
  <2>5. \/ disk'[RuntimeFile(d)] = i \/ got[RuntimeFile(d)] = i
        \/ runner'[d] # Idle /\ runner'[d].job.runtime = i
        \/ \E y \in DOMAIN ledger' : IsResult(y, d)' /\ ledger'[y].runtime = i
    BY <1>6 DEF RuntimeAt
  <2>. QED
    BY <2>2, <2>3, <2>4, <2>5
<1>7. ASSUME NEW i \in DOMAIN ledger', NEW d \in Domain, NEW e \in Domain,
             RuntimeAt(i, d)', RuntimeAt(i, e)'
      PROVE  d = e
  BY <1>1, <1>6, <1>7, FileDomains DEF OneHome
<1>. QED
  BY <1>7 DEF OneHome

LEMMA WriteHomes ==
  ASSUME TypeOK, Sources, Jobs, Homes, UNCHANGED <<request, got>>,
         NEW f \in File, NEW doc \in DocOf(f) \cup {Torn}, WriteFile(f, doc),
         \A d \in Domain : runner'[d] # Idle =>
           runner[d] # Idle /\ runner'[d].job = runner[d].job,
         \A d \in Domain : f = ResultFile(d) /\ doc \in ResultDoc => doc.domain_id = d,
         \A d \in Domain : f = IndexFile(d) /\ doc \in IndexDoc => doc.ghost = d,
         doc \in ResultDoc =>
           doc.runtime \in DOMAIN ledger /\ RuntimeAt(doc.runtime, doc.domain_id)
  PROVE  Homes'
<1>. PICK n : n = Len(ledger) + 1
  OBVIOUS
<1>1. /\ DOMAIN ledger' = DOMAIN ledger \cup {n} /\ ledger'[n] = doc
      /\ \A x \in DOMAIN ledger : ledger'[x] = ledger[x]
  BY WriteAdds
<1>2. /\ disk' = [disk EXCEPT ![f] = n] /\ disk \in [File -> 0..Len(ledger)]
      /\ got \in [File -> 0..Len(ledger)] /\ DOMAIN ledger = 1..Len(ledger)
      /\ \A g \in File : disk[g] # 0 => disk[g] \in DOMAIN ledger
      /\ \A g \in File : got[g] # 0 => got[g] \in DOMAIN ledger
  BY DEF WriteFile, TypeOK
<1>3. AtHome(disk)'
  <2>1. \A g \in File : g # f => disk'[g] = disk[g]
    BY <1>2
  <2>2. disk'[f] = n
    BY <1>2
  <2>. SUFFICES ASSUME NEW d \in Domain
       PROVE (/\ disk[ResultFile(d)] # 0 /\ ledger[disk[ResultFile(d)]] \in ResultDoc =>
                   ledger[disk[ResultFile(d)]].domain_id = d
              /\ disk[IndexFile(d)] # 0 /\ ledger[disk[IndexFile(d)]] \in IndexDoc =>
                   ledger[disk[IndexFile(d)]].ghost = d)'
    BY DEF AtHome
  <2>3. ResultFile(d) \in File /\ IndexFile(d) \in File
    BY FileNames
  <2>4. (disk[ResultFile(d)] # 0 /\ ledger[disk[ResultFile(d)]] \in ResultDoc =>
           ledger[disk[ResultFile(d)]].domain_id = d)'
    <3>1. CASE f = ResultFile(d)
      BY <3>1, <2>2, <1>1
    <3>2. CASE f # ResultFile(d)
      BY <3>2, <2>1, <2>3, <1>1, <1>2 DEF Homes, AtHome
    <3>. QED
      BY <3>1, <3>2
  <2>5. (disk[IndexFile(d)] # 0 /\ ledger[disk[IndexFile(d)]] \in IndexDoc =>
           ledger[disk[IndexFile(d)]].ghost = d)'
    <3>1. CASE f = IndexFile(d)
      BY <3>1, <2>2, <1>1
    <3>2. CASE f # IndexFile(d)
      BY <3>2, <2>1, <2>3, <1>1, <1>2 DEF Homes, AtHome
    <3>. QED
      BY <3>1, <3>2
  <2>. QED
    BY <2>4, <2>5
<1>4. ASSUME Straight  PROVE AtHome(got)' /\ OneHome'
  <2>1. \A d \in Domain : ResultFile(d) \in File /\ IndexFile(d) \in File
    BY FileNames
  <2>2. AtHome(got)'
    BY <2>1, <1>1, <1>2, <1>4 DEF Homes, AtHome
  <2>3. OneHome'
    BY <1>4, WriteOneHome DEF Homes
  <2>. QED
    BY <2>2, <2>3
<1>5. Straight' => Straight
  BY DEF Straight
<1>. QED
  BY <1>3, <1>4, <1>5 DEF Homes

\* What a write must satisfy.
LEMMA WriteOrigins ==
  ASSUME TypeOK, Origins, UNCHANGED <<clock, request, got>>,
         NEW f \in File, NEW doc \in DocOf(f) \cup {Torn}, WriteFile(f, doc), Sourced(doc),
         doc \in RunDoc => doc.created_at <= clock,
         doc \in RuntimeDoc => doc.generated_at <= clock,
         \A d \in Domain : runner'[d] # Idle =>
           /\ runner[d] # Idle /\ runner'[d].job = runner[d].job
           /\ runner'[d].phase = "indexed" =>
                \/ runner[d].phase = "indexed" /\ runner'[d].index = runner[d].index
                \/ /\ runner'[d].index = Len(ledger) + 1
                   /\ doc \in IndexDoc /\ doc.ghost = d
                   /\ runner[d].job.started_at <= doc.generated_at,
         \A d \in Domain : f = ResultFile(d) /\ doc \in ResultDoc => doc.domain_id = d,
         \A d \in Domain : f = IndexFile(d) /\ doc \in IndexDoc => doc.ghost = d,
         doc \in ResultDoc =>
           doc.runtime \in DOMAIN ledger /\ RuntimeAt(doc.runtime, doc.domain_id)
  PROVE  Origins'
<1>. PICK n : n = Len(ledger) + 1
  OBVIOUS
<1>1. Grown /\ Sources'
  BY WriteSources DEF Origins
<1>2. Past'
  BY WritePast DEF Origins
<1>3. DOMAIN ledger' = DOMAIN ledger \cup {n} /\ ledger'[n] = doc
  BY WriteAdds
<1>4. ASSUME NEW d \in Domain, runner'[d] # Idle
      PROVE  /\ runner[d] # Idle /\ runner'[d].job = runner[d].job
             /\ runner'[d].phase = "indexed" =>
                  \/ runner[d].phase = "indexed" /\ runner'[d].index = runner[d].index
                  \/ /\ IsIndex(runner[d].index, d)'
                     /\ runner[d].job.started_at <= ledger'[runner'[d].index].generated_at
  BY <1>3, <1>4 DEF IsIndex
<1>5. Jobs'
  BY <1>1, <1>4, JobsStay DEF Origins
<1>6. Homes'
  BY WriteHomes DEF Origins
<1>. QED
  BY <1>1, <1>2, <1>5, <1>6 DEF Origins

\* Documents that are not the business of an execution.
LEMMA OtherOrigins ==
  ASSUME TypeOK, Origins, UNCHANGED <<clock, runner, request, got>>,
         NEW f \in File, NEW doc \in DocOf(f) \cup {Torn}, WriteFile(f, doc),
         doc \notin IndexDoc, doc \notin ResultDoc,
         FromRun(doc), FromRuntime(doc), FromAggregate(doc),
         doc \in RunDoc => doc.created_at <= clock,
         doc \in RuntimeDoc => doc.generated_at <= clock
  PROVE  Origins'
<1>1. Sourced(doc)
  BY DEF Sourced, FromIndex, FromResult
<1>2. \A d \in Domain : runner'[d] # Idle =>
           /\ runner[d] # Idle /\ runner'[d].job = runner[d].job
           /\ runner'[d].phase = "indexed" =>
                \/ runner[d].phase = "indexed" /\ runner'[d].index = runner[d].index
                \/ /\ runner'[d].index = Len(ledger) + 1
                   /\ doc \in IndexDoc /\ doc.ghost = d
                   /\ runner[d].job.started_at <= doc.generated_at
  OBVIOUS
<1>3. UNCHANGED <<clock, request, got>>
  OBVIOUS
<1>. QED
  BY <1>1, <1>2, <1>3, WriteOrigins

LEMMA ScenarioOrigins == TypeOK /\ Origins /\ WriteScenario => Origins'
<1>. SUFFICES ASSUME TypeOK, Origins, NEW doc \in ScenarioDoc, WriteFile(ScenarioFile, doc),
                     UNCHANGED <<clock, runner, request, validator>>
              PROVE  Origins'
  BY DEF WriteScenario
<1>1. /\ doc \notin IndexDoc /\ doc \notin ResultDoc /\ doc \notin RunDoc
      /\ doc \notin RuntimeDoc /\ doc \notin AggregateDoc
  BY KindsDeclared
<1>2. FromRun(doc) /\ FromRuntime(doc) /\ FromAggregate(doc)
  BY <1>1 DEF FromRun, FromRuntime, FromAggregate
<1>3. UNCHANGED <<clock, runner, request, got>>
  BY DEF validator
<1>. QED
  BY <1>1, <1>2, <1>3, FileNames, FileDocs, OtherOrigins

LEMMA TearOrigins ==
  ASSUME NEW f \in File PROVE TypeOK /\ Origins /\ TearFile(f) => Origins'
<1>. SUFFICES ASSUME TypeOK, Origins, WriteFile(f, Torn),
                     UNCHANGED <<clock, runner, request, validator>>
              PROVE  Origins'
  BY DEF TearFile
<1>1. /\ Torn \notin IndexDoc /\ Torn \notin ResultDoc /\ Torn \notin RunDoc
      /\ Torn \notin RuntimeDoc /\ Torn \notin AggregateDoc
  BY KindsDeclared
<1>2. FromRun(Torn) /\ FromRuntime(Torn) /\ FromAggregate(Torn)
  BY <1>1 DEF FromRun, FromRuntime, FromAggregate
<1>3. UNCHANGED <<clock, runner, request, got>>
  BY DEF validator
<1>. QED
  BY <1>1, <1>2, <1>3, OtherOrigins

LEMMA DiskIs ==
  ASSUME TypeOK, NEW f \in File, OnDisk(f)
  PROVE  /\ disk[f] \in DOMAIN ledger /\ disk[f] # 0
         /\ Is(disk[f], DocOf(f))
<1>1. DOMAIN ledger = 1..Len(ledger) /\ Len(ledger) \in Nat
  BY DEF TypeOK
<1>2. disk[f] \in 1..Len(ledger) /\ ledger[disk[f]] \in DocOf(f)
  BY DiskDocs DEF Doc
<1>. QED
  BY <1>1, <1>2 DEF Is

LEMMA RunOrigins == TypeOK /\ Origins /\ WriteRun => Origins'
<1>. SUFFICES ASSUME TypeOK, Origins, WriteRun PROVE Origins'
  OBVIOUS
<1>1. PICK r \in RunId, S \in (SUBSET Domain) \ {{}} :
        WriteFile(RunFile,
          [kind |-> "acceptance_run", run_id |-> r, created_at |-> clock,
           scenario |-> disk[ScenarioFile], domains |-> S])
  BY DEF WriteRun
<1>2. PICK doc : doc = [kind |-> "acceptance_run", run_id |-> r, created_at |-> clock,
                        scenario |-> disk[ScenarioFile], domains |-> S]
  OBVIOUS
<1>3. /\ disk[ScenarioFile] \in Digest /\ clock \in Time /\ clock \in Nat
      /\ Is(disk[ScenarioFile], ScenarioDoc)
  <2>1. disk[ScenarioFile] \in Digest /\ clock \in Time /\ clock \in Nat
    BY FileNames DEF TypeOK, Digest, Time
  <2>2. Is(disk[ScenarioFile], ScenarioDoc)
    BY FileNames, FileDocs, DiskIs DEF WriteRun
  <2>. QED
    BY <2>1, <2>2
<1>4. doc \in RunDoc /\ doc.scenario = disk[ScenarioFile] /\ doc.created_at = clock
  BY <1>2, <1>3 DEF RunDoc
<1>5. doc \notin IndexDoc /\ doc \notin ResultDoc /\ doc \notin RuntimeDoc
      /\ doc \notin AggregateDoc
  BY <1>4, KindsDeclared
<1>6. FromRun(doc) /\ FromRuntime(doc) /\ FromAggregate(doc)
  BY <1>3, <1>4, <1>5 DEF FromRun, FromRuntime, FromAggregate
<1>7. UNCHANGED <<clock, runner, request, got>>
  BY DEF WriteRun, validator
<1>8. WriteFile(RunFile, doc) /\ RunFile \in File /\ doc \in DocOf(RunFile)
  BY <1>1, <1>2, <1>4, FileNames, FileDocs
<1>. QED
  BY <1>3, <1>4, <1>5, <1>6, <1>7, <1>8, OtherOrigins

LEMMA RuntimeOrigins ==
  ASSUME NEW d \in Domain PROVE TypeOK /\ Origins /\ WriteRuntime(d) => Origins'
<1>. SUFFICES ASSUME TypeOK, Origins, WriteRuntime(d) PROVE Origins'
  OBVIOUS
<1>1. PICK x \in Execution :
        WriteFile(RuntimeFile(d),
          [kind |-> "runtime_manifest", generated_at |-> clock, execution |-> x])
  BY DEF WriteRuntime
<1>2. PICK doc : doc = [kind |-> "runtime_manifest", generated_at |-> clock, execution |-> x]
  OBVIOUS
<1>3. clock \in Time /\ clock \in Nat
  BY DEF TypeOK, Time
<1>4. doc \in RuntimeDoc /\ doc.generated_at = clock
  BY <1>2, <1>3 DEF RuntimeDoc
<1>5. doc \notin IndexDoc /\ doc \notin ResultDoc /\ doc \notin RunDoc
      /\ doc \notin AggregateDoc
  BY <1>4, KindsDeclared
<1>6. PICK k : k = disk[RunFile]
  OBVIOUS
<1>7. Is(k, RunDoc) /\ ledger[k].created_at <= clock
  BY <1>6, FileNames, FileDocs, DiskIs DEF WriteRuntime, Is, Origins, Past
<1>8. FromRun(doc) /\ FromRuntime(doc) /\ FromAggregate(doc)
  BY <1>4, <1>5, <1>7 DEF FromRun, FromRuntime, FromAggregate, Is
<1>9. UNCHANGED <<clock, runner, request, got>>
  BY DEF WriteRuntime, validator
<1>10. /\ WriteFile(RuntimeFile(d), doc) /\ RuntimeFile(d) \in File
       /\ doc \in DocOf(RuntimeFile(d))
  BY <1>1, <1>2, <1>4, FileNames, FileDocs
<1>. QED
  BY <1>3, <1>4, <1>5, <1>8, <1>9, <1>10, OtherOrigins

\* An index belongs to the run its execution goes by.
LEMMA IndexOrigins ==
  ASSUME NEW d \in Domain
  PROVE  TypeOK /\ Executions /\ Origins /\ WriteIndex(d) => Origins'
<1>. SUFFICES ASSUME TypeOK, Executions, Origins, WriteIndex(d) PROVE Origins'
  OBVIOUS
<1>1. runner[d].phase = "started" /\ runner[d].job \in Job /\ runner[d] # Idle
  BY RunnerTypes DEF WriteIndex, TypeOK
<1>2. PICK e \in Evidence :
        WriteFile(IndexFile(d),
          [kind |-> "evidence_index", run_id |-> runner[d].job.run_id,
           generated_at |-> clock, artifacts |-> e, ghost |-> d])
  BY DEF WriteIndex
<1>3. PICK doc : doc = [kind |-> "evidence_index", run_id |-> runner[d].job.run_id,
                        generated_at |-> clock, artifacts |-> e, ghost |-> d]
  OBVIOUS
<1>4. /\ doc \in IndexDoc /\ doc.ghost = d /\ doc.generated_at = clock
      /\ doc.run_id = runner[d].job.run_id
  BY <1>1, <1>3 DEF IndexDoc, Job, TypeOK
<1>5. doc \notin ResultDoc /\ doc \notin RunDoc /\ doc \notin RuntimeDoc
      /\ doc \notin AggregateDoc
  BY <1>4, KindsDeclared
<1>6. /\ WriteFile(IndexFile(d), doc) /\ IndexFile(d) \in File
      /\ doc \in DocOf(IndexFile(d))
  BY <1>2, <1>3, <1>4, FileNames, FileDocs
<1>7. Sourced(doc)
  <2>1. RunOf(doc.run_id)
    BY <1>1, <1>4 DEF Origins, Jobs
  <2>. QED
    BY <2>1, <1>5 DEF Sourced, FromRun, FromRuntime, FromIndex, FromResult, FromAggregate
<1>8. /\ runner'[d] = [phase |-> "indexed", job |-> runner[d].job, index |-> Len(ledger) + 1]
      /\ \A c \in Domain \ {d} : runner'[c] = runner[c]
  BY DEF WriteIndex, TypeOK
<1>9. runner[d].job.started_at <= clock
  BY <1>1 DEF Executions, Dated
<1>10. ASSUME NEW c \in Domain, runner'[c] # Idle
       PROVE  /\ runner[c] # Idle /\ runner'[c].job = runner[c].job
              /\ runner'[c].phase = "indexed" =>
                   \/ runner[c].phase = "indexed" /\ runner'[c].index = runner[c].index
                   \/ /\ runner'[c].index = Len(ledger) + 1
                      /\ doc \in IndexDoc /\ doc.ghost = c
                      /\ runner[c].job.started_at <= doc.generated_at
  <2>1. CASE c = d
    BY <2>1, <1>1, <1>4, <1>8, <1>9
  <2>2. CASE c # d
    BY <2>2, <1>8, <1>10
  <2>. QED
    BY <2>1, <2>2
<1>11. \A c \in Domain : IndexFile(d) = IndexFile(c) /\ doc \in IndexDoc => doc.ghost = c
  BY <1>4, FileDomains
<1>12. UNCHANGED <<clock, request, got>>
  BY DEF WriteIndex, validator
<1>. QED
  BY <1>5, <1>6, <1>7, <1>10, <1>11, <1>12, WriteOrigins

\* A result names what its execution went by.
LEMMA FinishOrigins ==
  ASSUME NEW d \in Domain
  PROVE  TypeOK /\ Executions /\ Origins /\ FinishDomain(d) => Origins'
<1>. SUFFICES ASSUME TypeOK, Executions, Origins, FinishDomain(d) PROVE Origins'
  OBVIOUS
<1>1. runner[d].phase = "indexed" /\ runner[d].job \in Job /\ runner[d] # Idle
  BY RunnerTypes DEF FinishDomain, TypeOK
<1>2. PICK job, x : job = runner[d].job /\ x = runner[d].index
  OBVIOUS
<1>3. PICK results \in AssertionResults, s \in ClaimStatus :
        WriteFile(ResultFile(d),
          [kind |-> "domain_result", domain_id |-> d,
           run_id |-> runner[d].job.run_id, scenario |-> runner[d].job.scenario,
           runtime |-> runner[d].job.runtime,
           execution |-> runner[d].job.execution,
           started_at |-> runner[d].job.started_at, finished_at |-> clock,
           assertion_results |-> results,
           evidence |-> ledger[runner[d].index].artifacts,
           status |-> s, ghost |-> runner[d].index])
  BY DEF FinishDomain
<1>4. PICK doc : doc =
          [kind |-> "domain_result", domain_id |-> d,
           run_id |-> job.run_id, scenario |-> job.scenario,
           runtime |-> job.runtime, execution |-> job.execution,
           started_at |-> job.started_at, finished_at |-> clock,
           assertion_results |-> results,
           evidence |-> ledger[x].artifacts, status |-> s, ghost |-> x]
  OBVIOUS
<1>5. x \in Digest /\ ledger[x].artifacts \in Evidence /\ clock \in Time /\ job \in Job
  <2>1. /\ x \in 1..Len(ledger) /\ Len(ledger) \in Nat
        /\ ledger[x] \in IndexDoc
    BY <1>1, <1>2 DEF TypeOK
  <2>. QED
    BY <2>1, <1>1, <1>2 DEF Digest, IndexDoc, TypeOK
<1>6. doc \in ResultDoc
  BY <1>4, <1>5 DEF ResultDoc, Job
<1>7. /\ doc.domain_id = d /\ doc.run_id = job.run_id /\ doc.scenario = job.scenario
      /\ doc.runtime = job.runtime /\ doc.started_at = job.started_at
      /\ doc.finished_at = clock /\ doc.evidence = ledger[x].artifacts /\ doc.ghost = x
  BY <1>4
<1>8. doc \notin IndexDoc /\ doc \notin RunDoc /\ doc \notin RuntimeDoc
      /\ doc \notin AggregateDoc
  BY <1>6, KindsDeclared
<1>9. /\ WriteFile(ResultFile(d), doc) /\ ResultFile(d) \in File
      /\ doc \in DocOf(ResultFile(d))
  BY <1>2, <1>3, <1>4, <1>6, FileNames, FileDocs
<1>10. /\ Is(job.scenario, ScenarioDoc)
       /\ Is(job.runtime, RuntimeDoc) /\ ledger[job.runtime].generated_at <= job.started_at
       /\ RunOf(job.run_id)
       /\ IsIndex(x, d) /\ job.started_at <= ledger[x].generated_at
  BY <1>1, <1>2 DEF Origins, Jobs
<1>11. ledger[x].generated_at <= clock
  BY <1>10 DEF Executions, Dated, IsIndex
<1>12. FromResult(doc)
  BY <1>7, <1>10, <1>11 DEF FromResult
<1>13. Sourced(doc)
  BY <1>8, <1>12 DEF Sourced, FromRun, FromRuntime, FromIndex, FromAggregate
<1>14. \A c \in Domain : runner'[c] # Idle => runner'[c] = runner[c]
  BY DEF FinishDomain, TypeOK
<1>15. \A c \in Domain : ResultFile(d) = ResultFile(c) /\ doc \in ResultDoc => doc.domain_id = c
  BY <1>7, FileDomains
<1>16. doc.runtime \in DOMAIN ledger /\ RuntimeAt(doc.runtime, doc.domain_id)
  BY <1>1, <1>2, <1>7, <1>10 DEF RuntimeAt, Is
<1>17. UNCHANGED <<clock, request, got>>
  BY DEF FinishDomain, validator
<1>18. \A c \in Domain : runner'[c] # Idle =>
         /\ runner[c] # Idle /\ runner'[c].job = runner[c].job
         /\ runner'[c].phase = "indexed" =>
              \/ runner[c].phase = "indexed" /\ runner'[c].index = runner[c].index
              \/ /\ runner'[c].index = Len(ledger) + 1
                 /\ doc \in IndexDoc /\ doc.ghost = c
                 /\ runner[c].job.started_at <= doc.generated_at
  BY <1>14
<1>. QED
  BY <1>8, <1>9, <1>13, <1>15, <1>16, <1>17, <1>18, WriteOrigins

\* The aggregate an aggregator writes lists results that are there.
LEMMA AggregateWritten ==
  ASSUME TypeOK, WriteAggregate
  PROVE  \E doc :
           /\ WriteFile(AggregateFile, doc) /\ doc \in AggregateDoc
           /\ doc.acceptance_run = disk[RunFile]
           /\ doc.run_id = Doc(disk, RunFile).run_id
           /\ doc.generated_at = clock
           /\ \A e \in Listed(doc) :
                /\ OnDisk(ResultFile(e))
                /\ doc.per_domain_results[e].digest = disk[ResultFile(e)]
<1>. PICK reported : reported = {d \in Doc(disk, RunFile).domains : OnDisk(ResultFile(d))}
  OBVIOUS
<1>1. PICK claim \in [reported -> ClaimStatus], s \in ClaimStatus :
        WriteFile(AggregateFile,
          [kind |-> "acceptance_aggregate", run_id |-> Doc(disk, RunFile).run_id,
           acceptance_run |-> disk[RunFile], generated_at |-> clock,
           per_domain_results |->
             [d \in Domain |-> IF d \in reported
                THEN [digest |-> disk[ResultFile(d)], status |-> claim[d]]
                ELSE NotListed],
           per_domain_aggregate |-> s])
  BY DEF WriteAggregate
<1>2. PICK entries : entries =
        [d \in Domain |-> IF d \in reported
           THEN [digest |-> disk[ResultFile(d)], status |-> claim[d]]
           ELSE NotListed]
  OBVIOUS
<1>3. PICK doc : doc =
        [kind |-> "acceptance_aggregate", run_id |-> Doc(disk, RunFile).run_id,
         acceptance_run |-> disk[RunFile], generated_at |-> clock,
         per_domain_results |-> entries, per_domain_aggregate |-> s]
  OBVIOUS
<1>4. \A d \in reported : OnDisk(ResultFile(d)) /\ d \in Doc(disk, RunFile).domains
  OBVIOUS
<1>5. WriteFile(AggregateFile, doc)
  BY <1>1, <1>2, <1>3
<1>6. Doc(disk, RunFile) \in RunDoc
  BY DiskDocs, FileNames, FileDocs DEF WriteAggregate
<1>7. reported \subseteq Domain
  BY <1>4, <1>6 DEF RunDoc
<1>8. /\ Doc(disk, RunFile).run_id \in RunId
      /\ disk[RunFile] \in Digest /\ clock \in Time
  BY <1>6, FileNames DEF RunDoc, TypeOK, Digest
<1>9. \A d \in reported : disk[ResultFile(d)] \in Digest \ {0}
  BY <1>4, <1>7, FileNames DEF OnDisk, TypeOK, Digest
<1>10. entries \in [Domain -> DomainEntry]
  <2>1. \A d \in reported :
          [digest |-> disk[ResultFile(d)], status |-> claim[d]] \in DomainEntry
    BY <1>9 DEF DomainEntry
  <2>2. NotListed \in DomainEntry
    BY DEF DomainEntry
  <2>. QED
    BY <2>1, <2>2, <1>2
<1>11. doc \in AggregateDoc
  BY <1>3, <1>8, <1>10 DEF AggregateDoc
<1>12. /\ doc.acceptance_run = disk[RunFile]
       /\ doc.run_id = Doc(disk, RunFile).run_id
       /\ doc.generated_at = clock /\ doc.per_domain_results = entries
  BY <1>3
<1>13. ASSUME NEW e \in Listed(doc)
       PROVE  OnDisk(ResultFile(e)) /\ doc.per_domain_results[e].digest = disk[ResultFile(e)]
  <2>1. e \in Domain /\ entries[e] # NotListed
    BY <1>12 DEF Listed
  <2>2. e \in reported
    BY <2>1, <1>2
  <2>3. entries[e] = [digest |-> disk[ResultFile(e)], status |-> claim[e]]
    BY <2>1, <2>2, <1>2
  <2>. QED
    BY <2>2, <2>3, <1>4, <1>12
<1>. QED
  BY <1>5, <1>11, <1>12, <1>13

LEMMA AggregateOrigins ==
  TypeOK /\ Executions /\ Origins /\ WriteAggregate => Origins'
<1>. SUFFICES ASSUME TypeOK, Executions, Origins, WriteAggregate PROVE Origins'
  OBVIOUS
<1>1. PICK doc :
        /\ WriteFile(AggregateFile, doc) /\ doc \in AggregateDoc
        /\ doc.acceptance_run = disk[RunFile]
        /\ doc.run_id = Doc(disk, RunFile).run_id
        /\ doc.generated_at = clock
        /\ \A e \in Listed(doc) :
             /\ OnDisk(ResultFile(e))
             /\ doc.per_domain_results[e].digest = disk[ResultFile(e)]
  BY AggregateWritten
<1>2. doc \notin IndexDoc /\ doc \notin ResultDoc /\ doc \notin RunDoc
      /\ doc \notin RuntimeDoc
  BY <1>1, KindsDeclared
<1>3. Is(disk[RunFile], RunDoc)
  BY FileNames, FileDocs, DiskIs DEF WriteAggregate
<1>4. ASSUME NEW e \in Listed(doc)
      PROVE  /\ IsResult(doc.per_domain_results[e].digest, e)
             /\ ledger[doc.per_domain_results[e].digest].finished_at <= doc.generated_at
  <2>1. e \in Domain /\ ResultFile(e) \in File
    BY FileNames DEF Listed
  <2>2. Is(disk[ResultFile(e)], ResultDoc) /\ disk[ResultFile(e)] # 0
    BY <2>1, <1>1, FileDocs, DiskIs
  <2>3. IsResult(disk[ResultFile(e)], e)
    BY <2>1, <2>2 DEF Origins, Homes, AtHome, Is, IsResult
  <2>4. ledger[disk[ResultFile(e)]].finished_at <= clock
    BY <2>1, <2>3 DEF Executions, Dated, IsResult
  <2>. QED
    BY <2>3, <2>4, <1>1
<1>5. FromRun(doc) /\ FromRuntime(doc) /\ FromAggregate(doc)
  BY <1>1, <1>2, <1>3, <1>4 DEF FromRun, FromRuntime, FromAggregate, Doc
<1>6. UNCHANGED <<clock, runner, request, got>>
  BY DEF WriteAggregate, validator
<1>. QED
  BY <1>1, <1>2, <1>5, <1>6, FileNames, FileDocs, OtherOrigins

\* Steps that write nothing.
LEMMA QuietOrigins ==
  ASSUME Origins, UNCHANGED <<ledger, disk, clock, runner, request, got>>
  PROVE  Origins'
<1>1. Sources'
  BY SameSources DEF Origins
<1>2. Past'
  BY DEF Origins, Past
<1>3. Jobs'
  BY DEF Origins, Jobs, Is, RunOf, IsIndex
<1>4. Homes'
  BY DEF Origins, Homes, AtHome, OneHome, RuntimeAt, IsResult, Straight
<1>. QED
  BY <1>1, <1>2, <1>3, <1>4 DEF Origins

LEMMA TickOrigins == TypeOK /\ Origins /\ Tick => Origins'
<1>. SUFFICES ASSUME TypeOK, Origins, Tick PROVE Origins'
  OBVIOUS
<1>0. /\ UNCHANGED <<ledger, disk, runner, request, got>>
      /\ clock' = clock + 1 /\ clock \in Nat
  BY DEF Tick, TypeOK, Time, validator
<1>1. Sources'
  BY <1>0, SameSources DEF Origins
<1>2. Past'
  <2>1. \A i \in DOMAIN ledger : /\ ledger[i] \in RunDoc => ledger[i].created_at \in Nat
                                 /\ ledger[i] \in RuntimeDoc => ledger[i].generated_at \in Nat
    BY DEF RunDoc, RuntimeDoc, Time
  <2>. QED
    BY <2>1, <1>0 DEF Origins, Past
<1>3. Jobs'
  BY <1>0 DEF Origins, Jobs, Is, RunOf, IsIndex
<1>4. Homes'
  BY <1>0 DEF Origins, Homes, AtHome, OneHome, RuntimeAt, IsResult, Straight
<1>. QED
  BY <1>1, <1>2, <1>3, <1>4 DEF Origins

LEMMA AbortOrigins ==
  ASSUME NEW d \in Domain PROVE TypeOK /\ Origins /\ AbortDomain(d) => Origins'
<1>. SUFFICES ASSUME TypeOK, Origins, AbortDomain(d) PROVE Origins'
  OBVIOUS
<1>0. /\ UNCHANGED <<ledger, disk, clock, request, got>>
      /\ \A c \in Domain : runner'[c] # Idle => runner'[c] = runner[c]
  BY DEF AbortDomain, TypeOK, validator
<1>1. Sources'
  BY <1>0, SameSources DEF Origins
<1>2. Past'
  BY <1>0 DEF Origins, Past
<1>3. Jobs'
  BY <1>0 DEF Origins, Jobs, Is, RunOf, IsIndex
<1>4. AtHome(disk)' /\ (Straight' => Straight /\ AtHome(got)')
  BY <1>0 DEF Origins, Homes, AtHome, Straight
<1>5. \A i \in DOMAIN ledger : \A c \in Domain : RuntimeAt(i, c)' => RuntimeAt(i, c)
  BY <1>0 DEF RuntimeAt, IsResult
<1>6. Homes'
  BY <1>0, <1>4, <1>5 DEF Origins, Homes, OneHome
<1>. QED
  BY <1>1, <1>2, <1>3, <1>6 DEF Origins

LEMMA StartOrigins ==
  ASSUME NEW d \in Domain PROVE TypeOK /\ Origins /\ StartDomain(d) => Origins'
<1>. SUFFICES ASSUME TypeOK, Origins, StartDomain(d) PROVE Origins'
  OBVIOUS
<1>0. /\ UNCHANGED <<ledger, disk, clock, request, got>>
      /\ runner'[d].phase = "started"
      /\ runner'[d].job.run_id = Doc(disk, RunFile).run_id
      /\ runner'[d].job.scenario = disk[ScenarioFile]
      /\ runner'[d].job.runtime = disk[RuntimeFile(d)]
      /\ runner'[d].job.started_at = clock
      /\ \A c \in Domain \ {d} : runner'[c] = runner[c]
  BY DEF StartDomain, TypeOK, validator
<1>1. Sources'
  BY <1>0, SameSources DEF Origins
<1>2. Past'
  BY <1>0 DEF Origins, Past
<1>3. Jobs'
  <2>1. /\ Is(disk[ScenarioFile], ScenarioDoc)
        /\ Is(disk[RunFile], RunDoc)
        /\ Is(disk[RuntimeFile(d)], RuntimeDoc)
    BY FileNames, FileDocs, DiskIs DEF StartDomain
  <2>2. /\ RunOf(Doc(disk, RunFile).run_id)
        /\ ledger[disk[RuntimeFile(d)]].generated_at <= clock
    BY <2>1 DEF RunOf, Is, Doc, Origins, Past
  <2>3. \A k, docs : Is(k, docs)' <=> Is(k, docs)
    BY <1>0 DEF Is
  <2>4. \A id : RunOf(id)' <=> RunOf(id)
    BY <1>0 DEF RunOf, Is
  <2>. SUFFICES ASSUME NEW c \in Domain, runner'[c] # Idle
       PROVE (LET job == runner[c].job IN
              /\ Is(job.scenario, ScenarioDoc)
              /\ Is(job.runtime, RuntimeDoc)
              /\ ledger[job.runtime].generated_at <= job.started_at
              /\ RunOf(job.run_id)
              /\ runner[c].phase = "indexed" =>
                   /\ IsIndex(runner[c].index, c)
                   /\ job.started_at <= ledger[runner[c].index].generated_at)'
    BY DEF Jobs
  <2>5. CASE c = d
    BY <2>5, <2>1, <2>2, <1>0 DEF Is, RunOf
  <2>6. CASE c # d
    BY <2>6, <1>0 DEF Origins, Jobs, Is, RunOf, IsIndex
  <2>. QED
    BY <2>5, <2>6
<1>4. AtHome(disk)' /\ (Straight' => Straight /\ AtHome(got)')
  BY <1>0 DEF Origins, Homes, AtHome, Straight
<1>5. ASSUME NEW i \in DOMAIN ledger, NEW c \in Domain, RuntimeAt(i, c)'
      PROVE  RuntimeAt(i, c)
  <2>1. CASE c = d
    BY <2>1, <1>0, <1>5 DEF RuntimeAt, IsResult
  <2>2. CASE c # d
    BY <2>2, <1>0, <1>5 DEF RuntimeAt, IsResult
  <2>. QED
    BY <2>1, <2>2
<1>6. Homes'
  BY <1>0, <1>4, <1>5 DEF Origins, Homes, OneHome
<1>. QED
  BY <1>1, <1>2, <1>3, <1>6 DEF Origins

\* A file read under its own name is at home in the set.
LEMMA LoadOrigins == TypeOK /\ Origins /\ LoadArtifact => Origins'
<1>. SUFFICES ASSUME TypeOK, Origins, LoadArtifact PROVE Origins'
  OBVIOUS
<1>0. UNCHANGED <<ledger, disk, clock, runner, request>>
  BY DEF LoadArtifact, pipeline
<1>1. Sources' /\ Past' /\ Jobs'
  BY <1>0, SameSources DEF Origins, Past, Jobs, Is, RunOf, IsIndex
<1>2. AtHome(disk)' /\ (Straight' => Straight)
  BY <1>0 DEF Origins, Homes, AtHome, Straight
<1>3. ASSUME Straight  PROVE AtHome(got)' /\ OneHome'
  <2>1. PICK g : g = request[position].subject
    OBVIOUS
  <2>2. g \in File /\ got' = [got EXCEPT ![g] = disk[g]]
    <3>1. request[position] \in Artifact /\ position \in DOMAIN request
      BY RequestTypes DEF LoadArtifact, TypeOK
    <3>2. request[position].path = g
      BY <1>3, <2>1, <3>1 DEF Straight
    <3>. QED
      BY <2>1, <3>1, <3>2 DEF LoadArtifact, Artifact
  <2>3. /\ \A f \in File : got'[f] = got[f] \/ got'[f] = disk[f]
    BY <2>2 DEF TypeOK
  <2>4. \A c \in Domain : RuntimeFile(c) \in File /\ ResultFile(c) \in File /\ IndexFile(c) \in File
    BY FileNames
  <2>5. AtHome(got)'
    BY <1>0, <1>3, <2>3, <2>4 DEF Origins, Homes, AtHome
  <2>6. \A i \in DOMAIN ledger : \A c \in Domain : RuntimeAt(i, c)' => RuntimeAt(i, c)
    BY <1>0, <2>3, <2>4 DEF RuntimeAt, IsResult
  <2>7. OneHome'
    BY <1>0, <1>3, <2>6 DEF Origins, Homes, OneHome
  <2>. QED
    BY <2>5, <2>7
<1>. QED
  BY <1>1, <1>2, <1>3 DEF Origins, Homes

LEMMA InitOrigins == Init => Origins
<1>. SUFFICES ASSUME Init PROVE Origins
  OBVIOUS
<1>1. /\ DOMAIN ledger = {}
      /\ \A f \in File : disk[f] = 0 /\ got[f] = 0
      /\ \A d \in Domain : runner[d] = Idle
  BY DEF Init, Nothing
<1>2. \A d \in Domain : ResultFile(d) \in File /\ IndexFile(d) \in File
  BY FileNames
<1>3. Sources /\ Past /\ Jobs /\ OneHome
  BY <1>1 DEF Sources, Past, Jobs, OneHome
<1>4. AtHome(disk) /\ AtHome(got)
  BY <1>1, <1>2 DEF AtHome
<1>. QED
  BY <1>3, <1>4 DEF Origins, Homes

LEMMA NextOrigins ==
  ASSUME TypeOK, Executions, Origins, [Next]_vars
  PROVE  Origins'
<1>1. CASE Pipeline
  BY <1>1, ScenarioOrigins, RunOrigins, RuntimeOrigins, StartOrigins, IndexOrigins,
     FinishOrigins, AbortOrigins, AggregateOrigins, TearOrigins, TickOrigins DEF Pipeline
<1>2. CASE LoadArtifact
  BY <1>2, LoadOrigins
<1>3. CASE RejectArtifact \/ AcceptSet \/ RejectSet \/ UNCHANGED vars
  BY <1>3, QuietOrigins DEF RejectArtifact, AcceptSet, RejectSet, vars, pipeline
<1>. QED
  BY <1>1, <1>2, <1>3 DEF Next, Validator

(***************************************************************************)
(* A rejected set stays one whose links fail: the ledger only grows.       *)
(***************************************************************************)
LEMMA LinksStay ==
  ASSUME NEW m, Sound(m), Grown, LinksHold(m)'
  PROVE  LinksHold(m)
<1>1. \A f \in File : m[f] # 0 => Doc(m, f)' = Doc(m, f)
  BY DEF Sound, Grown, Doc
<1>2. OneOfEach(m)
  BY DEF LinksHold, OneOfEach, Names
<1>3. /\ m[ScenarioFile] # 0 /\ Doc(m, ScenarioFile)' = Doc(m, ScenarioFile)
      /\ m[RunFile] # 0 /\ Doc(m, RunFile)' = Doc(m, RunFile)
      /\ m[AggregateFile] # 0 /\ Doc(m, AggregateFile)' = Doc(m, AggregateFile)
  BY <1>1, <1>2, FileNames DEF OneOfEach, Names
<1>4. RunLinks(m) /\ DomainSetsEqual(m)
  BY <1>3 DEF LinksHold, RunLinks, DomainSetsEqual, Names
<1>5. Doc(m, RunFile) \in RunDoc
  BY <1>3, FileNames, FileDocs DEF Sound, Doc
<1>6. ASSUME NEW d \in Doc(m, RunFile).domains
      PROVE  /\ d \in Domain
             /\ Doc(m, RuntimeFile(d))' = Doc(m, RuntimeFile(d))
             /\ Doc(m, ResultFile(d))' = Doc(m, ResultFile(d))
             /\ Doc(m, IndexFile(d))' = Doc(m, IndexFile(d))
  <2>1. d \in Domain
    BY <1>5 DEF RunDoc
  <2>2. m[RuntimeFile(d)] # 0 /\ m[ResultFile(d)] # 0 /\ m[IndexFile(d)] # 0
    BY <1>4 DEF DomainSetsEqual, Names, RuntimeFile, ResultFile, IndexFile
  <2>. QED
    BY <2>1, <2>2, <1>1, FileNames
<1>7. ASSUME NEW d \in Doc(m, RunFile).domains
      PROVE  /\ Chronological(m, d) /\ ResultLinks(m, d) /\ ExecutionAligned(m, d)
             /\ AssertionsCovered(m, d) /\ EvidenceIndexed(m, d)
  <2>1. /\ Chronological(m, d)' /\ ResultLinks(m, d)' /\ ExecutionAligned(m, d)'
        /\ AssertionsCovered(m, d)' /\ EvidenceIndexed(m, d)'
    BY <1>3 DEF LinksHold, DomainLinks
  <2>2. Chronological(m, d)
    BY <2>1, <1>3, <1>6 DEF Chronological
  <2>3. ResultLinks(m, d)
    BY <2>1, <1>3, <1>6 DEF ResultLinks
  <2>4. ExecutionAligned(m, d)
    BY <2>1, <1>3, <1>6 DEF ExecutionAligned
  <2>5. AssertionsCovered(m, d)
    BY <2>1, <1>3, <1>6 DEF AssertionsCovered
  <2>6. EvidenceIndexed(m, d)
    BY <2>1, <1>3, <1>6 DEF EvidenceIndexed
  <2>. QED
    BY <2>2, <2>3, <2>4, <2>5, <2>6
<1>8. AggregateMatches(m)
  <2>1. AggregateMatches(m)'
    BY DEF LinksHold
  <2>2. PICK aggregate, domains :
          aggregate = Doc(m, AggregateFile) /\ domains = Doc(m, RunFile).domains
    OBVIOUS
  <2>3. /\ Listed(aggregate) = domains
        /\ \A d \in Listed(aggregate) : aggregate.per_domain_results[d] =
             [digest |-> m[ResultFile(d)], status |-> Doc(m, ResultFile(d))'.status]
    BY <2>1, <2>2, <1>3 DEF AggregateMatches
  <2>4. \A d \in Listed(aggregate) : aggregate.per_domain_results[d] =
             [digest |-> m[ResultFile(d)], status |-> Doc(m, ResultFile(d)).status]
    BY <2>2, <2>3, <1>6
  <2>. QED
    BY <2>2, <2>3, <2>4 DEF AggregateMatches
<1>9. IndexRuns(m)
  <2>1. IndexRuns(m)'
    BY DEF LinksHold
  <2>. QED
    BY <2>1, <1>3, <1>6 DEF IndexRuns
<1>. QED
  BY <1>2, <1>4, <1>7, <1>8, <1>9 DEF LinksHold, DomainLinks

LEMMA UnchangedLinksStay ==
  ASSUME TypeOK, Loaded, Grown, UNCHANGED got, LinksHold(got)'
  PROVE  LinksHold(got)
<1>1. PICK m : m = got
  OBVIOUS
<1>2. Sound(m)
  BY <1>1, LoadedSound
<1>3. LinksHold(m)'
  BY <1>1 DEF LinksHold, OneOfEach, RunLinks, DomainSetsEqual, DomainLinks,
     AggregateMatches, IndexRuns, Names, Doc, Chronological, ResultLinks,
     ExecutionAligned, AssertionsCovered, EvidenceIndexed
<1>4. LinksHold(m)
  BY <1>2, <1>3, LinksStay
<1>. QED
  BY <1>1, <1>4

LEMMA FailedStays ==
  ASSUME TypeOK, Loaded, Failed, Grown, UNCHANGED <<request, position, got, verdict>>
  PROVE  Failed'
<1>. SUFFICES ASSUME verdict = "rejected", position > Len(request),
                     (SubjectsUnique /\ LinksHold(got))'
              PROVE  FALSE
  BY DEF Failed
<1>1. LinksHold(got)
  BY UnchangedLinksStay
<1>2. SubjectsUnique
  BY DEF SubjectsUnique
<1>. QED
  BY <1>1, <1>2 DEF Failed

LEMMA NextFailed ==
  ASSUME TypeOK, Loaded, Failed, [Next]_vars
  PROVE  Failed'
<1>0. TypeOK'
  BY NextTypes
<1>1. CASE Pipeline
  BY <1>0, <1>1, PipelineAppends, LedgerGrows, FailedStays
<1>2. CASE LoadArtifact \/ RejectArtifact \/ AcceptSet
  BY <1>2, RequestTypes DEF LoadArtifact, RejectArtifact, AcceptSet, Failed
<1>3. CASE RejectSet
  <2>1. /\ ~ (SubjectsUnique /\ LinksHold(got))
        /\ UNCHANGED <<ledger, request, got>>
    BY <1>3 DEF RejectSet, pipeline
  <2>2. Grown
    BY <2>1 DEF Grown
  <2>3. SubjectsUnique' => SubjectsUnique
    BY <2>1 DEF SubjectsUnique
  <2>4. LinksHold(got)' => LinksHold(got)
    BY <2>1, <2>2, UnchangedLinksStay
  <2>. QED
    BY <2>1, <2>3, <2>4 DEF Failed
<1>4. CASE UNCHANGED vars
  <2>1. Grown
    BY <1>4 DEF Grown, vars
  <2>. QED
    BY <2>1, <1>4, FailedStays DEF vars
<1>. QED
  BY <1>1, <1>2, <1>3, <1>4 DEF Next, Validator

(***************************************************************************)
(* When every document ever written was read, each link has only one       *)
(* document it can point to, and origins make it point there.              *)
(***************************************************************************)
\* As many documents were read as were written: all of them.
LEMMA AllRead ==
  ASSUME TypeOK, Cardinality({got[f] : f \in File} \ {0}) = Len(ledger)
  PROVE  \A i \in DOMAIN ledger : \E f \in File : got[f] = i
<1>. PICK D, n : D = {got[f] : f \in File} \ {0} /\ n = Len(ledger)
  OBVIOUS
<1>1. n \in Nat /\ DOMAIN ledger = 1..n /\ Cardinality(D) = n
  BY DEF TypeOK
<1>2. D \in SUBSET (1..n)
  BY DEF TypeOK
<1>3. \A i \in D : \E f \in File : got[f] = i
  OBVIOUS
<1>4. IsFiniteSet(1..n) /\ Cardinality(1..n) = n
  <2>1. IsFiniteSet(1..n) /\ Cardinality(1..n) = IF 1 > n THEN 0 ELSE n - 1 + 1
    <3>1. 1 \in Int /\ n \in Int
      BY <1>1
    <3>. QED
      BY <3>1, FS_Interval
  <2>. QED
    BY <2>1, <1>1
<1>5. Cardinality(1..n) = Cardinality(D)
  BY <1>1, <1>4
<1>6. 1..n = D
  BY <1>2, <1>4, <1>5, FS_Subset
<1>. QED
  BY <1>1, <1>3, <1>6

\* Whatever was written is found under its own name.
LEMMA OnlyOne ==
  ASSUME TypeOK, AtHome(got), \A i \in DOMAIN ledger : \E f \in File : got[f] = i
  PROVE  /\ \A i : Is(i, ScenarioDoc) => i = got[ScenarioFile]
         /\ \A i : Is(i, RunDoc) => i = got[RunFile]
         /\ \A i : Is(i, RuntimeDoc) => \E e \in Domain : i = got[RuntimeFile(e)]
         /\ \A i : \A d \in Domain : IsResult(i, d) => i = got[ResultFile(d)]
         /\ \A i : \A d \in Domain : IsIndex(i, d) => i = got[IndexFile(d)]
<1>1. ASSUME NEW i \in DOMAIN ledger
      PROVE  \E f \in File : got[f] = i /\ ledger[i] \in DocOf(f) /\ i # 0
  <2>1. i # 0
    <3>1. DOMAIN ledger = 1..Len(ledger) /\ Len(ledger) \in Nat
      BY DEF TypeOK
    <3>. QED
      BY <3>1
  <2>2. PICK f \in File : got[f] = i
    OBVIOUS
  <2>3. ledger[got[f]] \in DocOf(f)
    BY <2>1, <2>2 DEF TypeOK
  <2>. QED
    BY <2>1, <2>2, <2>3
<1>2. ASSUME NEW i, Is(i, ScenarioDoc)  PROVE i = got[ScenarioFile]
  <2>1. PICK f \in File : got[f] = i /\ ledger[i] \in DocOf(f)
    BY <1>1, <1>2 DEF Is
  <2>2. f = ScenarioFile
    BY <2>1, <1>2, FileCases, FileDocs, KindsDeclared DEF Is
  <2>. QED
    BY <2>1, <2>2
<1>3. ASSUME NEW i, Is(i, RunDoc)  PROVE i = got[RunFile]
  <2>1. PICK f \in File : got[f] = i /\ ledger[i] \in DocOf(f)
    BY <1>1, <1>3 DEF Is
  <2>2. f = RunFile
    BY <2>1, <1>3, FileCases, FileDocs, KindsDeclared DEF Is
  <2>. QED
    BY <2>1, <2>2
<1>4. ASSUME NEW i, Is(i, RuntimeDoc)  PROVE \E e \in Domain : i = got[RuntimeFile(e)]
  <2>1. PICK f \in File : got[f] = i /\ ledger[i] \in DocOf(f)
    BY <1>1, <1>4 DEF Is
  <2>2. \E e \in Domain : f = RuntimeFile(e)
    BY <2>1, <1>4, FileCases, FileDocs, KindsDeclared DEF Is
  <2>. QED
    BY <2>1, <2>2
<1>5. ASSUME NEW i, NEW d \in Domain, IsResult(i, d)  PROVE i = got[ResultFile(d)]
  <2>1. PICK f \in File : got[f] = i /\ ledger[i] \in DocOf(f) /\ i # 0
    BY <1>1, <1>5 DEF IsResult
  <2>2. PICK e \in Domain : f = ResultFile(e)
    BY <2>1, <1>5, FileCases, FileDocs, KindsDeclared DEF IsResult
  <2>3. e = d
    BY <2>1, <2>2, <1>5 DEF AtHome, IsResult
  <2>. QED
    BY <2>1, <2>2, <2>3
<1>6. ASSUME NEW i, NEW d \in Domain, IsIndex(i, d)  PROVE i = got[IndexFile(d)]
  <2>1. PICK f \in File : got[f] = i /\ ledger[i] \in DocOf(f) /\ i # 0
    BY <1>1, <1>6 DEF IsIndex
  <2>2. PICK e \in Domain : f = IndexFile(e)
    BY <2>1, <1>6, FileCases, FileDocs, KindsDeclared DEF IsIndex
  <2>3. e = d
    BY <2>1, <2>2, <1>6 DEF AtHome, IsIndex
  <2>. QED
    BY <2>1, <2>2, <2>3
<1>. QED
  BY <1>2, <1>3, <1>4, <1>5, <1>6

\* The files of a complete set, and where their documents come from.
LEMMA SetSourced ==
  ASSUME TypeOK, Sources, AtHome(got), OneOfEach(got), DomainSetsEqual(got)
  PROVE  /\ Is(got[RunFile], RunDoc) /\ Is(got[AggregateFile], AggregateDoc)
         /\ Sourced(Doc(got, RunFile)) /\ Sourced(Doc(got, AggregateFile))
         /\ \A d \in Doc(got, RunFile).domains :
              /\ d \in Domain
              /\ Is(got[RuntimeFile(d)], RuntimeDoc) /\ Sourced(Doc(got, RuntimeFile(d)))
              /\ IsResult(got[ResultFile(d)], d) /\ Sourced(Doc(got, ResultFile(d)))
              /\ IsIndex(got[IndexFile(d)], d) /\ Sourced(Doc(got, IndexFile(d)))
<1>1. \A f \in File : got[f] # 0 =>
        Is(got[f], DocOf(f)) /\ Sourced(Doc(got, f))
  <2>1. DOMAIN ledger = 1..Len(ledger) /\ Len(ledger) \in Nat
    BY DEF TypeOK
  <2>2. \A f \in File : got[f] # 0 => got[f] \in DOMAIN ledger /\ ledger[got[f]] \in DocOf(f)
    BY <2>1 DEF TypeOK
  <2>. QED
    BY <2>2 DEF Is, Sources, Doc
<1>2. got[RunFile] # 0 /\ got[AggregateFile] # 0
  BY DEF OneOfEach, Names
<1>3. /\ Is(got[RunFile], RunDoc) /\ Is(got[AggregateFile], AggregateDoc)
      /\ Sourced(Doc(got, RunFile)) /\ Sourced(Doc(got, AggregateFile))
  BY <1>1, <1>2, FileNames, FileDocs
<1>4. ASSUME NEW d \in Doc(got, RunFile).domains
      PROVE  /\ d \in Domain
             /\ Is(got[RuntimeFile(d)], RuntimeDoc) /\ Sourced(Doc(got, RuntimeFile(d)))
             /\ IsResult(got[ResultFile(d)], d) /\ Sourced(Doc(got, ResultFile(d)))
             /\ IsIndex(got[IndexFile(d)], d) /\ Sourced(Doc(got, IndexFile(d)))
  <2>1. d \in Domain
    BY <1>3 DEF Is, Doc, RunDoc
  <2>2. got[RuntimeFile(d)] # 0 /\ got[ResultFile(d)] # 0 /\ got[IndexFile(d)] # 0
    BY DEF DomainSetsEqual, Names, RuntimeFile, ResultFile, IndexFile
  <2>3. /\ Is(got[RuntimeFile(d)], RuntimeDoc) /\ Sourced(Doc(got, RuntimeFile(d)))
        /\ Is(got[ResultFile(d)], ResultDoc) /\ Sourced(Doc(got, ResultFile(d)))
        /\ Is(got[IndexFile(d)], IndexDoc) /\ Sourced(Doc(got, IndexFile(d)))
    BY <2>1, <2>2, <1>1, FileNames, FileDocs
  <2>. QED
    BY <2>1, <2>2, <2>3 DEF AtHome, IsResult, IsIndex, Is
<1>. QED
  BY <1>3, <1>4

\* The links of a domain hold in a set that was written once.
LEMMA DomainsLinked ==
  ASSUME TypeOK, Sources, AtHome(got), OneHome, OneOfEach(got), DomainSetsEqual(got),
         \A i \in DOMAIN ledger : \E f \in File : got[f] = i,
         NEW d \in Doc(got, RunFile).domains
  PROVE  /\ ResultLinks(got, d) /\ EvidenceIndexed(got, d)
         /\ Doc(got, IndexFile(d)).run_id = Doc(got, RunFile).run_id
         /\ Doc(got, RunFile).created_at <= Doc(got, RuntimeFile(d)).generated_at
         /\ Doc(got, RuntimeFile(d)).generated_at <= Doc(got, ResultFile(d)).started_at
         /\ Doc(got, ResultFile(d)).started_at <= Doc(got, IndexFile(d)).generated_at
         /\ Doc(got, IndexFile(d)).generated_at <= Doc(got, ResultFile(d)).finished_at
<1>1. /\ d \in Domain
      /\ Is(got[RuntimeFile(d)], RuntimeDoc) /\ Sourced(Doc(got, RuntimeFile(d)))
      /\ IsResult(got[ResultFile(d)], d) /\ Sourced(Doc(got, ResultFile(d)))
      /\ IsIndex(got[IndexFile(d)], d) /\ Sourced(Doc(got, IndexFile(d)))
  BY SetSourced
<1>2. PICK manifest, result, index, run :
        /\ manifest = Doc(got, RuntimeFile(d)) /\ result = Doc(got, ResultFile(d))
        /\ index = Doc(got, IndexFile(d)) /\ run = Doc(got, RunFile)
  OBVIOUS
<1>3. /\ manifest \in RuntimeDoc /\ result \in ResultDoc /\ index \in IndexDoc
      /\ result.domain_id = d
  BY <1>1, <1>2 DEF Is, IsResult, IsIndex, Doc
<1>4. \A id : RunOf(id) => id = run.run_id
  BY <1>2, OnlyOne DEF RunOf, Doc
<1>5. FromResult(result) /\ FromIndex(index) /\ FromRuntime(manifest)
  BY <1>1, <1>2 DEF Sourced
<1>6. /\ Is(result.scenario, ScenarioDoc) /\ Is(result.runtime, RuntimeDoc)
      /\ ledger[result.runtime].generated_at <= result.started_at
      /\ RunOf(result.run_id)
      /\ IsIndex(result.ghost, d) /\ ledger[result.ghost].artifacts = result.evidence
      /\ result.started_at <= ledger[result.ghost].generated_at
      /\ ledger[result.ghost].generated_at <= result.finished_at
  BY <1>3, <1>5 DEF FromResult
<1>7. result.scenario = got[ScenarioFile] /\ result.run_id = run.run_id
  BY <1>4, <1>6, OnlyOne
<1>8. result.runtime = got[RuntimeFile(d)]
  <2>1. PICK e \in Domain : result.runtime = got[RuntimeFile(e)]
    BY <1>6, OnlyOne
  <2>2. RuntimeAt(result.runtime, e)
    BY <2>1 DEF RuntimeAt
  <2>3. RuntimeAt(result.runtime, d)
    BY <1>1, <1>2 DEF RuntimeAt, IsResult, Doc
  <2>4. e = d
    BY <2>2, <2>3, <1>1, <1>6 DEF OneHome, Is
  <2>. QED
    BY <2>1, <2>4
<1>9. ledger[result.ghost] = index
  <2>1. result.ghost = got[IndexFile(d)]
    BY <1>1, <1>6, OnlyOne
  <2>. QED
    BY <2>1, <1>2 DEF Doc
<1>10. index.run_id = run.run_id
  BY <1>3, <1>4, <1>5 DEF FromIndex
<1>11. run.created_at <= manifest.generated_at
  <2>1. PICK k \in DOMAIN ledger : Is(k, RunDoc) /\ ledger[k].created_at <= manifest.generated_at
    BY <1>3, <1>5 DEF FromRuntime
  <2>2. k = got[RunFile]
    BY <2>1, OnlyOne
  <2>. QED
    BY <2>1, <2>2, <1>2 DEF Doc
<1>12. ledger[result.runtime] = manifest
  BY <1>2, <1>8 DEF Doc
<1>13. ResultLinks(got, d) /\ EvidenceIndexed(got, d)
  BY <1>2, <1>3, <1>6, <1>7, <1>8, <1>9 DEF ResultLinks, EvidenceIndexed
<1>. QED
  BY <1>2, <1>6, <1>9, <1>10, <1>11, <1>12, <1>13

LEMMA OnePassLinks ==
  ASSUME TypeOK, Origins, OnePass, ~ ProducerFault(got)
  PROVE  LinksHold(got)
<1>1. /\ Sources /\ AtHome(got) /\ OneHome
      /\ OneOfEach(got) /\ DomainSetsEqual(got)
      /\ \A i \in DOMAIN ledger : \E f \in File : got[f] = i
  BY AllRead DEF OnePass, Origins, Homes, Straight
<1>2. PICK run, aggregate : run = Doc(got, RunFile) /\ aggregate = Doc(got, AggregateFile)
  OBVIOUS
<1>3. /\ run \in RunDoc /\ aggregate \in AggregateDoc
      /\ FromRun(run) /\ FromAggregate(aggregate)
  BY <1>1, <1>2, SetSourced DEF Is, Doc, Sourced
<1>4. RunLinks(got)
  <2>1. run.scenario = got[ScenarioFile]
    BY <1>1, <1>3, OnlyOne DEF FromRun
  <2>2. aggregate.acceptance_run = got[RunFile]
    BY <1>1, <1>3, OnlyOne DEF FromAggregate
  <2>3. ledger[aggregate.acceptance_run].run_id = aggregate.run_id
    BY <1>3 DEF FromAggregate
  <2>. QED
    BY <2>1, <2>2, <2>3, <1>2 DEF RunLinks, Doc
<1>5. Listed(aggregate) = run.domains
  BY <1>2 DEF ProducerFault
<1>6. ASSUME NEW d \in run.domains
      PROVE  /\ d \in Domain
             /\ aggregate.per_domain_results[d].digest = got[ResultFile(d)]
             /\ Doc(got, ResultFile(d)).finished_at <= aggregate.generated_at
  <2>1. d \in Domain
    BY <1>3 DEF RunDoc
  <2>2. PICK k : k = aggregate.per_domain_results[d].digest
    OBVIOUS
  <2>3. IsResult(k, d) /\ ledger[k].finished_at <= aggregate.generated_at
    BY <2>2, <1>3, <1>5 DEF FromAggregate
  <2>4. k = got[ResultFile(d)]
    BY <2>1, <2>3, <1>1, OnlyOne
  <2>. QED
    BY <2>1, <2>2, <2>3, <2>4 DEF Doc
<1>7. DomainLinks(got)
  <2>. SUFFICES ASSUME NEW d \in run.domains
                PROVE  /\ Chronological(got, d) /\ ResultLinks(got, d)
                       /\ ExecutionAligned(got, d) /\ AssertionsCovered(got, d)
                       /\ EvidenceIndexed(got, d)
    BY <1>2 DEF DomainLinks
  <2>1. ExecutionAligned(got, d) /\ AssertionsCovered(got, d)
    BY <1>2 DEF ProducerFault
  <2>2. ResultLinks(got, d) /\ EvidenceIndexed(got, d)
    BY <1>1, <1>2, DomainsLinked
  <2>3. Chronological(got, d)
    BY <1>1, <1>2, <1>6, DomainsLinked DEF Chronological
  <2>. QED
    BY <2>1, <2>2, <2>3
<1>8. AggregateMatches(got)
  <2>1. ASSUME NEW d \in Listed(aggregate)
        PROVE  aggregate.per_domain_results[d] =
                 [digest |-> got[ResultFile(d)], status |-> Doc(got, ResultFile(d)).status]
    <3>1. d \in run.domains /\ d \in Domain
      BY <1>5, <1>6
    <3>2. PICK entry : entry = aggregate.per_domain_results[d]
      OBVIOUS
    <3>3. entry # NotListed
      BY <3>2 DEF Listed
    <3>4. entry \in DomainEntry
      BY <3>1, <3>2, <1>3 DEF AggregateDoc
    <3>5. entry = [digest |-> entry.digest, status |-> entry.status]
      BY <3>3, <3>4 DEF DomainEntry
    <3>6. entry.digest = got[ResultFile(d)]
      BY <3>1, <3>2, <1>6
    <3>7. entry.status = Doc(got, ResultFile(d)).status
      BY <3>1, <3>2, <1>2 DEF ProducerFault
    <3>. QED
      BY <3>2, <3>5, <3>6, <3>7
  <2>. QED
    BY <2>1, <1>2, <1>5 DEF AggregateMatches
<1>9. IndexRuns(got)
  BY <1>1, DomainsLinked DEF IndexRuns
<1>. QED
  BY <1>1, <1>4, <1>7, <1>8, <1>9 DEF LinksHold

\* No false alarm: a set that was written once, in whatever order its
\* executions interleaved, and read under its own names, is only rejected for
\* its links when a producer misreported or left something out
\* (_validate_links).
THEOREM NoFalseAlarms == Spec => []NoFalseAlarm
<1>1. Init => TypeOK /\ Loaded /\ Executions /\ Origins /\ Failed
  BY InitTypes, InitLoaded, InitExecutions, InitOrigins DEF Init, Failed
<1>2. TypeOK /\ Loaded /\ Executions /\ Origins /\ Failed /\ [Next]_vars
        => TypeOK' /\ Loaded' /\ Executions' /\ Origins' /\ Failed'
  BY NextTypes, NextLoaded, NextExecutions, NextOrigins, NextFailed
<1>3. TypeOK /\ Origins /\ Failed => NoFalseAlarm
  BY OnePassLinks DEF Failed, NoFalseAlarm, OnePass
<1>. QED
  BY <1>1, <1>2, <1>3, PTL DEF Spec
=============================================================================
