---------------------- MODULE QualificationProperties ----------------------
(***************************************************************************)
(* What must be true of Qualification, whatever the pipeline does while    *)
(* the validator reads.                                                    *)
(***************************************************************************)
EXTENDS Qualification

DocTypes ==
  [scenario |-> ScenarioDoc, acceptance_run |-> RunDoc,
   acceptance_aggregate |-> AggregateDoc, runtime_manifest |-> RuntimeDoc,
   domain_result |-> ResultDoc, evidence_index |-> IndexDoc]

DocOf(f) == DocTypes[f[1]]

\* Type invariant.  Every digest on disk, in memory, in a running execution
\* or published is one of a document that was written, and a file that was
\* read holds a document of the kind its subject declares (_load_artifact).
TypeOK ==
  /\ ledger \in Seq(Document)
  /\ disk \in [File -> 0..Len(ledger)]
  /\ clock \in Time
  /\ runner \in [Domain -> Runner]
  /\ request \in Requests
  /\ position \in 1..(Len(request) + 1)
  /\ got \in [File -> 0..Len(ledger)]
  /\ verdict \in {"none", "accepted", "rejected"}
  /\ metadata \in [File -> 0..Len(ledger)]
  /\ \A f \in File : disk[f] # 0 => ledger[disk[f]] \in DocOf(f) \cup {Torn}
  /\ \A f \in File : got[f] # 0 => ledger[got[f]] \in DocOf(f)
  /\ \A f \in File : metadata[f] # 0 => ledger[metadata[f]] \in DocOf(f)
  /\ \A d \in Domain : runner[d].phase = "indexed" =>
       /\ runner[d].index \in 1..Len(ledger)
       /\ ledger[runner[d].index] \in IndexDoc

\* The decision procedure implements the decision it stands for: whatever the
\* interleaving of reads and rewrites, an accepted table certifies one run of
\* one scenario, and a passed one was earned (_validate_links).
Certified ==
  INSTANCE Certification WITH ledger <- ledger, verdict <- verdict, metadata <- metadata
ImplementsCertification == Certified!Spec

\* The evidence index carries no digest link (nothing but run_id, timestamps
\* and content ties it to a result), so a domain executed twice can leave the
\* index of one execution next to the result of another.  Accepting such a
\* pair is only possible when the two list the same evidence in the same run
\* and the index was written at the very instant the result's execution
\* started or finished (_require_time_order and the evidence comparison).
EvidenceIsOwn ==
  verdict = "accepted" =>
    \A d \in Doc(metadata, RunFile).domains :
      LET result == Doc(metadata, ResultFile(d))
          index  == Doc(metadata, IndexFile(d))
      IN  index.ghost = d /\ result.ghost # metadata[IndexFile(d)] =>
            /\ index.run_id = result.run_id
            /\ index.artifacts = result.evidence
            /\ index.generated_at \in {result.started_at, result.finished_at}

\* No false alarm: when every file of the set was written exactly once and
\* read under its own name, only a producer's fault makes the links fail:
\* an outcome misreported or left out by the aggregator, a declared assertion
\* left out by a domain, or an execution other than the scenario's.
ProducerFault(m) ==
  LET aggregate == Doc(m, AggregateFile)
      domains   == Doc(m, RunFile).domains
  IN  \/ Listed(aggregate) # domains
      \/ \E d \in domains :
           \/ aggregate.per_domain_results[d].status # Doc(m, ResultFile(d)).status
           \/ ~ AssertionsCovered(m, d)
           \/ ~ ExecutionAligned(m, d)

OnePass ==
  /\ \A i \in DOMAIN request : request[i].subject = request[i].path
  /\ SubjectsUnique
  /\ Len(ledger) = Len(request)
  /\ Cardinality({got[f] : f \in File} \ {0}) = Len(ledger)
  /\ OneOfEach(got)
  /\ DomainSetsEqual(got)

NoFalseAlarm ==
  verdict = "rejected" /\ position > Len(request) /\ OnePass => ProducerFault(got)

\* Every invocation comes to a verdict, whatever the pipeline is doing.
Decides == <>(verdict # "none")
=============================================================================
