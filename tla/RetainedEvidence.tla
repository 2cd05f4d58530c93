-------------------------- MODULE RetainedEvidence --------------------------
(***************************************************************************)
(* What stands behind the evidence of a run: objects are stored under      *)
(* immutable revisions, producers attest them, a verifier looks at the     *)
(* stored object and records a verification, the producer writes a receipt *)
(* that refers to it, evidence indexes and the scenario's evaluators refer *)
(* to receipts, and somebody collects the files for the validator.         *)
(*                                                                         *)
(* Only the validator is the repository's.  The verifier is taken to be    *)
(* right about what it looked at; everyone else may combine whatever there *)
(* is, from this run or an earlier one.                                    *)
(*                                                                         *)
(* A digest is the document or the bytes it is the digest of, and bytes    *)
(* determine their size.  That indexes name this run is checked elsewhere  *)
(* (Qualification).  Every artifact is a recording; its summary, which is   *)
(* compared with it, and content manifests, which are optional, are absent.*)
(***************************************************************************)
EXTENDS Integers, Sequences, FiniteSets

CONSTANTS
  Domain,
  Object,     \* where objects are stored (uri)
  Bytes,
  Producer,
  Policy,     \* the trust policies verifiers apply
  Records, Verifications, Receipts, Runs,
              \* bounds: how often each of these happens
  Miscopied,  \* bound: wrong fields of a receipt
  MaxSlips,   \* bound: files too many, missing or given twice
  MaxClock    \* bound: the wall clock

None == [absent |-> TRUE]

ASSUME EvidenceConstants ==
  /\ {Records, Verifications, Receipts, Runs, Miscopied, MaxSlips, MaxClock} \subseteq Nat

VARIABLES
  clock,
  stored,         \* object -> the bytes of its revisions
  verifications,  \* every verification recorded
  receipts,       \* every receipt written
  evaluators,     \* the evaluator requirements of the scenario
  run,            \* the acceptance run, or None
  indexes,        \* domain -> the evidence it indexed in this run
  supplied,       \* the files handed to the validator
  aggregated_at,  \* when the aggregate was written and they were; -1: not yet
  verdict,
  count           \* how often each bounded thing happened

vars == <<clock, stored, verifications, receipts, evaluators, run, indexes, supplied,
          aggregated_at, verdict, count>>

Bound(thing, limit) ==
  /\ count[thing] < limit
  /\ count' = [count EXCEPT ![thing] = @ + 1]

\* The artifact descriptors that are true: what is stored where.
Stored ==
  UNION {{[uri |-> o, revision |-> i, bytes |-> stored[o][i]] : i \in DOMAIN stored[o]} :
         o \in Object}

-----------------------------------------------------------------------------
(* Everybody else (external).                                              *)

Record(o) ==
  /\ Bound("record", Records)
  /\ \E b \in Bytes : stored' = [stored EXCEPT ![o] = Append(@, b)]
  /\ UNCHANGED <<clock, verifications, receipts, evaluators, run, indexes, supplied,
                 aggregated_at, verdict>>

\* A verification is of a producer's statement about an object, which the
\* verifier finds to be true.
Verify ==
  /\ Bound("verification", Verifications)
  /\ \E a \in Stored, p \in Producer, policy \in Policy :
       verifications' = verifications \cup
         {[statement |-> [artifact |-> a, producer |-> p], artifact |-> a, producer |-> p,
           policy |-> policy, report |-> [nth |-> count["verification"]],
           verified_at |-> clock]}
  /\ UNCHANGED <<clock, stored, receipts, evaluators, run, indexes, supplied,
                 aggregated_at, verdict>>

\* A receipt should repeat its verification; how many fields do not is bounded.
\* It is bound to the run or, 0, to none.
WriteReceipt ==
  /\ Bound("receipt", Receipts)
  /\ \E v, w \in verifications, a \in Stored, p \in Producer, r \in {0, count["run"]} :
       LET receipt == [artifact |-> a, producer |-> p, statement |-> w.statement, run_id |-> r,
                       verification |-> v, created_at |-> clock]
       IN  /\ Cardinality({f \in {"artifact", "producer", "statement"} : receipt[f] # v[f]})
                <= Miscopied
           /\ receipts' = receipts \cup {receipt}
  /\ UNCHANGED <<clock, stored, verifications, evaluators, run, indexes, supplied,
                 aggregated_at, verdict>>

\* A new run of a scenario that names the packages of its evaluators; what was
\* indexed in an earlier run is not of this one.
StartRun ==
  /\ Bound("run", Runs)
  /\ run' = [run_id |-> count["run"] + 1, created_at |-> clock]
  /\ evaluators' \in {{}} \cup {{[package |-> b, receipt |-> r]} : b \in Bytes, r \in receipts}
  /\ indexes' = [d \in Domain |-> {}]
  /\ UNCHANGED <<clock, stored, verifications, receipts, supplied, aggregated_at, verdict>>

\* An artifact, retained in the store or still local.
Index(d) ==
  /\ run # None /\ indexes[d] = {}
  /\ \E a \in Stored, r \in receipts \cup {None} :
       indexes' = [indexes EXCEPT ![d] = {[artifact |-> a, receipt |-> r]}]
  /\ UNCHANGED <<clock, stored, verifications, receipts, evaluators, run, supplied,
                 aggregated_at, verdict, count>>

Tick ==
  /\ clock < MaxClock
  /\ clock' = clock + 1
  /\ UNCHANGED <<stored, verifications, receipts, evaluators, run, indexes, supplied,
                 aggregated_at, verdict, count>>

-----------------------------------------------------------------------------
(* The files a set consists of.                                            *)

Entries == UNION {indexes[d] : d \in Domain}
Retained == {e \in Entries : e.receipt # None}

File(kind, content) == [kind |-> kind, content |-> content]

\* What a receipt refers to, directly and through its verification.
FilesOf(r) ==
  {File("artifact_receipt", r), File("attestation", r.statement),
   File("artifact_verification", r.verification),
   File("policy", r.verification.policy), File("verification", r.verification.report)}

UsedReceipts == {e.receipt : e \in Retained} \cup {q.receipt : q \in evaluators}

Needed ==
  (UNION {FilesOf(r) : r \in UsedReceipts})
  \cup {File("package", q.package) : q \in evaluators}
  \cup {File("recording", e.artifact.bytes) : e \in Entries}

\* Whatever somebody could hand over.
Known ==
  (UNION {FilesOf(r) : r \in receipts})
  \cup {File("artifact_verification", v) : v \in verifications}
  \cup {File("package", b) : b \in Bytes}
  \cup {File("recording", b) : b \in Bytes}

\* The aggregate is written and the files are collected, each once except for
\* the slips: a file missing, one nothing refers to, or one given twice.
Collect ==
  /\ run # None /\ \A d \in Domain : indexes[d] # {}
  /\ LET wrong(S) == {T \in SUBSET S : Cardinality(T) <= MaxSlips}
         some == wrong(Needed)
         others == wrong(Known \ Needed)
     IN  \E missing, twice \in some, extra \in others :
           /\ Cardinality(missing) + Cardinality(extra) + Cardinality(twice) <= MaxSlips
           /\ supplied' = {[name |-> 1, file |-> f] : f \in (Needed \cup extra) \ missing}
                          \cup {[name |-> 2, file |-> f] : f \in twice}
  /\ aggregated_at' = clock
  /\ UNCHANGED <<clock, stored, verifications, receipts, evaluators, run, indexes, verdict, count>>

-----------------------------------------------------------------------------
(* The validator.                                                          *)

Supplied(kind) == {x.file.content : x \in {y \in supplied : y.file.kind = kind}}

\* _artifact_by_digest, _require_raw
ExactlyOne(kind, content) ==
  \E x \in supplied :
    /\ x.file = File(kind, content)
    /\ \A y \in supplied : y.file = x.file => y = x

\* slip: that a verification was of the artifact is left to the statement
ReceiptFitsStatement(r, v) ==
  /\ v.statement = r.statement
  /\ v.producer = r.producer
  /\ v.verified_at <= r.created_at

\* validate_artifact_receipt; the dependencies are looked up below.
ReceiptFits(r, v) ==
  /\ v.statement = r.statement
  /\ v.artifact = r.artifact
  /\ v.producer = r.producer
  /\ v.verified_at <= r.created_at

\* slip: every receipt has to be of this run
InRunAlways(r, v) ==
  run.created_at <= v.verified_at /\ v.verified_at <= r.created_at /\ r.created_at <= aggregated_at

\* A receipt bound to a run belongs between its creation and the aggregate.
InRun(r, v) ==
  r.run_id # 0 =>
    run.created_at <= v.verified_at /\ v.verified_at <= r.created_at /\ r.created_at <= aggregated_at

ReceiptHolds(r) ==
  LET v == r.verification IN
  /\ ExactlyOne("artifact_receipt", r)
  /\ ExactlyOne("attestation", r.statement)
  /\ ExactlyOne("artifact_verification", v)
  /\ ReceiptFits(r, v)
  /\ InRun(r, v)
  /\ ExactlyOne("policy", v.policy)
  /\ ExactlyOne("verification", v.report)

RetainedHolds ==
  \A e \in Retained :
    /\ ReceiptHolds(e.receipt)
    /\ e.receipt.run_id = run.run_id
    /\ e.receipt.artifact = e.artifact

EvaluatorsHold ==
  \A q \in evaluators :
    /\ ExactlyOne("package", q.package)
    /\ ReceiptHolds(q.receipt)
    /\ q.receipt.artifact.bytes = q.package

\* slip: verifications nothing refers to are let pass
ReceiptsUsed == Supplied("artifact_receipt") = UsedReceipts

ReceiptsAndVerificationsUsed ==
  /\ Supplied("artifact_receipt") = UsedReceipts
  /\ Supplied("artifact_verification") = {r.verification : r \in UsedReceipts}

\* _validate_evidence
BytesSupplied == \A e \in Entries : ExactlyOne("recording", e.artifact.bytes)

EvidenceHolds ==
  /\ RetainedHolds
  /\ EvaluatorsHold
  /\ ReceiptsAndVerificationsUsed
  /\ BytesSupplied

Validate ==
  /\ aggregated_at # -1
  /\ verdict' = IF EvidenceHolds THEN "accepted" ELSE "rejected"
  /\ UNCHANGED <<clock, stored, verifications, receipts, evaluators, run, indexes, supplied,
                 aggregated_at, count>>

-----------------------------------------------------------------------------
Init ==
  /\ clock = 0
  /\ stored = [o \in Object |-> <<>>]
  /\ verifications = {} /\ receipts = {}
  /\ evaluators = {} /\ run = None
  /\ indexes = [d \in Domain |-> {}]
  /\ supplied = {} /\ aggregated_at = -1
  /\ verdict = "none"
  /\ count = [x \in {"record", "verification", "receipt", "run"} |-> 0]

Next ==
  /\ verdict = "none"
  /\ \/ /\ aggregated_at = -1
        /\ \/ Verify \/ WriteReceipt \/ StartRun \/ Tick
           \/ \E o \in Object : Record(o)
           \/ \E d \in Domain : Index(d)
           \/ Collect
     \/ Validate

Spec == Init /\ [][Next]_vars

-----------------------------------------------------------------------------
(* Properties.                                                             *)

\* Somebody looked at a, as the receipt's producer attested it, no later than
\* the receipt was written.
LookedAt(a, r) ==
  \E v \in verifications :
    /\ v.artifact = a /\ v.producer = r.producer
    /\ a = v.statement.artifact /\ v.producer = v.statement.producer
    /\ v.verified_at <= r.created_at

\* What an accepted set holds as retained evidence is what is stored under
\* that revision, and was verified during this very run; the package of an
\* evaluator was verified as well, at whatever time (_validate_receipts).
EvidenceWasVerified ==
  verdict = "accepted" =>
    /\ \A e \in Retained :
         /\ e.artifact.bytes = stored[e.artifact.uri][e.artifact.revision]
         /\ LookedAt(e.artifact, e.receipt)
         /\ \E v \in verifications :
              v.artifact = e.artifact /\ v.verified_at \in run.created_at .. aggregated_at
    /\ \A q \in evaluators : \E a \in Stored : a.bytes = q.package /\ LookedAt(a, q.receipt)

\* An accepted set says nothing about anything else: whatever a verification
\* in it vouches for is evidence of this run or the package of an evaluator,
\* and the very bytes are in the set.
NothingElseIsVouchedFor ==
  verdict = "accepted" =>
    \A v \in Supplied("artifact_verification") :
      \/ /\ \E e \in Retained : e.artifact = v.artifact
         /\ v.artifact.bytes \in Supplied("recording")
      \/ v.artifact.bytes \in Supplied("package") \cap {q.package : q \in evaluators}

\* Whoever wrote a receipt wrote down what its verification says.
Careful(r) ==
  /\ r.artifact = r.verification.artifact /\ r.producer = r.verification.producer
  /\ r.statement = r.verification.statement

\* A set collected without a slip, of evidence whose receipts were written
\* carefully and in this run, is accepted: sharing policies, packages and
\* recordings among domains and receipts is no reason to refuse it.
CarefulSetQualifies ==
  /\ verdict = "rejected"
  /\ supplied = {[name |-> 1, file |-> f] : f \in Needed}
  /\ \A r \in UsedReceipts : Careful(r)
  /\ \A e \in Retained : e.receipt.artifact = e.artifact /\ e.receipt.run_id = run.run_id
  /\ \A q \in evaluators : q.receipt.artifact.bytes = q.package /\ q.receipt.run_id = 0
  => \E e \in Retained : e.receipt.verification.verified_at < run.created_at
=============================================================================
