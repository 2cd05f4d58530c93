----------------------- MODULE RetainedEvidenceProofs -----------------------
(***************************************************************************)
(* In an accepted set every retained artifact was verified, and a set put  *)
(* together without a slip is accepted, for all constants: any number of   *)
(* domains, objects, revisions, producers, runs, receipts and wrongly      *)
(* copied fields.                                                          *)
(***************************************************************************)
EXTENDS RetainedEvidence, TLAPS

\* Objects are only ever added to, under a new revision.
StoreType == stored \in [Object -> Seq(Bytes)]

\* A verification is about what is stored, and says whose statement it is of.
Truthful(v) ==
  /\ v.artifact \in Stored
  /\ v.statement.artifact = v.artifact /\ v.statement.producer = v.producer
  /\ v.verified_at \in Int

Filed ==
  /\ \A v \in verifications : Truthful(v)
  /\ \A r \in receipts : r.verification \in verifications /\ r.created_at \in Int

Times ==
  /\ clock \in Int /\ aggregated_at \in Int
  /\ run # None => run.created_at \in Int /\ run.run_id # 0

\* Whatever is referred to is on file.
References ==
  /\ \A d \in Domain : \A e \in indexes[d] :
       /\ e.receipt \in receipts \cup {None}
       /\ e.artifact \in Stored
  /\ \A q \in evaluators : q.receipt \in receipts

Collected == aggregated_at # -1 => run # None

CountType == count \in [{"record", "verification", "receipt", "run"} -> Nat]

Inv == CountType /\ StoreType /\ Filed /\ Times /\ References /\ Collected

LEMMA StoredIsBytes ==
  ASSUME StoreType, NEW a \in Stored
  PROVE  a.bytes = stored[a.uri][a.revision]
BY DEF Stored, StoreType

\* A new revision leaves the others as they are.
LEMMA RecordKeeps ==
  ASSUME StoreType, NEW o \in Object, Record(o)
  PROVE  StoreType' /\ Stored \subseteq Stored'
<1>1. PICK b \in Bytes : stored' = [stored EXCEPT ![o] = Append(@, b)]
  BY DEF Record
<1>2. \A x \in Object :
        /\ stored'[x] \in Seq(Bytes)
        /\ DOMAIN stored[x] \subseteq DOMAIN stored'[x]
        /\ \A i \in DOMAIN stored[x] : stored'[x][i] = stored[x][i]
  BY <1>1 DEF StoreType
<1>3. StoreType'
  BY <1>1 DEF StoreType
<1>4. ASSUME NEW a \in Stored  PROVE a \in Stored'
  <2>1. PICK x \in Object : \E i \in DOMAIN stored[x] :
          a = [uri |-> x, revision |-> i, bytes |-> stored[x][i]]
    BY <1>4 DEF Stored
  <2>. QED
    BY <1>2, <2>1 DEF Stored
<1>. QED
  BY <1>3, <1>4

LEMMA InitInv == Init => Inv
  BY DEF Init, Inv, CountType, StoreType, Filed, Times, References, Collected, Stored, None

LEMMA NextInv ==
  ASSUME Inv, [Next]_vars
  PROVE  Inv'
<1>. USE DEF Inv
<1>0. CountType'
  <2>1. ASSUME NEW thing \in {"record", "verification", "receipt", "run"}, NEW limit,
               Bound(thing, limit)
        PROVE  CountType'
    BY <2>1 DEF Bound, CountType
  <2>2. CASE UNCHANGED count
    BY <2>2 DEF CountType
  <2>. QED
    BY <2>1, <2>2 DEF Next, vars, Record, Verify, WriteReceipt, StartRun, Index, Tick,
       Collect, Validate
<1>1. CASE UNCHANGED vars
  BY <1>0, <1>1 DEF vars, StoreType, Filed, Truthful, Times, References, Collected, Stored
<1>2. ASSUME NEW o \in Object, Record(o)  PROVE Inv'
  <2>1. StoreType' /\ Stored \subseteq Stored'
    BY <1>2, RecordKeeps
  <2>2. UNCHANGED <<clock, verifications, receipts, evaluators, run, indexes, aggregated_at>>
    BY <1>2 DEF Record
  <2>. QED
    BY <1>0, <2>1, <2>2 DEF Filed, Truthful, Times, References, Collected
<1>3. CASE Verify
  <2>1. PICK a \in Stored, p \in Producer, policy \in Policy :
          verifications' = verifications \cup
            {[statement |-> [artifact |-> a, producer |-> p], artifact |-> a, producer |-> p,
              policy |-> policy, report |-> [nth |-> count["verification"]],
              verified_at |-> clock]}
    BY <1>3 DEF Verify
  <2>2. UNCHANGED <<clock, stored, receipts, evaluators, run, indexes, aggregated_at>>
    BY <1>3 DEF Verify
  <2>3. Stored' = Stored
    BY <2>2 DEF Stored
  <2>4. \A v \in verifications' : Truthful(v)'
    BY <1>0, <2>1, <2>2, <2>3 DEF Filed, Truthful, Times
  <2>. QED
    BY <1>0, <2>1, <2>2, <2>3, <2>4 DEF StoreType, Filed, Times, References, Collected
<1>4. CASE WriteReceipt
  <2>1. UNCHANGED <<clock, stored, verifications, evaluators, run, indexes, aggregated_at>>
    BY <1>4 DEF WriteReceipt
  <2>2. Stored' = Stored
    BY <2>1 DEF Stored
  <2>3. /\ receipts \subseteq receipts'
        /\ \A r \in receipts' : r.verification \in verifications /\ r.created_at \in Int
    BY <1>4 DEF WriteReceipt, Filed, Times
  <2>. QED
    BY <1>0, <2>1, <2>2, <2>3 DEF StoreType, Filed, Truthful, Times, References, Collected
<1>5. CASE StartRun
  <2>1. UNCHANGED <<clock, stored, verifications, receipts, aggregated_at>>
    BY <1>5 DEF StartRun
  <2>2. Stored' = Stored
    BY <2>1 DEF Stored
  <2>3. /\ run' # None /\ run'.created_at \in Int /\ run'.run_id # 0
        /\ indexes' = [d \in Domain |-> {}]
        /\ \A q \in evaluators' : q.receipt \in receipts
    <3>1. run' # None
      <4>1. "created_at" \in DOMAIN run' /\ "created_at" \notin DOMAIN None
        BY <1>5 DEF StartRun, None
      <4>. QED
        BY <4>1
    <3>. QED
      BY <1>5, <3>1 DEF StartRun, Times, CountType
  <2>. QED
    BY <1>0, <2>1, <2>2, <2>3 DEF StoreType, Filed, Truthful, Times, References, Collected
<1>6. ASSUME NEW d \in Domain, Index(d)  PROVE Inv'
  <2>1. UNCHANGED <<clock, stored, verifications, receipts, evaluators, run, aggregated_at>>
    BY <1>6 DEF Index
  <2>2. Stored' = Stored
    BY <2>1 DEF Stored
  <2>3. \A x \in Domain : \A e \in indexes'[x] :
          e.receipt \in receipts \cup {None} /\ e.artifact \in Stored
    BY <1>6 DEF Index, References
  <2>. QED
    BY <1>0, <2>1, <2>2, <2>3 DEF StoreType, Filed, Truthful, Times, References, Collected
<1>7. CASE Tick
  <2>1. UNCHANGED <<stored, verifications, receipts, evaluators, run, indexes, aggregated_at>>
    BY <1>7 DEF Tick
  <2>2. Stored' = Stored
    BY <2>1 DEF Stored
  <2>3. clock' \in Int
    BY <1>7 DEF Tick, Times
  <2>. QED
    BY <1>0, <2>1, <2>2, <2>3 DEF StoreType, Filed, Truthful, Times, References, Collected
<1>8. CASE Collect
  <2>1. /\ UNCHANGED <<clock, stored, verifications, receipts, evaluators, run, indexes>>
        /\ run # None /\ aggregated_at' = clock
    BY <1>8 DEF Collect
  <2>2. Stored' = Stored
    BY <2>1 DEF Stored
  <2>. QED
    BY <1>0, <2>1, <2>2 DEF StoreType, Filed, Truthful, Times, References, Collected
<1>9. CASE Validate
  <2>1. UNCHANGED <<clock, stored, verifications, receipts, evaluators, run, indexes,
                    aggregated_at>>
    BY <1>9 DEF Validate
  <2>2. Stored' = Stored
    BY <2>1 DEF Stored
  <2>. QED
    BY <1>0, <2>1, <2>2 DEF StoreType, Filed, Truthful, Times, References, Collected
<1>. QED
  BY <1>1, <1>2, <1>3, <1>4, <1>5, <1>6, <1>7, <1>8, <1>9 DEF Next

-----------------------------------------------------------------------------
\* Nothing moves once there is a verdict.
Judged == verdict = "accepted" => aggregated_at # -1 /\ EvidenceHolds

LEMMA JudgedInv == Init => Judged
  BY DEF Init, Judged

Judging == <<stored, receipts, evaluators, run, indexes, supplied, aggregated_at>>

LEMMA SameEvidence ==
  ASSUME UNCHANGED Judging
  PROVE  EvidenceHolds' <=> EvidenceHolds
<1>. UNCHANGED <<evaluators, run, indexes, supplied, aggregated_at>>
  BY DEF Judging
<1>1. Entries' = Entries /\ Retained' = Retained
  BY DEF Entries, Retained
<1>2. UsedReceipts' = UsedReceipts
  BY <1>1 DEF UsedReceipts
<1>3. \A kind : Supplied(kind)' = Supplied(kind)
  BY DEF Supplied
<1>4. \A kind, content : ExactlyOne(kind, content)' <=> ExactlyOne(kind, content)
  BY DEF ExactlyOne
<1>5. \A r : ReceiptHolds(r)' <=> ReceiptHolds(r)
  BY <1>4 DEF ReceiptHolds, InRun
<1>6. RetainedHolds' <=> RetainedHolds
  BY <1>1, <1>5 DEF RetainedHolds
<1>7. EvaluatorsHold' <=> EvaluatorsHold
  BY <1>4, <1>5 DEF EvaluatorsHold
<1>8. ReceiptsAndVerificationsUsed' <=> ReceiptsAndVerificationsUsed
  BY <1>2, <1>3 DEF ReceiptsAndVerificationsUsed
<1>9. BytesSupplied' <=> BytesSupplied
  BY <1>1, <1>4 DEF BytesSupplied
<1>. QED
  BY <1>6, <1>7, <1>8, <1>9 DEF EvidenceHolds

LEMMA JudgedNext ==
  ASSUME Judged, [Next]_vars
  PROVE  Judged'
<1>1. CASE UNCHANGED vars
  BY <1>1, SameEvidence DEF vars, Judging, Judged
<1>2. CASE Validate
  BY <1>2, SameEvidence DEF Validate, Judging, Judged
<1>3. CASE verdict' # "accepted"
  BY <1>3 DEF Judged
<1>4. ASSUME Next, ~ Validate  PROVE verdict' # "accepted"
  BY <1>4 DEF Next, Verify, WriteReceipt, StartRun, Tick, Record, Index, Collect
<1>. QED
  BY <1>1, <1>2, <1>3, <1>4

\* The chain of one receipt, in an accepted set.
LEMMA Chain ==
  ASSUME Inv, NEW r \in receipts, ReceiptHolds(r)
  PROVE  /\ r.verification \in verifications
         /\ r.verification.artifact = r.artifact /\ r.verification.producer = r.producer
         /\ r.artifact \in Stored
         /\ LookedAt(r.artifact, r)
         /\ r.verification.verified_at \in Int /\ r.created_at \in Int
         /\ InRun(r, r.verification)
BY DEF Inv, Filed, Truthful, ReceiptHolds, ReceiptFits, LookedAt

LEMMA RetainedOnFile ==
  ASSUME Inv, NEW e \in Retained
  PROVE  e.receipt \in receipts
BY DEF Inv, References, Retained, Entries

\* What an accepted set holds as retained evidence is what is stored under
\* that revision, and was verified during this very run; the package of an
\* evaluator was verified as well (_validate_receipts, validate_artifact_receipt).
THEOREM AcceptedEvidenceWasVerified == Spec => []EvidenceWasVerified
<1>1. ASSUME Inv, Judged  PROVE EvidenceWasVerified
  <2>. SUFFICES ASSUME verdict = "accepted"
                PROVE  /\ \A e \in Retained :
                            /\ e.artifact.bytes = stored[e.artifact.uri][e.artifact.revision]
                            /\ LookedAt(e.artifact, e.receipt)
                            /\ \E v \in verifications :
                                 /\ v.artifact = e.artifact
                                 /\ v.verified_at \in run.created_at .. aggregated_at
                       /\ \A q \in evaluators :
                            \E a \in Stored : a.bytes = q.package /\ LookedAt(a, q.receipt)
    BY DEF EvidenceWasVerified
  <2>1. RetainedHolds /\ EvaluatorsHold /\ aggregated_at # -1
    BY <1>1 DEF Judged, EvidenceHolds
  <2>2. /\ run # None
        /\ run.created_at \in Int /\ aggregated_at \in Int
    BY <1>1, <2>1 DEF Inv, Collected, Times
  <2>3. ASSUME NEW e \in Retained
        PROVE  /\ e.artifact.bytes = stored[e.artifact.uri][e.artifact.revision]
               /\ LookedAt(e.artifact, e.receipt)
               /\ \E v \in verifications :
                    /\ v.artifact = e.artifact
                    /\ v.verified_at \in run.created_at .. aggregated_at
    <3>1. /\ ReceiptHolds(e.receipt) /\ e.receipt.run_id = run.run_id
          /\ e.receipt.artifact = e.artifact
      BY <2>1 DEF RetainedHolds
    <3>2. e.receipt \in receipts
      BY <1>1, RetainedOnFile
    <3>3. /\ e.receipt.verification \in verifications
          /\ e.receipt.verification.artifact = e.artifact
          /\ e.artifact \in Stored
          /\ LookedAt(e.artifact, e.receipt)
          /\ e.receipt.verification.verified_at \in Int
          /\ e.receipt.created_at \in Int
          /\ InRun(e.receipt, e.receipt.verification)
      BY <1>1, <3>1, <3>2, Chain
    <3>4. e.artifact.bytes = stored[e.artifact.uri][e.artifact.revision]
      BY <1>1, <3>3, StoredIsBytes DEF Inv
    <3>5. e.receipt.verification.verified_at \in run.created_at .. aggregated_at
      <4>1. run.run_id # 0
        BY <1>1, <2>2 DEF Inv, Times
      <4>. QED
        BY <2>2, <3>1, <3>3, <4>1 DEF InRun
    <3>. QED
      BY <3>3, <3>4, <3>5
  <2>4. ASSUME NEW q \in evaluators
        PROVE  \E a \in Stored : a.bytes = q.package /\ LookedAt(a, q.receipt)
    <3>1. q.receipt \in receipts /\ ReceiptHolds(q.receipt)
          /\ q.receipt.artifact.bytes = q.package
      BY <1>1, <2>1 DEF Inv, References, EvaluatorsHold
    <3>. QED
      BY <1>1, <3>1, Chain
  <2>. QED
    BY <2>3, <2>4
<1>. QED
  BY <1>1, InitInv, NextInv, JudgedInv, JudgedNext, PTL DEF Spec

\* Whatever a verification of an accepted set vouches for is evidence of this
\* run or the package of an evaluator, and the bytes are in the set: receipts
\* and verifications are exactly the ones used (_validate_receipts).
THEOREM NothingElse == Spec => []NothingElseIsVouchedFor
<1>1. ASSUME Inv, Judged  PROVE NothingElseIsVouchedFor
  <2>. SUFFICES ASSUME verdict = "accepted", NEW v \in Supplied("artifact_verification")
                PROVE  \/ /\ \E e \in Retained : e.artifact = v.artifact
                          /\ v.artifact.bytes \in Supplied("recording")
                       \/ v.artifact.bytes \in
                            Supplied("package") \cap {q.package : q \in evaluators}
    BY DEF NothingElseIsVouchedFor
  <2>1. RetainedHolds /\ EvaluatorsHold /\ BytesSupplied /\ ReceiptsAndVerificationsUsed
    BY <1>1 DEF Judged, EvidenceHolds
  <2>2. PICK r \in UsedReceipts : v = r.verification
    BY <2>1 DEF ReceiptsAndVerificationsUsed
  <2>3. ASSUME NEW kind, NEW content, ExactlyOne(kind, content)
        PROVE  content \in Supplied(kind)
    BY <2>3 DEF ExactlyOne, Supplied, File
  <2>4. CASE \E e \in Retained : r = e.receipt
    <3>1. PICK e \in Retained : r = e.receipt
      BY <2>4
    <3>2. v.artifact = e.artifact
      BY <2>1, <2>2, <3>1 DEF RetainedHolds, ReceiptHolds, ReceiptFits
    <3>3. ExactlyOne("recording", e.artifact.bytes)
      BY <2>1 DEF BytesSupplied, Retained
    <3>. QED
      BY <2>3, <3>2, <3>3
  <2>5. CASE \E q \in evaluators : r = q.receipt
    <3>1. PICK q \in evaluators : r = q.receipt
      BY <2>5
    <3>2. v.artifact.bytes = q.package /\ ExactlyOne("package", q.package)
      BY <2>1, <2>2, <3>1 DEF EvaluatorsHold, ReceiptHolds, ReceiptFits
    <3>. QED
      BY <2>3, <3>2
  <2>. QED
    BY <2>2, <2>4, <2>5 DEF UsedReceipts
<1>. QED
  BY <1>1, InitInv, NextInv, JudgedInv, JudgedNext, PTL DEF Spec

-----------------------------------------------------------------------------
(* What makes CarefulSetQualifies inductive.                               *)

\* A receipt is written after its verification, and both before the aggregate.
Dated ==
  /\ \A v \in verifications : v.verified_at <= clock
  /\ \A r \in receipts : /\ r.verification.verified_at <= r.created_at
                         /\ r.created_at <= clock
                         /\ aggregated_at # -1 => r.created_at <= aggregated_at

\* A set is refused only for one of the validator's reasons.
Refused == verdict = "rejected" => aggregated_at # -1 /\ ~ EvidenceHolds

LEMMA DatedInv == Init => Dated /\ Refused
  BY DEF Init, Dated, Refused

LEMMA DatedNext ==
  ASSUME Inv, Dated, [Next]_vars
  PROVE  Dated'
<1>1. CASE UNCHANGED vars
  BY <1>1 DEF vars, Dated
<1>6. CASE Validate
  BY <1>6 DEF Validate, Dated
<1>. SUFFICES ASSUME Next, aggregated_at = -1  PROVE Dated'
  BY <1>1, <1>6 DEF Next
<1>2. CASE Verify
  <2>1. \A v \in verifications' : v \in verifications \/ v.verified_at = clock
    BY <1>2 DEF Verify
  <2>2. clock' = clock /\ receipts' = receipts /\ aggregated_at' = aggregated_at
        /\ clock \in Int
    BY <1>2 DEF Verify, Inv, Times
  <2>. QED
    BY <2>1, <2>2 DEF Dated
<1>3. CASE WriteReceipt
  <2>1. \A r \in receipts' :
          r \in receipts \/ (r.created_at = clock /\ r.verification \in verifications)
    BY <1>3 DEF WriteReceipt
  <2>2. clock' = clock /\ verifications' = verifications /\ aggregated_at' = aggregated_at
        /\ clock \in Int
    BY <1>3 DEF WriteReceipt, Inv, Times
  <2>. QED
    BY <2>1, <2>2 DEF Dated
<1>4. CASE Tick
  BY <1>4 DEF Tick, Dated, Inv, Filed, Truthful, Times
<1>5. CASE Collect
  BY <1>5 DEF Collect, Dated
<1>. QED
  BY <1>2, <1>3, <1>4, <1>5, <1>6 DEF Next, StartRun, Record, Index, Dated

LEMMA RefusedNext ==
  ASSUME Refused, [Next]_vars
  PROVE  Refused'
<1>1. CASE UNCHANGED vars
  BY <1>1, SameEvidence DEF vars, Judging, Refused
<1>2. CASE Validate
  BY <1>2, SameEvidence DEF Validate, Judging, Refused
<1>3. CASE verdict' # "rejected"
  BY <1>3 DEF Refused
<1>4. ASSUME Next, ~ Validate  PROVE verdict' # "rejected"
  BY <1>4 DEF Next, Verify, WriteReceipt, StartRun, Tick, Record, Index, Collect
<1>. QED
  BY <1>1, <1>2, <1>3, <1>4

EachOnce == supplied = {[name |-> 1, file |-> f] : f \in Needed}

LEMMA NeededIsThere ==
  ASSUME EachOnce, NEW kind, NEW content, File(kind, content) \in Needed
  PROVE  ExactlyOne(kind, content)
<1>1. [name |-> 1, file |-> File(kind, content)] \in supplied
  BY DEF EachOnce
<1>2. \A y \in supplied : y = [name |-> 1, file |-> y.file]
  BY DEF EachOnce
<1>. QED
  BY <1>1, <1>2 DEF ExactlyOne

LEMMA SuppliedIsNeeded ==
  ASSUME EachOnce, NEW kind, NEW content
  PROVE  content \in Supplied(kind) <=> File(kind, content) \in Needed
<1>1. ASSUME content \in Supplied(kind)  PROVE File(kind, content) \in Needed
  <2>1. PICK x \in supplied : x.file.kind = kind /\ x.file.content = content
    BY <1>1 DEF Supplied
  <2>2. x.file \in Needed
    BY DEF EachOnce
  <2>3. x.file = File(x.file.kind, x.file.content)
    <3>1. \A r : \A f \in FilesOf(r) : f = File(f.kind, f.content)
      BY DEF FilesOf, File
    <3>. QED
      BY <2>2, <3>1 DEF Needed, File
  <2>. QED
    BY <2>1, <2>2, <2>3
<1>2. ASSUME File(kind, content) \in Needed  PROVE content \in Supplied(kind)
  <2>1. [name |-> 1, file |-> File(kind, content)] \in supplied
    BY <1>2 DEF EachOnce
  <2>. QED
    BY <2>1 DEF Supplied, File
<1>. QED
  BY <1>1, <1>2

\* Of each kind a set needs what its receipts name.
LEMMA NeededByKind ==
  /\ \A r : File("artifact_receipt", r) \in Needed <=> r \in UsedReceipts
  /\ \A v : File("artifact_verification", v) \in Needed
              <=> \E r \in UsedReceipts : v = r.verification
<1>1. \A j, k, c, b : File(j, c) = File(k, b) <=> j = k /\ c = b
  <2>1. \A j, c : File(j, c).kind = j /\ File(j, c).content = c
    BY DEF File
  <2>. QED
    BY <2>1
<1>2. \A r, c : File("artifact_receipt", c) \in FilesOf(r) <=> c = r
  BY <1>1 DEF FilesOf
<1>3. \A r, c : File("artifact_verification", c) \in FilesOf(r) <=> c = r.verification
  BY <1>1 DEF FilesOf
<1>4. ASSUME NEW k \in {"artifact_receipt", "artifact_verification"}, NEW c
      PROVE  File(k, c) \in Needed <=> \E r \in UsedReceipts : File(k, c) \in FilesOf(r)
  BY <1>1 DEF Needed
<1>. QED
  BY <1>2, <1>3, <1>4

\* In a set without a slip everything a careful receipt refers to is there.
LEMMA CarefulReceiptHolds ==
  ASSUME Inv, Dated, EachOnce, NEW r \in UsedReceipts, r \in receipts, Careful(r),
         InRun(r, r.verification)
  PROVE  ReceiptHolds(r)
<1>1. FilesOf(r) \subseteq Needed
  BY DEF Needed
<1>2. /\ File("artifact_receipt", r) \in Needed
      /\ File("attestation", r.statement) \in Needed
      /\ File("artifact_verification", r.verification) \in Needed
      /\ File("policy", r.verification.policy) \in Needed
      /\ File("verification", r.verification.report) \in Needed
  BY <1>1 DEF FilesOf
<1>3. ReceiptFits(r, r.verification)
  BY DEF Careful, ReceiptFits, Dated
<1>. QED
  BY <1>2, <1>3, NeededIsThere DEF ReceiptHolds

\* A set collected without a slip, of evidence whose receipts were written
\* carefully and in this run, is accepted unless some of it was verified before
\* the run: no other check refuses what the procedure produces
\* (_validate_receipts, _validate_evidence).
THEOREM CarefulSetsAreAccepted == Spec => []CarefulSetQualifies
<1>1. ASSUME Inv, Dated, Refused  PROVE CarefulSetQualifies
  <2>. SUFFICES ASSUME
           verdict = "rejected", EachOnce,
           \A r \in UsedReceipts : Careful(r),
           \A e \in Retained : e.receipt.artifact = e.artifact /\ e.receipt.run_id = run.run_id,
           \A q \in evaluators : q.receipt.artifact.bytes = q.package /\ q.receipt.run_id = 0,
           \A e \in Retained : ~ e.receipt.verification.verified_at < run.created_at
         PROVE FALSE
    BY DEF CarefulSetQualifies, EachOnce
  <2>1. aggregated_at # -1 /\ ~ EvidenceHolds /\ run # None
    BY <1>1 DEF Refused, Inv, Collected
  <2>2. RetainedHolds
    <3>. SUFFICES ASSUME NEW e \in Retained  PROVE ReceiptHolds(e.receipt)
      BY DEF RetainedHolds
    <3>1. e.receipt \in receipts /\ e.receipt \in UsedReceipts
      BY <1>1, RetainedOnFile DEF UsedReceipts
    <3>2. InRun(e.receipt, e.receipt.verification)
      <4>1. run.created_at \in Int /\ e.receipt.verification.verified_at \in Int
        BY <1>1, <2>1, <3>1 DEF Inv, Times, Filed, Truthful
      <4>. QED
        BY <1>1, <2>1, <3>1, <4>1 DEF InRun, Dated
    <3>. QED
      BY <1>1, <3>1, <3>2, CarefulReceiptHolds
  <2>3. EvaluatorsHold
    <3>. SUFFICES ASSUME NEW q \in evaluators
                  PROVE  ExactlyOne("package", q.package) /\ ReceiptHolds(q.receipt)
      BY DEF EvaluatorsHold
    <3>1. q.receipt \in receipts /\ q.receipt \in UsedReceipts
      BY <1>1 DEF Inv, References, UsedReceipts
    <3>2. File("package", q.package) \in Needed
      BY DEF Needed
    <3>. QED
      BY <1>1, <3>1, <3>2, CarefulReceiptHolds, NeededIsThere DEF InRun
  <2>4. ReceiptsAndVerificationsUsed
    <3>1. Supplied("artifact_receipt") = UsedReceipts
      BY SuppliedIsNeeded, NeededByKind
    <3>2. Supplied("artifact_verification") = {r.verification : r \in UsedReceipts}
      BY SuppliedIsNeeded, NeededByKind
    <3>. QED
      BY <3>1, <3>2 DEF ReceiptsAndVerificationsUsed
  <2>5. BytesSupplied
    <3>. SUFFICES ASSUME NEW e \in Entries  PROVE ExactlyOne("recording", e.artifact.bytes)
      BY DEF BytesSupplied
    <3>1. File("recording", e.artifact.bytes) \in Needed
      BY DEF Needed
    <3>. QED
      BY <3>1, NeededIsThere
  <2>. QED
    BY <2>1, <2>2, <2>3, <2>4, <2>5 DEF EvidenceHolds
<1>. QED
  BY <1>1, InitInv, NextInv, DatedInv, DatedNext, RefusedNext, PTL DEF Spec
=============================================================================
