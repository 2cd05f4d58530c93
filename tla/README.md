# Formal verification of robotics-runtime-contracts

TLA+ models of the decisions this library makes about robotics acceptance
runs, TLC configurations that check them on small instances, and TLAPS proofs
of the results that matter most, for every value of the constants.

The library is sequential Python: no threads, no locks, no server. What makes
it hard is around it. A qualification set is a directory of files written by
programs that are not in the repository (domain runners, observers, verifiers,
an aggregator), in an order nobody enforces, re-run and edited while the
validator reads. The library's promise is that whatever those programs did, an
accepted set means something. The models therefore put the validator's code,
translated check by check, next to an environment of external writers that is
as free as the documents allow, and state what acceptance is worth.

## 1. Inventory

| Component | Source (`src/src/robotics_runtime_contracts`) | State it keeps or judges | Operations | Correct when |
|---|---|---|---|---|
| Outcome ordering | `status.py` | none | `worst_status`, with or without collapsing `cancelled` | the fold is the most severe outcome, and folding in groups loses nothing |
| Qualification set: reading and linking | `_qualification.py:93-226, 1190-1414` | the artifacts loaded so far, then the table of published digests | load one file; link all documents; accept or reject | accepted sets certify one run of one scenario, and a passed one was earned |
| Execution alignment, models, datasets | `_qualification.py:229-447` | documents of one domain | field-by-field comparison | the executions are what the scenario asked for |
| Providers | `providers.py`, `_qualification.py:450-532`, `semantics.py:1171-1193` | conformance results, profiles, bindings | scene and capability requirements, binding checks | what a run requires of providers was established, as they were bound, with the image that ran |
| Receipts | `receipts.py`, `_qualification.py:535-641` | receipts, verifications, policies, packages | chain and exact-cover checks | every retained artifact has its receipt and nothing is unaccounted for |
| Retained raw evidence | `_qualification.py:644-682, 1153-1187` | raw files by digest and size | `_require_raw`, recording summaries | whatever a document refers to is in the set |
| Physical authorization | `_qualification.py:685-827`, `semantics.py:389-416` | permits, verifications, manifests, results | compare permit, verification, manifest, result, clock | accepted physical executions were permitted throughout |
| Permit issuing | `document_ops.py:105-158`, `cli.py:251-275` | a new permit | `create_execution_permit` | the permit is well formed |
| Cross-domain transport | `_qualification.py:830-1150`, `semantics.py:665-955` | channel and chain contracts, observations, clock relations, transport qualification, aggregate | windows, copies, chains, verdict | an end-to-end passed hides nothing, and measurements belong to the executions |
| Channel delivery policy | `qualification_policy.py:39-143`, `semantics.py:1065-1103` | counters of one observation | balances, thresholds, classification | counters are accepted exactly when they can be true |
| Clock policy and evidence | `qualification_policy.py:13-36, 146-160`, `semantics.py:958-987`, `_qualification.py:957-1003` | a clock relation and its evidence | thresholds, ownership of evidence | each end of a shared clock is evidenced by its own domain |
| Campaigns | `semantics.py:990-1025` | counts and verdicts | recomputation | counts follow from the lists next to them |
| Scenario resolution | `cli.py:179-248`, `document_ops.py:74-102` | input, output and trace files | `diff`, `scenario resolve`: read, merge, write, digest, write | inputs survive; the trace tells the truth; a diff leads to its target |
| Schema description | `document_ops.py:20-71` | none | walk of `$ref` chains | terminates, finds what a schema says |
| Structural validation | `__init__.py`, `catalog.py`, `extensions.py` | schema cache | `validate_document`, schema lookup | one outcome for one document; extensions are pinned by digest |
| Parsing and writing | `serialization.py`, `cli.py:145-176` | files | parse, write in place | malformed input is an error |
| Command line | `cli.py` | files | the commands, exit status | success means everything was written, whole |

How they interact: `cli.py` reads files and calls the others; `_qualification.py`
loads every artifact through `serialization.py` and structural validation
(which calls `semantics.py` for the rules of that one document), then compares
documents with one another, asking `qualification_policy.py`, `receipts.py` and
`providers.py` for their part. Components share no state but the documents,
which refer to one another by SHA-256 digest, by identifier, or, in places,
only by time stamps. Documents also *copy* outcomes from the documents they
refer to: result → aggregate, observation and relation → transport → aggregate.

What is hard, in that light:

- files replaced, torn or re-created between two reads of one validation;
- an evidence index tied to its result by nothing but run id and time stamps,
  and a measurement tied to the executions at its two ends by time alone;
- copies of outcomes that are stale or wrong at any of three levels;
- domains that die, are executed twice, or are missing from some documents;
- counters that stand for messages nobody kept;
- permits that expire while the execution they allow is running, or whose
  scenario, image or device changed in the meantime;
- images rebuilt, providers reconfigured, models swapped and clocks set back or
  drifting between the conformance suite, the manifest and the execution;
- observations, summaries and relations derived from an earlier execution that
  are still there after the next one;
- commands that write in place, beside each other and beside an editor, and may
  be killed between any two steps;
- boundaries: equal time stamps, a channel without messages, the instant of
  expiry;
- documents that are each valid and contradict each other in a way the code
  does not expect.

`PROJECT.json` lists each of these at its line, with the properties that would
catch it going wrong.

## 2. Modules

| Module | Stands for |
|---|---|
| `Status` | `worst_status` and the collapse of `cancelled` |
| `Documents` | the six document kinds every set has, as records, with the rules of a single result and aggregate |
| `Certification` | **abstract**: one decision, taken at once, about documents that exist |
| `Qualification` | **detailed**: `validate_qualification_artifacts` reading files one by one while the pipeline writes them |
| `QualificationProperties` | types, the refinement of `Certification`, evidence, no false alarm, liveness |
| `Transport`, `TransportProperties` | executions, measurements, evaluator, aggregator, and `_validate_transport` with its crashes |
| `ChannelPolicy` | the pure functions of channel delivery |
| `ChannelDelivery` | a producer, a network and an observer under `ChannelPolicy` |
| `RetainedEvidence` | objects, verifications, receipts, and the files a set consists of |
| `PhysicalAuthorization` | permits from issue to judgement |
| `Providers` | requirements, bindings, conformance results and profiles, as predicates |
| `DomainExecution` | a domain from conformance suite to result, in a world that changes, and the checks of providers, model, workload and time |
| `Observations` | what domains retain, the clock relations and recording summaries made of it, and the checks of both |
| `MergePatch` | RFC 7396 on small documents: the external library |
| `CommandLine` | commands as processes over files: read, decide, truncate, fill, digest; edits and kills |
| `MC…` and their `.cfg` files | small instances |
| `QualificationProofs` (with the facts about `Status`), `TransportProofs`, `ChannelDeliveryProofs` (with those about `ChannelPolicy`), `RetainedEvidenceProofs`, `PhysicalAuthorizationProofs`, `DomainExecutionProofs`, `ObservationsProofs`, `CommandLineProofs` | theorems |

`Status` is under everything that folds outcomes, `Providers` under
`DomainExecution`, `ChannelPolicy` under `ChannelDelivery` and `Observations`
(a clock relation is classified like a channel). `Qualification` and
`Certification` meet in `QualificationProperties`:
`Certified == INSTANCE Certification WITH ledger <- ledger, verdict <- verdict,
metadata <- metadata`, and `ImplementsCertification` is its specification.

### Correspondence with the code

**Qualification.** A digest is a position in `ledger`, the sequence of all
documents ever written: equal digests mean equal bytes, and different bytes
have different digests, which is what SHA-256 is used for. `disk` maps a
subject's file to the digest there. `LoadArtifact` is one call of
`_load_artifact` (one `read_bytes`, parse, schema of the declared kind, rules of
that document); `got` is the list of `_Artifact`s; `position` the loop over
`--artifact`. `RejectArtifact` is an error in it, `AcceptSet`/`RejectSet` are
`_validate_links` followed by the digest table. Each conjunct of `LinksHold` is
one of the code's comparisons, in the order of the code; since the function
only raises or returns, order does not matter to the verdict and the conjuncts
may stand together. `_validate_execution_alignment` compares some forty fields
pairwise between scenario, manifest and result; here those of the execution, with its
evaluators and its security, are one value `Execution` in three documents, and its
checks of time, workload and observed runtime are in `DomainExecution`. The
identifiers `scenario_id` and `result_id` are compared by the code next to the digest
of the same document, which fixes them, and are left out. Fields called `ghost` are not part of the
document: they say who really wrote it, and only properties read them.

**Transport.** A digest is the document. Each measurement (`probing`,
`reports`) runs beside the executions (`executing`, `results`, `indexes`), any
of which may be repeated. `Evaluate` and `Aggregate` write any document that
satisfies the rules of `semantics.py`, with copied statuses that may be wrong,
contracts named of another version (`contracts`: ends of channels and relations, routes
and required domains of chains) and chains judged by yet another. `Stages` lists the checks
of `_validate_transport` in code order, because here order matters: the first
that fails decides whether the outcome is a `QualificationError` (`rejected`)
or another exception (`crashed`). `author` and `ran` are ghosts: which
execution a result is of, and what was running at each tick. There is one run, created
with its contracts before anything else: foreign `run_id`s, identifiers given twice,
times before `run_created_at`, a `generated_at` after the evaluation, another
`qualification_id` in the pointer, an observation of another version of its channel
contract, and a set without transport, which the code refuses (or, for the last, does
not look at), do not occur. Nor do a hop whose relationship is not its channel's
(`:1124-1129`) and a missing bridge configuration (`:1074-1079`). Without these
checks the modelled validator accepts no less than the code's, so what is said of
accepted sets is not helped by leaving them out.

**ChannelPolicy, ChannelDelivery.** Ratios are exact fractions. The code divides
in floating point and tolerates 1e-12, which separates any two ratios of
counters below a million. The observer counts what it saw, then applies the
policy to itself; one of its counters may be off by one.

**RetainedEvidence.** `stored` holds every revision of every object, so a
descriptor (uri, revision, bytes) is true or false for good. `Verify` only
records true descriptors; `WriteReceipt` may pair any verification with another
one's statement, another artifact or producer, a run or none. `ReceiptFits` is
`validate_artifact_receipt`, `ReceiptHolds` the closure `receipt_for` of
`_validate_receipts`, whose two loops are `RetainedHolds` and `EvaluatorsHold`.
`supplied` is the set of files with their names, so that one file given twice is
two subjects with one digest, which `_artifact_by_digest` and `_require_raw`
refuse (`ExactlyOne`). An entry without a receipt is a local one.

**PhysicalAuthorization.** `Issue` is `create_execution_permit`: the caller
passes what it finds (scenario, image, device and its preflight), while
environment, scope, people, validity and the `now` argument are arbitrary.
`Verify` is the external signature verifier: a verification states who had
signed by when. Nothing in the model stops an execution without a permit,
as nothing in the program does. The validator's checks are grouped as in the
code: `SameAuthorization`, the presence of both subjects, `PermitCovers`,
`Verified`, `TargetListed`, `WithinPermit`, `AllReferenced`. A manifest may list
several targets, and the code asks that *one* of them is the permitted device
and that together they offer the scenario's scope; the property claims no more.
The kind of a device identity and its digest, which the code compares together, are one
value, and lists inside one document are sets.

**DomainExecution.** The world (image, middleware, configurations, served model,
hardware clock) changes in actions of its own; `Conform`, `WriteManifest`, `Start`
and `Finish` write down what is there when they happen, and a manifest may claim
any capabilities, a result any verdict. `StartRun` begins anew and leaves the
conformance results of the run before. `Aligned`, `ProvidersHold` and `ModelHolds`
are the functions `_validate_execution_alignment`, `_validate_provider_bindings`
and `_validate_model_and_dataset` without the lookups of raw files, and
`ConfigurationRetained` is what `_validate_retained_configuration` compares of the
middleware. A result names a model manifest: the scenario's, copied, or that of the
model that was loaded; `ModelIsTheTarget` says what either is worth.
Ratios and sample figures are numbers in small ranges, the optional bounds of the
time policy are always given, and one `sample_count` stands for those of the time
authority and of the hardware clock. The two models of a run differ by manifest
only or by format too, since the validator compares both.

**Observations.** An execution belongs to a boot of a machine, and so do the
clock observations it retains; `Move` reboots or moves the domain, which ends what
it executes. `indexed` remembers beside each index the boot it was written on
(history; the document does not say). A clock observer is right in one thing: it
claims a shared boot only if both observations it was given show it. Everything
else may be stale or mixed up: whose observations they are, which policy it was
configured with, which summary and which size an index gives for a recording, and
which of all the documents are handed over. `ClockEvidenceHolds` is
`validate_clock_relation_evidence`; `Kept` is the entry that `setdefault` keeps.

**CommandLine.** A text is the document it parses to and its form, its digest the
text itself. `Read` is one iteration of the reading loop, `Decide` everything
between the last read and the first write or the exit, `Truncate` and `Fill` the two
halves of `write_text`, `Digest` the reading back for the trace. `Kill` may strike
at any step and leaves whatever prefix had been written; `Edit` is somebody else.
A name opens one file (`Opens`) and is compared as another path (`Checked`):
`_write_document` opens the name as given, `_scenario_resolve` compares
`Path(name).expanduser().resolve()` (`cli.py:208-216`), so that the two differ for
`~` and for hard links. `validate` reads all its documents before it judges any,
where the code alternates; no property tells these apart. Python's `==` takes 1
and true for equal in `semantic_diff`; the documents of the model have no such
pair.

## 3. What the runs show

All passing runs disable the deadlock check: executions and writes are bounded,
and a verdict ends the invocation, so the system really stops.

| Run | Question | Bounds | Answer |
|---|---|---|---|
| `qualification_edited` | do rewrites and torn files between reads matter? does every invocation end? | scenario and run written twice, one write torn, requests with a missing or repeated subject | `TypeOK`, `ImplementsCertification`, `Decides` hold |
| `qualification_rerun` | is the verdict the atomic decision, whatever was executed again, reported and copied? can evidence of another execution be accepted? are honest sets rejected? | three concerns, below | `ImplementsCertification`, `EvidenceIsOwn`, `NoFalseAlarm` hold |
| `transport_verdict` | is the end-to-end status always expressible, and honest? can a measurement survive a re-execution? | two domains, one channel and a chain over it with at most two observed hops, contracts in two versions (the channel turned round, the relation not, a required domain forgotten), relation or none, cancelled and incomplete; the first domain executed again, two instants | `TypeOK`, `EndToEnd`, `OwnMeasurements` hold |
| `transport_outside` | are contradictions diagnosed? | a channel that leaves the run | **violated**, finding 1 |
| `transport_unmeasured` | can every honest outcome be reported? | one channel, with or without its relation | **violated**, finding 2 |
| `channel_delivery` | are counters accepted exactly when right, and is passed true of the messages? | three messages sent, three received, three instants, a strict and a tolerant contract | all three hold |
| `retained_evidence` | was all evidence verified, in this run? is anything else vouched for? are careful sets accepted? | one object with two revisions, two verifications, two receipts with at most one wrong field, an evaluator or none, one file missing, superfluous or given twice, two instants | all three hold |
| `physical_changes` | does a permit still cover what was executed, where, and with which devices? | one domain, one permit asked for HIL or robot and for a narrow or wide scope; a HIL scenario edited into a robot one, image and device each changed once; the clock passes the expiry | both hold |
| `physical_domains` | can papers of two permits be combined? is every domain authorised? is sharing allowed? | two domains on one device, two permits, two verifications, or a simulation | both hold |
| `domain_execution` | is what a set says of providers, scene, model and time what ran? | two providers, two runs, two conformance results, one manifest, one change of the world (image, configuration, model, hardware clock, or the wall clock set back), two instants, a physical and an inference scenario; where one provider is enough, six time policies met to the limit or one of them missed, and four hardware clocks | all six hold |
| `observations` | whose clock, whose recording, which policy? | two domains, three executions, two boots, two recordings with summaries of different size, one relation, one move and one edit of the scenario | all four hold |
| `command_line` | what is on file after commands were interrupted, repeated and run beside edits? | two invocations of every command line in use, one after the other or at once on different outputs, two edits, two names for one file | all six hold |

Why these bounds. Every check of the validator relates at most two documents of
a kind (the one in the set and the one it should have been), so two editions of
whatever may be mixed up, one of everything else, are enough for each way to
mix them; two domains are enough for one to be exchanged or different from the other;
a chain over one channel may be given no hop, the right one, or one too many (chains of
any length are what `PassedEndToEnd` is proved for). Two instants let intervals touch,
precede and contain one another; three, where a run has them, give them an inside. Permits
are valid for one or two ticks, and may be dated one ahead, on a clock of two, so
that they begin and expire before, during and after an execution. The constants `Editions`,
`Permits`, … appear in the guards of the external writers only; the validator
itself is unbounded. `CONSTRAINT OneConcern` searches one concern without the others where together they
would be out of reach; it restricts what is written and asked for, never what the
validator does:

- `qualification_rerun`: `OnceMore`, one domain executed and aggregated twice over three
  instants, in the environment asked for or the other and with two sets of evidence,
  every outcome passed;
  `Outcomes`, one domain that reports twice at one instant, in either environment, with an
  assertion passed, failed or left out, beside one aggregate, read forwards or backwards;
  `Domains`, a run of one or two domains with two executions and two reports in all,
  passed or failed, and one aggregate over whichever results there are. An outcome copied
  wrongly is caught by the second, a domain missing from the aggregate by the third; the
  run `qualification_edited`, with one domain, no assertion and one outcome, says nothing
  of either. `Implements` proves both for any number of domains, with all of it at once.
- `domain_execution`: the time policies, for one provider that is checked once at one
  instant, and everything else with measurements that differ by fallback only.
- `observations`: relations and summaries; the two checks share no document but the
  indexes and no outcome but the verdict.

`CONSTRAINT Undecided` cuts the search behind a verdict
where only safety is asked: the validator never acts again, and the properties
speak of its table, which no longer changes. `SYMMETRY` is used for people,
devices, images, bytes, domains and boots, which no constant distinguishes, and in
runs without liveness. `retained_evidence` has one producer: that evidence is
never accepted from another one is what the theorem says for any number of them.

**Fairness.** Only `Qualification` claims something must happen, and assumes
`WF_vars(Validator)`: the validator is a process that runs when it can. Commands and
the pipeline may stop at any step, so nothing
is assumed of them, and since each step of the validator is enabled
until there is a verdict (a file is readable or it is not), no stronger
assumption is needed.

Every property of every passing run has a mutant of the code that breaks it
(operators marked `slip`, which no action uses): a strict comparison of time
stamps, a comparison of digests but not of the outcomes copied next to them, a
check of the start of an interval but not of its end, and so on.

## 4. What is proved

For every set of domains, documents, people, layouts and every bound:

| Theorem | Says |
|---|---|
| `Implements` | `Qualification` implements `Certification` |
| `IndexBelongs` | an accepted evidence index is of the accepted execution, or nothing tells the two apart |
| `NoFalseAlarms` | a set written once is rejected for its links only if a producer is at fault |
| `TypeCorrect` | the type invariant of `Qualification` |
| `PassedEndToEnd` | an accepted end-to-end passed hides nothing |
| `MeasuredOnTheSpot`, `TransportTypes` | accepted measurements lie within the accepted executions; the types of `Transport` |
| `CarefulObserversQualify`, `WrongCountersAreNoticed`, `PassedChannelsDeliver` | right counters are accepted, one of the four counts of messages that is off by one is not, and an accepted passed is true of the messages |
| `AcceptedEvidenceWasVerified`, `NothingElse` | retained evidence was verified in this run, and nothing else is vouched for |
| `CarefulSetsAreAccepted` | evidence stored, verified and described without a slip is accepted, unless it was verified before the run |
| `AcceptedRunsAreAuthorized`, `OrderlyRunsAreAccepted` | accepted physical executions were permitted throughout, by two people; executions with their papers in order are accepted |
| `AcceptedCapabilitiesWereEstablished`, `AcceptedSceneIsWhole` | what a run requires of its providers was checked of them as they were bound and with the image that ran; one of them shows the whole scene |
| `AcceptedModelIsTheTarget`, `AcceptedPassKeptTime`, `TypeCorrect` | the model in the manifest is the scenario's, and the one that ran is of its kind, and is it if the result names what was loaded; a passed result kept the time policy; the types of `DomainExecution` |
| `OrderlyDomainsAreAccepted` | a domain that did one thing after the other in a world that stood still is accepted |
| `AcceptedSharedClocksAreShared`, `AcceptedSkewIsWithinPolicy`, `AcceptedRecordingsAreDescribed` | what an accepted set says of clocks and recordings |
| `CarefulEvidenceIsAccepted` | clock relations and summaries made of what was retained, and handed over complete, are accepted |
| `TracesOnFileAreTrue`, `SuccessMeansComplete`, `InputsAreNotOverwritten`, `TextsWereThere` | what commands leave on file, and what they hold |
| `PatchesLeadToTheirTarget`, `AcceptedByTheSameSchemas` | what two commands that meet in a document owe each other |
| `MoreViolationsAreNoBetter`, `PassedMeetsContract`, `OneCounterOff` | facts about the channel policy |
| `WorstIsWorst`, `PassedHidesNothing`, `FoldByGroups` | facts about folding outcomes |

Assumptions: the named `ASSUME`s of the modules (TLC evaluates them in every
run), and that digests identify bytes, which is part of the models. The theorems
about files carry theirs in the statement, because the code does not establish
them: `NamesFaithful` (names of one file are seen to be), `OutputsGuarded` (outputs
are written by one command at a time and by no editor, traces have files of their
own) and `TracesWholeOrNot` (part of a trace does not parse to a trace). Without
the second a trace may vouch for the bytes of another command: two of them that
share an output at the same time are outside every promise the code makes.

The arguments:

- **`Implements`.** The inductive invariant adds to the types that `got` is
  `Sound`: every digest in it names a document in the ledger that is of its
  subject's kind and *well formed on its own*. Types alone do not suffice: that
  a passed aggregate's domains passed is a rule of the aggregate document, that
  a passed result's assertions passed a rule of the result document, and the
  set validator relies on both without repeating them. The ledger only grows,
  so soundness survives every writer; acceptance then follows from `LinksHold`
  and `PassedHidesNothing`, and every other step is `Write`, `Reject` or a
  stutter of `Certification`.
- **`IndexBelongs`.** `Dated` (nothing carries a time stamp in the future) and
  `Sequential` (an execution starts when earlier ones of its domain are over)
  order the executions of a domain in time. An index between the start and the
  finish of a result, both inclusive, that is of another execution can only
  touch one of the two ends.
- **`NoFalseAlarms`.** `Origins` says where documents come from: what a document
  refers to by digest was written before it, is of the right kind and agrees with
  it in run, evidence and time (`Sources`, and `Jobs` for what an execution will
  write), and every file holds documents of the domain it is named after
  (`Homes`). Runtime manifests do not name their domain, so for them the
  invariant is that no manifest was ever used by two domains (`OneHome`), which
  needs every file to be read under its own name. If as many documents were read as
  were ever written, then all of them were (two finite sets, one within the other, of
  the same size), so each reference has a single document it can mean, and every
  comparison of `_validate_links` that is not about what a producer claims holds.
- **`PassedEndToEnd`.** The invariant is that the two documents are well formed
  and carry statuses their schemas allow; acceptance makes the copies equal to
  the originals, and the fold is passed only if everything is.
- **`MeasuredOnTheSpot`.** `Spans`, `Recorded` and `Complete` relate the ghost
  history to the time stamps: a finished execution ran at every tick between its
  start and its finish. With the windows of both ends this gives the property
  instant by instant.
- **`CarefulObserversQualify`, `WrongCountersAreNoticed`, `PassedChannelsDeliver`.** The
  counters of the observer are cardinalities of sets of positions in what was sent
  and received. That they balance is a fact about these sets, not about the
  steps: first arrivals correspond one to one to the messages that arrived
  (`FirstArrivals`: a message that arrived has a first arrival, which is kept as part
  of the invariant because it would need induction over the history otherwise), and likewise
  there is an oldest message as soon as there is any (`SomeOldest`). The
  equation received = sent - lost + duplicates determines each of its four counters
  from the other three, so one that is wrong alone breaks it; nothing of the kind
  binds the count of messages out of order, of which the property does not speak.
- **`AcceptedEvidenceWasVerified`, `NothingElse`.** The invariant: verifications
  on file are true of the store (which only grows), receipts refer to
  verifications on file, indexes and evaluators to receipts on file, and a run
  that was started has an identifier, without which `InRun` would say nothing.
  A second invariant keeps what the validator established until the end.
- **`AcceptedRunsAreAuthorized`.** The invariant: permits on file are well
  formed, results say what was executed, and what is handed over is on file.
  The chain issued ≤ verified ≤ started ≤ finished < expires does the rest.
- **What honest procedures produce is accepted** (`OrderlyRunsAreAccepted`,
  `OrderlyDomainsAreAccepted`, `CarefulSetsAreAccepted`, `CarefulEvidenceIsAccepted`). Each
  needs an invariant that runs the other way from the safety ones: as long as
  nothing was changed, everything on file describes the world as it is. `InSequence`,
  `SameScenario` and `SameDevices` say so of permits, manifests and results; `Described` of
  conformance results, manifest, execution and result, as long as the domain is
  `Undisturbed`; `Dated` that a receipt is never older than its verification;
  `OnlyRecordings` and `SameScenario` that what is listed and related is what exists.
  `Refused` adds that a rejected set fails the checks on what is on file *now*, which
  stays true because a verdict ends the system or the documents no longer change.
  The conjuncts of the validator's decision then follow one by one.
- **`AcceptedCapabilitiesWereEstablished`** and its neighbours. `Filed`: every
  document rests on documents on file and says what was there when it was written;
  `Decided`: an accepted verdict was computed from what is on file now. The chain
  created ≤ checked ≤ manifest ≤ started places the checks in the run although the
  clock may have been set back.
- **`AcceptedSharedClocksAreShared`.** `OwnObservations`: an observation in an
  execution or an index is of its own boot. Ownership of both digests then pins
  both boots; that the digests are retained by *somebody* would not.
- **`AcceptedRecordingsAreDescribed`.** All references to a summary are equal, so
  the one that is kept and compared speaks for every other.
- **`TracesOnFileAreTrue`.** For every trace file: nothing, something torn, the
  true trace, or a command is about to write one whose inputs and result are those
  it read and merged, in an output that is still its own.
- **The type invariants.** `Transport` needs `Dated` (no execution or measurement
  lies in the future) and that a fold of allowed statuses is one; `CommandLine` that
  every text on file has one of the three forms, which holds of whatever an editor or
  a pipe may supply (an assumption on `Texts`, `CommandLineConstants`).

Every invariant and every safety property of the passing runs has its theorem.
Checked by TLC only: `Decides` (liveness and `ENABLED` are outside the prover), and
what `MergePatch` computes (it is recursive: checked on small documents; the theorems
about commands hold for any `Merge` and `Diff`). The two findings are counterexamples,
for which TLC is the right tool.

## 5. Findings

1. **A contradiction that is not diagnosed** (`transport_outside`). The
   validator looks up `results[domain_id]` for the ends of channels and clock
   relations, and `channels[channel_id]` for hops, before it is established
   that these are of the run (`_qualification.py:981, 1092, 1127`). Documents that
   are valid one by one but name a domain outside the run end in a `KeyError`,
   not the `QualificationError` the class documents for exactly this case
   (`_qualification.py:79`), and in a traceback of the command line.
2. **An outcome that cannot be reported** (`transport_unmeasured`). If a clock
   relation is missing and something failed, `semantics.py:939-955` demands the
   verdict failed and `_qualification.py:1033` refuses it.

Seen while modelling, and outside every statement of the repository's own:

- outputs are written in place, so an interrupted command leaves a truncated file
  where there was a good one; the trace is then missing or torn, never false;
- `diff --output` may overwrite the document it read, which `scenario resolve`
  refuses, and extension schemas are not among the inputs it protects;
- the hardware clock of a result must equal the manifest's exactly, so that a
  clock that drifts by any amount in between makes an honest set unacceptable;
- a provider reconfigured after the manifest was written is seen by no document;
- `README.md:64-70` of the repository lists an example set without an evidence
  index, which `_qualification.py:1230-1236` demands of every domain.

## 6. Not modelled, and why

- *Structural validation and parsing.* External libraries over 29 schema files and
  over characters. Their outcome, a document of its kind or an error, is what
  `LoadArtifact`, `Parse` and `Valid` model; extensions are modelled up to the
  question which schema a payload is judged by.
- *Schema descriptions and the catalog.* Functions of files that ship with the
  package: no state, no step, no other actor.
- *Campaign summaries, qualification bundles, dataset manifests, and the shape of
  scenarios, contracts and models.* Each is judged alone, by comparing a count or a
  list with the list next to it. A model would repeat the comparison; the unit
  tests of the repository cover it as well.
- *Retained configuration* (`_qualification.py:644-682`), the raw files behind
  datasets, conformance evidence and permits: the lookup of a digest and a size
  among the files given, modelled once for recordings (`ExactlyOne`). What
  `_validate_retained_configuration` compares besides is in `DomainExecution`.
- *Hops' relationship data, the forbidden parts of the ROS graph, names and versions
  of middleware and clocks*: comparisons of opaque values no property tells apart.
- *Describing, messages, argument syntax*: wording. The summary that
  `validate-qualification --output` writes is written like the other outputs.
- *Composition of all kinds in one set.* `Qualification` shows that reading files
  one by one is as good as one look at documents that exist; the other modules
  judge documents in one look. Together they say what they say of files that
  change, since the table of loaded artifacts is all that the later checks see;
  that step is an argument of this paragraph and not a theorem.
- The quality of SHA-256 and of signatures: external.

The suite is kept at a dozen runs, so that all of it is checked in minutes.
