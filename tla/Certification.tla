--------------------------- MODULE Certification ---------------------------
(***************************************************************************)
(* What a caller of `qualification validate` relies on: one decision, once, *)
(* about documents that exist, and an acceptance that means something.     *)
(* Nothing here says how documents are read or compared: Qualification     *)
(* does, and is shown to implement this specification.                     *)
(***************************************************************************)
EXTENDS Documents

VARIABLES
  ledger,    \* every document anybody wrote so far
  verdict,   \* "none", then "accepted" or "rejected" for good
  metadata   \* the published subject -> digest table, 0 for absent subjects

cvars == <<ledger, verdict, metadata>>

Nothing == [f \in File |-> 0]

Names(m, f)  == m[f] \in DOMAIN ledger
Doc(m, f)    == ledger[m[f]]
DomainsOf(m) == Doc(m, RunFile).domains

\* All the documents exist and there is one of each for every domain of the
\* run, and for no other domain.
Complete(m) ==
  /\ \A f \in {ScenarioFile, RunFile, AggregateFile} : Names(m, f)
  /\ \A d \in Domain : \A f \in {RuntimeFile(d), ResultFile(d), IndexFile(d)} :
       IF d \in DomainsOf(m) THEN Names(m, f) ELSE m[f] = 0

\* The documents speak of one run of one scenario, ...
OneRun(m) ==
  LET run == Doc(m, RunFile) IN
  /\ run.scenario = m[ScenarioFile]
  /\ Doc(m, AggregateFile).acceptance_run = m[RunFile]
  /\ Doc(m, AggregateFile).run_id = run.run_id
  /\ \A d \in DomainsOf(m) :
       /\ Doc(m, ResultFile(d)).domain_id = d
       /\ Doc(m, ResultFile(d)).run_id = run.run_id
       /\ Doc(m, IndexFile(d)).run_id = run.run_id

\* ... executed as the scenario asks, by the runtime whose manifest is here, ...
AsSpecified(m) ==
  \A d \in DomainsOf(m) :
    LET result == Doc(m, ResultFile(d)) IN
    /\ result.scenario = m[ScenarioFile]
    /\ result.runtime = m[RuntimeFile(d)]
    /\ result.execution = Doc(m, ScenarioFile).execution
    /\ Doc(m, RuntimeFile(d)).execution = Doc(m, ScenarioFile).execution

\* ... and a passed verdict was earned: every domain of the run passed, and
\* every assertion the scenario declares was evaluated there and passed.
PassedIsEarned(m) ==
  Doc(m, AggregateFile).per_domain_aggregate = "passed" =>
    \A d \in DomainsOf(m) :
      LET result == Doc(m, ResultFile(d)) IN
      /\ result.status = "passed"
      /\ \A a \in Doc(m, ScenarioFile).assertions :
           a \in DOMAIN result.assertion_results /\ result.assertion_results[a] = "passed"

Certifies(m) == Complete(m) /\ OneRun(m) /\ AsSpecified(m) /\ PassedIsEarned(m)

-----------------------------------------------------------------------------
Init ==
  /\ ledger = <<>>
  /\ verdict = "none"
  /\ metadata = Nothing

\* Somebody writes a document.
Write ==
  /\ Len(ledger') = Len(ledger) + 1
  /\ \A i \in DOMAIN ledger : ledger'[i] = ledger[i]
  /\ UNCHANGED <<verdict, metadata>>

Accept ==
  /\ verdict = "none"
  /\ verdict' = "accepted"
  /\ Certifies(metadata')
  /\ UNCHANGED ledger

Reject ==
  /\ verdict = "none"
  /\ verdict' = "rejected"
  /\ UNCHANGED <<ledger, metadata>>

Next == Write \/ Accept \/ Reject

Spec == Init /\ [][Next]_cvars
=============================================================================
