SPECIFICATION Spec
CONSTANTS
  d1 = d1
  d2 = d2
  rec = rec
  sim = sim
  Domain = {d1, d2}
  NoDomain = NoDomain
  RunId = {run}
  Assertion = {a}
  Execution = {sim, real}
  Evidence = {rec, other}
  ClaimStatus = {"passed", "failed"}
  Requests <- RerunRequests
  Editions <- RerunEditions
  MaxClock = 2
INVARIANTS EvidenceIsOwn NoFalseAlarm
PROPERTIES ImplementsCertification
CONSTRAINT OneConcern
CHECK_DEADLOCK FALSE
