SPECIFICATION Spec
CONSTANTS
  d1 = d1
  d2 = d2
  rec = rec
  sim = sim
  Domain = {d1}
  NoDomain = NoDomain
  RunId = {run, rerun}
  Assertion = {}
  Execution = {sim}
  Evidence = {rec}
  ClaimStatus = {"passed"}
  Requests <- EditedRequests
  Editions <- EditedEditions
  MaxClock = 0
INVARIANTS TypeOK
PROPERTIES ImplementsCertification Decides
CHECK_DEADLOCK FALSE
