SPECIFICATION Spec
CONSTANTS
  Domain = {d1}
  Object = {o1}
  Bytes = {b1, b2}
  Producer = {p1}
  Policy = {trust}
  Records = 2
  Verifications = 2
  Receipts = 2
  Runs = 1
  Miscopied = 1
  MaxSlips = 1
  MaxClock = 1
SYMMETRY Interchangeable
INVARIANTS EvidenceWasVerified NothingElseIsVouchedFor CarefulSetQualifies
CHECK_DEADLOCK FALSE
