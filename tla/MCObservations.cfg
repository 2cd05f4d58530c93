SPECIFICATION Spec
CONSTANTS
  r1 = r1
  r2 = r2
  Domain = {d1, d2}
  Boot = {b1, b2}
  Recording = {r1, r2}
  SizeOf <- Sizes
  Figures <- AtTheLimit
  Policies <- SharedOrMeasured
  Executions = 3
  Retentions = 2
  Relations = 1
  Moves = 1
  Edits = 1
SYMMETRY Interchangeable
CONSTRAINT OneConcern
INVARIANTS SharedClocksAreShared PassedSkewIsWithinPolicy RecordingsAreDescribed CarefulEvidenceQualifies
CHECK_DEADLOCK FALSE
