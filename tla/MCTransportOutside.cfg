SPECIFICATION Spec
CONSTANTS
  d1 = d1
  d2 = d2
  outside = outside
  c1 = c1
  c2 = c2
  r1 = r1
  r2 = r2
  h1 = h1
  Domain = {d1, d2}
  Foreign = {outside}
  Channel = {c1}
  Stray = {lost}
  Relation = {r1}
  Chain = {h1}
  Layouts <- LeavingLayouts
  Evidence = {rec}
  DomainStatus = {"passed"}
  ProbeStatus = {"passed", "failed"}
  HopCount = 1
  Editions <- Once
  MaxClock = 1
INVARIANTS ContradictionsAreDiagnosed
CHECK_DEADLOCK FALSE
