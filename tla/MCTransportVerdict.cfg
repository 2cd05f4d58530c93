SPECIFICATION Spec
CONSTANTS
  d1 = d1
  d2 = d2
  outside = outside
  c1 = c1
  c2 = c2
  r1 = r1
  r2 = r2
  h1 = h1
  Domain = {d1, d2}
  Foreign = {}
  Channel = {c1}
  Stray = {}
  Relation = {r1}
  Chain = {h1}
  Layouts <- OneChannelLayouts
  Evidence = {rec}
  DomainStatus = {"passed", "cancelled"}
  ProbeStatus = {"passed", "incomplete"}
  HopCount = 2
  Editions <- FirstAgain
  MaxClock = 1
INVARIANTS TypeOK EndToEnd OwnMeasurements
CHECK_DEADLOCK FALSE
