SPECIFICATION Spec
CONSTANTS
  t1 = t1
  Domain = {d1, d2}
  Person = {a, b}
  Target = {t1}
  Identity = {i1}
  Image = {img1}
  Uses <- OnOne
  Scope <- Sensor
  Scenarios <- SimulationOrHil
  Environments = {"hil"}
  Scopes <- AsAsked
  MaxValidity = 1
  Permits = 2
  Verifications = 2
  Edits = 0
  Deployments = 0
  Preflights = 0
  Manifests = 2
  MaxClock = 1
SYMMETRY Interchangeable
INVARIANTS PhysicalRunsAreAuthorized OrderlyRunsQualify
CHECK_DEADLOCK FALSE
