SPECIFICATION Spec
CONSTANTS
  t1 = t1
  Domain = {d1}
  Person = {a, b}
  Target = {t1}
  Identity = {i1, i2}
  Image = {img1, img2}
  Uses <- OnOne
  Scope <- Sensor
  Scenarios <- HilOrRobot
  Environments = {"hil", "real_robot"}
  Scopes <- OneOrTheOther
  MaxValidity = 2
  Permits = 1
  Verifications = 1
  Edits = 1
  Deployments = 1
  Preflights = 1
  Manifests = 1
  MaxClock = 2
SYMMETRY Interchangeable
INVARIANTS PhysicalRunsAreAuthorized OrderlyRunsQualify
CHECK_DEADLOCK FALSE
