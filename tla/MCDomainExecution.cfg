SPECIFICATION Spec
CONSTANTS
  plant = plant
  sensor = sensor
  good = good
  bad = bad
  see = see
  move = move
  img1 = img1
  img2 = img2
  wire = wire
  Provider = {plant, sensor}
  Kind <- SomeKind
  Shows <- SomeShow
  Capability = {see, move}
  CheckLists <- SomeChecks
  Profiles <- SomeProfiles
  Image = {img1, img2}
  Middleware = {wire}
  Models <- SomeModels
  Clocks <- SomeClocks
  Setups <- SomeSetups
  Verdicts = {"passed", "failed"}
  Measured <- SomeMeasured
  Runs = 2
  Conformances = 2
  Manifests = 1
  Changes = 1
  MaxClock = 1
INVARIANTS TypeOK CapabilitiesEstablished SceneIsWhole ModelIsTheTarget PassedKeptTime OrderlyDomainQualifies
CONSTRAINT OneConcern
CHECK_DEADLOCK FALSE
