\* Two runs that want one mode or two, one Studio, every disturbance; the tasks go on.
SPECIFICATION FairSpec
CONSTANTS
  None = None
  Runs = {1, 2}
  Asks <- MixedAsks
  SoloKinds = {"test"}
  SetModes = {"edit", "run"}
  Scenarios <- ModeScenarios
  MaxSessions = 2
  MaxSnap = 1
  MaxMoves = 1
INVARIANTS
  TypeOK
  DriverFollows
  LandsAsAsked
PROPERTIES
  Settles
CHECK_DEADLOCK FALSE
