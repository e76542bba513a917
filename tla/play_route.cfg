\* A run that asks for a play session while the Studio is in a test.
SPECIFICATION FairSpec
CONSTANTS
  None = None
  Runs = {1, 2}
  Asks <- PlayAsks
  SoloKinds = {"test"}
  SetModes = {"edit", "run"}
  Scenarios <- Calm
  MaxSessions = 2
  MaxSnap = 1
  MaxMoves = 1
PROPERTIES
  EitherWillDo
CHECK_DEADLOCK FALSE
