\* A run routed on an outdated snapshot; the plugin reconnects once.
SPECIFICATION Spec
CONSTANTS
  None = None
  e = e
  s = s
  h = h
  b1 = b1
  b2 = b2
  g = g
  sidG = sidG
  sidH = sidH
  Runs = {1}
  Doms = {e}
  Backends = {b1}
  Guids = {g}
  Home <- MCHome
  Kind <- MCKind
  Mode <- MCMode
  Guid <- MCGuid
  StudioId <- MCStudioId
  Requests <- EditRequests
  Scenarios <- LoseScenario
  MaxConn = 2
  MaxSnap = 1
  MaxKill = 0
INVARIANTS
  RunningRunHasFuture
CHECK_DEADLOCK FALSE
