\* Two runs, a DOM on each of two backends, either of which may crash.
SPECIFICATION Spec
CONSTANTS
  None = None
  e = e
  s = s
  h = h
  b1 = b1
  b2 = b2
  g = g
  sidG = sidG
  sidH = sidH
  Runs = {1, 2}
  Doms = {s, h}
  Backends = {b1, b2}
  Guids = {g}
  Home <- MCHome
  Kind <- MCKind
  Mode <- MCMode
  Guid <- MCGuid
  StudioId <- MCStudioId
  Requests <- RoutingRequests
  Scenarios <- CrashScenario
  MaxConn = 1
  MaxSnap = 1
  MaxKill = 1
INVARIANTS
  QueueServed
  OneCopy
  RightDom
PROPERTIES
  BoardSpec
CHECK_DEADLOCK FALSE
