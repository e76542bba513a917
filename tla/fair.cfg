\* Liveness of one run.
SPECIFICATION FairSpec
CONSTANTS
  None = None
  e = e
  s = s
  h = h
  b1 = b1
  b2 = b2
  g = g
  sidG = sidG
  sidH = sidH
  Runs = {1}
  Doms = {e}
  Backends = {b1}
  Guids = {g}
  Home <- MCHome
  Kind <- MCKind
  Mode <- MCMode
  Guid <- MCGuid
  StudioId <- MCStudioId
  Requests <- MixedRequests
  Scenarios <- FairScenarios
  MaxConn = 2
  MaxSnap = 1
  MaxKill = 1
CONSTRAINT PlainWhileLost
PROPERTIES
  KillEnds
  AbandonedRunStops
  EndedRunExits
CHECK_DEADLOCK FALSE
