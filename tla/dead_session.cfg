\* A run queued for a session whose only backend crashes.
SPECIFICATION FairSpec
CONSTANTS
  None = None
  e = e
  s = s
  h = h
  b1 = b1
  b2 = b2
  g = g
  sidG = sidG
  sidH = sidH
  Runs = {1}
  Doms = {e}
  Backends = {b1}
  Guids = {g}
  Home <- MCHome
  Kind <- MCKind
  Mode <- MCMode
  Guid <- MCGuid
  StudioId <- MCStudioId
  Requests <- ServerRequests
  Scenarios <- CrashScenario
  MaxConn = 1
  MaxSnap = 1
  MaxKill = 0
PROPERTIES
  DeadSessionEnds
CHECK_DEADLOCK FALSE
