\* A kill after the message handler was rebuilt on the same socket.
SPECIFICATION Spec
CONSTANTS
  None = None
  e = e
  s = s
  h = h
  b1 = b1
  b2 = b2
  g = g
  sidG = sidG
  sidH = sidH
  Runs = {1}
  Doms = {e}
  Backends = {b1}
  Guids = {g}
  Home <- MCHome
  Kind <- MCKind
  Mode <- MCMode
  Guid <- MCGuid
  StudioId <- MCStudioId
  Requests <- EditRequests
  Scenarios <- RewireScenario
  MaxConn = 1
  MaxSnap = 1
  MaxKill = 1
INVARIANTS
  KilledIsStopped
CHECK_DEADLOCK FALSE
