\* One run under every disturbance, its plugin connecting up to twice.
SPECIFICATION Spec
CONSTANTS
  None = None
  e = e
  s = s
  h = h
  b1 = b1
  b2 = b2
  g = g
  sidG = sidG
  sidH = sidH
  Runs = {1}
  Doms = {e}
  Backends = {b1}
  Guids = {g}
  Home <- MCHome
  Kind <- MCKind
  Mode <- MCMode
  Guid <- MCGuid
  StudioId <- MCStudioId
  Requests <- MixedRequests
  Scenarios <- FaultScenarios
  MaxConn = 2
  MaxSnap = 1
  MaxKill = 1
INVARIANTS
  TypeOK
  StartedRunHasFuture
  SuccessIsReal
  DrainHasFuture
  KillAckTruthful
CHECK_DEADLOCK FALSE
