SPECIFICATION Spec
CONSTANTS
  m1 = m1
  MaxTurns = 1
  MaxCalls = 1
  ModelIds <- NoModelIds
CHECK_DEADLOCK FALSE
INVARIANT TaskFailureSurfaces
