SPECIFICATION Spec
CONSTANTS
  m1 = m1
  MaxTurns = 2
  MaxCalls = 2
  ModelIds <- NoModelIds
CHECK_DEADLOCK FALSE
INVARIANT TypeOK
INVARIANT EveryCallAnswered
INVARIANT EndedStreamWaitsForNothing
INVARIANT EndsLoudly
