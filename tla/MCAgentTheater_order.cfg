SPECIFICATION FairSpec
CONSTANTS
  m1 = m1
  MaxTurns = 1
  MaxCalls = 3
  ModelIds <- SomeModelIds
CHECK_DEADLOCK FALSE
INVARIANT UnsafeRunsAlone
 
PROPERTY StreamEnds
