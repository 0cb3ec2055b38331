SPECIFICATION Spec
CONSTANTS
  p1 = p1
  p2 = p2
  r1 = r1
  r2 = r2
  w1 = w1
  w2 = w2
  Papers <- OnePaper
  Runs <- TwoRuns
  Workers <- OneWorker
  QueueCap = 1
  Slots = 1
CHECK_DEADLOCK FALSE
 
INVARIANT AuditedOnce
