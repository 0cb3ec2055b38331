SPECIFICATION FairSpec
CONSTANTS
  p1 = p1
  c1 = c1
  c2 = c2
  l1 = l1
  Papers <- OnePaper
  Commands <- TwoCommands
  Lenses <- OneLens
  Attempts = 2
CHECK_DEADLOCK FALSE
INVARIANT TypeOK
 
PROPERTY PaperIsKept
PROPERTY CommandEnds
