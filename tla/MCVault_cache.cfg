SPECIFICATION Spec
CONSTANTS
  n1 = n1
  n2 = n2
  ta = ta
  tb = tb
  r1 = r1
  r2 = r2
  d1 = d1
  None = None
  Free = Free
  Notes <- TwoNotes
  Texts <- TwoTexts
  Links <- TwoLinks
  Drafted = {tb}
  Vaults <- FirstVaults
  Dest <- OneDest
  Wanted <- WantedTexts
  Serves <- Duties
  Drafts = {d1}
  Readers = {r1, r2}
  CacheSize = 1
  TopK = 1
  MaxResults = 2
  MaxDepth = 2
  MaxWrites = 2
CHECK_DEADLOCK FALSE
INVARIANT TypeOK
INVARIANT NoStaleRead
INVARIANT DraftIsKept
INVARIANT GraphIsReach
