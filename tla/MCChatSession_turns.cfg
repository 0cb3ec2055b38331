CONSTANTS
    Sessions = {s1, s2}
    MaxTurns = 2
    MaxCommands = 2
    MaxHasty = 1
    Length = 1
SPECIFICATION FairSpec
INVARIANT TypeOK SlotIsLive 
PROPERTY CompletionIsFinal  
CHECK_DEADLOCK FALSE
