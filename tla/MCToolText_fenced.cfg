CONSTANTS
    Replies <- Short
    MaxPieces = 3
SPECIFICATION Spec
INVARIANT FencedArgsArrive
CHECK_DEADLOCK FALSE
