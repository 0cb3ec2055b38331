CONSTANTS
    Replies <- ShortAndStraddling
    MaxPieces = 4
SPECIFICATION Spec
INVARIANT ExamplesStayExamples
PROPERTY OnlyCodeHoldsCalls
CHECK_DEADLOCK FALSE
