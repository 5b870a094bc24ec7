SPECIFICATION Spec
CONSTANTS
    Letters <- MCLetters
    Spaces <- MCSpaces
    MaxWidth = 9
    MaxInt = 99
    Openings <- MCOpenings
INVARIANTS
    TypeOK
    StatementsReadBack
    MarkersMatchArguments
CHECK_DEADLOCK FALSE
