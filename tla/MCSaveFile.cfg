SPECIFICATION Spec
CONSTANTS
    p1 = p1
    p2 = p2
    x1 = x1
    x2 = x2
    Procs <- MCProcs
    Names <- MCNames
    NoName = NoName
    MaxSessions = 3
SYMMETRY Symmetry
INVARIANTS
    TypeOK
    PathIsComplete
    ResultIsTrue
    TempsArePrivate
PROPERTY
    PathChangesByClose
CHECK_DEADLOCK FALSE
