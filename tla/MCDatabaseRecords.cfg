SPECIFICATION Spec
CONSTANTS
    T = T
    a = a
    b = b
    k = k
    o = o
    x = x
    y = y
    p = p
    q = q
    sa = sa
    sb = sb
    Null = Null
    Object = Object
    OnFile = OnFile
    TableNames = {T}
    Schemas <- MCSchemas
    Additions <- MCAdditions
    Strings <- MCStrings
    Texts = {a, b}
    UserStreams = {sa}
    Summary = sb
    StreamKey <- MCStreamKey
    Payloads = {p, q}
    Handles = {1, 2, 3}
    MaxHolds = 0
    MaxColumns = 4
    MaxRecords = 2
INVARIANTS
    StreamsMatch
PROPERTIES
    ChangesAreDirty
    ImplementsDatabaseSpec
