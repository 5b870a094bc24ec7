SPECIFICATION Spec
CONSTANTS
    T = T
    U = U
    a = a
    k = k
    o = o
    x = x
    p = p
    s = s
    Null = Null
    Object = Object
    OnFile = OnFile
    TableNames <- MCTableNames
    Schemas <- MCSchemas
    Additions <- MCAdditions
    Strings <- MCStrings
    Texts <- MCTexts
    UserStreams <- MCUserStreams
    StreamKey <- MCStreamKey
    Summary = a
    Payloads <- MCPayloads
    Handles <- MCHandles
    MaxHolds = 1
    MaxColumns = 3
    MaxRecords = 2
INVARIANTS
    TypeOK
    CountsMatch
    CatalogMatches
    NoOrphanStream
    SavedFileOpens
PROPERTY
    ImplementsDatabaseSpec
