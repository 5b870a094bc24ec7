SPECIFICATION Spec
CONSTANTS
    Handles <- ThreeHandles
    NoHandle = NoHandle
    Readers <- OneReader
    Readable <- FirstAndLast
    MaxSize = 2
    Capacity = 3
INVARIANTS
    TypeOK
    Tiled
    NoTempFileAfterClose
PROPERTIES
    WriteReturns
    ImplementsBlobSpec
CHECK_DEADLOCK FALSE
