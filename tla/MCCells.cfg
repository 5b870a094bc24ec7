SPECIFICATION Spec
CONSTANTS
    Byte = 4
    Declarations <- MCDeclarations
    Additions <- MCAdditions
    Values <- MCValues
    Numbers <- MCNumbers
    Numerals <- MCNumerals
    Ids <- MCIds
    MaxColumns = 4
    MaxPersistentColumns = 3
    MaxCells = 2
    MaxRows = 2
INVARIANTS
    ColumnsReadBack
    ValuesReadBack
CHECK_DEADLOCK FALSE
