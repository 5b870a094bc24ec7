SPECIFICATION Spec
CONSTANTS
    SymbolCount = 3
    Dot = 2
    Fold <- MCFold
    Control <- MCControl
    Forbidden <- MCForbidden
    Wide <- MCWide
    SystemNames <- MCSystemNames
    Summary <- MCSummary
    TableNames <- MCTableNames
    StreamNames <- MCStreamNames
    Keys <- MCKeys
    MaxUnits = 3
    MaxEntries = 2
INVARIANT
    TablesReadBack
