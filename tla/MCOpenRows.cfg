SPECIFICATION Spec
CONSTANTS
    r1 = r1
    r2 = r2
    x = x
    Rows <- MCRows
    Records <- MCRecords
    MaxColumns = 3
    MaxAlters = 4
SYMMETRY Symmetry
INVARIANTS
    TypeOK
    ValuesAreLive
    MapIsFreed
