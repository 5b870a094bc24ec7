SPECIFICATION Spec
CONSTANTS
    s1 = s1
    s2 = s2
    s3 = s3
    Null = Null
    Schema <- MCSchema
    NewRows <- MCNewRows
    Deletes <- MCDeletes
    Updates <- MCUpdates
    Selects <- MCSelects
    Strings <- MCStrings
    MaxRows = 3
    MaxId = 2
    SignBit <- MCSignBit
INVARIANTS
    KeysSorted
    SelectsAnswer
PROPERTY
    ImplementsQuerySpec
