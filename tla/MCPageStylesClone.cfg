CONSTANTS
    Values = {"s1", "s2", "s3", "s4", "s5"}
    PslLen = 3
    CellCount = 4
    Hashes <- MCCloneHashes
    SourceIds = {1}
    FirstTables = {8}
    StandardTable = 4
    LastTable = 16
    MaxEdits = 5
CHECK_DEADLOCK FALSE
SPECIFICATION StylesSpec
INVARIANT CloneSucceeds
