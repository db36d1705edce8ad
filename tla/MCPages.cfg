SPECIFICATION PagesSpec
CONSTANTS
    Bytes <- MCBytes
    Chunks <- MCChunks
    MaxIntermediate = 1
    MaxParams = 2
    MaxValue = 11
    DigitWrap = 5
    TmuxParam = 11
    Rows = 3
    RowCap = 2
    MaxPages = 4
    Scrollbacks = {TRUE, FALSE}
    Histories = {0, 5}
    Deltas <- MCDeltas
    MaxSteps = 4
INVARIANTS
    RegistersSound FeedMatchesNext HookMatched ResetUnderstood
    Integrity ScrollRowLands
PROPERTIES
    PinsFollowRows
CHECK_DEADLOCK FALSE
