CONSTANTS
    Bytes <- MCBytes
    Chunks <- MCChunks
    MaxIntermediate = 1
    MaxParams = 2
    MaxValue = 11
    DigitWrap = 5
    TmuxParam = 11
CHECK_DEADLOCK FALSE
SPECIFICATION StreamSpec
INVARIANTS FeedIsNext
