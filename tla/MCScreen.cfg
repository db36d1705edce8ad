SPECIFICATION ScreenSpec
CONSTANTS
    Rows = 3
    Cols = 4
    NarrowChars = {"a"}
    WideChars = {"w"}
    Runs <- MCRuns
    SlowRuns <- MCSlowRuns
    Counts = {1, 2}
    VertMargins <- MCVert
    HorizMargins <- MCHoriz
    ModeChanges = {"wraparound", "insert", "origin", "margins", "reverse", "reverse_ext", "linefeed"}
    Starts <- MCStarts
    MaxSteps = 3
    Senders <- OneSender
    Unlockers <- TwoUnlockers
    SyncThreads <- TheSyncThreads
    Capacity = 1
    MaxPosts <- Posts
    Values = {"s1", "s2", "s3", "s4"}
    PslLen = 3
    CellCount = 3
    Hashes <- MCHashes
    SourceIds = {1, 4}
    FirstTables = {0, 4, 8}
    StandardTable = 4
    LastTable = 16
    MaxEdits = 5
INVARIANTS
    ScreenIntact SliceMatchesPrint DeleteUndoesInsert
    MailboxTypeOK NoLostWakeup NoLostSignal LockHandedBack
    TableIntact StylesKept RehashHelps
PROPERTIES
    ScrollKeepsOutside Leave1049Restores
    ChannelSpec NobodyStuck
CHECK_DEADLOCK FALSE
