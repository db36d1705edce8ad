SPECIFICATION ThreadsSpec
CONSTANTS
    ResizeTicks = 1
    SyncTicks = 2
    TermiosTicks = 1
    Sizes <- TwoSizes
    MaxPosts = 2
    Macos = FALSE
    Misbehaviour <- Everything
INVARIANTS
    NewestSizeKept WritesAsPosted
    ChildGoneBeforeQuit NothingLeftRunning
PROPERTIES
    TimersNotEarly LoopCatchesUp
    TeardownCompletes
CHECK_DEADLOCK FALSE
