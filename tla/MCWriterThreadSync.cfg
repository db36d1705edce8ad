SPECIFICATION HubFairSpec
CONSTANTS
    ResizeTicks = 1
    SyncTicks = 2
    TermiosTicks = 1
    Sizes <- TwoSizes
    MaxPosts = 1
PROPERTIES
    SyncReleased
CHECK_DEADLOCK FALSE
