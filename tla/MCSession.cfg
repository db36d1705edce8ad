SPECIFICATION SessionSpec
CONSTANTS
    s1 = s1
    s2 = s2
    w1 = w1
    w2 = w2
    w3 = w3
    p1 = p1
    p2 = p2
    p3 = p3
    small = small
    large = large
    Sessions = {s1, s2}
    Windows = {w1, w2, w3}
    Panes = {p1, p2, p3}
    Sizes = {small, large}
    Home = s1
    MaxActs = 3
    Rows = 1
    InitialTree <- Tree
    Budget <- Everyone
    BufferCount = 3
    BufferCapacity = 2
    BridgeThreshold = 1
    SpinMax = 1
    KernelQueue = 2
    MaxBytes = 5
    MaxInterrupts = 1
INVARIANTS
    TypeOK OneInFlight SessionMirrored ScreenCurrent
    PipelineTypeOK NoSharedBuffer DeliveredInOrder NothingLeftBehind IdlePipeBounded NoLostSignal
PROPERTIES
    CommandsDrain NoStageStuck
CHECK_DEADLOCK FALSE
