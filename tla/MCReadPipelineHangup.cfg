SPECIFICATION PipelineSpec
CONSTANTS
    BufferCount = 2
    BufferCapacity = 2
    BridgeThreshold = 1
    SpinMax = 1
    KernelQueue = 2
    MaxBytes = 3
    MaxInterrupts = 0
INVARIANTS
    HangupLosesNothing
CHECK_DEADLOCK FALSE
