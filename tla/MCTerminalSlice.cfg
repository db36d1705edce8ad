CONSTANTS
    Rows = 3
    Cols = 4
    NarrowChars = {"a"}
    WideChars = {"w"}
    Runs <- MCRuns
    SlowRuns <- MCSlowRuns
    Counts = {1, 2}
    VertMargins <- MCVert
    HorizMargins <- MCHoriz
    ModeChanges = {"wraparound", "insert", "origin", "margins", "reverse", "reverse_ext", "linefeed"}
    Starts <- MCStarts
    MaxSteps = 3
CHECK_DEADLOCK FALSE
SPECIFICATION Spec
INVARIANTS SliceIsPrint
