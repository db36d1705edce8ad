CONSTANTS
    Rows = 3
    RowCap = 2
    MaxPages = 4
    Scrollbacks = {TRUE, FALSE}
    Histories = {0, 3, 5}
    Deltas <- MCDeltas
    MaxSteps = 4
CHECK_DEADLOCK FALSE
SPECIFICATION Spec
INVARIANTS SerialsValid
