SPECIFICATION Spec
CONSTANTS
    s1 = s1
    s2 = s2
    w1 = w1
    w2 = w2
    w3 = w3
    p1 = p1
    p2 = p2
    p3 = p3
    small = small
    large = large
    Sessions = {s1, s2}
    Windows = {w1, w2, w3}
    Panes = {p1, p2, p3}
    Sizes = {small, large}
    Home = s1
    MaxActs = 3
    Rows = 1
    InitialTree <- Tree
    Budget <- Switching
INVARIANTS
    RepliesCorrelate
CHECK_DEADLOCK FALSE
