\* Gofslock: a waiter of a call whose lock failed returns (nil, nil).
CONSTANTS
    p1 = p1  p2 = p2  s1 = s1  s2 = s2  k1 = k1
    NoCall = NoCall
    Procs <- MCProcs
    Slots <- MCSlots
    Keys <- MCKeys
    MaxCalls = 2
    LockMayFail = TRUE
SPECIFICATION Spec
SYMMETRY Symmetry
INVARIANT WaitersShareLeaderResult
CHECK_DEADLOCK FALSE
