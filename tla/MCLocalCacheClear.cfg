\* Two server processes under the fslock group and one clear command,
\* with no failures and no crashes.
CONSTANTS
    p1 = p1  p2 = p2  o1 = o1  o2 = o2
    NoFile = NoFile  Torn = Torn  NoOwner = NoOwner
    Procs <- MCProcs
    Outs <- MCOuts
    MaxGets = 3
    MaxClears = 1
    MayFail = FALSE
    MayCrash = FALSE
    Locked = TRUE
SPECIFICATION Spec
SYMMETRY Symmetry
CHECK_DEADLOCK FALSE
INVARIANT CheckReturnsMatchingEntry
