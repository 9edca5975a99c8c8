\* A clear command races a get under the fslock group; writes may fail and
\* processes may die.
CONSTANTS
    p1 = p1  p2 = p2  o1 = o1  o2 = o2
    NoFile = NoFile  Torn = Torn  NoOwner = NoOwner
    Procs <- MCProcs
    Outs <- MCOuts
    MaxGets = 3
    MaxClears = 1
    MayFail = TRUE
    MayCrash = TRUE
    Locked = TRUE
SPECIFICATION Spec
SYMMETRY Symmetry
CHECK_DEADLOCK FALSE
INVARIANT CheckNeverNamesOtherBody
