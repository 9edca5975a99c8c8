\* A get of an action ID races puts of it from one process, with failures and crashes.
CONSTANTS
    w1 = w1  w2 = w2  r1 = r1  o1 = o1  o2 = o2
    NoFile = NoFile  Torn = Torn  Bogus = Bogus
    Writers <- MCWriters
    Readers <- MCReaders
    Outs <- MCOuts
    MaxPuts = 2
    MaxGets = 2
    MayFail = TRUE
    MayCrash = TRUE
    Serialized = TRUE
SPECIFICATION Spec
SYMMETRY Symmetry
CHECK_DEADLOCK FALSE
INVARIANT GetHitIsCompleteEntry
