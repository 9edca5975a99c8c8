\* Safety, refinement and liveness: two processes of two goroutines, two keys,
\* crashes and lock errors; a holder's fn may never return.  No symmetry, which is
\* unsound for liveness.
CONSTANTS
    p1 = p1
    p2 = p2
    k1 = k1
    k2 = k2
    NoOwner = NoOwner
    Procs <- MCProcs
    Slots <- MCSlots
    Keys <- MCKeys
    Group = "fslock"
    MaxPolls = 2
    MaxCalls = 1
    LockMayFail = TRUE
SPECIFICATION Spec
CHECK_DEADLOCK FALSE
INVARIANTS
    MutualExclusion
    LockHeldOnlyInFn
PROPERTIES
    ImplementsLockGroup
    WaitersReturn
