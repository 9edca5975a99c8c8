\* A get joins an earlier get's singleflight call after an acknowledged put.
CONSTANTS
    a1 = a1
    o1 = o1
    NoOutput = NoOutput
    ActionIDs <- MCOneAction
    OutputIDs <- MCSingleOutput
    MaxReqs = 3
    BackendMayFail = FALSE
    WriteMayFail = FALSE
SPECIFICATION Spec
INVARIANTS
    GetAfterAckedPutHits
