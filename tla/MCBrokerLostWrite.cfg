\* A failed write to stdout and Run's final select.
CONSTANTS
    a1 = a1
    o1 = o1
    NoOutput = NoOutput
    ActionIDs <- MCOneAction
    OutputIDs <- MCSingleOutput
    MaxReqs = 2
    BackendMayFail = FALSE
    WriteMayFail = TRUE
SPECIFICATION Spec
INVARIANTS
    ReturnOkOnlyIfAllWritten
