\* Three requests on one action ID, backend and stdout failures allowed;
\* safety, refinement of CacheService and liveness under weak fairness.
\* No symmetry: it would be unsound for the liveness properties.
CONSTANTS
    a1 = a1
    o1 = o1
    NoOutput = NoOutput
    ActionIDs <- MCOneAction
    OutputIDs <- MCSingleOutput
    MaxReqs = 3
    BackendMayFail = TRUE
    WriteMayFail = TRUE
SPECIFICATION Spec
INVARIANTS
    OneResponsePerRequest
    CloseAnsweredLast
    SingleFlight
    ReturnAfterAllAnswered
PROPERTIES
    ImplementsCacheService
    EveryRequestAnswered
    RunReturns
