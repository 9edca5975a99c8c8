\* One run of either executable, v3 or v2, over every argument and configuration below.
\* The process exits, so a final state has no successor.
CONSTANTS
    Versions = {"v3", "v2"}
    NoFlag = NoFlagValue
    NoFlagValue = NoFlagValue
    FlagOutcomes = {"ok", "bad", "help"}
    Args <- MCArgs
    EnvBackendType <- MCEnvBackendType
    EnvBackend <- MCEnvBackend
    FlagBackend <- MCFlagBackend
    EnvBucket <- MCEnvBucket
    FlagBucket <- MCFlagBucket
    EnvDedupe <- MCEnvDedupe
    FlagDedupe <- MCFlagDedupe
    EnvDebug <- MCEnvDebug
    FlagDebug <- MCFlagDebug
    EnvErrorRate <- MCEnvErrorRate
    FlagErrorRate <- MCFlagErrorRate
SPECIFICATION Spec
CHECK_DEADLOCK FALSE
INVARIANTS
    TypeOK
    ExitStatusReportsOutcome
    ClearPrintedOnlyAfterNilErrors
