\* The clear command on every configuration: S3 Clear returns nil when
\* DeleteObjects reports per-key errors, and success is printed.
CONSTANTS
    Versions = {"v3", "v2"}
    NoFlag = NoFlagValue
    NoFlagValue = NoFlagValue
    FlagOutcomes = {"ok", "bad", "help"}
    Args <- MCArgs
    EnvBackendType <- MCEnvBackendType
    EnvBackend <- MCEnvBackend
    FlagBackend <- MCFlagBackend
    EnvBucket <- MCEnvBucket
    FlagBucket <- MCFlagBucket
    EnvDedupe <- MCEnvDedupe
    FlagDedupe <- MCFlagDedupe
    EnvDebug <- MCEnvDebug
    FlagDebug <- MCFlagDebug
    EnvErrorRate <- MCEnvErrorRate
    FlagErrorRate <- MCFlagErrorRate
SPECIFICATION Spec
CHECK_DEADLOCK FALSE
INVARIANT
    ClearReportsOnlyCompleteClear
