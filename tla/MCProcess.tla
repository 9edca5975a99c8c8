----------------------------- MODULE MCProcess -----------------------------
(* Model-checking instance of Process: the arguments and configuration    *)
(* values that reach every branch of main.go.                             *)
EXTENDS Process

CONSTANT NoFlagValue

MCArgs == {"", "clear", "help", "-h", "-debug", "bogus"}
MCEnvBackendType == {"", "S3", "ftp"}
MCEnvBackend == {"", "disk"}
MCFlagBackend == {NoFlagValue, "disk"}
MCEnvBucket == {"", "b"}
MCFlagBucket == {NoFlagValue}
MCEnvDedupe == {"", "FS", "bogus"}
MCFlagDedupe == {NoFlagValue, "noop"}
MCEnvDebug == {"", "yes"}
MCFlagDebug == {NoFlagValue, FALSE}
MCEnvErrorRate == {"", "0.5", "x"}
MCFlagErrorRate == {NoFlagValue}
=============================================================================
