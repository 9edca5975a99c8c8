------------------------------ MODULE Process ------------------------------
(***************************************************************************)
(* One run of the gobuildcache executable (main.go): the subcommand        *)
(* dispatch, the configuration taken from flags over environment over     *)
(* defaults, the construction of the backend stack (base backend, Error   *)
(* wrapper, Debug wrapper) and of the dedupe group, the server (Run and   *)
(* the deferred backend.Close) and the clear command (backend.Clear, then *)
(* clearLocalCache).  The input version "v3" is the current main (main.go *)
(* 1-328), "v2" the earlier one (main.go 329-463) that starts the server *)
(* modelled by Broker.                                                   *)
(*                                                                         *)
(* Strings are model values; ToLower and Sscanf("%f") are tables over the *)
(* values the configuration sets use.  CacheProg.Run is abstracted to its *)
(* outcomes: nil or an error, with or without a served close command,     *)
(* which closes the backend (part_010 HandleRequest, modelled by Broker). *)
(***************************************************************************)
EXTENDS Integers

CONSTANTS
    Versions,       \* the executables: "v3", "v2"
    Args,           \* os.Args[1], or "" when there is none
    FlagOutcomes,   \* what FlagSet.Parse does: "ok", "bad" (exit 2), "help" (exit 0)
    EnvBackendType, \* values of $BACKEND_TYPE ("" = unset)
    EnvBackend,     \* values of $BACKEND
    FlagBackend,    \* values of -backend, or NoFlag
    EnvBucket,      \* values of $S3_BUCKET
    FlagBucket,     \* values of -s3-bucket, or NoFlag
    EnvDedupe,      \* values of $DEDUPE_TYPE
    FlagDedupe,     \* values of -dedupe, or NoFlag
    EnvDebug,       \* values of $DEBUG
    FlagDebug,      \* values of -debug (TRUE, FALSE), or NoFlag
    EnvErrorRate,   \* values of $ERROR_RATE
    FlagErrorRate,  \* values of -error-rate (in percent), or NoFlag
    NoFlag          \* the flag is not on the command line

ASSUME ProcessAssumption ==
    /\ Versions \subseteq {"v3", "v2"}
    /\ FlagOutcomes \subseteq {"ok", "bad", "help"}
    /\ FlagErrorRate \subseteq Int \cup {NoFlag}
    /\ FlagDebug \subseteq BOOLEAN \cup {NoFlag}

VARIABLES
    in,        \* the command line and environment of this run
    pc,        \* where main is
    backend,   \* the backend stack createBackend built (fail = "none" before)
    closes,    \* calls of backend.Close
    err,       \* the first error met, or "none"
    exit,      \* the exit status, or Running
    remote,    \* what the backend holds: "full", "partial" or "empty"
    local,     \* the local cache directory: "full", "partial", "absent" or "empty"
    printed    \* "Cache cleared successfully" was written

vars == <<in, pc, backend, closes, err, exit, remote, local, printed>>

Inputs ==
    [version : Versions, arg : Args, parse : FlagOutcomes,
     backendType : EnvBackendType, backendEnv : EnvBackend, backendFlag : FlagBackend,
     bucket : EnvBucket, bucketFlag : FlagBucket,
     dedupe : EnvDedupe, dedupeFlag : FlagDedupe,
     debug : EnvDebug, debugFlag : FlagDebug,
     rate : EnvErrorRate, rateFlag : FlagErrorRate]


-----------------------------------------------------------------------------
(* Conversions.                                                            *)

(* strings.ToLower on the configuration values. *)
Lower(s) ==
    CASE s = "DISK" -> "disk" [] s = "S3" -> "s3" [] s = "FS" -> "fs"
      [] s = "TRUE" -> "true" [] s = "YES" -> "yes" [] OTHER -> s

(* fmt.Sscanf(value, "%f", &f), in percent, on the values it parses. *)
ScanRate == [s \in {"0", "0.5", "2", "-1"} |->
                CASE s = "0" -> 0 [] s = "0.5" -> 50 [] s = "2" -> 200 [] s = "-1" -> -100]

getEnv(value, default) == IF value # "" THEN value ELSE default

getEnvBool(value, default) ==
    IF Lower(value) = "" THEN default ELSE Lower(value) \in {"true", "1", "yes"}

getEnvFloat(value, default) ==
    IF value \in DOMAIN ScanRate THEN ScanRate[value] ELSE default

(* A flag's value: the command line when given, else its default. *)
FlagVar(flag, default) == IF flag = NoFlag THEN default ELSE flag

(* strings.HasPrefix(arg, "-") on the argument values. *)
DashArgs == {"-h", "--help", "-debug", "-backend"}

-----------------------------------------------------------------------------
(* The settings runServerCommand leaves in the global flag variables:    *)
(* each flag's default is its environment variable, or the built-in      *)
(* default; BACKEND_TYPE is looked up before BACKEND.                     *)
ServerSettings(i) ==
    [debug       |-> FlagVar(i.debugFlag, getEnvBool(i.debug, FALSE)),
     backendType |-> FlagVar(i.backendFlag,
                             getEnv(i.backendType, getEnv(i.backendEnv, "disk"))),
     dedupeType  |-> FlagVar(i.dedupeFlag, getEnv(i.dedupe, "memory")),
     bucket      |-> FlagVar(i.bucketFlag, getEnv(i.bucket, "")),
     errorRate   |-> FlagVar(i.rateFlag, getEnvFloat(i.rate, 0))]

(* runClearCommand: the same flags but -dedupe and -error-rate, which     *)
(* keep their zero values.                                                *)
ClearSettings(i) ==
    [ServerSettings(i) EXCEPT !.dedupeType = "", !.errorRate = 0]

(* getDebugMode (v2): only "true" enables debug. *)
getDebugMode(i) == Lower(i.debug) = "true"

(* A backend stack, or the error createBackend returned (fail # ""). *)
Stack(base, errorWrap, debugWrap) ==
    [base |-> base, errorWrap |-> errorWrap, debugWrap |-> debugWrap, fail |-> ""]
Failed(tag) == [base |-> "none", errorWrap |-> FALSE, debugWrap |-> FALSE, fail |-> tag]

(* createBackend (v3): "disk" is the no-op backend; the Error wrapper     *)
(* when errorRate > 0, then the Debug wrapper.                            *)
CreateBackend(cfg) ==
    LET bt == Lower(cfg.backendType)
        Wrap(base) == Stack(base, cfg.errorRate > 0, cfg.debug)
    IN  CASE bt = "disk" -> {Wrap("noop")}
          [] bt = "s3" /\ cfg.bucket = "" -> {Failed("noBucket")}
          [] bt = "s3" -> {Wrap("s3"), Failed("s3Init")}
          [] OTHER -> {Failed("unknownBackend")}

(* createBackend (v2): configuration from the environment only. *)
CreateBackend2(i) ==
    LET bt == getEnv(Lower(i.backendType), "disk")
        Wrap(base) == Stack(base, FALSE, getDebugMode(i))
    IN  CASE bt = "disk" -> {Wrap("disk"), Failed("diskInit")}
          [] bt = "s3" /\ i.bucket = "" -> {Failed("noBucket")}
          [] bt = "s3" -> {Wrap("s3"), Failed("s3Init")}
          [] OTHER -> {Failed("unknownBackend")}

(* NewFlockGroup: "ok", or an error when MkdirAll of the lock directory   *)
(* fails.                                                                *)
NewFlockGroup == {"ok", "lockDir"}

(* createDedupeGroup: "ok" or an error tag. *)
CreateDedupeGroup(cfg) ==
    LET dt == Lower(cfg.dedupeType) IN
    CASE dt \in {"memory", "", "noop"} -> {"ok"}
      [] dt \in {"fslock", "fs"} -> NewFlockGroup
      [] OTHER -> {"unknownDedupe"}

(* Clear of the base backend: the no-op backend succeeds.  S3 fails to   *)
(* list, or fails one delete batch after others, or DeleteObjects in     *)
(* quiet mode answers with per-key Errors that Clear discards and        *)
(* returns nil ("keysLeft").  Disk fails to read its directory, or fails *)
(* one remove after others.                                              *)
BaseClear(base) ==
    CASE base = "noop" -> {"ok"}
      [] base = "s3" -> {"ok", "keysLeft", "list", "delete"}
      [] base = "disk" -> {"ok", "readDir", "remove"}

(* The outcomes of Clear that return a nil error. *)
ClearNil == {"ok", "keysLeft"}

(* Error.Clear: fail at random, or call the wrapped backend. *)
ErrorClear(s) ==
    (IF s.errorWrap THEN {"injected"} ELSE {}) \cup BaseClear(s.base)

(* Debug.Clear (v3) and DebugBackend.Clear (v2) log and return the inner *)
(* error unchanged.                                                      *)
DebugClear(s) == ErrorClear(s)
DebugBackendClear(s) == ErrorClear(s)

(* Clear through the stack. *)
ClearOutcomes(s) ==
    CASE ~s.debugWrap -> ErrorClear(s)
      [] in.version = "v3" -> DebugClear(s)
      [] OTHER -> DebugBackendClear(s)

(* What the backend holds after Clear ended with outcome o. *)
AfterClear(o) ==
    CASE o = "ok" -> "empty"
      [] o \in {"keysLeft", "delete", "remove"} -> "partial"
      [] OTHER -> remote

(* The process has not exited yet. *)
Running == -1

-----------------------------------------------------------------------------
TypeOK ==
    /\ in \in Inputs
    /\ pc \in {"main", "serverFlags", "clearFlags", "server", "dedupe", "newProg",
               "run", "clear", "clearBackend", "clearLocal", "exited"}
    /\ backend \in [base : {"none", "noop", "disk", "s3"}, errorWrap : BOOLEAN,
                   debugWrap : BOOLEAN, fail : {"", "none"}]
    /\ closes \in 0..2
    /\ err \in {"none", "subcommand", "flags", "noBucket", "s3Init", "diskInit",
               "unknownBackend", "lockDir", "unknownDedupe", "newCacheProg", "run",
               "injected", "list", "delete", "readDir", "remove", "removeAll",
               "mkdirAll"}
    /\ exit \in {Running, 0, 1, 2}
    /\ remote \in {"full", "partial", "empty"}
    /\ local \in {"full", "partial", "absent", "empty"}
    /\ printed \in BOOLEAN

Init ==
    /\ in \in Inputs
    /\ pc = "main"
    /\ backend = Failed("none")
    /\ closes = 0
    /\ err = "none"
    /\ exit = Running
    /\ remote = "full"
    /\ local \in {"full", "absent"}
    /\ printed = FALSE

(* The process ends with status code; deferred calls do not run.          *)
Exit(code, e) ==
    /\ pc' = "exited"
    /\ exit' = code
    /\ err' = IF err = "none" THEN e ELSE err

Goto(s) == pc' = s /\ UNCHANGED <<exit, err>>

-----------------------------------------------------------------------------
(* main (v3): a first argument not starting with "-" is a subcommand.     *)
(* The switch's cases "-h" and "--help" are unreachable: such arguments  *)
(* start with "-" and go to the server's flags.                          *)
Main ==
    /\ pc = "main" /\ in.version = "v3"
    /\ CASE in.arg = "" \/ in.arg \in DashArgs -> Goto("serverFlags")
         [] in.arg = "clear" -> Goto("clearFlags")
         [] in.arg = "help" -> Exit(0, "none")
         [] OTHER -> Exit(1, "subcommand")
    /\ UNCHANGED <<in, backend, closes, remote, local, printed>>

(* main (v2): no argument runs the server, "clear" clears, anything else *)
(* is an unknown subcommand.                                             *)
Main2 ==
    /\ pc = "main" /\ in.version = "v2"
    /\ CASE in.arg = "" -> Goto("server")
         [] in.arg = "clear" /\ in.parse = "ok" -> Goto("clear")
         [] in.arg = "clear" /\ in.parse = "help" -> Exit(0, "none")
         [] in.arg = "clear" /\ in.parse = "bad" -> Exit(2, "flags")
         [] OTHER -> Exit(1, "subcommand")
    /\ UNCHANGED <<in, backend, closes, remote, local, printed>>

(* FlagSet.Parse with ExitOnError: -h exits 0, a bad flag exits 2. *)
ParseOutcome(o) ==
    CASE o = "ok" -> Goto(IF pc = "serverFlags" THEN "server" ELSE "clear")
      [] o = "help" -> Exit(0, "none")
      [] o = "bad" -> Exit(2, "flags")

(* runServerCommand: parse os.Args[1:], so a first argument -h is the    *)
(* server's help flag; then runServer.                                   *)
ServerCommand ==
    /\ pc = "serverFlags"
    /\ ParseOutcome(IF in.arg \in {"-h", "--help"} THEN "help" ELSE in.parse)
    /\ UNCHANGED <<in, backend, closes, remote, local, printed>>

(* runClearCommand: parse os.Args[2:], then runClear. *)
ClearCommand ==
    /\ pc = "clearFlags"
    /\ ParseOutcome(in.parse)
    /\ UNCHANGED <<in, backend, closes, remote, local, printed>>

(* Mutant: the backend is kept before the error is checked. *)
NewBackendNoErrCheck ==
    /\ pc \in {"server", "clear"}
    /\ \E r \in CASE in.version = "v2" -> CreateBackend2(in)
                 [] pc = "server" -> CreateBackend(ServerSettings(in))
                 [] OTHER -> CreateBackend(ClearSettings(in)) :
         /\ backend' = r
         /\ IF r.fail # ""
            THEN Exit(1, r.fail)
            ELSE Goto(CASE pc = "clear" -> "clearBackend"
                        [] in.version = "v3" -> "dedupe"
                        [] OTHER -> "run")
    /\ UNCHANGED <<in, closes, remote, local, printed>>

(* runServer / runClear up to the defer: createBackend, exit 1 on error. *)
NewBackend ==
    /\ pc \in {"server", "clear"}
    /\ \E r \in CASE in.version = "v2" -> CreateBackend2(in)
                 [] pc = "server" -> CreateBackend(ServerSettings(in))
                 [] OTHER -> CreateBackend(ClearSettings(in)) :
         IF r.fail # ""
         THEN Exit(1, r.fail) /\ UNCHANGED backend
         ELSE /\ backend' = r
              /\ Goto(CASE pc = "clear" -> "clearBackend"
                        [] in.version = "v3" -> "dedupe"
                        [] OTHER -> "run")
    /\ UNCHANGED <<in, closes, remote, local, printed>>

(* runServer (v3): createDedupeGroup, exit 1 on error (skipping the      *)
(* deferred Close).                                                      *)
NewDedupeGroup ==
    /\ pc = "dedupe"
    /\ \E r \in CreateDedupeGroup(ServerSettings(in)) :
         IF r = "ok" THEN Goto("newProg") ELSE Exit(1, r)
    /\ UNCHANGED <<in, backend, closes, remote, local, printed>>

(* runServer (v3): NewCacheProg, which can fail creating its local cache. *)
NewProg ==
    /\ pc = "newProg"
    /\ \/ Goto("run")
       \/ Exit(1, "newCacheProg")
    /\ UNCHANGED <<in, backend, closes, remote, local, printed>>

(* Mutant: backend.Close is not deferred. *)
RunProgNoDefer ==
    /\ pc = "run"
    /\ \E closeServed \in BOOLEAN, result \in {"ok", "run"} :
         /\ closes' = IF closeServed THEN 1 ELSE 0
         /\ IF result = "ok" THEN Exit(0, "none") ELSE Exit(1, result)
    /\ UNCHANGED <<in, backend, remote, local, printed>>

(* prog.Run: nil, after which runServer returns and the deferred         *)
(* backend.Close runs; or an error, and os.Exit(1) skips the defer.      *)
(* A close command served by Run has closed the backend already.         *)
RunProg ==
    /\ pc = "run"
    /\ \E closeServed \in BOOLEAN, result \in {"ok", "run"} :
         LET served == IF closeServed THEN 1 ELSE 0 IN
         IF result = "ok"
         THEN /\ closes' = served + 1
              /\ Exit(0, "none")
         ELSE /\ closes' = served
              /\ Exit(1, result)
    /\ UNCHANGED <<in, backend, remote, local, printed>>

(* Mutant: the error of backend.Clear is not checked. *)
ClearBackendNoErrCheck ==
    /\ pc = "clearBackend"
    /\ \E o \in ClearOutcomes(backend) :
         /\ remote' = AfterClear(o)
         /\ IF in.version = "v3"
            THEN Goto("clearLocal") /\ UNCHANGED <<closes, printed>>
            ELSE /\ printed' = TRUE
                 /\ closes' = 1
                 /\ Exit(0, "none")
    /\ UNCHANGED <<in, backend, local>>

(* runClear: backend.Clear, exit 1 on error.  v2 is done after it:       *)
(* print, return, deferred Close.                                        *)
ClearBackend ==
    /\ pc = "clearBackend"
    /\ \E o \in ClearOutcomes(backend) :
         /\ remote' = AfterClear(o)
         /\ IF o \notin ClearNil
            THEN Exit(1, o) /\ UNCHANGED <<closes, printed>>
            ELSE IF in.version = "v3"
                 THEN Goto("clearLocal") /\ UNCHANGED <<closes, printed>>
                 ELSE /\ printed' = TRUE
                      /\ closes' = 1
                      /\ Exit(0, "none")
    /\ UNCHANGED <<in, backend, local>>

(* Mutant: clearLocalCache does not check the error of MkdirAll. *)
ClearLocalNoMkdirCheck ==
    /\ pc = "clearLocal"
    /\ \/ /\ local' = IF local = "absent" THEN "absent" ELSE "partial"
          /\ Exit(1, "removeAll")
          /\ UNCHANGED <<closes, printed>>
       \/ /\ local' \in {"absent", "empty"}
          /\ printed' = TRUE
          /\ closes' = 1
          /\ Exit(0, "none")
    /\ UNCHANGED <<in, backend, remote>>

(* runClear (v3): clearLocalCache (RemoveAll, then MkdirAll), exit 1 on  *)
(* error; else print, return and run the deferred Close.                 *)
ClearLocal ==
    /\ pc = "clearLocal"
    /\ \/ /\ local' = IF local = "absent" THEN "absent" ELSE "partial"
          /\ Exit(1, "removeAll")
          /\ UNCHANGED <<closes, printed>>
       \/ /\ local' = "absent"
          /\ Exit(1, "mkdirAll")
          /\ UNCHANGED <<closes, printed>>
       \/ /\ local' = "empty"
          /\ printed' = TRUE
          /\ closes' = 1
          /\ Exit(0, "none")
    /\ UNCHANGED <<in, backend, remote>>

Next ==
    \/ Main \/ Main2 \/ ServerCommand \/ ClearCommand \/ NewBackend \/ NewDedupeGroup
    \/ NewProg \/ RunProg \/ ClearBackend \/ ClearLocal

Spec == Init /\ [][Next]_vars

-----------------------------------------------------------------------------
(* Properties.                                                             *)

(* Spec 6, process surface: exit code 0 on a clean shutdown, non-zero on  *)
(* a failure.  Every error path of main, runServer, runClear and          *)
(* clearLocalCache exits non-zero, and a process that exits 0 after       *)
(* building a backend has closed it (the deferred backend.Close, which    *)
(* os.Exit would skip).                                                   *)
ExitStatusReportsOutcome ==
    pc = "exited" =>
        /\ (exit = 0) <=> (err = "none")
        /\ (exit = 0 /\ backend.fail = "") => closes >= 1

(* What the message and the comment on Clear ("removes all entries")    *)
(* promise: "Cache cleared successfully" is printed only when the backend *)
(* is empty and, for v3, the local cache directory exists and is empty.   *)
ClearReportsOnlyCompleteClear ==
    printed =>
        /\ remote = "empty"
        /\ in.version = "v3" => local = "empty"

(* What runClear really guarantees when it prints "Cache cleared          *)
(* successfully": every step returned nil, so the backend is empty       *)
(* unless it is S3 and DeleteObjects reported per-key errors that Clear  *)
(* discarded, and, for v3, the local cache directory exists and is empty *)
(* (a backend or RemoveAll/MkdirAll error exits 1 before the message).   *)
ClearPrintedOnlyAfterNilErrors ==
    printed =>
        /\ remote = "empty" \/ (backend.base = "s3" /\ remote = "partial")
        /\ in.version = "v3" => local = "empty"
=============================================================================
