---------------------------- MODULE ProcessProofs ----------------------------
(***************************************************************************)
(* Proofs about one run of the executable (Process): the type invariant,  *)
(* that the exit status reports the outcome and that a process exiting 0  *)
(* after building a backend has closed it, and that "Cache cleared        *)
(* successfully" is printed only after a complete clear.                  *)
(*                                                                         *)
(* The properties are not inductive as they stand: ExitStatusReportsOutcome *)
(* speaks only of the exited state, so the invariant also says what holds *)
(* on the way there.  Before createBackend the stack is the placeholder   *)
(* Failed("none"); after it the stack is a built one and nothing has been *)
(* closed yet; while running, no error has been recorded and no status    *)
(* set; clearLocalCache is reached only with the backend emptied; and the *)
(* message is printed only by a step that exits.                          *)
(***************************************************************************)
EXTENDS Process, TLAPS

(* Where main is before createBackend ran, and after it succeeded. *)
PreBackend == {"main", "serverFlags", "clearFlags", "server", "clear"}
PostBackend == {"dedupe", "newProg", "run", "clearBackend", "clearLocal"}

(* A backend stack createBackend built. *)
Built == [base : {"noop", "disk", "s3"}, errorWrap : BOOLEAN,
          debugWrap : BOOLEAN, fail : {""}]

(* The errors createBackend returns. *)
BackendErrors == {"noBucket", "s3Init", "diskInit", "unknownBackend"}

(* Until the process exits, no status is set and no error recorded. *)
RunningState == pc # "exited" => exit = Running /\ err = "none"

(* The stack is the placeholder until createBackend succeeds, then a    *)
(* built one that nobody has closed.                                      *)
BackendState ==
    /\ pc \in PreBackend => backend.fail = "none" /\ closes = 0
    /\ pc \in PostBackend => backend \in Built /\ closes = 0

(* The success message belongs to an exiting step, and clearLocalCache   *)
(* runs only after backend.Clear returned nil: the backend is empty, or  *)
(* it is S3 and keys whose delete failed are left.                       *)
ClearState ==
    /\ printed => pc = "exited"
    /\ pc = "clearLocal" =>
          remote = "empty" \/ (backend.base = "s3" /\ remote = "partial")

IInv ==
    /\ TypeOK
    /\ RunningState
    /\ BackendState
    /\ ClearState
    /\ ExitStatusReportsOutcome
    /\ ClearPrintedOnlyAfterNilErrors

-----------------------------------------------------------------------------
(* Lemmas about the operators that build the stack and clear it.          *)

(* The settings of a run have a Boolean debug flag and an integer error  *)
(* rate, whether they come from a flag, the environment or the default.  *)
LEMMA SettingsType ==
    ASSUME NEW i \in Inputs
    PROVE  /\ ServerSettings(i).debug \in BOOLEAN
           /\ ServerSettings(i).errorRate \in Int
           /\ ClearSettings(i).debug \in BOOLEAN
           /\ ClearSettings(i).errorRate \in Int
  <1>1. ServerSettings(i).debug \in BOOLEAN
    <2>1. getEnvBool(i.debug, FALSE) \in BOOLEAN
      <3>1. CASE Lower(i.debug) = ""
        BY <3>1, Zenon DEF getEnvBool
      <3>2. CASE Lower(i.debug) # ""
        <4>1. (Lower(i.debug) \in {"true", "1", "yes"}) \in BOOLEAN
          BY SMT
        <4>2. QED
          BY <3>2, <4>1, Zenon DEF getEnvBool
      <3>3. QED
        BY <3>1, <3>2
    <2>2. i.debugFlag \in BOOLEAN \cup {NoFlag}
      BY ProcessAssumption, Zenon DEF Inputs
    <2>3. QED
      BY <2>1, <2>2, Zenon DEF ServerSettings, FlagVar
  <1>2. ServerSettings(i).errorRate \in Int
    <2>1. getEnvFloat(i.rate, 0) \in Int
      BY DEF getEnvFloat, ScanRate
    <2>2. i.rateFlag \in Int \cup {NoFlag}
      BY ProcessAssumption, Zenon DEF Inputs
    <2>3. QED
      BY <2>1, <2>2, Zenon DEF ServerSettings, FlagVar
  <1>3. ClearSettings(i).debug = ServerSettings(i).debug
    BY Zenon DEF ClearSettings, ServerSettings
  <1>4. ClearSettings(i).errorRate = 0
    BY Zenon DEF ClearSettings, ServerSettings
  <1>5. QED
    BY <1>1, <1>2, <1>3, <1>4

(* A stack of a base backend with its wrappers is a built one. *)
LEMMA StackBuilt ==
    ASSUME NEW b \in {"noop", "disk", "s3"}, NEW e \in BOOLEAN, NEW d \in BOOLEAN
    PROVE  Stack(b, e, d) \in Built
  BY DEF Stack, Built

(* createBackend (v3) returns a built stack or one of its errors. *)
LEMMA CreateBackendResult ==
    ASSUME NEW cfg, cfg.debug \in BOOLEAN, cfg.errorRate \in Int
    PROVE  \A r \in CreateBackend(cfg) : r \in Built \/ r.fail \in BackendErrors
  <1>1. (cfg.errorRate > 0) \in BOOLEAN
    BY SMT
  <1>2. /\ Stack("noop", cfg.errorRate > 0, cfg.debug) \in Built
        /\ Stack("s3", cfg.errorRate > 0, cfg.debug) \in Built
    BY <1>1, StackBuilt
  <1>3. \A t \in BackendErrors : Failed(t).fail \in BackendErrors
    BY DEF Failed
  <1>4. QED
    BY <1>2, <1>3, Zenon DEF CreateBackend, BackendErrors

(* createBackend (v2) returns a built stack or one of its errors. *)
LEMMA CreateBackend2Result ==
    ASSUME NEW i
    PROVE  \A r \in CreateBackend2(i) : r \in Built \/ r.fail \in BackendErrors
  <1>1. getDebugMode(i) \in BOOLEAN
    BY SMT DEF getDebugMode
  <1>2. /\ Stack("disk", FALSE, getDebugMode(i)) \in Built
        /\ Stack("s3", FALSE, getDebugMode(i)) \in Built
    BY <1>1, StackBuilt
  <1>3. \A t \in BackendErrors : Failed(t).fail \in BackendErrors
    BY DEF Failed
  <1>4. QED
    BY <1>2, <1>3, Zenon DEF CreateBackend2, BackendErrors

(* What NewBackend may return in any run. *)
LEMMA NewBackendResult ==
    ASSUME NEW i \in Inputs, NEW at
    PROVE  \A r \in CASE i.version = "v2" -> CreateBackend2(i)
                      [] at = "server" -> CreateBackend(ServerSettings(i))
                      [] OTHER -> CreateBackend(ClearSettings(i)) :
               r \in Built \/ r.fail \in BackendErrors
  <1>1. \A r \in CreateBackend2(i) : r \in Built \/ r.fail \in BackendErrors
    BY CreateBackend2Result
  <1>2. \A r \in CreateBackend(ServerSettings(i)) : r \in Built \/ r.fail \in BackendErrors
    BY SettingsType, CreateBackendResult
  <1>3. \A r \in CreateBackend(ClearSettings(i)) : r \in Built \/ r.fail \in BackendErrors
    BY SettingsType, CreateBackendResult
  <1>4. QED
    BY <1>1, <1>2, <1>3, Zenon

(* Exit from a running process sets the status and records the error. *)
LEMMA ExitFacts ==
    ASSUME RunningState, pc # "exited", NEW code, NEW e, Exit(code, e)
    PROVE  pc' = "exited" /\ exit' = code /\ err' = e
  BY Zenon DEF RunningState, Exit

(* createDedupeGroup returns "ok" or an error. *)
LEMMA DedupeResult ==
    ASSUME NEW cfg
    PROVE  CreateDedupeGroup(cfg) \subseteq {"ok", "lockDir", "unknownDedupe"}
  BY DEF CreateDedupeGroup, NewFlockGroup

(* Clear of a built stack returns "ok", S3's nil with keys left, or one  *)
(* of the backends' errors; only S3 leaves keys behind a nil error.       *)
LEMMA ClearResult ==
    ASSUME NEW s \in Built
    PROVE  /\ ClearOutcomes(s) \subseteq {"ok", "keysLeft", "injected", "list",
                                          "delete", "readDir", "remove"}
           /\ "keysLeft" \in ClearOutcomes(s) => s.base = "s3"
  <1>1. /\ ErrorClear(s) \subseteq {"ok", "keysLeft", "injected", "list", "delete",
                                    "readDir", "remove"}
        /\ "keysLeft" \in ErrorClear(s) => s.base = "s3"
    BY DEF ErrorClear, BaseClear, Built
  <1>2. ClearOutcomes(s) = ErrorClear(s)
    BY Zenon DEF ClearOutcomes, DebugClear, DebugBackendClear
  <1>3. QED
    BY <1>1, <1>2

LEMMA CountFacts ==
    /\ 0 + 1 = 1 /\ 1 + 1 = 2 /\ 1 >= 1 /\ 2 >= 1 /\ ~(0 >= 1)
    /\ 0 \in 0..2 /\ 1 \in 0..2 /\ 2 \in 0..2
    /\ Running # 0 /\ Running # 1 /\ Running # 2 /\ 1 # 0 /\ 2 # 0
  BY SMT DEF Running

(* The variables main's dispatch steps leave alone. *)
Quiet == /\ in' = in /\ backend' = backend /\ closes' = closes
         /\ remote' = remote /\ local' = local /\ printed' = printed

(* A dispatch step that sets pc, err and exit to values of their types  *)
(* keeps TypeOK.                                                          *)
LEMMA QuietType ==
    ASSUME TypeOK, Quiet,
           pc' \in {"main", "serverFlags", "clearFlags", "server", "dedupe",
                    "newProg", "run", "clear", "clearBackend", "clearLocal",
                    "exited"},
           err' \in {"none", "subcommand", "flags", "noBucket", "s3Init",
                     "diskInit", "unknownBackend", "lockDir", "unknownDedupe",
                     "newCacheProg", "run", "injected", "list", "delete", "readDir",
                     "remove", "removeAll", "mkdirAll"},
           exit' \in {Running, 0, 1, 2}
    PROVE  TypeOK'
  <1>1. in' \in Inputs /\ closes' \in 0..2 /\ printed' \in BOOLEAN
    BY Zenon DEF TypeOK, Quiet
  <1>2. backend' \in [base : {"none", "noop", "disk", "s3"}, errorWrap : BOOLEAN,
                      debugWrap : BOOLEAN, fail : {"", "none"}]
    BY Zenon DEF TypeOK, Quiet
  <1>3. remote' \in {"full", "partial", "empty"}
        /\ local' \in {"full", "partial", "absent", "empty"}
    BY Zenon DEF TypeOK, Quiet
  <1>4. QED
    BY <1>1, <1>2, <1>3, Zenon DEF TypeOK

(* A step to the next stage of main on the same side of createBackend    *)
(* keeps the invariant.                                                   *)
LEMMA GotoIInv ==
    ASSUME IInv, Quiet, NEW st, Goto(st),
           \/ pc \in PreBackend /\ st \in PreBackend
           \/ pc \in PostBackend /\ st \in PostBackend \ {"clearLocal"}
    PROVE  IInv'
  <1>1. /\ pc' = st /\ exit' = exit /\ err' = err /\ pc # "exited"
        /\ st # "exited" /\ st # "clearLocal"
    BY Zenon DEF Goto, PreBackend, PostBackend
  <1>2. ~printed /\ exit = Running /\ err = "none"
    BY <1>1, Zenon DEF IInv, ClearState, RunningState
  <1>3. TypeOK'
    <2>1. pc' \in {"main", "serverFlags", "clearFlags", "server", "dedupe",
                    "newProg", "run", "clear", "clearBackend", "clearLocal",
                    "exited"}
      BY <1>1, Zenon DEF PreBackend, PostBackend
    <2>2. err' \in {"none", "subcommand", "flags", "noBucket", "s3Init",
                     "diskInit", "unknownBackend", "lockDir", "unknownDedupe",
                     "newCacheProg", "run", "injected", "list", "delete", "readDir",
                     "remove", "removeAll", "mkdirAll"}
      BY <1>1, <1>2, Zenon
    <2>3. exit' \in {Running, 0, 1, 2}
      BY <1>1, <1>2, Zenon
    <2>4. TypeOK
      BY DEF IInv
    <2>5. QED
      BY <2>1, <2>2, <2>3, <2>4, QuietType
  <1>4. RunningState' /\ ClearState'
    BY <1>1, <1>2, Zenon DEF RunningState, ClearState, Quiet
  <1>5. BackendState'
    <2>1. CASE pc \in PreBackend /\ st \in PreBackend
      <3>1. st \notin PostBackend
        BY <2>1, Zenon DEF PreBackend, PostBackend
      <3>2. QED
        BY <1>1, <2>1, <3>1, Zenon DEF IInv, BackendState, Quiet
    <2>2. CASE pc \in PostBackend /\ st \in PostBackend \ {"clearLocal"}
      <3>1. st \notin PreBackend
        BY <2>2, Zenon DEF PreBackend, PostBackend
      <3>2. QED
        BY <1>1, <2>2, <3>1, Zenon DEF IInv, BackendState, Quiet
    <2>3. QED
      BY <2>1, <2>2
  <1>6. ExitStatusReportsOutcome' /\ ClearPrintedOnlyAfterNilErrors'
    BY <1>1, <1>2, Zenon DEF ExitStatusReportsOutcome,
                             ClearPrintedOnlyAfterNilErrors, Quiet
  <1>7. QED
    BY <1>3, <1>4, <1>5, <1>6, Zenon DEF IInv

(* Exiting before Run's close count moves keeps the invariant when the  *)
(* status is 0 exactly for no error, and 0 only before createBackend.    *)
LEMMA ExitIInv ==
    ASSUME IInv, Quiet, pc # "exited", NEW code \in {0, 1, 2},
           NEW e \in {"none", "subcommand", "flags", "noBucket", "s3Init",
                      "diskInit", "unknownBackend", "lockDir", "unknownDedupe",
                      "newCacheProg"},
           Exit(code, e), (code = 0) <=> (e = "none"),
           code = 0 => pc \in PreBackend
    PROVE  IInv'
  <1>1. pc' = "exited" /\ exit' = code /\ err' = e
    BY ExitFacts, Zenon DEF IInv
  <1>2. ~printed
    BY Zenon DEF IInv, ClearState
  <1>3. code \in {Running, 0, 1, 2}
    BY Zenon
  <1>4. TypeOK'
    BY <1>1, <1>3, QuietType, Zenon DEF IInv
  <1>5. RunningState' /\ ClearState' /\ BackendState'
    BY <1>1, <1>2, Zenon DEF RunningState, ClearState, BackendState, Quiet,
                             PreBackend, PostBackend
  <1>6. code = 0 => backend.fail = "none"
    BY Zenon DEF IInv, BackendState
  <1>7. ExitStatusReportsOutcome'
    BY <1>1, <1>6, Zenon DEF ExitStatusReportsOutcome, Quiet
  <1>8. ClearPrintedOnlyAfterNilErrors'
    BY <1>2, Zenon DEF ClearPrintedOnlyAfterNilErrors, Quiet
  <1>9. QED
    BY <1>4, <1>5, <1>7, <1>8, Zenon DEF IInv

LEMMA InitIInv == Init => IInv
  <1> SUFFICES ASSUME Init PROVE IInv
    OBVIOUS
  <1>1. Failed("none") \in [base : {"none", "noop", "disk", "s3"}, errorWrap : BOOLEAN,
                            debugWrap : BOOLEAN, fail : {"", "none"}]
    BY Zenon DEF Failed
  <1>2. TypeOK
    BY <1>1, CountFacts, Zenon DEF Init, TypeOK, Running
  <1>3. RunningState /\ BackendState /\ ClearState
    <2>1. /\ backend.fail = "none" /\ pc = "main" /\ closes = 0 /\ ~printed
          /\ exit = Running /\ err = "none"
      BY Zenon DEF Init, Failed
    <2>2. QED
      BY <2>1, Zenon DEF RunningState, BackendState, ClearState, PreBackend, PostBackend
  <1>4. ExitStatusReportsOutcome /\ ClearPrintedOnlyAfterNilErrors
    BY Zenon DEF Init, ExitStatusReportsOutcome, ClearPrintedOnlyAfterNilErrors
  <1>5. QED
    BY <1>2, <1>3, <1>4 DEF IInv

LEMMA NextIInv == IInv /\ [Next]_vars => IInv'
  <1> SUFFICES ASSUME IInv, [Next]_vars PROVE IInv'
    OBVIOUS
  <1> USE CountFacts DEF IInv, TypeOK, RunningState, BackendState, ClearState,
              ExitStatusReportsOutcome, ClearPrintedOnlyAfterNilErrors,
              PreBackend, PostBackend
  <1>0. in.parse \in {"ok", "bad", "help"} /\ in.version \in {"v3", "v2"}
    BY ProcessAssumption, Zenon DEF Inputs
  <1>1. CASE Main
    <2>1. Quiet /\ pc = "main"
      BY <1>1, Zenon DEF Main, Quiet
    <2>2. \/ Goto("serverFlags") \/ Goto("clearFlags")
          \/ Exit(0, "none") \/ Exit(1, "subcommand")
      BY <1>1, Zenon DEF Main
    <2>3. "main" \in PreBackend /\ "serverFlags" \in PreBackend
          /\ "clearFlags" \in PreBackend
      BY Zenon
    <2>4. QED
      BY <2>1, <2>2, <2>3, GotoIInv, ExitIInv
  <1>2. CASE Main2
    <2>1. Quiet /\ pc = "main"
      BY <1>2, Zenon DEF Main2, Quiet
    <2>2. \/ Goto("server") \/ Goto("clear")
          \/ Exit(0, "none") \/ Exit(2, "flags") \/ Exit(1, "subcommand")
      BY <1>2, Zenon DEF Main2
    <2>3. "main" \in PreBackend /\ "server" \in PreBackend
          /\ "clear" \in PreBackend
      BY Zenon
    <2>4. QED
      BY <2>1, <2>2, <2>3, GotoIInv, ExitIInv
  <1>3. CASE ServerCommand
    <2> DEFINE o == IF in.arg \in {"-h", "--help"} THEN "help" ELSE in.parse
    <2>1. ParseOutcome(o) /\ pc = "serverFlags"
          /\ UNCHANGED <<in, backend, closes, remote, local, printed>>
      BY <1>3, Zenon DEF ServerCommand
    <2>0. Quiet /\ "serverFlags" \in PreBackend /\ "server" \in PreBackend
      BY <2>1, Zenon DEF Quiet
    <2>2. CASE o = "ok"
      <3>1. Goto("server")
        BY <2>1, <2>2, Zenon DEF ParseOutcome
      <3>2. QED
        BY <2>0, <2>1, <3>1, GotoIInv
    <2>3. CASE o = "help"
      <3>1. Exit(0, "none")
        BY <2>1, <2>3, Zenon DEF ParseOutcome
      <3>2. QED
        BY <2>0, <2>1, <3>1, ExitIInv
    <2>4. CASE o = "bad"
      BY <2>1, <2>4, Zenon DEF ParseOutcome, Exit
    <2>5. QED
      BY <1>0, <2>2, <2>3, <2>4
  <1>4. CASE ClearCommand
    <2>1. ParseOutcome(in.parse) /\ pc = "clearFlags"
          /\ UNCHANGED <<in, backend, closes, remote, local, printed>>
      BY <1>4, Zenon DEF ClearCommand
    <2>2. CASE in.parse = "ok"
      BY <2>1, <2>2, Zenon DEF ParseOutcome, Goto
    <2>3. CASE in.parse = "help"
      BY <2>1, <2>3, Zenon DEF ParseOutcome, Exit
    <2>4. CASE in.parse = "bad"
      BY <2>1, <2>4, Zenon DEF ParseOutcome, Exit
    <2>5. QED
      BY <1>0, <2>2, <2>3, <2>4
  <1>5. CASE NewBackend
    <2> DEFINE target == CASE pc = "clear" -> "clearBackend"
                           [] in.version = "v3" -> "dedupe"
                           [] OTHER -> "run"
    <2>1. /\ pc \in {"server", "clear"}
          /\ in' = in /\ closes' = closes /\ remote' = remote /\ local' = local
          /\ printed' = printed
          /\ \E r \in CASE in.version = "v2" -> CreateBackend2(in)
                       [] pc = "server" -> CreateBackend(ServerSettings(in))
                       [] OTHER -> CreateBackend(ClearSettings(in)) :
               IF r.fail # ""
               THEN Exit(1, r.fail) /\ UNCHANGED backend
               ELSE backend' = r /\ Goto(target)
      BY <1>5, Zenon DEF NewBackend
    <2>2. PICK r \in CASE in.version = "v2" -> CreateBackend2(in)
                    [] pc = "server" -> CreateBackend(ServerSettings(in))
                    [] OTHER -> CreateBackend(ClearSettings(in)) :
               IF r.fail # ""
               THEN Exit(1, r.fail) /\ UNCHANGED backend
               ELSE backend' = r /\ Goto(target)
      BY <2>1
    <2>3. r \in Built \/ r.fail \in BackendErrors
      BY <2>2, NewBackendResult
    <2>4. closes = 0 /\ ~printed
      BY <2>1, Zenon
    <2>5. CASE r.fail # ""
      <3>1. r.fail \in BackendErrors
        BY <2>3, <2>5, Zenon DEF Built
      <3>2. pc' = "exited" /\ exit' = 1 /\ err' = r.fail /\ backend' = backend
        BY <2>1, <2>2, <2>5, ExitFacts, Zenon
      <3>3. QED
        BY <2>1, <2>4, <3>1, <3>2, Zenon DEF BackendErrors
    <2>6. CASE r.fail = ""
      <3>1. r \in Built
        BY <2>3, <2>6, Zenon DEF BackendErrors
      <3>2. target \in PostBackend
        BY Zenon
      <3>3. backend' = r /\ pc' = target /\ exit' = exit /\ err' = err
        BY <2>2, <2>6, Zenon DEF Goto
      <3>4. r \in [base : {"none", "noop", "disk", "s3"}, errorWrap : BOOLEAN,
                   debugWrap : BOOLEAN, fail : {"", "none"}]
        BY <3>1, Zenon DEF Built
      <3>5. pc' \in PostBackend /\ pc' \notin PreBackend /\ pc' # "exited"
        BY <3>2, <3>3, Zenon
      <3>6. TypeOK'
        <4>1. in' \in Inputs /\ closes' \in 0..2 /\ printed' \in BOOLEAN
          BY <2>1, Zenon
        <4>2. remote' \in {"full", "partial", "empty"}
              /\ local' \in {"full", "partial", "absent", "empty"}
          BY <2>1, Zenon
        <4>3. pc' \in {"main", "serverFlags", "clearFlags", "server", "dedupe", "newProg",
                       "run", "clear", "clearBackend", "clearLocal", "exited"}
          BY <3>5, Zenon
        <4>4. err' = err /\ exit' = exit
          BY <3>3
        <4>5. QED
          BY <3>3, <3>4, <4>1, <4>2, <4>3, <4>4, Zenon
      <3>7. RunningState' /\ ClearState'
        BY <2>1, <2>4, <3>3, <3>5, Zenon
      <3>8. BackendState'
        BY <2>1, <2>4, <3>1, <3>3, <3>5, Zenon
      <3>9. ExitStatusReportsOutcome' /\ ClearPrintedOnlyAfterNilErrors'
        BY <2>1, <2>4, <3>5, Zenon
      <3>10. QED
        BY <3>6, <3>7, <3>8, <3>9
    <2>7. QED
      BY <2>5, <2>6
  <1>6. CASE NewDedupeGroup
    <2>1. Quiet /\ pc = "dedupe"
      BY <1>6, Zenon DEF NewDedupeGroup, Quiet
    <2>2. \/ Goto("newProg")
          \/ Exit(1, "lockDir") \/ Exit(1, "unknownDedupe")
      BY <1>6, DedupeResult, Zenon DEF NewDedupeGroup
    <2>3. "dedupe" \in PostBackend /\ "newProg" \in PostBackend \ {"clearLocal"}
      BY Zenon
    <2>4. QED
      BY <2>1, <2>2, <2>3, GotoIInv, ExitIInv
  <1>7. CASE NewProg
    <2>1. Quiet /\ pc = "newProg"
      BY <1>7, Zenon DEF NewProg, Quiet
    <2>2. Goto("run") \/ Exit(1, "newCacheProg")
      BY <1>7, Zenon DEF NewProg
    <2>3. "newProg" \in PostBackend /\ "run" \in PostBackend \ {"clearLocal"}
      BY Zenon
    <2>4. QED
      BY <2>1, <2>2, <2>3, GotoIInv, ExitIInv
  <1>8. CASE RunProg
    <2>1. pc = "run" /\ UNCHANGED <<in, backend, remote, local, printed>>
      BY <1>8, Zenon DEF RunProg
    <2>2. backend \in Built /\ closes = 0 /\ ~printed
      BY <2>1
    <2>3. PICK closeServed \in BOOLEAN, result \in {"ok", "run"} :
            LET served == IF closeServed THEN 1 ELSE 0 IN
            IF result = "ok"
            THEN closes' = served + 1 /\ Exit(0, "none")
            ELSE closes' = served /\ Exit(1, result)
      BY <1>8, Zenon DEF RunProg
    <2>4. CASE result = "ok"
      <3>1. closes' \in {1, 2} /\ pc' = "exited" /\ exit' = 0 /\ err' = "none"
        BY <2>1, <2>3, <2>4, ExitFacts, Zenon
      <3>2. closes' \in 0..2 /\ closes' >= 1
        BY <3>1
      <3>3. QED
        BY <2>1, <2>2, <3>1, <3>2, Zenon DEF Built
    <2>5. CASE result = "run"
      <3>1. closes' \in {0, 1} /\ pc' = "exited" /\ exit' = 1 /\ err' = "run"
        BY <2>1, <2>3, <2>5, ExitFacts, Zenon
      <3>2. closes' \in 0..2
        BY <3>1
      <3>3. QED
        BY <2>1, <2>2, <3>1, <3>2, Zenon DEF Built
    <2>6. QED
      BY <2>4, <2>5
  <1>9. CASE ClearBackend
    <2>1. pc = "clearBackend" /\ UNCHANGED <<in, backend, local>>
      BY <1>9, Zenon DEF ClearBackend
    <2>2. backend \in Built /\ closes = 0 /\ ~printed
      BY <2>1
    <2>3. PICK o \in ClearOutcomes(backend) :
            /\ remote' = AfterClear(o)
            /\ IF o \notin ClearNil
               THEN Exit(1, o) /\ UNCHANGED <<closes, printed>>
               ELSE IF in.version = "v3"
                    THEN Goto("clearLocal") /\ UNCHANGED <<closes, printed>>
                    ELSE /\ printed' = TRUE
                         /\ closes' = 1
                         /\ Exit(0, "none")
      BY <1>9, Zenon DEF ClearBackend
    <2>4. /\ o \in {"ok", "keysLeft", "injected", "list", "delete", "readDir", "remove"}
          /\ o = "keysLeft" => backend.base = "s3"
      BY <2>2, <2>3, ClearResult, Zenon
    <2>5. /\ remote' \in {"full", "partial", "empty"}
          /\ o \in ClearNil =>
                remote' = "empty" \/ (backend.base = "s3" /\ remote' = "partial")
      BY <2>3, <2>4, Zenon DEF AfterClear, ClearNil
    <2>6. CASE o \notin ClearNil
      <3>0. Exit(1, o) /\ closes' = closes /\ printed' = printed
        BY <2>3, <2>6, Zenon
      <3>1. pc' = "exited" /\ exit' = 1 /\ err' = o /\ closes' = closes /\ printed' = printed
        BY <2>1, <3>0, ExitFacts, Zenon
      <3>2. in' = in /\ backend' = backend /\ local' = local
        BY <2>1
      <3>3. err' \in {"none", "subcommand", "flags", "noBucket", "s3Init",
                      "diskInit", "unknownBackend", "lockDir", "unknownDedupe",
                      "newCacheProg", "run", "injected", "list", "delete",
                      "readDir", "remove", "removeAll", "mkdirAll"}
            /\ err' # "none"
        <4>1. o \in {"injected", "list", "delete", "readDir", "remove"}
          BY <2>4, <2>6, Zenon DEF ClearNil
        <4>2. QED
          BY <3>1, <4>1, Zenon
      <3>4. TypeOK'
        BY <2>2, <2>5, <3>1, <3>2, <3>3, Zenon
      <3>5. RunningState' /\ BackendState' /\ ClearState'
        BY <2>2, <3>1, <3>2, Zenon
      <3>6. ExitStatusReportsOutcome' /\ ClearPrintedOnlyAfterNilErrors'
        BY <2>2, <3>1, <3>3, Zenon
      <3>7. QED
        BY <3>4, <3>5, <3>6
    <2>7. CASE o \in ClearNil /\ in.version = "v3"
      <3>1. pc' = "clearLocal" /\ exit' = exit /\ err' = err
            /\ closes' = closes /\ printed' = printed
        BY <2>3, <2>7, Zenon DEF Goto
      <3>2. QED
        BY <2>1, <2>2, <2>5, <2>7, <3>1, Zenon
    <2>8. CASE o \in ClearNil /\ in.version # "v3"
      <3>1. pc' = "exited" /\ exit' = 0 /\ err' = "none" /\ closes' = 1 /\ printed'
        BY <2>1, <2>3, <2>8, ExitFacts, Zenon
      <3>2. QED
        BY <2>1, <2>2, <2>5, <2>8, <3>1, Zenon DEF Built
    <2>9. QED
      BY <2>6, <2>7, <2>8
  <1>10. CASE ClearLocal
    <2>1. pc = "clearLocal" /\ UNCHANGED <<in, backend, remote>>
      BY <1>10, Zenon DEF ClearLocal
    <2>2. /\ backend \in Built /\ closes = 0 /\ ~printed
          /\ remote = "empty" \/ (backend.base = "s3" /\ remote = "partial")
      BY <2>1
    <2>3. CASE /\ local' = IF local = "absent" THEN "absent" ELSE "partial"
               /\ Exit(1, "removeAll")
               /\ UNCHANGED <<closes, printed>>
      <3>1. pc' = "exited" /\ exit' = 1 /\ err' = "removeAll"
        BY <2>1, <2>3, ExitFacts, Zenon
      <3>2. QED
        BY <2>1, <2>2, <2>3, <3>1, Zenon
    <2>4. CASE /\ local' = "absent"
               /\ Exit(1, "mkdirAll")
               /\ UNCHANGED <<closes, printed>>
      <3>1. pc' = "exited" /\ exit' = 1 /\ err' = "mkdirAll"
        BY <2>1, <2>4, ExitFacts, Zenon
      <3>2. QED
        BY <2>1, <2>2, <2>4, <3>1, Zenon
    <2>5. CASE /\ local' = "empty"
               /\ printed' = TRUE
               /\ closes' = 1
               /\ Exit(0, "none")
      <3>1. pc' = "exited" /\ exit' = 0 /\ err' = "none"
        BY <2>1, <2>5, ExitFacts, Zenon
      <3>2. QED
        BY <2>1, <2>2, <2>5, <3>1, Zenon DEF Built
    <2>6. QED
      BY <1>10, <2>3, <2>4, <2>5, Zenon DEF ClearLocal
  <1>11. CASE UNCHANGED vars
    <2>1. /\ in' = in /\ pc' = pc /\ backend' = backend /\ closes' = closes
          /\ err' = err /\ exit' = exit /\ remote' = remote /\ local' = local
          /\ printed' = printed
      BY <1>11, Zenon DEF vars
    <2>2. TypeOK'
      <3>1. in' \in Inputs BY <2>1, Zenon
      <3>2. pc' \in {"main", "serverFlags", "clearFlags", "server", "dedupe", "newProg",
               "run", "clear", "clearBackend", "clearLocal", "exited"} BY <2>1, Zenon
      <3>3. backend' \in [base : {"none", "noop", "disk", "s3"}, errorWrap : BOOLEAN,
                   debugWrap : BOOLEAN, fail : {"", "none"}] BY <2>1, Zenon
      <3>4. closes' \in 0..2 BY <2>1, Zenon
      <3>5. err' = err /\ exit' = exit /\ remote' = remote /\ local' = local BY <2>1, Zenon
      <3>6. printed' \in BOOLEAN BY <2>1, Zenon
      <3>7. QED BY <3>1, <3>2, <3>3, <3>4, <3>5, <3>6, Zenon
    <2>3. RunningState' /\ BackendState' /\ ClearState'
      BY <2>1, Zenon
    <2>4. ExitStatusReportsOutcome' /\ ClearPrintedOnlyAfterNilErrors'
      BY <2>1, Zenon
    <2>5. QED
      BY <2>2, <2>3, <2>4
  <1>12. QED
    BY <1>1, <1>2, <1>3, <1>4, <1>5, <1>6, <1>7, <1>8, <1>9, <1>10, <1>11 DEF Next

-----------------------------------------------------------------------------
(* Theorems.                                                               *)

LEMMA IInvHolds == Spec => []IInv
  BY InitIInv, NextIInv, PTL DEF Spec

(* Every variable of a run of main keeps its type: the stack is the       *)
(* placeholder or one createBackend built, the close count is at most two *)
(* (a close command served by Run, then the deferred Close), the exit     *)
(* status is one of 0, 1, 2 or not yet set.                               *)
THEOREM ProcessTypeCorrect == Spec => []TypeOK
  BY IInvHolds, PTL DEF IInv

(* For every configuration, argument and failure of main, runServer,     *)
(* runClear and clearLocalCache: the process exits 0 exactly when no step *)
(* failed, and one that exits 0 after createBackend succeeded has closed  *)
(* the backend (the deferred backend.Close that os.Exit would skip).       *)
THEOREM ExitStatusReportsOutcomeHolds == Spec => []ExitStatusReportsOutcome
  BY IInvHolds, PTL DEF IInv

(* For every run of runClear: "Cache cleared successfully" is printed     *)
(* only after backend.Clear, RemoveAll and MkdirAll all returned nil:    *)
(* the backend is empty unless it is S3 and DeleteObjects reported       *)
(* per-key errors that Clear discarded (the violation run s3_clear shows *)
(* that case), and in v3 the local cache directory exists and is empty.  *)
THEOREM ClearPrintedOnlyAfterNilErrorsHolds == Spec => []ClearPrintedOnlyAfterNilErrors
  BY IInvHolds, PTL DEF IInv
=============================================================================
