------------------------- MODULE BrokerServiceProofs -------------------------
(***************************************************************************)
(* The broker implements CacheService, what it promises its peer: every   *)
(* step of Run, of the reader and of the goroutines is a step of the      *)
(* service or leaves what the peer sees unchanged.                        *)
(*                                                                         *)
(* The proof rests on IInv and OInv (BrokerProofs, BrokerOutputProofs)    *)
(* and on one more fact: once Run has returned no goroutine is left, so   *)
(* no task answers after the service is closed.                           *)
(***************************************************************************)
EXTENDS BrokerOutputProofs

(* Run returns only after wg.Wait(), or from the handshake before any    *)
(* goroutine exists.                                                      *)
ReturnedQuiet == rd = "returned" => AllHandlersDone

USE BrokerAssumption

-----------------------------------------------------------------------------
(* ReturnedQuiet is kept by every step.                                    *)

LEMMA InitReturnedQuiet == Init => ReturnedQuiet
  BY DEF Init, ReturnedQuiet

LEMMA NextReturnedQuiet ==
  IInv /\ OInv /\ ReturnedQuiet /\ [Next]_vars => ReturnedQuiet'
  <1> SUFFICES ASSUME IInv, OInv, ReturnedQuiet, [Next]_vars
               PROVE  ReturnedQuiet'
    OBVIOUS
  <1>1. CASE rd = "returned"
    <2>1. \A i \in ReqIDs : pc[i] \in {"idle", "done", "lost"}
      BY <1>1 DEF ReturnedQuiet, AllHandlersDone
    <2>2. ~RunStep /\ ~PeerInput /\ \A i \in ReqIDs : ~Handler(i)
      BY <1>1, <2>1 DEF RunStep, PeerInput, Handler, Handshake, PollErrChan,
                        HandleClose, FinalDone, FinalErr, ReturnErr, ReadEOF,
                        ReadMalformed, ReadRequest, Dispatch, CallBackend,
                        FinishCall, WakeWaiter, SendReply
    <2>3. UNCHANGED vars
      BY <2>2 DEF Next, Exited
    <2>4. QED
      BY <1>1, <2>3 DEF vars, ReturnedQuiet, AllHandlersDone
  <1>2. CASE rd # "returned"
    <2>1. CASE Handshake
      <3>0. Len(reqs) = 0
        BY <2>1 DEF Handshake, OInv, HandshakeFirst
      <3>1. \A i \in ReqIDs : pc[i] = "idle"
        BY <3>0 DEF IInv, Spawned, ReqIDs
      <3>2. QED
        BY <2>1, <3>1 DEF Handshake, ReturnedQuiet, AllHandlersDone
    <2>2. CASE HandleClose \/ FinalDone \/ ReturnErr
      BY <2>2 DEF HandleClose, FinalDone, ReturnErr, ReturnedQuiet, AllHandlersDone
    <2>3. CASE ~Handshake /\ ~HandleClose /\ ~FinalDone /\ ~ReturnErr
      <3>1. rd' # "returned"
        BY <1>2, <2>3 DEF Next, RunStep, PeerInput, Handler, PollErrChan, FinalErr,
                          ReadEOF, ReadMalformed, ReadRequest, Dispatch,
                          CallBackend, FinishCall, WakeWaiter, SendReply,
                          Exited, vars
      <3>2. QED
        BY <3>1 DEF ReturnedQuiet
    <2>4. QED
      BY <2>1, <2>2, <2>3
  <1>3. QED
    BY <1>1, <1>2

-----------------------------------------------------------------------------
(* The refinement mapping.                                                 *)

(* Writing a response appends its ID to the lines the peer sees. *)
LEMMA LinesAppend ==
  ASSUME out \in Seq(Response), NEW resp \in Response, out' = Append(out, resp)
  PROVE  OutIDs' = Append(OutIDs, resp.id)
  <1>1. /\ Len(out') = Len(out) + 1 /\ out'[Len(out) + 1] = resp
        /\ \A k \in 1..Len(out) : out'[k] = out[k]
    BY OutAppend
  <1>2. QED
    BY <1>1 DEF OutIDs

(* The lines the peer sees are the IDs of the responses on stdout. *)
LEMMA OutIDsFacts ==
  ASSUME out \in Seq(Response)
  PROVE  /\ Len(OutIDs) = Len(out)
         /\ \A k \in 1..Len(out) : OutIDs[k] = out[k].id
  BY DEF OutIDs

(* Through the mapping, the service's Responded is Answered. *)
LEMMA RespondedIsAnswered ==
  ASSUME out \in Seq(Response), NEW i
  PROVE  Service!Responded(i) <=> Answered(i)
  BY OutIDsFacts DEF Service!Responded, Answered

-----------------------------------------------------------------------------
(* Each step of the broker is a step of the service or a stutter.          *)

(* A step that keeps Run's phase, the requests, stdout and the writer    *)
(* leaves the service's state as it is.                                   *)
LEMMA StutterRefines ==
  ASSUME RunPhase' = RunPhase, UNCHANGED <<reqs, out, wbroken>>
  PROVE  UNCHANGED Service!svars
  BY DEF Service!svars, OutIDs

(* SendInitialResponse is the service's handshake. *)
LEMMA HandshakeRefines ==
  ASSUME IInv, Handshake
  PROVE  Service!SHandshake
  <1>1. rd = "handshake" /\ RunPhase = "handshake" /\ UNCHANGED reqs
    BY DEF RunPhase, Handshake
  <1>2. CASE Write([id |-> 0, err |-> FALSE, miss |-> FALSE, oid |-> NoOutput])
             /\ rd' = "reading"
    <2>1. [id |-> 0, err |-> FALSE, miss |-> FALSE, oid |-> NoOutput] \in Response
      BY DEF Response, OutputOrNone
    <2>2. OutIDs' = Append(OutIDs, 0) /\ ~wbroken /\ UNCHANGED wbroken
      BY <1>2, <2>1, LinesAppend DEF Write, IInv, TypeOK
    <2>3. RunPhase' = "serving"
      BY <1>2 DEF RunPhase
    <2>4. QED
      BY <1>1, <2>2, <2>3 DEF Service!SHandshake, Service!SWrite
  <1>3. CASE WriteFails /\ rd' = "returned"
    <2>1. wbroken' = TRUE /\ OutIDs' = OutIDs
      BY <1>3 DEF WriteFails, OutIDs
    <2>2. RunPhase' = "closed"
      BY <1>3 DEF RunPhase
    <2>3. QED
      BY <1>1, <2>1, <2>2 DEF Service!SHandshake, Service!SWriteFails
  <1>4. QED
    BY <1>2, <1>3 DEF Handshake

(* The end of the input, a malformed line or an error from errChan end  *)
(* the service's serving phase.                                           *)
LEMMA StopRefines ==
  ASSUME ReadEOF \/ ReadMalformed \/ (PollErrChan /\ errChan)
  PROVE  Service!SStop
  <1>1. /\ rd \in {"reading", "poll"} /\ rd' \in {"finalWait", "errWait"}
        /\ UNCHANGED <<reqs, out, wbroken>>
    BY DEF ReadEOF, ReadMalformed, PollErrChan
  <1>2. RunPhase = "serving" /\ RunPhase' = "draining"
    BY <1>1 DEF RunPhase
  <1>3. QED
    BY <1>1, <1>2 DEF Service!SStop, OutIDs

(* A poll that finds errChan empty goes back to reading. *)
LEMMA PollRefines ==
  ASSUME PollErrChan, ~errChan
  PROVE  UNCHANGED Service!svars
  <1>1. rd = "poll" /\ rd' = "reading" /\ UNCHANGED <<reqs, out, wbroken>>
    BY DEF PollErrChan
  <1>2. RunPhase' = RunPhase
    BY <1>1 DEF RunPhase
  <1>3. QED
    BY <1>1, <1>2, StutterRefines

(* ReadRequest consumes request r; a close turns Run to draining. *)
LEMMA ReceiveRefines ==
  ASSUME NEW r \in PeerRequests, ReadRequest(r)
  PROVE  r \in Request /\ Service!SReceive(r)
  <1>1. /\ rd = "reading" /\ reqs' = Append(reqs, r)
        /\ rd' = IF r.cmd = "close" THEN "closeWait" ELSE "poll"
        /\ UNCHANGED <<out, wbroken>>
    BY DEF ReadRequest
  <1>2. r \in Request
    BY DEF PeerRequests
  <1>3. RunPhase = "serving"
    BY <1>1 DEF RunPhase
  <1>4. RunPhase' = IF r \in {q \in Request : q.cmd = "close"}
                    THEN "draining" ELSE "serving"
    BY <1>1, <1>2 DEF RunPhase
  <1>5. QED
    BY <1>1, <1>2, <1>3, <1>4 DEF Service!SReceive, OutIDs
(* close: after wg.Wait() every earlier request has its line or stdout  *)
(* has failed, so the close response is the service's answer to the     *)
(* close.                                                                 *)
LEMMA CloseRefines ==
  ASSUME IInv, OInv, HandleClose
  PROVE  Service!SAnswerClose
  <1> DEFINE c == Len(reqs)
  <1>1. /\ rd = "closeWait" /\ AllHandlersDone /\ UNCHANGED reqs
        /\ RunPhase = "draining"
    BY DEF HandleClose, RunPhase
  <1>2. c >= 1 /\ reqs[c] \in {q \in Request : q.cmd = "close"}
    BY <1>1 DEF OInv, CloseState, IInv, TypeOK
  <1>0. out \in Seq(Response)
    BY DEF IInv, TypeOK
  <1>3. ~Service!Responded(c)
    <2>1. ~Answered(c)
      BY <1>1, <1>2 DEF OInv, CloseState, IInv, TypeOK
    <2>2. QED
      BY <1>0, <2>1, RespondedIsAnswered
  <1>4. \A i \in 1..c - 1 : Service!Responded(i) \/ wbroken
    <2>1. SUFFICES ASSUME NEW i \in 1..c - 1, ~wbroken
                   PROVE  Answered(i)
      BY <1>0, RespondedIsAnswered
    <2>2. i \in ReqIDs /\ i \in 1..Len(reqs) /\ i # c
      BY DEF IInv, TypeOK, ReqIDs
    <2>3. reqs[i].cmd # "close"
      BY <2>2 DEF OInv, CloseState
    <2>4. pc[i] \in {"done", "lost"}
      BY <1>1, <2>2, <2>3 DEF OInv, AllSpawned, AllHandlersDone
    <2>5. QED
      BY <2>1, <2>2, <2>4 DEF OInv, HandlerAnswers
  <1>5. PICK closeErr \in BOOLEAN :
          LET resp == [id |-> c, err |-> closeErr, miss |-> FALSE, oid |-> NoOutput]
          IN  \/ Write(resp) /\ rd' = "finalWait" /\ UNCHANGED ret
              \/ WriteFails /\ rd' = "returned" /\ ret' = "err"
    BY DEF HandleClose
  <1>6. CASE Write([id |-> c, err |-> closeErr, miss |-> FALSE, oid |-> NoOutput])
             /\ rd' = "finalWait"
    <2>1. [id |-> c, err |-> closeErr, miss |-> FALSE, oid |-> NoOutput] \in Response
      BY DEF IInv, TypeOK, Response, OutputOrNone
    <2>2. OutIDs' = Append(OutIDs, c) /\ ~wbroken /\ UNCHANGED wbroken
      BY <1>6, <2>1, LinesAppend DEF Write, IInv, TypeOK
    <2>3. RunPhase' = RunPhase
      BY <1>1, <1>6 DEF RunPhase
    <2>4. QED
      BY <1>1, <1>2, <1>3, <1>4, <2>2, <2>3
         DEF Service!SAnswerClose, Service!SWrite
  <1>7. CASE WriteFails /\ rd' = "returned"
    <2>1. wbroken' = TRUE /\ OutIDs' = OutIDs
      BY <1>7 DEF WriteFails, OutIDs
    <2>2. RunPhase' = "closed"
      BY <1>7 DEF RunPhase
    <2>3. QED
      BY <1>1, <1>2, <1>3, <1>4, <2>1, <2>2
         DEF Service!SAnswerClose, Service!SWriteFails
  <1>8. QED
    BY <1>5, <1>6, <1>7

(* Run returns after the final select or after wg.Wait() on an error:    *)
(* every request read has been answered, or stdout has failed.          *)
LEMMA ReturnRefines ==
  ASSUME IInv, OInv', FinalDone \/ ReturnErr
  PROVE  Service!SReturn
  <1>1. /\ rd \in {"finalWait", "errWait"} /\ rd' = "returned" /\ ret' # "none"
        /\ UNCHANGED <<reqs, out, wbroken>>
    BY DEF FinalDone, ReturnErr
  <1>2. RunPhase = "draining" /\ RunPhase' = "closed"
    BY <1>1 DEF RunPhase
  <1>3. \A i \in 1..Len(reqs) : Answered(i) \/ wbroken
    <2>1. \A i \in 1..Len(reqs') : Answered(i)' \/ wbroken'
      BY <1>1 DEF OInv, ReturnAfterAllAnswered
    <2>2. \A i : Answered(i)' <=> Answered(i)
      BY <1>1 DEF Answered
    <2>3. QED
      BY <1>1, <2>1, <2>2
  <1>4. wbroken \/ \A i \in 1..Len(reqs) : Service!Responded(i)
    <2>1. out \in Seq(Response)
      BY DEF IInv, TypeOK
    <2>2. QED
      BY <1>3, <2>1, RespondedIsAnswered
  <1>5. QED
    BY <1>1, <1>2, <1>4 DEF Service!SReturn, OutIDs

(* A goroutine's SendResponse is its task's answer, or a failed write;   *)
(* Run has not returned, since the goroutine has not called wg.Done().   *)
LEMMA AnswerRefines ==
  ASSUME IInv, OInv, ReturnedQuiet, NEW i \in ReqIDs, SendReply(i)
  PROVE  \/ i \in 1..Len(reqs) /\ Service!SAnswer(i)
         \/ Service!SAnswerFails
  <1>1. pc[i] = "send" /\ UNCHANGED <<rd, reqs>>
    BY DEF SendReply
  <1>2. RunPhase # "closed" /\ RunPhase' = RunPhase
    <2>1. rd # "returned"
      BY <1>1 DEF ReturnedQuiet, AllHandlersDone
    <2>2. QED
      BY <1>1, <2>1 DEF IInv, TypeOK, RunStates, RunPhase
  <1>3. /\ i \in 1..Len(reqs)
        /\ reqs[i] \notin {q \in Request : q.cmd = "close"}
        /\ ~Service!Responded(i)
    <2>1. out \in Seq(Response)
      BY DEF IInv, TypeOK
    <2>2. i \in 1..Len(reqs) /\ reqs[i].cmd # "close"
      BY <1>1 DEF IInv, Spawned, ReqIDs
    <2>3. ~Answered(i)
      BY <1>1 DEF OInv, HandlerAnswers, Pending
    <2>4. QED
      BY <2>1, <2>2, <2>3, RespondedIsAnswered
  <1>4. CASE Write(ResponseTo(i))
    <2>1. ResponseTo(i) \in Response /\ ResponseTo(i).id = i
      <3>1. res[i] \in Reply /\ i \in 0..MaxReqs
        BY DEF IInv, TypeOK, ReqIDs
      <3>2. QED
        BY <3>1, ResponseType DEF ResponseTo, Reply
    <2>2. OutIDs' = Append(OutIDs, i) /\ ~wbroken /\ UNCHANGED wbroken
      BY <1>4, <2>1, LinesAppend DEF Write, IInv, TypeOK
    <2>3. QED
      BY <1>1, <1>2, <1>3, <2>2 DEF Service!SAnswer, Service!SWrite
  <1>5. CASE WriteFails
    <2>1. wbroken' = TRUE /\ OutIDs' = OutIDs
      BY <1>5 DEF WriteFails, OutIDs
    <2>2. QED
      BY <1>1, <1>2, <2>1 DEF Service!SAnswerFails, Service!SWriteFails
  <1>6. QED
    BY <1>4, <1>5 DEF SendReply

(* The goroutine steps before SendResponse, the final select's error arm *)
(* and the exited process are invisible to the peer.                     *)
LEMMA QuietRefines ==
  ASSUME \/ \E i \in ReqIDs : Dispatch(i) \/ CallBackend(i) \/ FinishCall(i)
                                \/ WakeWaiter(i)
         \/ FinalErr \/ Exited
  PROVE  UNCHANGED Service!svars
  <1>1. UNCHANGED <<reqs, out, wbroken>> /\ RunPhase' = RunPhase
    BY DEF Dispatch, CallBackend, FinishCall, WakeWaiter, FinalErr, Exited, vars,
           RunPhase
  <1>2. QED
    BY <1>1, StutterRefines

(* Before the handshake the service is in its initial state. *)
LEMMA InitRefines == Init => Service!SInit
  BY DEF Init, Service!SInit, RunPhase, OutIDs

(* Every step of the broker, from a state where the invariants hold, is  *)
(* a step of the service or a stutter of it.                             *)
LEMMA NextRefines ==
  IInv /\ OInv /\ ReturnedQuiet /\ OInv' /\ [Next]_vars
    => [Service!SNext]_Service!svars
  <1> SUFFICES ASSUME IInv, OInv, ReturnedQuiet, OInv', [Next]_vars
               PROVE  [Service!SNext]_Service!svars
    OBVIOUS
  <1>1. CASE Handshake
    BY <1>1, HandshakeRefines DEF Service!SNext
  <1>2. CASE ReadEOF \/ ReadMalformed \/ (PollErrChan /\ errChan)
    BY <1>2, StopRefines DEF Service!SNext
  <1>3. CASE PollErrChan /\ ~errChan
    BY <1>3, PollRefines
  <1>4. CASE HandleClose
    BY <1>4, CloseRefines DEF Service!SNext
  <1>5. CASE FinalDone \/ ReturnErr
    BY <1>5, ReturnRefines DEF Service!SNext
  <1>6. CASE \E r \in PeerRequests : ReadRequest(r)
    BY <1>6, ReceiveRefines DEF Service!SNext
  <1>7. CASE \E i \in ReqIDs : SendReply(i)
    BY <1>7, AnswerRefines DEF Service!SNext
  <1>8. CASE \/ \E i \in ReqIDs : Dispatch(i) \/ CallBackend(i) \/ FinishCall(i)
                                    \/ WakeWaiter(i)
             \/ FinalErr \/ Exited
    BY <1>8, QuietRefines
  <1>9. CASE UNCHANGED vars
    <2>1. RunPhase' = RunPhase /\ UNCHANGED <<reqs, out, wbroken>>
      BY <1>9 DEF vars, RunPhase
    <2>2. QED
      BY <2>1, StutterRefines
  <1>10. QED
    BY <1>1, <1>2, <1>3, <1>4, <1>5, <1>6, <1>7, <1>8, <1>9
       DEF Next, RunStep, PeerInput, Handler

-----------------------------------------------------------------------------
(* The broker implements CacheService under the mapping of Broker: for  *)
(* every number of requests, action IDs and outputs, what Run and its    *)
(* goroutines write to stdout is what the service allows: the           *)
(* capabilities line first, one answer per request read and no other,  *)
(* the close answered only after every earlier request, and nothing     *)
(* written after Run returns or after the close response.               *)
THEOREM BrokerImplementsCacheService == Spec => ImplementsCacheService
  <1>1. Spec => [](IInv /\ OInv /\ ReturnedQuiet)
    <2>1. Init => IInv /\ OInv /\ ReturnedQuiet
      BY InitIInv, InitOInv, InitReturnedQuiet
    <2>2. IInv /\ OInv /\ ReturnedQuiet /\ [Next]_vars
            => (IInv /\ OInv /\ ReturnedQuiet)'
      BY NextIInv, NextOInv, NextReturnedQuiet
    <2>3. QED
      BY <2>1, <2>2, PTL DEF Spec
  <1>2. [](IInv /\ OInv /\ ReturnedQuiet) /\ [][Next]_vars
          => [][Service!SNext]_Service!svars
    BY NextRefines, PTL
  <1>3. QED
    BY <1>1, <1>2, InitRefines, PTL DEF Spec, ImplementsCacheService, Service!SSpec
=============================================================================
