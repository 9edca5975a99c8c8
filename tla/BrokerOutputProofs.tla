------------------------- MODULE BrokerOutputProofs -------------------------
(***************************************************************************)
(* Proofs about what the broker writes on stdout, for every value of the   *)
(* constants: one response per request, the close response last, and Run  *)
(* returning only after every request read was answered (or stdout        *)
(* failed).                                                                *)
(*                                                                         *)
(* None of the three is inductive: whether a goroutine may still write    *)
(* depends on whether it has written already, and Run may return only     *)
(* because wg.Wait() saw every goroutine end after its write.  OInv ties  *)
(* stdout to the goroutines' program counters and to Run's loop: a        *)
(* goroutine that has not reached done has not answered, one that is done *)
(* has, a close is the last request read and is answered by Run alone    *)
(* once no goroutine runs.  It rests on IInv of BrokerProofs (a goroutine  *)
(* serves a request read, and never a close).                             *)
(***************************************************************************)
EXTENDS BrokerProofs

(* The goroutine serving request i has not reached SendResponse's end. *)
Pending(i) == pc[i] \in {"dispatch", "wait", "call", "ret", "send"}

(* The states of Run after its loop ended. *)
AfterLoop == {"finalWait", "errWait", "returned"}

(* Before the handshake nothing was read or written; a request is read   *)
(* only after the capabilities line was written.                         *)
HandshakeFirst ==
    /\ rd = "handshake" => out = <<>> /\ reqs = <<>>
    /\ rd \in {"reading", "poll", "closeWait"} => Len(out) >= 1
    /\ Len(reqs) > 0 => Len(out) >= 1

(* Every request read other than a close has its goroutine. *)
AllSpawned ==
    \A i \in 1..Len(reqs) : reqs[i].cmd # "close" => pc[i] # "idle"

(* A goroutine writes its response once: not before it ends, and a done *)
(* goroutine has written it; a lost one met a failed writer.            *)
HandlerAnswers ==
    \A i \in ReqIDs :
        /\ Pending(i) => ~Answered(i)
        /\ pc[i] = "done" => Answered(i)
        /\ pc[i] = "lost" => wbroken

(* A close is the last request read; while Run waits to handle it, it is *)
(* unanswered; once Run is past it, it is answered or stdout failed.    *)
CloseState ==
    /\ \A i \in 1..Len(reqs) :
          reqs[i].cmd = "close" =>
              /\ i = Len(reqs)
              /\ rd \in {"closeWait"} \cup AfterLoop
              /\ rd = "closeWait" => ~Answered(i)
              /\ rd \in AfterLoop => Answered(i) \/ wbroken
    /\ rd = "closeWait" => Len(reqs) >= 1 /\ reqs[Len(reqs)].cmd = "close"

(* Once the close was answered no goroutine runs and no request is read. *)
CloseQuiet ==
    (\E k \in 1..Len(out) : out[k].id # 0 /\ reqs[out[k].id].cmd = "close")
        => AllHandlersDone /\ rd \in AfterLoop

(* Run has returned exactly when ret is set. *)
Returned == ret # "none" => rd = "returned"

OInv ==
    /\ HandshakeFirst
    /\ AllSpawned
    /\ HandlerAnswers
    /\ CloseState
    /\ CloseQuiet
    /\ Returned
    /\ OneResponsePerRequest
    /\ CloseAnsweredLast
    /\ ReturnAfterAllAnswered

USE BrokerAssumption

-----------------------------------------------------------------------------
(* Lemmas on stdout.                                                       *)

(* SendResponse appends one line: the earlier lines stay, and the requests *)
(* answered are the earlier ones and the new line's.                      *)
LEMMA OutAppend ==
  ASSUME out \in Seq(Response), NEW resp \in Response, out' = Append(out, resp)
  PROVE  /\ out' \in Seq(Response)
         /\ Len(out') = Len(out) + 1
         /\ out'[Len(out) + 1] = resp
         /\ \A k \in 1..Len(out) : out'[k] = out[k]
         /\ \A i : Answered(i)' <=> Answered(i) \/ resp.id = i
  <1>1. /\ out' \in Seq(Response)
        /\ Len(out') = Len(out) + 1
        /\ out'[Len(out) + 1] = resp
        /\ \A k \in 1..Len(out) : out'[k] = out[k]
    BY AppendProperties
  <1>2. \A i : Answered(i)' <=> Answered(i) \/ resp.id = i
    BY <1>1 DEF Answered
  <1>3. QED
    BY <1>1, <1>2

(* A response on stdout answers a request read, or is the capabilities line. *)
LEMMA AnsweredRead ==
  ASSUME IInv, OneResponsePerRequest, NEW i, Answered(i)
  PROVE  i \in 0..Len(reqs)
  <1>1. PICK k \in 1..Len(out) : out[k].id = i
    BY DEF Answered
  <1>2. out[k] \in Response
    BY DEF IInv, TypeOK
  <1>3. out[k].id \in Nat /\ out[k].id <= Len(reqs)
    BY <1>2 DEF Response, OneResponsePerRequest
  <1>4. QED
    BY <1>1, <1>3

(* No goroutine is in the middle of a request exactly when wg.Wait()     *)
(* would return.                                                          *)
LEMMA DoneIsNotPending ==
  ASSUME IInv
  PROVE  AllHandlersDone <=> \A i \in ReqIDs : ~Pending(i)
  BY DEF AllHandlersDone, Pending, IInv, TypeOK, HandlerStates

(* Answering request id, read and not yet answered, after the           *)
(* capabilities line and before any close response, keeps one response  *)
(* per request and the close response last.                              *)
LEMMA AppendAnswer ==
  ASSUME IInv, OInv, NEW resp \in Response, out' = Append(out, resp),
         UNCHANGED reqs, resp.id \in 1..Len(reqs), Len(out) >= 1,
         ~Answered(resp.id),
         ~\E k \in 1..Len(out) : out[k].id # 0 /\ reqs[out[k].id].cmd = "close"
  PROVE  OneResponsePerRequest' /\ CloseAnsweredLast'
  <1>1. /\ Len(out') = Len(out) + 1 /\ out'[Len(out) + 1] = resp
        /\ \A k \in 1..Len(out) : out'[k] = out[k]
    BY OutAppend DEF IInv, TypeOK
  <1>2. \A k \in 1..Len(out) : out[k].id # resp.id
    BY DEF Answered
  <1>3. OneResponsePerRequest'
    BY <1>1, <1>2 DEF OInv, OneResponsePerRequest
  <1>4. CloseAnsweredLast'
    BY <1>1 DEF CloseAnsweredLast
  <1>5. QED
    BY <1>3, <1>4

-----------------------------------------------------------------------------
LEMMA InitOInv == Init => OInv
  BY DEF Init, OInv, HandshakeFirst, AllSpawned, HandlerAnswers, Pending,
         CloseState, CloseQuiet, Returned, OneResponsePerRequest,
         CloseAnsweredLast, ReturnAfterAllAnswered, Answered

(* A goroutine step before SendResponse: Run, the requests and stdout are *)
(* untouched and the goroutine stays in the middle of its request.        *)
LEMMA HandlerQuiet ==
  ASSUME IInv, OInv, NEW i \in ReqIDs, Pending(i), pc' = [pc EXCEPT ![i] = pc'[i]],
         pc'[i] \in HandlerStates, Pending(i)',
         UNCHANGED <<rd, ret, reqs, out, wbroken>>
  PROVE  OInv'
  <1>1. \A j \in ReqIDs : Pending(j)' <=> Pending(j)
    BY DEF IInv, TypeOK, Pending
  <1>2. \A j \in ReqIDs : pc'[j] # "idle" <=> pc[j] # "idle"
    BY DEF IInv, TypeOK, Pending
  <1>3. \A j \in ReqIDs : pc'[j] \in {"done", "lost"} => pc'[j] = pc[j]
    BY DEF IInv, TypeOK, Pending
  <1>4. AllHandlersDone = FALSE /\ AllHandlersDone' = FALSE
    BY DEF AllHandlersDone, Pending
  <1>5. \A j : Answered(j)' = Answered(j)
    BY DEF Answered
  <1>6. HandshakeFirst' /\ Returned' /\ OneResponsePerRequest' /\ CloseAnsweredLast'
        /\ ReturnAfterAllAnswered'
    BY <1>5 DEF OInv, HandshakeFirst, Returned, OneResponsePerRequest,
              CloseAnsweredLast, ReturnAfterAllAnswered
  <1>7. AllSpawned'
    BY <1>2 DEF OInv, AllSpawned, IInv, TypeOK, ReqIDs
  <1>8. HandlerAnswers'
    BY <1>1, <1>3, <1>5 DEF OInv, HandlerAnswers
  <1>9. CloseState'
    BY <1>5 DEF OInv, CloseState
  <1>10. CloseQuiet'
    <2>1. ~\E k \in 1..Len(out) : out[k].id # 0 /\ reqs[out[k].id].cmd = "close"
      BY <1>4 DEF OInv, CloseQuiet
    <2>2. QED
      BY <2>1 DEF CloseQuiet
  <1>11. QED
    BY <1>6, <1>7, <1>8, <1>9, <1>10 DEF OInv

(* singleflight.Do, the backend call, doCall's epilogue and a waiter's    *)
(* wake-up leave the goroutine in the middle of its request.              *)
LEMMA HandlerQuietSteps ==
  ASSUME IInv, OInv, NEW i \in ReqIDs,
         Dispatch(i) \/ CallBackend(i) \/ FinishCall(i) \/ WakeWaiter(i)
  PROVE  OInv'
  <1>1. PICK s \in {"send", "wait", "call", "ret"} :
          /\ pc' = [pc EXCEPT ![i] = s]
          /\ pc[i] \in {"dispatch", "call", "ret", "wait"}
          /\ UNCHANGED <<rd, ret, reqs, out, wbroken>>
    BY DEF Dispatch, CallBackend, FinishCall, WakeWaiter
  <1>2. pc'[i] = s
    BY <1>1 DEF IInv, TypeOK
  <1>3. QED
    BY <1>1, <1>2, HandlerQuiet DEF Pending, HandlerStates

(* Run leaves its loop, or goes on reading, without writing: no close was *)
(* read yet, so none is answered.                                         *)
LEMMA LoopStep ==
  ASSUME IInv, OInv, rd \in {"reading", "poll"},
         rd' \in {"reading", "finalWait", "errWait"},
         UNCHANGED <<ret, reqs, pc, out, wbroken>>
  PROVE  OInv'
  <1>1. \A i \in 1..Len(reqs) : reqs[i].cmd # "close"
    BY DEF OInv, CloseState, AfterLoop
  <1>2. ret = "none"
    BY DEF OInv, Returned
  <1>3. ~\E k \in 1..Len(out) : out[k].id # 0 /\ reqs[out[k].id].cmd = "close"
    BY DEF OInv, CloseQuiet, AfterLoop
  <1>4. \A j : Answered(j)' = Answered(j)
    BY DEF Answered
  <1>5. HandshakeFirst'
    BY DEF OInv, HandshakeFirst
  <1>6. AllSpawned' /\ HandlerAnswers'
    BY <1>4 DEF OInv, AllSpawned, HandlerAnswers, Pending
  <1>7. CloseState' /\ CloseQuiet'
    BY <1>1, <1>3 DEF CloseState, CloseQuiet
  <1>8. Returned' /\ ReturnAfterAllAnswered'
    BY <1>2 DEF Returned, ReturnAfterAllAnswered
  <1>9. OneResponsePerRequest' /\ CloseAnsweredLast'
    BY DEF OInv, OneResponsePerRequest, CloseAnsweredLast
  <1>10. QED
    BY <1>5, <1>6, <1>7, <1>8, <1>9 DEF OInv

(* After the loop: the final select and the return.  Run returns only    *)
(* once wg.Wait() saw every goroutine end, or when it had returned.       *)
LEMMA AfterLoopStep ==
  ASSUME IInv, OInv, rd \in AfterLoop, rd' \in AfterLoop,
         ret' = ret \/ (AllHandlersDone /\ rd' = "returned"),
         ret' # "none" => rd' = "returned",
         UNCHANGED <<reqs, pc, out, wbroken>>
  PROVE  OInv'
  <1>1. \A j : Answered(j)' = Answered(j)
    BY DEF Answered
  <1>2. AllHandlersDone' = AllHandlersDone
    BY DEF AllHandlersDone
  <1>3. HandshakeFirst' /\ AllSpawned' /\ HandlerAnswers'
    BY <1>1 DEF OInv, HandshakeFirst, AllSpawned, HandlerAnswers, Pending, AfterLoop
  <1>4. CloseState' /\ CloseQuiet'
    BY <1>1, <1>2 DEF OInv, CloseState, CloseQuiet, AfterLoop
  <1>5. Returned' /\ OneResponsePerRequest' /\ CloseAnsweredLast'
    BY DEF OInv, Returned, OneResponsePerRequest, CloseAnsweredLast
  <1>6. ReturnAfterAllAnswered'
    <2>1. CASE ret' = ret
      BY <1>1, <2>1 DEF OInv, ReturnAfterAllAnswered
    <2>2. CASE AllHandlersDone
      <3> SUFFICES ASSUME NEW i \in 1..Len(reqs) PROVE Answered(i) \/ wbroken
        BY <1>1 DEF ReturnAfterAllAnswered
      <3>1. CASE reqs[i].cmd = "close"
        BY <3>1 DEF OInv, CloseState
      <3>2. CASE reqs[i].cmd # "close"
        <4>1. i \in ReqIDs /\ pc[i] # "idle"
          BY <3>2 DEF OInv, AllSpawned, IInv, TypeOK, ReqIDs
        <4>2. pc[i] \in {"done", "lost"}
          BY <2>2, <4>1 DEF AllHandlersDone
        <4>3. QED
          BY <4>1, <4>2 DEF OInv, HandlerAnswers
      <3>3. QED
        BY <3>1, <3>2
    <2>3. QED
      BY <2>1, <2>2
  <1>7. QED
    BY <1>3, <1>4, <1>5, <1>6 DEF OInv

(* SendInitialResponse: the first line, or Run returns with stdout failed. *)
LEMMA HandshakeOInv ==
  ASSUME IInv, OInv, Handshake
  PROVE  OInv'
  <1>1. out = <<>> /\ reqs = <<>> /\ ret = "none" /\ rd = "handshake"
    BY DEF Handshake, OInv, HandshakeFirst, Returned
  <1>2. \A j \in ReqIDs : pc[j] = "idle"
    BY <1>1 DEF IInv, Spawned, ReqIDs
  <1>3. UNCHANGED <<reqs, pc>>
    BY DEF Handshake
  <1>4. HandlerAnswers' /\ AllSpawned'
    BY <1>1, <1>2, <1>3 DEF HandlerAnswers, Pending, AllSpawned
  <1> DEFINE resp == [id |-> 0, err |-> FALSE, miss |-> FALSE, oid |-> NoOutput]
  <1>5. CASE Write(resp) /\ rd' = "reading" /\ UNCHANGED ret
    <2>1. resp \in Response
      <3>1. 0 \in 0..MaxReqs /\ NoOutput \in OutputOrNone
        BY DEF OutputOrNone
      <3>2. QED
        BY <3>1, ResponseType
    <2>2. Len(out') = 1 /\ out'[1].id = 0 /\ ~wbroken'
      BY <1>1, <2>1, <1>5, OutAppend DEF Write
    <2>3. HandshakeFirst' /\ CloseState' /\ CloseQuiet'
      BY <1>1, <1>3, <1>5, <2>2 DEF HandshakeFirst, CloseState, CloseQuiet
    <2>4. Returned' /\ ReturnAfterAllAnswered'
      BY <1>1, <1>5 DEF Returned, ReturnAfterAllAnswered
    <2>5. OneResponsePerRequest' /\ CloseAnsweredLast'
      BY <2>2 DEF OneResponsePerRequest, CloseAnsweredLast
    <2>6. QED
      BY <1>4, <2>3, <2>4, <2>5 DEF OInv
  <1>6. CASE WriteFails /\ rd' = "returned" /\ ret' = "err"
    <2>1. out' = <<>> /\ wbroken'
      BY <1>1, <1>6 DEF WriteFails
    <2>2. HandshakeFirst' /\ CloseState' /\ CloseQuiet'
      BY <1>1, <1>3, <1>6, <2>1 DEF HandshakeFirst, CloseState, CloseQuiet, AfterLoop
    <2>3. Returned' /\ ReturnAfterAllAnswered'
      BY <1>1, <1>3, <1>6 DEF Returned, ReturnAfterAllAnswered
    <2>4. OneResponsePerRequest' /\ CloseAnsweredLast'
      BY <2>1 DEF OneResponsePerRequest, CloseAnsweredLast
    <2>5. QED
      BY <1>4, <2>2, <2>3, <2>4 DEF OInv
  <1>7. QED
    BY <1>5, <1>6 DEF Handshake

(* A read appends request n = Len(reqs) + 1, unanswered, with its        *)
(* goroutine unless it is a close, which Run keeps for itself.           *)
LEMMA ReadRequestOInv ==
  ASSUME IInv, OInv, NEW r \in PeerRequests, ReadRequest(r)
  PROVE  OInv'
  <1> DEFINE n == Len(reqs) + 1
  <1>1. /\ rd = "reading" /\ n \in ReqIDs
        /\ UNCHANGED <<ret, out, wbroken>>
        /\ rd' = IF r.cmd = "close" THEN "closeWait" ELSE "poll"
        /\ pc' = IF r.cmd = "close" THEN pc ELSE [pc EXCEPT ![n] = "dispatch"]
    BY DEF ReadRequest, IInv, TypeOK, ReqIDs
  <1>2. /\ Len(reqs') = n /\ reqs'[n] = r
        /\ \A j \in 1..Len(reqs) : reqs'[j] = reqs[j]
    <2>1. r \in Request /\ reqs \in Seq(Request)
      BY DEF PeerRequests, IInv, TypeOK
    <2>2. QED
      BY <2>1, AppendProperties DEF ReadRequest
  <1>3. /\ \A j \in 1..Len(reqs) : reqs[j].cmd # "close"
        /\ ret = "none" /\ Len(out) >= 1
    BY <1>1 DEF OInv, CloseState, AfterLoop, Returned, HandshakeFirst
  <1>4. ~Answered(n) /\ pc[n] = "idle"
    BY <1>1, AnsweredRead DEF OInv, IInv, Spawned
  <1>5. \A j \in ReqIDs : j # n => pc'[j] = pc[j]
    BY <1>1 DEF IInv, TypeOK
  <1>6. /\ r.cmd # "close" => pc'[n] = "dispatch"
        /\ r.cmd = "close" => pc'[n] = "idle"
    BY <1>1, <1>4 DEF IInv, TypeOK
  <1>7. \A j : Answered(j)' = Answered(j)
    BY <1>1 DEF Answered
  <1>8. \A k \in 1..Len(out) : out[k].id \in 0..Len(reqs)
    BY AnsweredRead DEF Answered, OInv
  <1>9. HandshakeFirst'
    BY <1>1, <1>2, <1>3 DEF HandshakeFirst
  <1>10. AllSpawned'
    <2> SUFFICES ASSUME NEW j \in 1..Len(reqs'), reqs'[j].cmd # "close"
                 PROVE  pc'[j] # "idle"
      BY DEF AllSpawned
    <2>1. CASE j = n
      BY <1>2, <1>6, <2>1
    <2>2. CASE j # n
      <3>1. j \in 1..Len(reqs) /\ j \in ReqIDs
        BY <1>1, <1>2, <2>2 DEF ReqIDs
      <3>2. QED
        BY <1>2, <1>5, <2>2, <3>1 DEF OInv, AllSpawned
    <2>3. QED
      BY <2>1, <2>2
  <1>11. HandlerAnswers'
    <2> SUFFICES ASSUME NEW j \in ReqIDs
                 PROVE  /\ Pending(j)' => ~Answered(j)'
                        /\ pc'[j] = "done" => Answered(j)'
                        /\ pc'[j] = "lost" => wbroken'
      BY DEF HandlerAnswers
    <2>1. CASE j = n
      BY <1>1, <1>4, <1>6, <1>7, <2>1 DEF Pending
    <2>2. CASE j # n
      BY <1>1, <1>5, <1>7, <2>2 DEF OInv, HandlerAnswers, Pending
    <2>3. QED
      BY <2>1, <2>2
  <1>12. CloseState'
    <2>1. \A i \in 1..Len(reqs') : reqs'[i].cmd = "close" => i = n /\ r.cmd = "close"
      BY <1>2, <1>3
    <2>2. CASE r.cmd = "close"
      <3>1. rd' = "closeWait" /\ Len(reqs') = n /\ n >= 1 /\ reqs'[n].cmd = "close"
        BY <1>1, <1>2, <2>2 DEF IInv, TypeOK
      <3>2. \A i : i = n => ~Answered(i)'
        BY <1>4, <1>7
      <3>3. QED
        BY <2>1, <3>1, <3>2 DEF CloseState, AfterLoop
    <2>3. CASE r.cmd # "close"
      <3>1. rd' = "poll" /\ \A i \in 1..Len(reqs') : reqs'[i].cmd # "close"
        BY <1>1, <2>1, <2>3
      <3>2. QED
        BY <3>1 DEF CloseState
    <2>4. QED
      BY <2>2, <2>3
  <1>13. CloseQuiet'
    <2>1. \A k \in 1..Len(out) : out[k].id # 0 => reqs'[out[k].id].cmd # "close"
      BY <1>2, <1>3, <1>8
    <2>2. QED
      BY <1>1, <2>1 DEF CloseQuiet
  <1>14. Returned' /\ ReturnAfterAllAnswered'
    BY <1>1, <1>3 DEF Returned, ReturnAfterAllAnswered
  <1>15. OneResponsePerRequest' /\ CloseAnsweredLast'
    <2>1. OneResponsePerRequest'
      <3>1. Len(reqs) \in Nat /\ Len(reqs') = Len(reqs) + 1
        BY <1>2 DEF IInv, TypeOK
      <3>2. \A k \in 1..Len(out) : out[k].id <= Len(reqs')
        BY <1>8, <3>1
      <3>3. QED
        BY <1>1, <3>2 DEF OInv, OneResponsePerRequest
    <2>2. CloseAnsweredLast'
      <3>1. rd' \notin AfterLoop
        BY <1>1 DEF AfterLoop
      <3>2. QED
        BY <1>13, <3>1 DEF CloseAnsweredLast, CloseQuiet
    <2>3. QED
      BY <2>1, <2>2
  <1>16. QED
    BY <1>9, <1>10, <1>11, <1>12, <1>13, <1>14, <1>15 DEF OInv

(* close: after wg.Wait() Run answers the close, the last request read;  *)
(* or stdout fails and Run returns.                                       *)
LEMMA HandleCloseOInv ==
  ASSUME IInv, OInv, HandleClose
  PROVE  OInv'
  <1> DEFINE c == Len(reqs)
  <1>1. rd = "closeWait" /\ AllHandlersDone /\ UNCHANGED <<reqs, pc>>
    BY DEF HandleClose
  <1>2. /\ c \in 1..Len(reqs) /\ reqs[c].cmd = "close" /\ ~Answered(c)
        /\ Len(out) >= 1 /\ ret = "none" /\ c \in 0..MaxReqs
    BY <1>1 DEF OInv, CloseState, HandshakeFirst, Returned, AfterLoop, IInv, TypeOK
  <1>3. ~\E k \in 1..Len(out) : out[k].id # 0 /\ reqs[out[k].id].cmd = "close"
    BY <1>1 DEF OInv, CloseQuiet, AfterLoop
  <1>4. \A j \in ReqIDs : ~Pending(j)
    BY <1>1, DoneIsNotPending
  <1>5. \A i \in 1..Len(reqs) : reqs[i].cmd = "close" => i = c
    BY DEF OInv, CloseState
  <1>6. AllSpawned'
    BY <1>1 DEF OInv, AllSpawned
  <1>7. PICK closeErr \in BOOLEAN :
          LET resp == [id |-> c, err |-> closeErr, miss |-> FALSE, oid |-> NoOutput]
          IN  \/ Write(resp) /\ rd' = "finalWait" /\ UNCHANGED ret
              \/ WriteFails /\ rd' = "returned" /\ ret' = "err"
    BY DEF HandleClose
  <1> DEFINE resp == [id |-> c, err |-> closeErr, miss |-> FALSE, oid |-> NoOutput]
  <1>8. resp \in Response
    BY <1>2, ResponseType DEF OutputOrNone
  <1>9. CASE Write(resp) /\ rd' = "finalWait" /\ UNCHANGED ret
    <2>1. out' = Append(out, resp) /\ UNCHANGED wbroken
      BY <1>9 DEF Write
    <2>2. \A j : Answered(j)' <=> Answered(j) \/ c = j
      BY <1>8, <2>1, OutAppend DEF IInv, TypeOK
    <2>3. Len(out') >= 1
      BY <1>8, <2>1, OutAppend DEF IInv, TypeOK
    <2>4. HandshakeFirst' /\ Returned' /\ ReturnAfterAllAnswered'
      BY <1>1, <1>2, <1>9, <2>3 DEF HandshakeFirst, Returned, ReturnAfterAllAnswered
    <2>5. HandlerAnswers'
      BY <1>1, <1>4, <2>1, <2>2 DEF OInv, HandlerAnswers, Pending
    <2>6. CloseState'
      BY <1>1, <1>5, <1>9, <2>2 DEF CloseState, AfterLoop
    <2>7. CloseQuiet'
      BY <1>1, <1>9 DEF CloseQuiet, AllHandlersDone, AfterLoop
    <2>8. OneResponsePerRequest' /\ CloseAnsweredLast'
      BY <1>1, <1>2, <1>3, <1>8, <2>1, AppendAnswer
    <2>9. QED
      BY <1>6, <2>4, <2>5, <2>6, <2>7, <2>8 DEF OInv
  <1>10. CASE WriteFails /\ rd' = "returned" /\ ret' = "err"
    <2>1. UNCHANGED out /\ wbroken'
      BY <1>10 DEF WriteFails
    <2>2. \A j : Answered(j)' = Answered(j)
      BY <2>1 DEF Answered
    <2>3. HandshakeFirst' /\ Returned' /\ ReturnAfterAllAnswered'
      BY <1>1, <1>10, <2>1 DEF OInv, HandshakeFirst, Returned, ReturnAfterAllAnswered
    <2>4. HandlerAnswers'
      BY <1>1, <1>4, <2>1, <2>2 DEF OInv, HandlerAnswers, Pending
    <2>5. CloseState'
      BY <1>1, <1>5, <1>10, <2>1 DEF CloseState, AfterLoop
    <2>6. CloseQuiet'
      BY <1>1, <1>3, <2>1 DEF CloseQuiet
    <2>7. OneResponsePerRequest' /\ CloseAnsweredLast'
      BY <1>1, <2>1 DEF OInv, OneResponsePerRequest, CloseAnsweredLast
    <2>8. QED
      BY <1>6, <2>3, <2>4, <2>5, <2>6, <2>7 DEF OInv
  <1>11. QED
    BY <1>7, <1>9, <1>10

(* SendResponse by the goroutine of request i: its one line, or a failed *)
(* writer; then wg.Done().                                                *)
LEMMA SendReplyOInv ==
  ASSUME IInv, OInv, NEW i \in ReqIDs, SendReply(i)
  PROVE  OInv'
  <1>1. pc[i] = "send" /\ UNCHANGED <<rd, ret, reqs>>
    BY DEF SendReply
  <1>2. /\ i \in 1..Len(reqs) /\ reqs[i].cmd # "close" /\ ~Answered(i)
        /\ Len(out) >= 1
    BY <1>1 DEF IInv, Spawned, ReqIDs, OInv, HandlerAnswers, Pending, HandshakeFirst
  <1>3. ~\E k \in 1..Len(out) : out[k].id # 0 /\ reqs[out[k].id].cmd = "close"
    BY <1>1 DEF OInv, CloseQuiet, AllHandlersDone
  <1>4. PICK s \in {"done", "lost"} : pc' = [pc EXCEPT ![i] = s]
    BY DEF SendReply
  <1>5. pc'[i] = s /\ \A j \in ReqIDs : j # i => pc'[j] = pc[j]
    BY <1>4 DEF IInv, TypeOK
  <1>6. AllSpawned'
    <2>1. SUFFICES ASSUME NEW j \in 1..Len(reqs), reqs[j].cmd # "close"
                   PROVE  pc'[j] # "idle"
      BY <1>1 DEF AllSpawned
    <2>2. j \in ReqIDs
      BY DEF IInv, TypeOK, ReqIDs
    <2>3. CASE j = i
      BY <1>4, <1>5, <2>3
    <2>4. CASE j # i
      BY <1>5, <2>1, <2>2, <2>4 DEF OInv, AllSpawned
    <2>5. QED
      BY <2>3, <2>4
  <1>7. CASE Write(ResponseTo(i)) /\ s = "done"
    <2>1. ResponseTo(i) \in Response /\ ResponseTo(i).id = i
      <3>1. res[i] \in Reply /\ i \in 0..MaxReqs
        BY DEF IInv, TypeOK, ReqIDs
      <3>2. QED
        BY <3>1, ResponseType DEF ResponseTo, Reply
    <2>2. out' = Append(out, ResponseTo(i)) /\ UNCHANGED wbroken
      BY <1>7 DEF Write
    <2>3. /\ \A j : Answered(j)' <=> Answered(j) \/ i = j
          /\ Len(out') >= 1
      BY <2>1, <2>2, OutAppend DEF IInv, TypeOK
    <2>4. HandshakeFirst' /\ Returned' /\ ReturnAfterAllAnswered'
      <3>1. rd # "handshake"
        BY <1>2 DEF OInv, HandshakeFirst
      <3>2. HandshakeFirst'
        BY <1>1, <2>3, <3>1 DEF HandshakeFirst
      <3>3. Returned'
        BY <1>1 DEF OInv, Returned
      <3>4. ReturnAfterAllAnswered'
        BY <1>1, <2>2, <2>3 DEF OInv, ReturnAfterAllAnswered
      <3>5. QED
        BY <3>2, <3>3, <3>4
    <2>5. HandlerAnswers'
      BY <1>5, <1>7, <2>2, <2>3 DEF OInv, HandlerAnswers, Pending
    <2>6. CloseState'
      <3>1. \A c \in 1..Len(reqs) : reqs[c].cmd = "close" =>
               c # i /\ (Answered(c)' <=> Answered(c))
        BY <1>2, <2>3
      <3>2. QED
        BY <1>1, <2>2, <3>1 DEF OInv, CloseState
    <2>7. CloseQuiet'
      <3>1. /\ Len(out') = Len(out) + 1 /\ out'[Len(out) + 1] = ResponseTo(i)
            /\ \A k \in 1..Len(out) : out'[k] = out[k]
        BY <2>1, <2>2, OutAppend DEF IInv, TypeOK
      <3>2. QED
        BY <1>1, <1>2, <1>3, <2>1, <3>1 DEF CloseQuiet
    <2>8. OneResponsePerRequest' /\ CloseAnsweredLast'
      BY <1>1, <1>2, <1>3, <2>1, <2>2, AppendAnswer
    <2>9. QED
      BY <1>6, <2>4, <2>5, <2>6, <2>7, <2>8 DEF OInv
  <1>8. CASE WriteFails /\ s = "lost"
    <2>1. UNCHANGED out /\ wbroken'
      BY <1>8 DEF WriteFails
    <2>2. \A j : Answered(j)' = Answered(j)
      BY <2>1 DEF Answered
    <2>3. HandshakeFirst' /\ Returned' /\ ReturnAfterAllAnswered'
      BY <1>1, <2>1 DEF OInv, HandshakeFirst, Returned, ReturnAfterAllAnswered
    <2>4. HandlerAnswers'
      BY <1>5, <1>8, <2>1, <2>2 DEF OInv, HandlerAnswers, Pending
    <2>5. CloseState'
      BY <1>1, <2>1, <2>2 DEF OInv, CloseState
    <2>6. CloseQuiet'
      BY <1>1, <1>3, <2>1 DEF CloseQuiet
    <2>7. OneResponsePerRequest' /\ CloseAnsweredLast'
      BY <1>1, <2>1 DEF OInv, OneResponsePerRequest, CloseAnsweredLast
    <2>8. QED
      BY <1>6, <2>3, <2>4, <2>5, <2>6, <2>7 DEF OInv
  <1>9. QED
    <2>1. \/ Write(ResponseTo(i)) /\ pc' = [pc EXCEPT ![i] = "done"]
          \/ WriteFails /\ pc' = [pc EXCEPT ![i] = "lost"]
      BY DEF SendReply
    <2>2. (Write(ResponseTo(i)) /\ s = "done") \/ (WriteFails /\ s = "lost")
      BY <1>4, <1>5, <2>1 DEF IInv, TypeOK
    <2>3. QED
      BY <1>7, <1>8, <2>2

(* A step that changes no variable keeps OInv. *)
LEMMA StutterOInv ==
  ASSUME OInv, UNCHANGED vars
  PROVE  OInv'
  <1>1. UNCHANGED <<rd, ret, reqs, pc, out, wbroken>>
    BY DEF vars
  <1>2. \A j : Answered(j)' = Answered(j)
    BY <1>1 DEF Answered
  <1>3. QED
    BY <1>1, <1>2 DEF OInv, HandshakeFirst, AllSpawned, HandlerAnswers, Pending,
                      CloseState, CloseQuiet, Returned, OneResponsePerRequest,
                      CloseAnsweredLast, ReturnAfterAllAnswered, AllHandlersDone

(* Every step of Run, of the reader and of the goroutines keeps OInv. *)
LEMMA NextOInv == IInv /\ OInv /\ [Next]_vars => OInv'
  <1> SUFFICES ASSUME IInv, OInv, [Next]_vars PROVE OInv'
    OBVIOUS
  <1>1. CASE Handshake
    BY <1>1, HandshakeOInv
  <1>2. CASE PollErrChan \/ ReadEOF \/ ReadMalformed
    <2>1. /\ rd \in {"reading", "poll"}
          /\ rd' \in {"reading", "finalWait", "errWait"}
          /\ UNCHANGED <<ret, reqs, pc, out, wbroken>>
      BY <1>2 DEF PollErrChan, ReadEOF, ReadMalformed
    <2>2. QED
      BY <2>1, LoopStep
  <1>3. CASE HandleClose
    BY <1>3, HandleCloseOInv
  <1>4. CASE FinalDone \/ FinalErr \/ ReturnErr \/ Exited
    <2>1. /\ rd \in AfterLoop /\ rd' \in AfterLoop
          /\ ret' = ret \/ (AllHandlersDone /\ rd' = "returned")
          /\ ret' # "none" => rd' = "returned"
          /\ UNCHANGED <<reqs, pc, out, wbroken>>
      BY <1>4 DEF FinalDone, FinalErr, ReturnErr, Exited, vars, AfterLoop,
                  OInv, Returned
    <2>2. QED
      BY <2>1, AfterLoopStep
  <1>5. CASE \E r \in PeerRequests : ReadRequest(r)
    BY <1>5, ReadRequestOInv
  <1>6. CASE \E i \in ReqIDs : Dispatch(i) \/ CallBackend(i) \/ FinishCall(i)
                                \/ WakeWaiter(i)
    BY <1>6, HandlerQuietSteps
  <1>7. CASE \E i \in ReqIDs : SendReply(i)
    BY <1>7, SendReplyOInv
  <1>8. CASE UNCHANGED vars
    BY <1>8, StutterOInv
  <1>9. QED
    BY <1>1, <1>2, <1>3, <1>4, <1>5, <1>6, <1>7, <1>8
       DEF Next, RunStep, PeerInput, Handler

(* IInv and OInv hold in every reachable state. *)
LEMMA OInvHolds == Spec => [](IInv /\ OInv)
  <1>1. Init => IInv /\ OInv
    BY InitIInv, InitOInv
  <1>2. IInv /\ OInv /\ [Next]_vars => IInv' /\ OInv'
    BY NextIInv, NextOInv
  <1>3. QED
    BY <1>1, <1>2, PTL DEF Spec

(* Spec 8, "exactly one response per request": for every number of      *)
(* requests, action IDs and outputs, stdout starts with the capabilities *)
(* line, answers only requests Run has read and none of them twice,      *)
(* however the handler goroutines, the singleflight waiters and the      *)
(* close path of Run interleave (that each is answered at all is the     *)
(* liveness property EveryRequestAnswered, left to TLC).                 *)
THEOREM OneResponsePerRequestHolds == Spec => []OneResponsePerRequest
  BY OInvHolds, PTL DEF OInv

(* The response to close is the last line Run writes: the close path     *)
(* waits for every goroutine (wg.Wait) before SendResponse, so no        *)
(* handler answers after it, in every instance.                          *)
THEOREM CloseAnsweredLastHolds == Spec => []CloseAnsweredLast
  BY OInvHolds, PTL DEF OInv

(* Run returns only after every request it read has been answered, or    *)
(* after the writer on stdout failed, in every instance.                 *)
THEOREM ReturnAfterAllAnsweredHolds == Spec => []ReturnAfterAllAnswered
  BY OInvHolds, PTL DEF OInv
=============================================================================
