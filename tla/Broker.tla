------------------------------- MODULE Broker -------------------------------
(***************************************************************************)
(* The GOCACHEPROG request broker of gobuildcache: CacheProg.Run, its      *)
(* per-request goroutines, HandleRequest and the singleflight group that   *)
(* collapses concurrent identical put/get calls (src/unnamed/part_010,     *)
(* lines 1-529).  The backend is the Disk backend of part_001 with every   *)
(* call taken as one atomic step; its file-level interleavings are the     *)
(* subject of a module of their own.                                       *)
(*                                                                         *)
(* The peer (the go command) is the environment: each read returns any     *)
(* request of the small sets below, end of input, or a malformed line.     *)
(* A request's ID is the position at which it was read.                    *)
(***************************************************************************)
EXTENDS Naturals, Sequences

CONSTANTS
    ActionIDs,       \* action IDs the peer uses (model values)
    OutputIDs,       \* output IDs the peer stores (model values)
    NoOutput,        \* the empty OutputID of a reply that carries none
    MaxReqs,         \* bound on the number of requests read
    BackendMayFail,  \* whether Backend.Put/Get/Close may return an error
    WriteMayFail     \* whether a write to stdout may fail

ASSUME BrokerAssumption ==
    /\ MaxReqs \in Nat \ {0}
    /\ NoOutput \notin OutputIDs
    /\ ActionIDs # {} /\ OutputIDs # {}
    /\ BackendMayFail \in BOOLEAN
    /\ WriteMayFail \in BOOLEAN

VARIABLES
    rd,        \* where the Run goroutine is in its loop
    ret,       \* what Run returned: "none" while it runs
    reqs,      \* the requests read so far; request i has ID i
    readAt,    \* readAt[i]: number of responses written when i was read
    pc,        \* pc[i]: where the goroutine serving request i is
    leader,    \* leader[i]: the request whose call a waiter i shares
    flights,   \* the singleflight map: key -> leading request, 0 if none
    res,       \* res[i]: the reply HandleRequest built for request i
    store,     \* the backend's entries: action ID -> output ID
    errChan,   \* the buffered (capacity 1) errChan holds an error
    wbroken,   \* the bufio.Writer on stdout has failed (errors are sticky)
    out        \* the responses written to stdout, in order

vars == <<rd, ret, reqs, readAt, pc, leader, flights, res, store,
          errChan, wbroken, out>>

ReqIDs == 1..MaxReqs
Cmds == {"put", "get", "close", "other"}   \* "other": an unknown command
Keys == {"put", "get"} \X ActionIDs        \* "<cmd>:<hex actionID>"
OutputOrNone == OutputIDs \cup {NoOutput}

Request == [cmd : Cmds, aid : ActionIDs, oid : OutputIDs]
Reply == [err : BOOLEAN, miss : BOOLEAN, oid : OutputOrNone]
Response == [id : 0..MaxReqs, err : BOOLEAN, miss : BOOLEAN, oid : OutputOrNone]

NoReply == [err |-> FALSE, miss |-> FALSE, oid |-> NoOutput]
ErrReply == [err |-> TRUE, miss |-> TRUE, oid |-> NoOutput]

RunStates == {"handshake", "reading", "poll", "closeWait", "finalWait",
              "errWait", "returned"}
(* idle: not read or not a goroutine; dispatch: spawned, before Do;       *)
(* wait: joined another call; call: leads and runs fn; ret: fn returned,  *)
(* key not yet deleted; send: reply ready; done / lost: written / failed. *)
HandlerStates == {"idle", "dispatch", "wait", "call", "ret", "send",
                  "done", "lost"}

Key(i) == <<reqs[i].cmd, reqs[i].aid>>

(* wg.Wait() returns: no goroutine spawned by Run is still running. *)
AllHandlersDone == \A i \in ReqIDs : pc[i] \in {"idle", "done", "lost"}

(* SendResponse: one line on stdout unless the writer has failed. *)
Write(resp) ==
    /\ ~wbroken
    /\ out' = Append(out, resp)
    /\ UNCHANGED wbroken

WriteFails ==
    /\ WriteMayFail \/ wbroken
    /\ wbroken' = TRUE
    /\ UNCHANGED out

-----------------------------------------------------------------------------
TypeOK ==
    /\ rd \in RunStates
    /\ ret \in {"none", "ok", "err"}
    /\ reqs \in Seq(Request)
    /\ Len(reqs) <= MaxReqs
    /\ readAt \in [ReqIDs -> Nat]
    /\ pc \in [ReqIDs -> HandlerStates]
    /\ leader \in [ReqIDs -> 0..MaxReqs]
    /\ flights \in [Keys -> 0..MaxReqs]
    /\ res \in [ReqIDs -> Reply]
    /\ store \in [ActionIDs -> OutputOrNone]
    /\ errChan \in BOOLEAN
    /\ wbroken \in BOOLEAN
    /\ out \in Seq(Response)

Init ==
    /\ rd = "handshake"
    /\ ret = "none"
    /\ reqs = <<>>
    /\ readAt = [i \in ReqIDs |-> 0]
    /\ pc = [i \in ReqIDs |-> "idle"]
    /\ leader = [i \in ReqIDs |-> 0]
    /\ flights = [k \in Keys |-> 0]
    /\ res = [i \in ReqIDs |-> NoReply]
    /\ store = [a \in ActionIDs |-> NoOutput]
    /\ errChan = FALSE
    /\ wbroken = FALSE
    /\ out = <<>>

-----------------------------------------------------------------------------
(* The Run goroutine.                                                      *)

(* SendInitialResponse: the capabilities line with ID 0, or return. *)
Handshake ==
    /\ rd = "handshake"
    /\ \/ /\ Write([id |-> 0, err |-> FALSE, miss |-> FALSE, oid |-> NoOutput])
          /\ rd' = "reading"
          /\ UNCHANGED ret
       \/ /\ WriteFails
          /\ rd' = "returned"
          /\ ret' = "err"
    /\ UNCHANGED <<reqs, readAt, pc, leader, flights, res, store, errChan>>

(* ReadRequest returns io.EOF (also for a put whose body line is missing): *)
(* leave the loop and wait for the goroutines.                             *)
ReadEOF ==
    /\ rd = "reading"
    /\ rd' = "finalWait"
    /\ UNCHANGED <<ret, reqs, readAt, pc, leader, flights, res, store,
                   errChan, wbroken, out>>

(* ReadRequest fails on a malformed line: wg.Wait(), then return the error. *)
ReadMalformed ==
    /\ rd = "reading"
    /\ rd' = "errWait"
    /\ UNCHANGED <<ret, reqs, readAt, pc, leader, flights, res, store,
                   errChan, wbroken, out>>

(* ReadRequest returns request r.  A close is handled by Run itself after  *)
(* wg.Wait(); any other command gets a goroutine (wg.Add(1); go ...).      *)
ReadRequest(r) ==
    LET n == Len(reqs) + 1 IN
    /\ rd = "reading"
    /\ n <= MaxReqs
    /\ reqs' = Append(reqs, r)
    /\ readAt' = [readAt EXCEPT ![n] = Len(out)]
    /\ IF r.cmd = "close"
         THEN /\ rd' = "closeWait"
              /\ UNCHANGED pc
         ELSE /\ rd' = "poll"
              /\ pc' = [pc EXCEPT ![n] = "dispatch"]
    /\ UNCHANGED <<ret, leader, flights, res, store, errChan, wbroken, out>>

(* The non-blocking select on errChan after spawning a goroutine. *)
PollErrChan ==
    /\ rd = "poll"
    /\ IF errChan
         THEN /\ rd' = "errWait"
              /\ errChan' = FALSE
         ELSE /\ rd' = "reading"
              /\ UNCHANGED errChan
    /\ UNCHANGED <<ret, reqs, readAt, pc, leader, flights, res, store,
                   wbroken, out>>

(* Mutant: close handled without wg.Wait(). *)
HandleCloseNoWait ==
    LET id == Len(reqs) IN
    /\ rd = "closeWait"
    /\ \E closeErr \in IF BackendMayFail THEN BOOLEAN ELSE {FALSE} :
         LET resp == [id |-> id, err |-> closeErr, miss |-> FALSE, oid |-> NoOutput]
         IN  \/ /\ Write(resp)
                /\ rd' = "finalWait"
                /\ UNCHANGED ret
             \/ /\ WriteFails
                /\ rd' = "returned"
                /\ ret' = "err"
    /\ UNCHANGED <<reqs, readAt, pc, leader, flights, res, store, errChan>>

(* Mutant: the loop does not break after the close response. *)
HandleCloseNoBreak ==
    LET id == Len(reqs) IN
    /\ rd = "closeWait"
    /\ AllHandlersDone
    /\ \E closeErr \in IF BackendMayFail THEN BOOLEAN ELSE {FALSE} :
         LET resp == [id |-> id, err |-> closeErr, miss |-> FALSE, oid |-> NoOutput]
         IN  \/ /\ Write(resp)
                /\ rd' = "reading"
                /\ UNCHANGED ret
             \/ /\ WriteFails
                /\ rd' = "returned"
                /\ ret' = "err"
    /\ UNCHANGED <<reqs, readAt, pc, leader, flights, res, store, errChan>>

(* close: wg.Wait(), Backend.Close(), SendResponse; return on a write      *)
(* error, otherwise break out of the loop.                                 *)
HandleClose ==
    LET id == Len(reqs) IN
    /\ rd = "closeWait"
    /\ AllHandlersDone
    /\ \E closeErr \in IF BackendMayFail THEN BOOLEAN ELSE {FALSE} :
         LET resp == [id |-> id, err |-> closeErr, miss |-> FALSE, oid |-> NoOutput]
         IN  \/ /\ Write(resp)
                /\ rd' = "finalWait"
                /\ UNCHANGED ret
             \/ /\ WriteFails
                /\ rd' = "returned"
                /\ ret' = "err"
    /\ UNCHANGED <<reqs, readAt, pc, leader, flights, res, store, errChan>>

(* Mutant: the final select returns without waiting for the goroutines. *)
FinalDoneNoWait ==
    /\ rd = "finalWait"
    /\ rd' = "returned"
    /\ ret' = "ok"
    /\ UNCHANGED <<reqs, readAt, pc, leader, flights, res, store, errChan,
                   wbroken, out>>

(* After the loop: select { case <-done: case err := <-errChan: }.  When   *)
(* both are ready Go picks one of them at random.                          *)
FinalDone ==
    /\ rd = "finalWait"
    /\ AllHandlersDone
    /\ rd' = "returned"
    /\ ret' = "ok"
    /\ UNCHANGED <<reqs, readAt, pc, leader, flights, res, store, errChan,
                   wbroken, out>>

FinalErr ==
    /\ rd = "finalWait"
    /\ errChan
    /\ errChan' = FALSE
    /\ rd' = "errWait"
    /\ UNCHANGED <<ret, reqs, readAt, pc, leader, flights, res, store,
                   wbroken, out>>

(* wg.Wait(); return fmt.Errorf(...). *)
ReturnErr ==
    /\ rd = "errWait"
    /\ AllHandlersDone
    /\ rd' = "returned"
    /\ ret' = "err"
    /\ UNCHANGED <<reqs, readAt, pc, leader, flights, res, store, errChan,
                   wbroken, out>>

-----------------------------------------------------------------------------
(* The goroutine serving request i: HandleRequest, then SendResponse.      *)

(* Mutant: Do never looks the key up, every caller runs fn. *)
DispatchNoLookup(i) ==
    /\ pc[i] = "dispatch"
    /\ IF reqs[i].cmd = "other"
         THEN /\ pc' = [pc EXCEPT ![i] = "send"]
              /\ res' = [res EXCEPT ![i] = [err |-> TRUE, miss |-> FALSE,
                                            oid |-> NoOutput]]
              /\ UNCHANGED <<leader, flights>>
         ELSE /\ pc' = [pc EXCEPT ![i] = "call"]
              /\ flights' = [flights EXCEPT ![Key(i)] = i]
              /\ UNCHANGED <<leader, res>>
    /\ UNCHANGED <<rd, ret, reqs, readAt, store, errChan, wbroken, out>>

(* Mutant: an unknown command returns from the goroutine without a reply. *)
DispatchUnknownNoReply(i) ==
    /\ pc[i] = "dispatch"
    /\ IF reqs[i].cmd = "other"
         THEN /\ pc' = [pc EXCEPT ![i] = "done"]
              /\ UNCHANGED <<leader, flights, res>>
         ELSE IF flights[Key(i)] # 0
           THEN /\ pc' = [pc EXCEPT ![i] = "wait"]
                /\ leader' = [leader EXCEPT ![i] = flights[Key(i)]]
                /\ UNCHANGED <<flights, res>>
           ELSE /\ pc' = [pc EXCEPT ![i] = "call"]
                /\ flights' = [flights EXCEPT ![Key(i)] = i]
                /\ UNCHANGED <<leader, res>>
    /\ UNCHANGED <<rd, ret, reqs, readAt, store, errChan, wbroken, out>>

(* singleflight.Do under g.mu: join the call in flight for the key, or     *)
(* insert a new call and run fn.  An unknown command gets its error reply  *)
(* without entering the group.                                             *)
Dispatch(i) ==
    /\ pc[i] = "dispatch"
    /\ IF reqs[i].cmd = "other"
         THEN /\ pc' = [pc EXCEPT ![i] = "send"]
              /\ res' = [res EXCEPT ![i] = [err |-> TRUE, miss |-> FALSE,
                                            oid |-> NoOutput]]
              /\ UNCHANGED <<leader, flights>>
         ELSE IF flights[Key(i)] # 0
           THEN /\ pc' = [pc EXCEPT ![i] = "wait"]
                /\ leader' = [leader EXCEPT ![i] = flights[Key(i)]]
                /\ UNCHANGED <<flights, res>>
           ELSE /\ pc' = [pc EXCEPT ![i] = "call"]
                /\ flights' = [flights EXCEPT ![Key(i)] = i]
                /\ UNCHANGED <<leader, res>>
    /\ UNCHANGED <<rd, ret, reqs, readAt, store, errChan, wbroken, out>>

(* fn of a put: Backend.Put.  On success the entry is (re)written; the     *)
(* Disk backend's error paths leave the old entry or remove the body file. *)
BackendPut(i) ==
    LET a == reqs[i].aid IN
    \/ /\ store' = [store EXCEPT ![a] = reqs[i].oid]
       /\ res' = [res EXCEPT ![i] = NoReply]
    \/ /\ BackendMayFail
       /\ \E v \in {store[a], NoOutput} : store' = [store EXCEPT ![a] = v]
       /\ res' = [res EXCEPT ![i] = ErrReply]

(* fn of a get: Backend.Get, then HandleRequest copies the result: a miss, *)
(* a hit with the stored output ID, or an error reported as a miss.        *)
BackendGet(i) ==
    LET e == store[reqs[i].aid] IN
    /\ \/ res' = [res EXCEPT ![i] = [err |-> FALSE, miss |-> e = NoOutput,
                                     oid |-> e]]
       \/ /\ BackendMayFail
          /\ res' = [res EXCEPT ![i] = ErrReply]
    /\ UNCHANGED store

(* The leader runs fn outside g.mu. *)
CallBackend(i) ==
    /\ pc[i] = "call"
    /\ IF reqs[i].cmd = "put" THEN BackendPut(i) ELSE BackendGet(i)
    /\ pc' = [pc EXCEPT ![i] = "ret"]
    /\ UNCHANGED <<rd, ret, reqs, readAt, leader, flights, errChan,
                   wbroken, out>>

(* doCall's epilogue under g.mu: delete the key, c.wg.Done() wakes the     *)
(* waiters; HandleRequest builds the response from (v, err).               *)
FinishCall(i) ==
    /\ pc[i] = "ret"
    /\ flights' = [flights EXCEPT ![Key(i)] = 0]
    /\ pc' = [pc EXCEPT ![i] = "send"]
    /\ UNCHANGED <<rd, ret, reqs, readAt, leader, res, store, errChan,
                   wbroken, out>>

(* A waiter's c.wg.Wait() returns once its leader finished the call; it   *)
(* returns the leader's (v, err), with shared = true.                      *)
WakeWaiter(i) ==
    /\ pc[i] = "wait"
    /\ pc[leader[i]] \in {"send", "done", "lost"}
    /\ res' = [res EXCEPT ![i] = res[leader[i]]]
    /\ pc' = [pc EXCEPT ![i] = "send"]
    /\ UNCHANGED <<rd, ret, reqs, readAt, leader, flights, store, errChan,
                   wbroken, out>>

(* The Response HandleRequest returns for request i. *)
ResponseTo(i) ==
    [id |-> i, err |-> res[i].err, miss |-> res[i].miss, oid |-> res[i].oid]

(* Mutant: the goroutine sends its reply again after a successful write. *)
SendReplyAgain(i) ==
    /\ pc[i] = "send"
    /\ \/ /\ Write(ResponseTo(i))
          /\ UNCHANGED <<pc, errChan>>
       \/ /\ WriteFails
          /\ pc' = [pc EXCEPT ![i] = "lost"]
          /\ errChan' = TRUE
    /\ UNCHANGED <<rd, ret, reqs, readAt, leader, flights, res, store>>

(* SendResponse; on error a non-blocking send on errChan; wg.Done(). *)
SendReply(i) ==
    /\ pc[i] = "send"
    /\ \/ /\ Write(ResponseTo(i))
          /\ pc' = [pc EXCEPT ![i] = "done"]
          /\ UNCHANGED errChan
       \/ /\ WriteFails
          /\ pc' = [pc EXCEPT ![i] = "lost"]
          /\ errChan' = TRUE
    /\ UNCHANGED <<rd, ret, reqs, readAt, leader, flights, res, store>>

(* After Run returned the process exits: nothing changes any more. *)
Exited ==
    /\ rd = "returned"
    /\ UNCHANGED vars

-----------------------------------------------------------------------------
RunStep ==
    \/ Handshake \/ PollErrChan \/ HandleClose
    \/ FinalDone \/ FinalErr \/ ReturnErr

(* The requests the peer may send.  HandleRequest reads the OutputID of a *)
(* put only and the ActionID of a put or get only; the other fields are   *)
(* fixed so that requests differing in an unread field are not told apart. *)
AnyAction == CHOOSE a \in ActionIDs : TRUE
AnyOutput == CHOOSE o \in OutputIDs : TRUE
PeerRequests ==
    {r \in Request :
        /\ r.cmd # "put" => r.oid = AnyOutput
        /\ r.cmd \in {"close", "other"} => r.aid = AnyAction}

PeerInput ==
    \/ ReadEOF \/ ReadMalformed
    \/ \E r \in PeerRequests : ReadRequest(r)

Handler(i) ==
    \/ Dispatch(i) \/ CallBackend(i) \/ FinishCall(i)
    \/ WakeWaiter(i) \/ SendReply(i)

Next ==
    \/ RunStep
    \/ PeerInput
    \/ \E i \in ReqIDs : Handler(i)
    \/ Exited

(* The Go scheduler runs every runnable goroutine eventually and g.mu and  *)
(* the writer mutex are granted eventually; the peer owes nothing.         *)
Fairness ==
    /\ WF_vars(RunStep)
    /\ \A i \in ReqIDs : WF_vars(Handler(i))

Spec == Init /\ [][Next]_vars /\ Fairness

-----------------------------------------------------------------------------
(* Properties.                                                             *)

(* Request i has a response on stdout. *)
Answered(i) == \E k \in 1..Len(out) : out[k].id = i

(* Request p was answered without error among the first n lines. *)
AckedWithin(p, n) == \E k \in 1..n : out[k].id = p /\ ~out[k].err

(* Spec 8, "exactly one response per request": stdout starts with the     *)
(* capabilities line (ID 0), every other line answers a request that Run  *)
(* read, and no request is answered twice, whatever the goroutines,       *)
(* singleflight waiters and the close path interleave.                    *)
OneResponsePerRequest ==
    /\ \A k \in 1..Len(out) : (out[k].id = 0) <=> (k = 1)
    /\ \A k \in 1..Len(out) : out[k].id <= Len(reqs)
    /\ \A k1, k2 \in 1..Len(out) : k1 # k2 => out[k1].id # out[k2].id

(* Spec 4.6 and scenario 5, "close drains": Run's wg.Wait() before        *)
(* handling close means the close response is the last line written; no  *)
(* goroutine answers an earlier request after it.                        *)
CloseAnsweredLast ==
    \A k \in 1..Len(out) :
        (out[k].id # 0 /\ reqs[out[k].id].cmd = "close") => k = Len(out)

(* Spec 8, "the backend operation is invoked at most once": no two        *)
(* goroutines run the backend call of the same singleflight key at once.  *)
SingleFlight ==
    \A i, j \in ReqIDs :
        /\ i # j
        /\ pc[i] \in {"call", "ret"}
        /\ pc[j] \in {"call", "ret"}
        => Key(i) # Key(j)

(* Spec 4.6: Run returns (on EOF, close, a malformed line or an errChan   *)
(* error) only after every request it read has been answered, unless the *)
(* writer on stdout had failed.                                          *)
ReturnAfterAllAnswered ==
    ret # "none" => \A i \in 1..Len(reqs) : Answered(i) \/ wbroken

(* Every request read is eventually answered unless stdout fails: no      *)
(* singleflight waiter, close or wg.Wait() blocks forever.               *)
EveryRequestAnswered ==
    \A i \in ReqIDs : (i <= Len(reqs)) ~> (Answered(i) \/ wbroken)

(* Once the input ends (EOF, close or a malformed line), Run returns. *)
RunReturns ==
    (rd \in {"closeWait", "finalWait", "errWait"}) ~> (rd = "returned")

(* Spec 8: a get read after a put of the same action ID was acknowledged  *)
(* without error is a hit.  The singleflight key of a get lets it join a  *)
(* get that read the backend before that put.                             *)
GetAfterAckedPutHits ==
    \A k \in 1..Len(out) :
        LET g == out[k].id IN
        (g # 0 /\ reqs[g].cmd = "get" /\ ~out[k].err) =>
            \A p \in 1..Len(reqs) :
                (/\ reqs[p].cmd = "put"
                 /\ reqs[p].aid = reqs[g].aid
                 /\ AckedWithin(p, readAt[g])) => ~out[k].miss

(* Spec 4.6 and 7: a write error on stdout is fatal and Run returns it.   *)
(* The final select picks <-done or <-errChan at random when both are     *)
(* ready, so a lost response can end in a clean return.                   *)
ReturnOkOnlyIfAllWritten ==
    ret = "ok" => ~wbroken

(* The broker implements what it promises the peer (spec 4.6, 5, 8):     *)
(* Run's loop positions are the phases Handshake, Serving, Draining and  *)
(* Closed, the requests read are the requests received, the IDs of the   *)
(* lines on stdout are the responses, and the goroutines, singleflight,  *)
(* the backend and errChan are hidden.  So no line is written after Run  *)
(* returns or after the close response, close is answered after every    *)
(* earlier request, and each request is answered at most once.          *)
RunPhase ==
    CASE rd = "handshake" -> "handshake"
      [] rd \in {"reading", "poll"} -> "serving"
      [] rd \in {"closeWait", "finalWait", "errWait"} -> "draining"
      [] rd = "returned" -> "closed"

OutIDs == [k \in 1..Len(out) |-> out[k].id]

Service == INSTANCE CacheService
    WITH phase <- RunPhase, received <- reqs, lines <- OutIDs, failed <- wbroken,
         Requests <- Request, Closes <- {r \in Request : r.cmd = "close"}

ImplementsCacheService == Service!SSpec
=============================================================================
