---------------------------- MODULE BrokerProofs ----------------------------
(***************************************************************************)
(* Proofs about the broker for every value of the constants: type          *)
(* correctness and the singleflight exclusion of concurrent backend calls. *)
(* Neither TypeOK nor SingleFlight is inductive by itself; both follow from *)
(* IInv, which adds what the goroutines' program counters say about the    *)
(* requests read, the waiters' leaders and the in-flight map.              *)
(***************************************************************************)
EXTENDS Broker, TLAPS, SequenceTheorems

(* A goroutine exists only for a request read, and never for a close. *)
Spawned ==
    \A i \in ReqIDs :
        pc[i] # "idle" => i <= Len(reqs) /\ reqs[i].cmd # "close"

(* A waiter shares the call of a real request. *)
WaitersHaveLeader ==
    \A i \in ReqIDs : pc[i] = "wait" => leader[i] \in ReqIDs

(* The in-flight map names exactly the goroutines that lead a call:       *)
(* a call for a put or get whose key maps back to its leader.             *)
FlightMap ==
    /\ \A k \in Keys :
          flights[k] # 0 =>
              /\ flights[k] \in ReqIDs
              /\ pc[flights[k]] \in {"call", "ret"}
              /\ Key(flights[k]) = k
    /\ \A i \in ReqIDs :
          pc[i] \in {"call", "ret"} =>
              /\ reqs[i].cmd \in {"put", "get"}
              /\ flights[Key(i)] = i

IInv == TypeOK /\ Spawned /\ WaitersHaveLeader /\ FlightMap

USE BrokerAssumption

-----------------------------------------------------------------------------
LEMMA InitIInv == Init => IInv
  <1> SUFFICES ASSUME Init PROVE IInv
    OBVIOUS
  <1>1. /\ rd \in RunStates /\ ret \in {"none", "ok", "err"}
        /\ errChan \in BOOLEAN /\ wbroken \in BOOLEAN
    BY DEF Init, RunStates
  <1>2. reqs \in Seq(Request) /\ Len(reqs) <= MaxReqs /\ out \in Seq(Response)
    BY DEF Init
  <1>3. /\ readAt \in [ReqIDs -> Nat] /\ pc \in [ReqIDs -> HandlerStates]
        /\ leader \in [ReqIDs -> 0..MaxReqs]
    BY DEF Init, HandlerStates
  <1>4. flights \in [Keys -> 0..MaxReqs]
    BY DEF Init
  <1>5. res \in [ReqIDs -> Reply] /\ store \in [ActionIDs -> OutputOrNone]
    BY DEF Init, Reply, NoReply, OutputOrNone
  <1>6. Spawned /\ WaitersHaveLeader
    BY DEF Init, Spawned, WaitersHaveLeader
  <1>7. FlightMap
    BY DEF Init, FlightMap
  <1>8. QED
    BY <1>1, <1>2, <1>3, <1>4, <1>5, <1>6, <1>7 DEF IInv, TypeOK

(* Facts about a request a goroutine serves, used by every handler step. *)
LEMMA ServedRequest ==
  ASSUME IInv, NEW i \in ReqIDs, pc[i] # "idle"
  PROVE  /\ i \in 1..Len(reqs)
         /\ reqs[i] \in Request
         /\ reqs[i].cmd \in {"put", "get", "other"}
         /\ reqs[i].cmd # "other" => Key(i) \in Keys
  <1>1. i \in 1..Len(reqs)
    BY DEF IInv, Spawned, ReqIDs
  <1>2. reqs[i] \in Request
    BY <1>1 DEF IInv, TypeOK
  <1>3. reqs[i].cmd \in {"put", "get", "other"}
    BY <1>2 DEF IInv, Spawned, Request, Cmds
  <1>4. reqs[i].cmd # "other" => Key(i) \in Keys
    BY <1>2, <1>3 DEF Key, Keys, Request
  <1>5. QED
    BY <1>1, <1>2, <1>3, <1>4

-----------------------------------------------------------------------------
(* Lemmas on the parts of IInv that only the goroutines' steps disturb.    *)

(* A step that leaves requests, goroutines and the in-flight map alone    *)
(* keeps every part of IInv but TypeOK.                                   *)
LEMMA StableParts ==
  ASSUME IInv, UNCHANGED <<reqs, pc, leader, flights>>
  PROVE  Spawned' /\ WaitersHaveLeader' /\ FlightMap'
  BY DEF IInv, Spawned, WaitersHaveLeader, FlightMap, Key

(* A goroutine step that moves one spawned goroutine i to a state s that  *)
(* leads a call exactly when its old state did, without touching the      *)
(* in-flight map, keeps every part of IInv but TypeOK.                    *)
LEMMA PcLocal ==
  ASSUME IInv, NEW i \in ReqIDs, NEW s \in HandlerStates,
         pc[i] # "idle", s # "idle",
         pc' = [pc EXCEPT ![i] = s],
         (s \in {"call", "ret"}) <=> (pc[i] \in {"call", "ret"}),
         s = "wait" => leader'[i] \in ReqIDs,
         \A j \in ReqIDs \ {i} : leader'[j] = leader[j],
         UNCHANGED <<reqs, flights>>
  PROVE  Spawned' /\ WaitersHaveLeader' /\ FlightMap'
  <1>1. \A j \in ReqIDs : pc'[j] = IF j = i THEN s ELSE pc[j]
    BY DEF IInv, TypeOK
  <1>2. \A j \in ReqIDs : (pc'[j] \in {"call", "ret"}) <=> (pc[j] \in {"call", "ret"})
    BY <1>1
  <1>3. Spawned'
    BY <1>1 DEF IInv, Spawned
  <1>4. WaitersHaveLeader'
    BY <1>1 DEF IInv, WaitersHaveLeader
  <1>5. FlightMap'
    BY <1>2 DEF IInv, FlightMap, Key
  <1>6. QED
    BY <1>3, <1>4, <1>5

(* A response with an ID of a request read so far is a Response. *)
LEMMA ResponseType ==
  ASSUME NEW id \in 0..MaxReqs, NEW e \in BOOLEAN, NEW m \in BOOLEAN,
         NEW o \in OutputOrNone
  PROVE  [id |-> id, err |-> e, miss |-> m, oid |-> o] \in Response
  BY DEF Response

(* SendResponse keeps stdout a sequence of responses. *)
LEMMA WriteType ==
  ASSUME IInv, NEW resp \in Response, Write(resp) \/ WriteFails
  PROVE  out' \in Seq(Response) /\ wbroken' \in BOOLEAN
  <1>1. out \in Seq(Response) /\ wbroken \in BOOLEAN
    BY DEF IInv, TypeOK
  <1>2. CASE Write(resp)
    BY <1>1, <1>2, AppendProperties DEF Write
  <1>3. CASE WriteFails
    BY <1>1, <1>3 DEF WriteFails
  <1>4. QED
    BY <1>2, <1>3

-----------------------------------------------------------------------------
(* One step per action of Next. *)

LEMMA HandshakeIInv == IInv /\ Handshake => IInv'
  <1> SUFFICES ASSUME IInv, Handshake PROVE IInv'
    OBVIOUS
  <1>1. [id |-> 0, err |-> FALSE, miss |-> FALSE, oid |-> NoOutput] \in Response
    <2>1. 0 \in 0..MaxReqs /\ NoOutput \in OutputOrNone
      BY DEF OutputOrNone
    <2>2. QED
      BY <2>1, ResponseType
  <1>2. out' \in Seq(Response) /\ wbroken' \in BOOLEAN
    BY <1>1, WriteType DEF Handshake
  <1>3. rd' \in RunStates /\ ret' \in {"none", "ok", "err"}
    BY DEF Handshake, IInv, TypeOK, RunStates
  <1>4. TypeOK'
    BY <1>2, <1>3 DEF Handshake, IInv, TypeOK
  <1>5. QED
    BY <1>4, StableParts DEF Handshake, IInv

LEMMA PollIInv == IInv /\ PollErrChan => IInv'
  <1> SUFFICES ASSUME IInv, PollErrChan PROVE IInv'
    OBVIOUS
  <1>1. rd' \in RunStates /\ errChan' \in BOOLEAN
    <2>1. CASE errChan
      BY <2>1 DEF PollErrChan, RunStates
    <2>2. CASE ~errChan
      BY <2>2 DEF PollErrChan, IInv, TypeOK, RunStates
    <2>3. QED
      BY <2>1, <2>2
  <1>2. TypeOK'
    BY <1>1 DEF PollErrChan, IInv, TypeOK
  <1>3. QED
    BY <1>2, StableParts DEF PollErrChan, IInv

LEMMA HandleCloseIInv == IInv /\ HandleClose => IInv'
  <1> SUFFICES ASSUME IInv, HandleClose PROVE IInv'
    OBVIOUS
  <1>1. PICK closeErr \in BOOLEAN :
          LET resp == [id |-> Len(reqs), err |-> closeErr, miss |-> FALSE,
                       oid |-> NoOutput]
          IN  \/ /\ Write(resp)
                 /\ rd' = "finalWait"
                 /\ UNCHANGED ret
              \/ /\ WriteFails
                 /\ rd' = "returned"
                 /\ ret' = "err"
    BY DEF HandleClose
  <1>2. [id |-> Len(reqs), err |-> closeErr, miss |-> FALSE, oid |-> NoOutput]
          \in Response
    <2>1. Len(reqs) \in 0..MaxReqs /\ NoOutput \in OutputOrNone
      BY DEF IInv, TypeOK, OutputOrNone
    <2>2. QED
      BY <2>1, ResponseType
  <1>3. out' \in Seq(Response) /\ wbroken' \in BOOLEAN
    BY <1>1, <1>2, WriteType
  <1>4. rd' \in RunStates /\ ret' \in {"none", "ok", "err"}
    BY <1>1 DEF IInv, TypeOK, RunStates
  <1>5. TypeOK'
    BY <1>3, <1>4 DEF HandleClose, IInv, TypeOK
  <1>6. QED
    BY <1>5, StableParts DEF HandleClose, IInv

(* The steps of Run after the loop and the reads that end it change no   *)
(* goroutine, request or output.                                          *)
LEMMA FinalIInv == IInv /\ (FinalDone \/ FinalErr \/ ReturnErr \/ ReadEOF
                           \/ ReadMalformed \/ Exited) => IInv'
  <1> SUFFICES ASSUME IInv, FinalDone \/ FinalErr \/ ReturnErr \/ ReadEOF
                         \/ ReadMalformed \/ Exited
               PROVE  IInv'
    OBVIOUS
  <1>1. UNCHANGED <<reqs, readAt, pc, leader, flights, res, store, wbroken, out>>
    BY DEF FinalDone, FinalErr, ReturnErr, ReadEOF, ReadMalformed, Exited, vars
  <1>2. rd' \in RunStates /\ ret' \in {"none", "ok", "err"} /\ errChan' \in BOOLEAN
    <2>1. CASE FinalDone \/ ReturnErr
      BY <2>1 DEF FinalDone, ReturnErr, IInv, TypeOK, RunStates
    <2>2. CASE FinalErr \/ ReadEOF \/ ReadMalformed
      BY <2>2 DEF FinalErr, ReadEOF, ReadMalformed, IInv, TypeOK, RunStates
    <2>3. CASE Exited
      BY <2>3 DEF Exited, vars, IInv, TypeOK
    <2>4. QED
      BY <2>1, <2>2, <2>3
  <1>3. TypeOK'
    BY <1>1, <1>2 DEF IInv, TypeOK
  <1>4. QED
    BY <1>1, <1>3, StableParts DEF IInv

(* A read appends one request and spawns at most one goroutine, for it. *)
LEMMA ReadRequestIInv ==
  ASSUME IInv, NEW r \in PeerRequests, ReadRequest(r)
  PROVE  IInv'
  <1> DEFINE n == Len(reqs) + 1
  <1>1. r \in Request
    BY DEF PeerRequests
  <1>2. reqs \in Seq(Request) /\ n \in ReqIDs
    BY DEF ReadRequest, IInv, TypeOK, ReqIDs
  <1>3. /\ reqs' \in Seq(Request) /\ Len(reqs') = n /\ reqs'[n] = r
        /\ \A j \in 1..Len(reqs) : reqs'[j] = reqs[j]
    BY <1>1, <1>2, AppendProperties DEF ReadRequest
  <1>4. pc[n] = "idle"
    BY <1>2 DEF IInv, Spawned
  <1>5. \A j \in ReqIDs :
          \/ pc'[j] = pc[j]
          \/ j = n /\ r.cmd # "close" /\ pc'[j] = "dispatch"
    BY <1>2 DEF ReadRequest, IInv, TypeOK
  <1>6. TypeOK'
    <2>1. readAt' \in [ReqIDs -> Nat]
      BY <1>2 DEF ReadRequest, IInv, TypeOK
    <2>2. pc' \in [ReqIDs -> HandlerStates] /\ rd' \in RunStates
      BY <1>2 DEF ReadRequest, IInv, TypeOK, HandlerStates, RunStates
    <2>3. QED
      BY <1>2, <1>3, <2>1, <2>2 DEF ReadRequest, IInv, TypeOK, ReqIDs
  <1>7. Spawned'
    <2> SUFFICES ASSUME NEW j \in ReqIDs, pc'[j] # "idle"
                 PROVE  j <= Len(reqs') /\ reqs'[j].cmd # "close"
      BY DEF Spawned
    <2>1. CASE pc'[j] = pc[j]
      BY <1>2, <1>3, <2>1 DEF IInv, Spawned, ReqIDs
    <2>2. CASE j = n /\ r.cmd # "close" /\ pc'[j] = "dispatch"
      BY <1>3, <2>2
    <2>3. QED
      BY <1>5, <2>1, <2>2
  <1>8. WaitersHaveLeader'
    BY <1>5 DEF ReadRequest, IInv, WaitersHaveLeader
  <1>9. FlightMap'
    <2>1. \A j \in ReqIDs : (pc'[j] \in {"call", "ret"}) <=> (pc[j] \in {"call", "ret"})
      BY <1>4, <1>5
    <2>2. \A j \in ReqIDs : pc[j] \in {"call", "ret"} => reqs'[j] = reqs[j]
      BY <1>2, <1>3 DEF IInv, Spawned, ReqIDs
    <2>3. QED
      BY <2>1, <2>2 DEF ReadRequest, IInv, FlightMap, Key
  <1>10. QED
    BY <1>6, <1>7, <1>8, <1>9 DEF IInv

(* singleflight.Do: a new leader enters the map under its key; a waiter  *)
(* records the leader it found there.                                     *)
LEMMA DispatchIInv ==
  ASSUME IInv, NEW i \in ReqIDs, Dispatch(i)
  PROVE  IInv'
  <1>1. /\ i \in 1..Len(reqs) /\ reqs[i] \in Request
        /\ reqs[i].cmd \in {"put", "get", "other"}
        /\ reqs[i].cmd # "other" => Key(i) \in Keys
    BY ServedRequest DEF Dispatch
  <1>2. UNCHANGED <<rd, ret, reqs, readAt, store, errChan, wbroken, out>>
    BY DEF Dispatch
  <1>3. CASE reqs[i].cmd = "other"
    <2>1. /\ pc' = [pc EXCEPT ![i] = "send"]
          /\ res' = [res EXCEPT ![i] = [err |-> TRUE, miss |-> FALSE,
                                        oid |-> NoOutput]]
          /\ UNCHANGED <<leader, flights>>
      BY <1>3 DEF Dispatch
    <2>2. TypeOK'
      BY <1>2, <2>1 DEF IInv, TypeOK, HandlerStates, Reply, OutputOrNone
    <2>3. QED
      BY <1>2, <2>1, <2>2, PcLocal DEF Dispatch, IInv, HandlerStates
  <1>4. CASE reqs[i].cmd # "other" /\ flights[Key(i)] # 0
    <2>1. /\ pc' = [pc EXCEPT ![i] = "wait"]
          /\ leader' = [leader EXCEPT ![i] = flights[Key(i)]]
          /\ UNCHANGED <<flights, res>>
      BY <1>4 DEF Dispatch
    <2>2. flights[Key(i)] \in ReqIDs
      BY <1>1, <1>4 DEF IInv, FlightMap
    <2>3. TypeOK'
      BY <1>2, <2>1, <2>2 DEF IInv, TypeOK, HandlerStates, ReqIDs
    <2>4. QED
      BY <1>2, <2>1, <2>2, <2>3, PcLocal DEF Dispatch, IInv, HandlerStates, TypeOK
  <1>5. CASE reqs[i].cmd # "other" /\ flights[Key(i)] = 0
    <2>1. /\ pc' = [pc EXCEPT ![i] = "call"]
          /\ flights' = [flights EXCEPT ![Key(i)] = i]
          /\ UNCHANGED <<leader, res>>
      BY <1>5 DEF Dispatch
    <2>2. TypeOK'
      <3>1. pc' \in [ReqIDs -> HandlerStates]
        BY <2>1 DEF IInv, TypeOK, HandlerStates
      <3>2. flights' \in [Keys -> 0..MaxReqs]
        <4>1. i \in 0..MaxReqs /\ Key(i) \in Keys
          BY <1>1, <1>5 DEF ReqIDs
        <4>2. QED
          BY <2>1, <4>1 DEF IInv, TypeOK
      <3>3. QED
        BY <1>2, <2>1, <3>1, <3>2 DEF IInv, TypeOK
    <2>3. Spawned' /\ WaitersHaveLeader'
      BY <1>2, <2>1 DEF Dispatch, IInv, TypeOK, Spawned, WaitersHaveLeader
    <2>4. FlightMap'
      <3>1. ASSUME NEW k \in Keys, flights'[k] # 0
            PROVE  /\ flights'[k] \in ReqIDs
                   /\ pc'[flights'[k]] \in {"call", "ret"}
                   /\ Key(flights'[k]) = k
        <4>1. CASE k = Key(i)
          <5>1. flights'[k] = i
            BY <1>1, <1>5, <2>1, <4>1 DEF IInv, TypeOK
          <5>2. pc'[i] = "call"
            BY <2>1 DEF IInv, TypeOK
          <5>3. QED
            BY <1>2, <4>1, <5>1, <5>2 DEF Key
        <4>2. CASE k # Key(i)
          <5>1. flights'[k] = flights[k] /\ flights[k] # i
            BY <1>5, <2>1, <3>1, <4>2 DEF Dispatch, IInv, TypeOK, FlightMap
          <5>2. /\ flights[k] \in ReqIDs /\ pc[flights[k]] \in {"call", "ret"}
                /\ Key(flights[k]) = k
            BY <3>1, <5>1 DEF IInv, FlightMap
          <5>3. pc'[flights[k]] = pc[flights[k]]
            BY <2>1, <5>1, <5>2 DEF IInv, TypeOK
          <5>4. QED
            BY <1>2, <5>1, <5>2, <5>3 DEF Key
        <4>3. QED
          BY <4>1, <4>2
      <3>2. ASSUME NEW j \in ReqIDs, pc'[j] \in {"call", "ret"}
            PROVE  reqs'[j].cmd \in {"put", "get"} /\ flights'[Key(j)'] = j
        <4>1. CASE j = i
          BY <1>1, <1>2, <1>5, <2>1, <4>1 DEF IInv, TypeOK, Key
        <4>2. CASE j # i
          <5>1. pc[j] \in {"call", "ret"}
            BY <2>1, <3>2, <4>2 DEF IInv, TypeOK
          <5>2. reqs[j].cmd \in {"put", "get"} /\ flights[Key(j)] = j
            BY <5>1 DEF IInv, FlightMap
          <5>3. Key(j) \in Keys /\ Key(j) # Key(i)
            BY <1>5, <5>1, <5>2, ServedRequest DEF ReqIDs
          <5>4. QED
            BY <1>2, <2>1, <5>2, <5>3 DEF IInv, TypeOK, Key
        <4>3. QED
          BY <4>1, <4>2
      <3>3. QED
        BY <1>2, <3>1, <3>2 DEF FlightMap, Key
    <2>5. QED
      BY <2>2, <2>3, <2>4 DEF IInv
  <1>6. QED
    BY <1>1, <1>3, <1>4, <1>5

(* fn runs outside g.mu: only the store and the leader's reply change. *)
LEMMA CallBackendIInv ==
  ASSUME IInv, NEW i \in ReqIDs, CallBackend(i)
  PROVE  IInv'
  <1>1. /\ reqs[i] \in Request /\ reqs[i].cmd \in {"put", "get"}
        /\ reqs[i].aid \in ActionIDs /\ reqs[i].oid \in OutputIDs
    BY ServedRequest DEF CallBackend, IInv, FlightMap, Request
  <1>2. store \in [ActionIDs -> OutputOrNone] /\ res \in [ReqIDs -> Reply]
    BY DEF IInv, TypeOK
  <1>3. store' \in [ActionIDs -> OutputOrNone] /\ res' \in [ReqIDs -> Reply]
    <2>1. CASE reqs[i].cmd = "put"
      <3>1. BackendPut(i)
        BY <2>1 DEF CallBackend
      <3>2. NoReply \in Reply /\ ErrReply \in Reply
        BY DEF NoReply, ErrReply, Reply, OutputOrNone
      <3>3. reqs[i].oid \in OutputOrNone /\ NoOutput \in OutputOrNone
        BY <1>1 DEF OutputOrNone
      <3>4. QED
        BY <1>1, <1>2, <3>1, <3>2, <3>3 DEF BackendPut
    <2>2. CASE reqs[i].cmd = "get"
      <3>1. BackendGet(i)
        BY <2>1, <2>2 DEF CallBackend
      <3>2. ErrReply \in Reply
        BY DEF ErrReply, Reply, OutputOrNone
      <3>3. LET e == store[reqs[i].aid]
            IN  [err |-> FALSE, miss |-> e = NoOutput, oid |-> e] \in Reply
        BY <1>1, <1>2 DEF Reply
      <3>4. QED
        BY <1>2, <3>1, <3>2, <3>3 DEF BackendGet
    <2>3. QED
      BY <1>1, <2>1, <2>2
  <1>4. /\ pc' = [pc EXCEPT ![i] = "ret"] /\ pc[i] = "call"
        /\ UNCHANGED <<rd, ret, reqs, readAt, leader, flights, errChan, wbroken, out>>
    BY DEF CallBackend
  <1>5. TypeOK'
    BY <1>3, <1>4 DEF IInv, TypeOK, HandlerStates
  <1>6. QED
    BY <1>4, <1>5, PcLocal DEF IInv, HandlerStates

(* doCall's epilogue: the key leaves the map together with its leader. *)
LEMMA FinishCallIInv ==
  ASSUME IInv, NEW i \in ReqIDs, FinishCall(i)
  PROVE  IInv'
  <1>1. /\ reqs[i].cmd \in {"put", "get"} /\ Key(i) \in Keys
        /\ flights[Key(i)] = i
    BY ServedRequest DEF FinishCall, IInv, FlightMap
  <1>2. /\ pc' = [pc EXCEPT ![i] = "send"] /\ pc[i] = "ret"
        /\ flights' = [flights EXCEPT ![Key(i)] = 0]
        /\ UNCHANGED <<rd, ret, reqs, readAt, leader, res, store, errChan,
                       wbroken, out>>
    BY DEF FinishCall
  <1>3. TypeOK'
    BY <1>1, <1>2 DEF IInv, TypeOK, HandlerStates
  <1>4. Spawned' /\ WaitersHaveLeader'
    BY <1>2 DEF IInv, TypeOK, Spawned, WaitersHaveLeader
  <1>5. FlightMap'
    <2>1. ASSUME NEW k \in Keys, flights'[k] # 0
          PROVE  /\ flights'[k] \in ReqIDs
                 /\ pc'[flights'[k]] \in {"call", "ret"}
                 /\ Key(flights'[k]) = k
      <3>1. k # Key(i) /\ flights'[k] = flights[k]
        BY <1>1, <1>2, <2>1 DEF IInv, TypeOK
      <3>2. /\ flights[k] \in ReqIDs /\ pc[flights[k]] \in {"call", "ret"}
            /\ Key(flights[k]) = k
        BY <2>1, <3>1 DEF IInv, FlightMap
      <3>3. flights[k] # i
        BY <3>1, <3>2
      <3>4. QED
        BY <1>2, <3>1, <3>2, <3>3 DEF IInv, TypeOK
    <2>2. ASSUME NEW j \in ReqIDs, pc'[j] \in {"call", "ret"}
          PROVE  reqs'[j].cmd \in {"put", "get"} /\ flights'[Key(j)'] = j
      <3>1. j # i /\ pc[j] \in {"call", "ret"}
        BY <1>2, <2>2 DEF IInv, TypeOK
      <3>2. reqs[j].cmd \in {"put", "get"} /\ flights[Key(j)] = j
        BY <3>1 DEF IInv, FlightMap
      <3>3. Key(j) # Key(i)
        BY <1>1, <3>1, <3>2
      <3>4. QED
        BY <1>2, <3>2, <3>3 DEF IInv, TypeOK, Key
    <2>3. QED
      BY <1>2, <2>1, <2>2 DEF FlightMap, Key
  <1>6. QED
    BY <1>3, <1>4, <1>5 DEF IInv

(* A woken waiter copies the reply of the leader it recorded. *)
LEMMA WakeWaiterIInv ==
  ASSUME IInv, NEW i \in ReqIDs, WakeWaiter(i)
  PROVE  IInv'
  <1>1. leader[i] \in ReqIDs
    BY DEF WakeWaiter, IInv, WaitersHaveLeader
  <1>2. res[leader[i]] \in Reply
    BY <1>1 DEF IInv, TypeOK
  <1>3. /\ pc' = [pc EXCEPT ![i] = "send"] /\ pc[i] = "wait"
        /\ res' = [res EXCEPT ![i] = res[leader[i]]]
        /\ UNCHANGED <<rd, ret, reqs, readAt, leader, flights, store, errChan,
                       wbroken, out>>
    BY DEF WakeWaiter
  <1>4. TypeOK'
    BY <1>2, <1>3 DEF IInv, TypeOK, HandlerStates
  <1>5. QED
    BY <1>3, <1>4, PcLocal DEF IInv, HandlerStates

(* SendResponse and wg.Done(): the goroutine ends, written or lost. *)
LEMMA SendReplyIInv ==
  ASSUME IInv, NEW i \in ReqIDs, SendReply(i)
  PROVE  IInv'
  <1>1. ResponseTo(i) \in Response
    <2>1. res[i] \in Reply /\ i \in 0..MaxReqs
      BY DEF IInv, TypeOK, ReqIDs
    <2>2. QED
      BY <2>1, ResponseType DEF ResponseTo, Reply
  <1>2. out' \in Seq(Response) /\ wbroken' \in BOOLEAN
    BY <1>1, WriteType DEF SendReply
  <1>3. PICK s \in {"done", "lost"} :
          /\ pc' = [pc EXCEPT ![i] = s] /\ errChan' \in BOOLEAN
    <2>1. errChan \in BOOLEAN
      BY DEF IInv, TypeOK
    <2>2. CASE Write(ResponseTo(i)) /\ pc' = [pc EXCEPT ![i] = "done"]
                                   /\ UNCHANGED errChan
      BY <2>1, <2>2
    <2>3. CASE WriteFails /\ pc' = [pc EXCEPT ![i] = "lost"] /\ errChan' = TRUE
      BY <2>3
    <2>4. QED
      BY <2>2, <2>3 DEF SendReply
  <1>4. /\ pc[i] = "send"
        /\ UNCHANGED <<rd, ret, reqs, readAt, leader, flights, res, store>>
    BY DEF SendReply
  <1>5. TypeOK'
    BY <1>2, <1>3, <1>4 DEF IInv, TypeOK, HandlerStates
  <1>6. QED
    BY <1>3, <1>4, <1>5, PcLocal DEF IInv, HandlerStates

LEMMA NextIInv == IInv /\ [Next]_vars => IInv'
  <1> SUFFICES ASSUME IInv, [Next]_vars PROVE IInv'
    OBVIOUS
  <1>1. CASE RunStep
    BY <1>1, HandshakeIInv, PollIInv, HandleCloseIInv, FinalIInv DEF RunStep
  <1>2. CASE PeerInput
    BY <1>2, FinalIInv, ReadRequestIInv DEF PeerInput
  <1>3. CASE \E i \in ReqIDs : Handler(i)
    BY <1>3, DispatchIInv, CallBackendIInv, FinishCallIInv, WakeWaiterIInv,
       SendReplyIInv DEF Handler
  <1>4. CASE Exited
    BY <1>4, FinalIInv
  <1>5. CASE UNCHANGED vars
    BY <1>5 DEF vars, IInv, TypeOK, Spawned, WaitersHaveLeader, FlightMap, Key
  <1>6. QED
    BY <1>1, <1>2, <1>3, <1>4, <1>5 DEF Next

-----------------------------------------------------------------------------
(* The broker's variables always have the types TypeOK gives them, for     *)
(* any sets of IDs, any request bound and any failure settings: in         *)
(* particular a waiter always copies the reply of a real request and a     *)
(* goroutine always serves a request that Run read.                        *)
THEOREM TypeCorrect == Spec => []TypeOK
  <1>1. IInv => TypeOK
    BY DEF IInv
  <1>2. QED
    BY InitIInv, NextIInv, <1>1, PTL DEF Spec

(* singleflight.Do as HandleRequest uses it never lets two goroutines hold *)
(* a call of the same "<cmd>:<actionID>" key at once (from the insertion   *)
(* into g.m to its deletion), for any number of requests and action IDs.   *)
THEOREM SingleFlightHolds == Spec => []SingleFlight
  <1>1. IInv => SingleFlight
    BY DEF IInv, FlightMap, SingleFlight
  <1>2. QED
    BY InitIInv, NextIInv, <1>1, PTL DEF Spec

=============================================================================
