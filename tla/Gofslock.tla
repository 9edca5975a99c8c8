------------------------------ MODULE Gofslock ------------------------------
(***************************************************************************)
(* GofslockGroup.Do (src/unnamed/part_009): in each process a map under   *)
(* g.mu from key to the call in flight, whose waiters block on call.done  *)
(* and return call.result and call.err; the leader takes the key's lock   *)
(* file with juju/fslock's blocking Lock, runs fn, unlocks, deletes the    *)
(* key and closes done.  Lock files exclude every descriptor, so two      *)
(* leaders of one process or of two exclude each other.                  *)
(*                                                                         *)
(* A waiter's return values are fixed when the leader closes done, so the *)
(* close returns every waiter of the call at once.                        *)
(***************************************************************************)
EXTENDS Naturals

CONSTANTS
    Procs,        \* processes sharing the lock directory
    Slots,        \* goroutines per process that call Do
    Keys,         \* dedupe keys
    NoCall,       \* no caller: no call in flight, or nobody holds the lock file
    MaxCalls,     \* bound on the calls of each goroutine
    LockMayFail   \* whether fslock's Lock may return an error

Callers == Procs \X Slots

(* MaxCalls is a natural, LockMayFail a Boolean, NoCall not a caller. *)

(* What Do returns: fn's value and error, the lock error, or the (nil,   *)
(* nil) of a call whose result was never set.                             *)
Returns == {"none", "ok", "fnErr", "lockErr", "nilNil"}

VARIABLES
    pc,       \* pc[c]: "idle", "waiting" (on call.done), "locking" (in Lock), "running" (in fn),
              \* "unlocked" (lock file released, call not yet deleted)
    key,      \* key[c]: the key of c's call
    leader,   \* leader[c]: the call c waits on, as the caller leading it
    calls,    \* calls[p][k]: the leader of p's call in flight for k, or NoCall
    holder,   \* holder[k]: the leader holding k's lock file, or NoCall
    ret,      \* ret[c]: what c's last Do returned
    shared,   \* shared[c]: c's last Do returned shared = true
    n         \* n[c]: calls made by c

vars == <<pc, key, leader, calls, holder, ret, shared, n>>

TypeOK ==
    /\ pc \in [Callers -> {"idle", "waiting", "locking", "running", "unlocked"}]
    /\ key \in [Callers -> Keys]
    /\ leader \in [Callers -> Callers \cup {NoCall}]
    /\ calls \in [Procs -> [Keys -> Callers \cup {NoCall}]]
    /\ holder \in [Keys -> Callers \cup {NoCall}]
    /\ ret \in [Callers -> Returns]
    /\ shared \in [Callers -> BOOLEAN]
    /\ n \in [Callers -> 0..MaxCalls]

(* NewGofslockGroup: an empty map in every process. *)
Init ==
    /\ pc = [c \in Callers |-> "idle"]
    /\ key \in [Callers -> Keys]
    /\ leader = [c \in Callers |-> NoCall]
    /\ calls = [p \in Procs |-> [k \in Keys |-> NoCall]]
    /\ holder = [k \in Keys |-> NoCall]
    /\ ret = [c \in Callers |-> "none"]
    /\ shared = [c \in Callers |-> FALSE]
    /\ n = [c \in Callers |-> 0]

-----------------------------------------------------------------------------
(* Do(k, fn) under g.mu: join the call in flight for k, or record a new  *)
(* call and go to the lock.                                               *)
Call(c, k) ==
    LET p == c[1] IN
    /\ pc[c] = "idle" /\ n[c] < MaxCalls
    /\ n' = [n EXCEPT ![c] = @ + 1]
    /\ key' = [key EXCEPT ![c] = k]
    /\ IF calls[p][k] # NoCall
          THEN /\ pc' = [pc EXCEPT ![c] = "waiting"]
               /\ leader' = [leader EXCEPT ![c] = calls[p][k]]
               /\ UNCHANGED calls
          ELSE /\ pc' = [pc EXCEPT ![c] = "locking"]
               /\ calls' = [calls EXCEPT ![p][k] = c]
               /\ leader' = [leader EXCEPT ![c] = NoCall]
    /\ UNCHANGED <<holder, ret, shared>>

(* The leader l ends its call with (v, err) for itself and (wv, werr) for *)
(* the waiters: g.mu, delete(g.calls, key), close(call.done).             *)
EndCall(l, own, forWaiters) ==
    LET p == l[1]
        W == {c \in Callers : pc[c] = "waiting" /\ leader[c] = l}
    IN
    /\ calls' = [calls EXCEPT ![p][key[l]] = NoCall]
    /\ pc' = [c \in Callers |-> IF c \in W \cup {l} THEN "idle" ELSE pc[c]]
    /\ ret' = [c \in Callers |-> IF c = l THEN own
                                 ELSE IF c \in W THEN forWaiters ELSE ret[c]]
    /\ shared' = [c \in Callers |-> IF c = l THEN FALSE
                                    ELSE IF c \in W THEN TRUE ELSE shared[c]]

(* lock.Lock() blocks until the lock file is free and takes it, or fails: *)
(* then the key is deleted and done closed, with call.result and call.err *)
(* never set.                                                             *)
Lock(c) ==
    /\ pc[c] = "locking"
    /\ \/ /\ holder[key[c]] = NoCall
          /\ holder' = [holder EXCEPT ![key[c]] = c]
          /\ pc' = [pc EXCEPT ![c] = "running"]
          /\ UNCHANGED <<calls, ret, shared>>
       \/ /\ LockMayFail
          /\ EndCall(c, "lockErr", "nilNil")
          /\ UNCHANGED holder
    /\ UNCHANGED <<key, leader, n>>

(* call.result, call.err = fn(); lock.Unlock().  The result is kept in *)
(* ret until the call is closed.                                          *)
Finish(c) ==
    /\ pc[c] = "running"
    /\ \E r \in {"ok", "fnErr"} : ret' = [ret EXCEPT ![c] = r]
    /\ holder' = [holder EXCEPT ![key[c]] = NoCall]
    /\ pc' = [pc EXCEPT ![c] = "unlocked"]
    /\ UNCHANGED <<key, leader, calls, shared, n>>

(* delete(g.calls, key) under g.mu; close(call.done): every waiter       *)
(* returns call.result and call.err.                                      *)
Close(c) ==
    /\ pc[c] = "unlocked"
    /\ EndCall(c, ret[c], ret[c])
    /\ UNCHANGED <<holder, key, leader, n>>

Next ==
    \/ \E c \in Callers, k \in Keys : Call(c, k)
    \/ \E c \in Callers : Lock(c) \/ Finish(c) \/ Close(c)

Spec == Init /\ [][Next]_vars

-----------------------------------------------------------------------------
(* Properties.                                                             *)

(* part_009:16 and spec 4.4: waiters share the result of the execution   *)
(* they waited on; a waiter never returns (nil, nil) when the leader      *)
(* failed.                                                                *)
WaitersShareLeaderResult ==
    \A c \in Callers : shared[c] => ret[c] # "nilNil"
=============================================================================
