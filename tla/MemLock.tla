------------------------------ MODULE MemLock ------------------------------
(***************************************************************************)
(* MemLock.DoWithLock (src/unnamed/part_006), the dedupe group that        *)
(* createDedupeGroup returns for the default type "memory": a mutex       *)
(* guards a map from key to a per-key mutex, created on first use; fn     *)
(* runs under the key's mutex.  NewMemLock returns &MemLock{}, whose map  *)
(* is nil.  In Go, reading a nil map yields the zero value and assigning  *)
(* to it panics; a panic that no goroutine recovers ends the process.     *)
(***************************************************************************)
EXTENDS Naturals

CONSTANTS
    Callers,   \* goroutines calling DoWithLock
    Keys,      \* dedupe keys
    NoOwner,   \* a mutex nobody holds
    MaxCalls   \* bound on the calls of each goroutine

(* MaxCalls is a natural and NoOwner not a caller. *)

VARIABLES
    pc,        \* pc[c]: "idle", "lookup" (holds s.Mutex), "lockKey", "fn"
    key,       \* key[c]: the key of c's call
    mu,        \* the holder of s.Mutex
    isNil,     \* s.locks is the nil map
    locks,     \* the keys that have a mutex in s.locks
    keyLock,   \* keyLock[k]: the holder of k's mutex
    panicked,  \* the process died of a panic
    calls      \* calls[c]: calls made by c

vars == <<pc, key, mu, isNil, locks, keyLock, panicked, calls>>

TypeOK ==
    /\ pc \in [Callers -> {"idle", "lookup", "lockKey", "fn"}]
    /\ key \in [Callers -> Keys]
    /\ mu \in Callers \cup {NoOwner}
    /\ isNil \in BOOLEAN
    /\ locks \in SUBSET Keys
    /\ keyLock \in [Keys -> Callers \cup {NoOwner}]
    /\ panicked \in BOOLEAN
    /\ calls \in [Callers -> 0..MaxCalls]

(* NewMemLock: &MemLock{}, with no map. *)
Init ==
    /\ pc = [c \in Callers |-> "idle"]
    /\ key \in [Callers -> Keys]
    /\ mu = NoOwner
    /\ isNil = TRUE
    /\ locks = {}
    /\ keyLock = [k \in Keys |-> NoOwner]
    /\ panicked = FALSE
    /\ calls = [c \in Callers |-> 0]

(* DoWithLock(k, fn): s.Lock(). *)
Call(c, k) ==
    /\ ~panicked
    /\ pc[c] = "idle" /\ calls[c] < MaxCalls /\ mu = NoOwner
    /\ mu' = c
    /\ key' = [key EXCEPT ![c] = k]
    /\ calls' = [calls EXCEPT ![c] = @ + 1]
    /\ pc' = [pc EXCEPT ![c] = "lookup"]
    /\ UNCHANGED <<isNil, locks, keyLock, panicked>>

(* lock, ok := s.locks[key]; on a miss a new mutex is stored with        *)
(* s.locks[key] = lock, which panics on the nil map; then s.Unlock().    *)
Lookup(c) ==
    /\ ~panicked
    /\ pc[c] = "lookup"
    /\ IF ~isNil
          THEN /\ locks' = locks \cup {key[c]}
               /\ mu' = NoOwner
               /\ pc' = [pc EXCEPT ![c] = "lockKey"]
               /\ UNCHANGED panicked
          ELSE /\ panicked' = TRUE
               /\ UNCHANGED <<locks, mu, pc>>
    /\ UNCHANGED <<key, isNil, keyLock, calls>>

(* lock.Lock(). *)
LockKey(c) ==
    /\ ~panicked
    /\ pc[c] = "lockKey" /\ keyLock[key[c]] = NoOwner
    /\ keyLock' = [keyLock EXCEPT ![key[c]] = c]
    /\ pc' = [pc EXCEPT ![c] = "fn"]
    /\ UNCHANGED <<key, mu, isNil, locks, panicked, calls>>

(* fn returns and the deferred lock.Unlock() runs. *)
Finish(c) ==
    /\ ~panicked
    /\ pc[c] = "fn"
    /\ keyLock' = [keyLock EXCEPT ![key[c]] = NoOwner]
    /\ pc' = [pc EXCEPT ![c] = "idle"]
    /\ UNCHANGED <<key, mu, isNil, locks, panicked, calls>>

Next ==
    \/ \E c \in Callers, k \in Keys : Call(c, k)
    \/ \E c \in Callers : Lookup(c) \/ LockKey(c) \/ Finish(c)

Spec == Init /\ [][Next]_vars

(* Spec 4.5 and the Locker interface: DoWithLock runs fn under a lock for *)
(* its key and returns its result.  The default dedupe group never takes *)
(* the process down: no call of DoWithLock panics.                        *)
NoPanic == ~panicked
=============================================================================
