------------------------------- MODULE FSLock -------------------------------
(***************************************************************************)
(* The cross-process dedupe groups of src/dedupe: FSLockGroup.Do          *)
(* (fslock.go) and NoOpGroup.Do / DoWithLock (noop.go), called by the     *)
(* goroutines of several gobuildcache processes that share one lock       *)
(* directory.                                                             *)
(*                                                                         *)
(* FSLockGroup.Do opens the lock file of the key (flock.New), and calls   *)
(* TryLockContext with a one second deadline and a 10ms retry delay.      *)
(* gofrs/flock's TryLockContext tries the non-blocking flock(2); when the *)
(* file is locked it sleeps 10ms unless the context is done, in which     *)
(* case it returns (false, ctx.Err()).  Time is counted per caller in     *)
(* retries: MaxPolls retries make up the deadline.  fn runs under the     *)
(* lock, and the deferred Unlock releases it on every exit path.  A       *)
(* process that dies loses its locks with its file descriptors.           *)
(***************************************************************************)
EXTENDS Naturals

CONSTANTS
    Procs,        \* processes sharing the lock directory
    Slots,        \* goroutines per process that call Do
    Keys,         \* dedupe keys
    NoOwner,      \* no caller holds the lock file of a key
    Group,        \* "fslock" (FSLockGroup) or "noop" (NoOpGroup)
    MaxPolls,     \* retries of TryLock that fit before the deadline
    MaxCalls,     \* bound on the calls of Do per goroutine
    LockMayFail   \* whether opening or locking the lock file may fail

Callers == Procs \X Slots

ASSUME FSLockAssumption ==
    /\ Group \in {"fslock", "noop"}
    /\ MaxPolls \in Nat
    /\ MaxCalls \in Nat
    /\ LockMayFail \in BOOLEAN
    /\ NoOwner \notin Callers

VARIABLES
    pc,       \* pc[c]: "idle", "trying" (in TryLockContext) or "running" (in fn)
    key,      \* key[c]: the key of c's current or last call
    waited,   \* waited[c]: retries c has slept in its current TryLockContext
    holder,   \* holder[k]: the caller holding the flock of k's lock file
    result,   \* result[c]: what c's last Do returned
    calls     \* calls[c]: how many times c called Do

vars == <<pc, key, waited, holder, result, calls>>

Results == {"none", "ok", "fnErr", "lockErr", "ctxErr"}

TypeOK ==
    /\ pc \in [Callers -> {"idle", "trying", "running"}]
    /\ key \in [Callers -> Keys]
    /\ waited \in [Callers -> 0..MaxPolls]
    /\ holder \in [Keys -> Callers \cup {NoOwner}]
    /\ result \in [Callers -> Results]
    /\ calls \in [Callers -> 0..MaxCalls]

Init ==
    /\ pc = [c \in Callers |-> "idle"]
    /\ key \in [Callers -> Keys]
    /\ waited = [c \in Callers |-> 0]
    /\ holder = [k \in Keys |-> NoOwner]
    /\ result = [c \in Callers |-> "none"]
    /\ calls = [c \in Callers |-> 0]

-----------------------------------------------------------------------------
(* Where Do goes first: FSLockGroup.Do tries the lock; NoOpGroup.Do (and *)
(* DoWithLock) call fn at once.                                          *)
DoEntry == IF Group = "fslock" THEN "trying" ELSE "running"

(* Do(k, fn).  FSLockGroup: flock.New, WithTimeout, then TryLockContext.   *)
(* NoOpGroup: fn runs at once.                                             *)
Call(c, k) ==
    /\ pc[c] = "idle"
    /\ calls[c] < MaxCalls
    /\ pc' = [pc EXCEPT ![c] = DoEntry]
    /\ key' = [key EXCEPT ![c] = k]
    /\ waited' = [waited EXCEPT ![c] = 0]
    /\ calls' = [calls EXCEPT ![c] = @ + 1]
    /\ UNCHANGED <<holder, result>>

(* Mutant: the lock is taken whether or not another caller holds it. *)
TryLockNoCheck(c) ==
    LET k == key[c] IN
    /\ pc[c] = "trying"
    /\ holder' = [holder EXCEPT ![k] = c]
    /\ pc' = [pc EXCEPT ![c] = "running"]
    /\ UNCHANGED <<key, waited, result, calls>>

(* Mutant: TryLock retried with no deadline. *)
TryLockNoDeadline(c) ==
    LET k == key[c] IN
    /\ pc[c] = "trying"
    /\ \/ /\ holder[k] = NoOwner
          /\ holder' = [holder EXCEPT ![k] = c]
          /\ pc' = [pc EXCEPT ![c] = "running"]
          /\ UNCHANGED <<waited, result>>
       \/ /\ holder[k] # NoOwner
          /\ UNCHANGED <<pc, holder, waited, result>>
    /\ UNCHANGED <<key, calls>>

(* One round of TryLockContext: flock succeeds; or the file is locked and *)
(* c sleeps 10ms; or the context is done and Do returns                   *)
(* "failed to acquire lock: <ctx.Err()>"; or open/flock fails.            *)
TryLock(c) ==
    LET k == key[c] IN
    /\ pc[c] = "trying"
    /\ \/ /\ holder[k] = NoOwner
          /\ holder' = [holder EXCEPT ![k] = c]
          /\ pc' = [pc EXCEPT ![c] = "running"]
          /\ UNCHANGED <<waited, result>>
       \/ /\ holder[k] # NoOwner
          /\ waited[c] < MaxPolls
          /\ waited' = [waited EXCEPT ![c] = @ + 1]
          /\ UNCHANGED <<pc, holder, result>>
       \/ /\ holder[k] # NoOwner
          /\ waited[c] = MaxPolls
          /\ pc' = [pc EXCEPT ![c] = "idle"]
          /\ result' = [result EXCEPT ![c] = "ctxErr"]
          /\ UNCHANGED <<holder, waited>>
       \/ /\ LockMayFail
          /\ pc' = [pc EXCEPT ![c] = "idle"]
          /\ result' = [result EXCEPT ![c] = "lockErr"]
          /\ UNCHANGED <<holder, waited>>
    /\ UNCHANGED <<key, calls>>

(* Release the lock of c's key if c holds it (the deferred Unlock). *)
Release(c) ==
    holder' = [k \in Keys |-> IF holder[k] = c THEN NoOwner ELSE holder[k]]

(* Mutant: the lock is released only when fn succeeds (no defer). *)
FinishLeakOnErr(c) ==
    /\ pc[c] = "running"
    /\ \E r \in {"ok", "fnErr"} :
         /\ result' = [result EXCEPT ![c] = r]
         /\ IF r = "ok" THEN Release(c) ELSE UNCHANGED holder
    /\ pc' = [pc EXCEPT ![c] = "idle"]
    /\ UNCHANGED <<key, waited, calls>>

(* fn returns (v, err); Do returns them and the deferred Unlock runs. *)
Finish(c) ==
    /\ pc[c] = "running"
    /\ \E r \in {"ok", "fnErr"} : result' = [result EXCEPT ![c] = r]
    /\ Release(c)
    /\ pc' = [pc EXCEPT ![c] = "idle"]
    /\ UNCHANGED <<key, waited, calls>>

(* Process p dies: its goroutines stop and the kernel drops its flocks. *)
(* A new process takes its place with no call in progress.              *)
Crash(p) ==
    LET Dead == {p} \X Slots IN
    /\ \E c \in Dead : pc[c] # "idle"
    /\ pc' = [c \in Callers |-> IF c \in Dead THEN "idle" ELSE pc[c]]
    /\ holder' = [k \in Keys |-> IF holder[k] \in Dead THEN NoOwner ELSE holder[k]]
    /\ UNCHANGED <<key, waited, result, calls>>

Next ==
    \/ \E c \in Callers, k \in Keys : Call(c, k)
    \/ \E c \in Callers : TryLock(c) \/ Finish(c)
    \/ \E p \in Procs : Crash(p)

(* The Go scheduler runs a goroutine that is retrying.  fn (a backend     *)
(* call) has no deadline and may never return; callers and crashes are    *)
(* the environment.                                                       *)
Fairness == \A c \in Callers : WF_vars(TryLock(c))

Spec == Init /\ [][Next]_vars /\ Fairness

-----------------------------------------------------------------------------
(* Properties.                                                             *)

(* Spec 8: backend operations for one key are totally ordered across the  *)
(* processes sharing the lock directory: no two goroutines, of the same  *)
(* process or not, run fn for the same key at once.                      *)
MutualExclusion ==
    \A c, d \in Callers :
        /\ c # d
        /\ pc[c] = "running" /\ pc[d] = "running"
        => key[c] # key[d]

(* Spec 4.5: the lock is released on every exit path of Do.  A lock file *)
(* is held only by a goroutine that is running fn for that key.         *)
LockHeldOnlyInFn ==
    \A k \in Keys :
        holder[k] # NoOwner =>
            /\ pc[holder[k]] = "running"
            /\ key[holder[k]] = k

(* Spec 4.4/4.5: a waiter is never left hanging: a goroutine waiting for *)
(* a lock returns, with the lock or an error, even if the holder's fn    *)
(* never returns.                                                        *)
WaitersReturn ==
    \A c \in Callers : pc[c] = "trying" ~> pc[c] # "trying"

(* FSLockGroup implements the lock-group specification: retries are     *)
(* stuttering steps of it.                                               *)
(* The refinement mapping: a caller in TryLockContext is waiting. *)
absPc == [c \in Callers |-> IF pc[c] = "trying" THEN "waiting" ELSE pc[c]]

LG == INSTANCE LockGroup WITH apc <- absPc, aowner <- holder

ImplementsLockGroup == LG!ASpec
=============================================================================
