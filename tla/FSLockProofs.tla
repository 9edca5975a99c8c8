---------------------------- MODULE FSLockProofs ----------------------------
(***************************************************************************)
(* Proofs about FSLock for every value of the constants: type             *)
(* correctness; with the FSLockGroup (Group = "fslock"), mutual exclusion  *)
(* per key across goroutines and processes, and that FSLock implements    *)
(* the lock-group specification LockGroup.                                *)
(***************************************************************************)
EXTENDS FSLock, TLAPS

USE FSLockAssumption

(* Under the FSLockGroup, a goroutine running fn holds its key's lock. *)
RunningHolds ==
    \A c \in Callers : pc[c] = "running" => holder[key[c]] = c

(* The inductive invariant. *)
IInv == TypeOK /\ LockHeldOnlyInFn /\ RunningHolds

-----------------------------------------------------------------------------
(* Type correctness (any Group).                                           *)

LEMMA InitTypeOK == Init => TypeOK
  <1> SUFFICES ASSUME Init PROVE TypeOK
    OBVIOUS
  <1>1. 0 \in 0..MaxPolls /\ 0 \in 0..MaxCalls
    OBVIOUS
  <1>2. "none" \in Results
    BY DEF Results
  <1>3. QED
    BY <1>1, <1>2 DEF Init, TypeOK

LEMMA NextTypeOK == TypeOK /\ [Next]_vars => TypeOK'
  <1> SUFFICES ASSUME TypeOK, [Next]_vars PROVE TypeOK'
    OBVIOUS
  <1>1. ASSUME NEW c \in Callers, NEW k \in Keys, Call(c, k) PROVE TypeOK'
    BY <1>1 DEF Call, DoEntry, TypeOK
  <1>2. ASSUME NEW c \in Callers, TryLock(c) PROVE TypeOK'
    <2> DEFINE k == key[c]
    <2>1. k \in Keys
      BY DEF TypeOK
    <2>2. {"ctxErr", "lockErr"} \subseteq Results
      BY DEF Results
    <2>3. CASE holder[k] = NoOwner /\ holder' = [holder EXCEPT ![k] = c]
                /\ pc' = [pc EXCEPT ![c] = "running"] /\ UNCHANGED <<waited, result>>
      BY <1>2, <2>1, <2>3 DEF TryLock, TypeOK
    <2>4. CASE waited[c] < MaxPolls /\ waited' = [waited EXCEPT ![c] = @ + 1]
               /\ UNCHANGED <<pc, holder, result>>
      BY <1>2, <2>4 DEF TryLock, TypeOK
    <2>5. CASE pc' = [pc EXCEPT ![c] = "idle"] /\ UNCHANGED <<holder, waited>>
               /\ result' \in {[result EXCEPT ![c] = "ctxErr"], [result EXCEPT ![c] = "lockErr"]}
      BY <1>2, <2>2, <2>5 DEF TryLock, TypeOK
    <2>6. QED
      BY <1>2, <2>3, <2>4, <2>5 DEF TryLock
  <1>3. ASSUME NEW c \in Callers, Finish(c) PROVE TypeOK'
    <2>1. {"ok", "fnErr"} \subseteq Results
      BY DEF Results
    <2>2. holder' \in [Keys -> Callers \cup {NoOwner}]
      BY <1>3 DEF Finish, Release, TypeOK
    <2>3. QED
      BY <1>3, <2>1, <2>2 DEF Finish, TypeOK
  <1>4. ASSUME NEW p \in Procs, Crash(p) PROVE TypeOK'
    BY <1>4 DEF Crash, TypeOK, Callers
  <1>5. CASE UNCHANGED vars
    BY <1>5 DEF vars, TypeOK
  <1>6. QED
    BY <1>1, <1>2, <1>3, <1>4, <1>5 DEF Next

(* TypeOK holds in every reachable state. *)
THEOREM FSLockTypeCorrect == Spec => []TypeOK
  BY InitTypeOK, NextTypeOK, PTL DEF Spec

-----------------------------------------------------------------------------
(* The invariant under the FSLockGroup.                                    *)

LEMMA InitIInv == Init => IInv
  BY InitTypeOK DEF Init, IInv, LockHeldOnlyInFn, RunningHolds

LEMMA NextIInv ==
    ASSUME Group = "fslock"
    PROVE  IInv /\ [Next]_vars => IInv'
  <1> SUFFICES ASSUME IInv, [Next]_vars PROVE IInv'
    OBVIOUS
  <1>0. TypeOK'
    BY NextTypeOK DEF IInv
  <1>1. ASSUME NEW c \in Callers, NEW k \in Keys, Call(c, k) PROVE IInv'
    <2>1. pc'[c] = "trying" /\ pc[c] = "idle"
      BY <1>1 DEF Call, DoEntry, IInv, TypeOK
    <2>2. c \notin {holder[j] : j \in Keys}
      BY <2>1 DEF IInv, LockHeldOnlyInFn
    <2>3. LockHeldOnlyInFn'
      BY <1>1, <2>1, <2>2 DEF Call, IInv, TypeOK, LockHeldOnlyInFn
    <2>4. RunningHolds'
      BY <1>1, <2>1 DEF Call, IInv, TypeOK, RunningHolds
    <2>5. QED
      BY <1>0, <2>3, <2>4 DEF IInv
  <1>2. ASSUME NEW c \in Callers, TryLock(c) PROVE IInv'
    <2>1. pc[c] = "trying"
      BY <1>2 DEF TryLock
    <2>2. c \notin {holder[j] : j \in Keys}
      BY <2>1 DEF IInv, LockHeldOnlyInFn
    <2>3. LockHeldOnlyInFn'
      BY <1>2, <2>1, <2>2 DEF TryLock, IInv, TypeOK, LockHeldOnlyInFn
    <2>4. RunningHolds'
      BY <1>2, <2>1 DEF TryLock, IInv, TypeOK, RunningHolds, LockHeldOnlyInFn
    <2>5. QED
      BY <1>0, <2>3, <2>4 DEF IInv
  <1>3. ASSUME NEW c \in Callers, Finish(c) PROVE IInv'
    <2>1. LockHeldOnlyInFn'
      BY <1>3 DEF Finish, Release, IInv, TypeOK, LockHeldOnlyInFn
    <2>2. RunningHolds'
      BY <1>3 DEF Finish, Release, IInv, TypeOK, RunningHolds
    <2>3. QED
      BY <1>0, <2>1, <2>2 DEF IInv
  <1>4. ASSUME NEW p \in Procs, Crash(p) PROVE IInv'
    <2>1. LockHeldOnlyInFn'
      BY <1>4 DEF Crash, IInv, TypeOK, LockHeldOnlyInFn
    <2>2. RunningHolds'
      BY <1>4 DEF Crash, IInv, TypeOK, RunningHolds
    <2>3. QED
      BY <1>0, <2>1, <2>2 DEF IInv
  <1>5. CASE UNCHANGED vars
    BY <1>5 DEF vars, IInv, LockHeldOnlyInFn, RunningHolds, TypeOK
  <1>6. QED
    BY <1>1, <1>2, <1>3, <1>4, <1>5 DEF Next

(* The FSLockGroup keeps lock files held only by goroutines running fn    *)
(* for that key (spec 4.5, release on every exit path).                   *)
THEOREM LockHeldOnlyInFnHolds ==
    ASSUME Group = "fslock"
    PROVE  Spec => []LockHeldOnlyInFn
  <1>1. IInv => LockHeldOnlyInFn
    BY DEF IInv
  <1>2. QED
    BY InitIInv, NextIInv, <1>1, PTL DEF Spec

(* The FSLockGroup serialises fn per key across all goroutines and        *)
(* processes (spec 8).                                                    *)
THEOREM MutualExclusionHolds ==
    ASSUME Group = "fslock"
    PROVE  Spec => []MutualExclusion
  <1>1. IInv => MutualExclusion
    BY DEF IInv, MutualExclusion, RunningHolds, TypeOK
  <1>2. QED
    BY InitIInv, NextIInv, <1>1, PTL DEF Spec
-----------------------------------------------------------------------------
(* Refinement: the mapping absPc, holder takes the initial states of      *)
(* FSLock to initial states of LockGroup, and every step to a LockGroup   *)
(* step or a stutter.                                                     *)

LEMMA InitRefines == Init => LG!AInit
  BY DEF Init, LG!AInit, absPc

LEMMA NextRefines ==
    ASSUME Group = "fslock"
    PROVE  IInv /\ [Next]_vars => [LG!ANext]_LG!avars
  <1> SUFFICES ASSUME IInv, [Next]_vars PROVE [LG!ANext]_LG!avars
    OBVIOUS
  <1>0. absPc \in [Callers -> {"idle", "waiting", "running"}]
    BY DEF absPc, IInv, TypeOK
  <1>1. ASSUME NEW c \in Callers, NEW k \in Keys, Call(c, k) PROVE LG!ANext
    <2>1. absPc[c] = "idle" /\ absPc' = [absPc EXCEPT ![c] = "waiting"]
      BY <1>1 DEF Call, DoEntry, absPc, IInv, TypeOK
    <2>2. LG!ACall(c)
      BY <1>1, <2>1 DEF Call, LG!ACall
    <2>3. QED
      BY <2>2, Zenon DEF LG!ANext
  <1>2. ASSUME NEW c \in Callers, TryLock(c) PROVE [LG!ANext]_LG!avars
    <2> DEFINE k == key[c]
    <2>0. k \in Keys /\ absPc[c] = "waiting"
      BY <1>2 DEF TryLock, absPc, IInv, TypeOK
    <2>1. CASE holder[k] = NoOwner /\ holder' = [holder EXCEPT ![k] = c]
                /\ pc' = [pc EXCEPT ![c] = "running"]
      <3>1. absPc' = [absPc EXCEPT ![c] = "running"]
        BY <2>1 DEF absPc, IInv, TypeOK
      <3>2. LG!AEnter(c, k)
        BY <2>0, <2>1, <3>1 DEF LG!AEnter
      <3>3. QED
        BY <2>0, <3>2, Zenon DEF LG!ANext
    <2>2. CASE UNCHANGED <<pc, holder>>
      BY <2>2 DEF LG!avars, absPc
    <2>3. CASE pc' = [pc EXCEPT ![c] = "idle"] /\ UNCHANGED holder
      <3>1. absPc' = [absPc EXCEPT ![c] = "idle"]
        BY <2>3 DEF absPc, IInv, TypeOK
      <3>2. LG!AFail(c)
        BY <2>0, <2>3, <3>1 DEF LG!AFail
      <3>3. QED
        BY <3>2 DEF LG!ANext
    <2>4. QED
      BY <1>2, <2>1, <2>2, <2>3 DEF TryLock
  <1>3. ASSUME NEW c \in Callers, Finish(c) PROVE LG!ANext
    <2> DEFINE k == key[c]
    <2>1. pc[c] = "running" /\ holder[k] = c /\ k \in Keys
      BY <1>3 DEF Finish, IInv, RunningHolds, TypeOK
    <2>2. holder' = [holder EXCEPT ![k] = NoOwner]
      BY <1>3, <2>1 DEF Finish, Release, IInv, TypeOK, LockHeldOnlyInFn
    <2>3. absPc[c] = "running" /\ absPc' = [absPc EXCEPT ![c] = "idle"]
      BY <1>3, <2>1 DEF Finish, absPc, IInv, TypeOK
    <2>4. LG!AFinish(c, k)
      BY <2>1, <2>2, <2>3 DEF LG!AFinish
    <2>5. QED
      BY <2>1, <2>4, Zenon DEF LG!ANext
  <1>4. ASSUME NEW p \in Procs, Crash(p) PROVE LG!ANext
    <2>1. absPc' = [c \in Callers |-> IF c \in {p} \X Slots THEN "idle" ELSE absPc[c]]
      BY <1>4 DEF Crash, absPc, IInv, TypeOK
    <2>2. LG!ACrash({p} \X Slots)
      BY <1>4, <2>1 DEF Crash, LG!ACrash
    <2>3. {p} \X Slots \in SUBSET Callers
      BY DEF Callers
    <2>4. QED
      BY <2>2, <2>3, Zenon DEF LG!ANext
  <1>5. CASE UNCHANGED vars
    BY <1>5 DEF vars, LG!avars, absPc
  <1>6. QED
    BY <1>1, <1>2, <1>3, <1>4, <1>5, Zenon DEF Next, LG!ANext, LG!avars

(* The FSLockGroup implements the lock-group specification: FSLock's     *)
(* behaviours, seen through absPc and holder, are LockGroup behaviours.   *)
THEOREM FSLockImplementsLockGroup ==
    ASSUME Group = "fslock"
    PROVE  Spec => ImplementsLockGroup
  <1>1. []IInv /\ [][Next]_vars => [][LG!ANext]_LG!avars
    BY NextRefines, PTL
  <1>2. Spec => []IInv
    BY InitIInv, NextIInv, PTL DEF Spec
  <1>3. QED
    BY <1>1, <1>2, InitRefines, PTL DEF Spec, ImplementsLockGroup, LG!ASpec
=============================================================================
