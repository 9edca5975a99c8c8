----------------------------- MODULE LockGroup -----------------------------
(***************************************************************************)
(* What a dedupe group promises its callers (spec 4.5): a call of Do for  *)
(* key k either runs fn while no other call for k runs fn, or fails       *)
(* without running it.  Results are not shared: every caller that gets    *)
(* in runs fn itself.  A process crash ends the calls of its goroutines.  *)
(* FSLock refines this specification.                                     *)
(***************************************************************************)
CONSTANTS
    Callers,   \* the goroutines that may call Do, in every process
    Keys,      \* dedupe keys ("put:<hex>", "get:<hex>")
    NoOwner    \* no caller holds the key

VARIABLES
    apc,       \* apc[c]: "idle", "waiting" (in Do, before fn) or "running" (in fn)
    aowner     \* aowner[k]: the caller running fn for key k

avars == <<apc, aowner>>

AInit ==
    /\ apc = [c \in Callers |-> "idle"]
    /\ aowner = [k \in Keys |-> NoOwner]

ACall(c) ==
    /\ apc[c] = "idle"
    /\ apc' = [apc EXCEPT ![c] = "waiting"]
    /\ UNCHANGED aowner

AEnter(c, k) ==
    /\ apc[c] = "waiting"
    /\ aowner[k] = NoOwner
    /\ apc' = [apc EXCEPT ![c] = "running"]
    /\ aowner' = [aowner EXCEPT ![k] = c]

AFail(c) ==
    /\ apc[c] = "waiting"
    /\ apc' = [apc EXCEPT ![c] = "idle"]
    /\ UNCHANGED aowner

AFinish(c, k) ==
    /\ apc[c] = "running"
    /\ aowner[k] = c
    /\ apc' = [apc EXCEPT ![c] = "idle"]
    /\ aowner' = [aowner EXCEPT ![k] = NoOwner]

(* A crash ends any set of calls at once and frees what they held. *)
ACrash(S) ==
    /\ apc' = [c \in Callers |-> IF c \in S THEN "idle" ELSE apc[c]]
    /\ aowner' = [k \in Keys |-> IF aowner[k] \in S THEN NoOwner ELSE aowner[k]]

ANext ==
    \/ \E c \in Callers : ACall(c) \/ AFail(c)
    \/ \E c \in Callers, k \in Keys : AEnter(c, k) \/ AFinish(c, k)
    \/ \E S \in SUBSET Callers : ACrash(S)

ASpec == AInit /\ [][ANext]_avars
=============================================================================
