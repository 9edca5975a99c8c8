----------------------------- MODULE MCMemLock -----------------------------
(* Model values for MemLock. *)
EXTENDS MemLock, TLC

CONSTANTS c1, c2, k1

MCCallers == {c1, c2}
MCKeys == {k1}
=============================================================================
