------------------------------ MODULE MCFSLock ------------------------------
(* Model-checking instance of FSLock: two processes with two goroutines    *)
(* each, over model-value keys.                                            *)
EXTENDS FSLock, TLC

CONSTANTS p1, p2, k1, k2

MCProcs == {p1, p2}
MCSlots == {1, 2}
MCKeys == {k1, k2}
=============================================================================
