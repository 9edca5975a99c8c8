----------------------------- MODULE MCGofslock -----------------------------
(* Two processes of two goroutines each, sharing one lock directory, on  *)
(* one key.                                                               *)
EXTENDS Gofslock, TLC

CONSTANTS p1, p2, s1, s2, k1

MCProcs == {p1, p2}
MCSlots == {s1, s2}
MCKeys == {k1}

Symmetry == Permutations(MCProcs) \cup Permutations(MCSlots)
=============================================================================
