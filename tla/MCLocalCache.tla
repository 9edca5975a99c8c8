---------------------------- MODULE MCLocalCache ----------------------------
(* Model values for the local cache. *)
EXTENDS LocalCache, TLC

CONSTANTS p1, p2, o1, o2

MCProcs == {p1, p2}
MCOuts == {o1, o2}

Symmetry == Permutations(MCProcs) \cup Permutations(MCOuts)
=============================================================================
