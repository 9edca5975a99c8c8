----------------------------- MODULE MCDiskFiles -----------------------------
(* Model values for the Disk backend's files. *)
EXTENDS DiskFiles, TLC

CONSTANTS w1, w2, r1, o1, o2

MCWriters == {w1, w2}
MCReaders == {r1}
MCOuts == {o1, o2}

Symmetry == Permutations(MCOuts)
=============================================================================
