--------------------------- MODULE MCUsageTracker ---------------------------
(* Instances of UsageTracker for TLC. *)
EXTENDS UsageTracker, TLC

CONSTANTS w1, w2, i1, i2, i3, i4

InodeSymmetry == Permutations(Inode)
=============================================================================
