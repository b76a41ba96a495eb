---------------------------- MODULE MCIndexStore ----------------------------
(* Instances of IndexStore for TLC. *)
EXTENDS IndexStore, TLC

CONSTANTS v1, v2, p1, p2, short, long, t1, k1, m1, w1, w2

(* short is one chunk without tags; long is two tagged chunks and a task. *)
MCNumChunks == short :> 1 @@ long :> 2
MCTagsOf == short :> {} @@ long :> {t1}
MCTagsOfBoth == short :> {t1} @@ long :> {t1}
MCTasksOf == short :> {} @@ long :> {k1}

OldStamp == [mtime |-> 1, size |-> 1]
NewStamp == [mtime |-> 2, size |-> 1]
MCStamps == {OldStamp, NewStamp}
OneStamp == {OldStamp}

(* The paths of a vault are interchangeable, and so are the writers. *)
PathSymmetry == Permutations(Path)
WriterSymmetry == Permutations(Path) \cup Permutations(Proc)

(* Drifting counts (see store_tag_drift) are cut off here. *)
TagBound == \A v \in Vault, t \in Tag : tagCounts[v][t] <= 3
=============================================================================
