---------------------------- MODULE MCWatchDaemon ----------------------------
(* Instances of WatchDaemon for TLC. *)
EXTENDS WatchDaemon, TLC

CONSTANTS v1, v2, p1, p2, one, two, t1, m1, w1, w2

(* Two bodies of one chunk and of different length. *)
MCNumChunks == one :> 1 @@ two :> 1
MCTagsOf == one :> {} @@ two :> {t1}
MCNoTags == one :> {} @@ two :> {}
MCTasksOf == one :> {} @@ two :> {}
MCSizeOf == one :> 1 @@ two :> 2
MCLinksOf == one :> {} @@ two :> {p1}

MCStamp == [mtime : 0 .. MaxEdits + 1, size : 0 .. 2]
Apart == {1}
=============================================================================
