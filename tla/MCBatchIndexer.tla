--------------------------- MODULE MCBatchIndexer ---------------------------
(* Instances of BatchIndexer for TLC. *)
EXTENDS BatchIndexer, TLC

CONSTANTS v1, v2, p1, p2, one, two, t1, w1, w2

(* Two bodies of one length and one chunk: only the time tells them apart. *)
MCNumChunks == one :> 1 @@ two :> 1
MCVaultChunks == one :> 1 @@ two :> 2
MCTagsOf == one :> {} @@ two :> {t1}
MCNoTags == one :> {} @@ two :> {}
MCTasksOf == one :> {} @@ two :> {}
MCSizeOf == one :> 1 @@ two :> 1
MCLinksOf == one :> {} @@ two :> {p1}

MCStamp == [mtime : 0 .. MaxEdits + 1, size : {0, 1}]
Apart == {1}

WriterSymmetry == Permutations(Proc)
=============================================================================
