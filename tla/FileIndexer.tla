---------------------------- MODULE FileIndexer ----------------------------
(***************************************************************************)
(* index_file_with_embedder (core/src/indexer.rs) over the vault on disk:  *)
(* the two stat calls, the stamp check, the read, the hash check and the   *)
(* transaction are one step each, because the user's editor, and the other *)
(* processes on the same index, run between any two of them.               *)
(*                                                                         *)
(* The module has the actions and no specification of its own.             *)
(* BatchIndexer and WatchDaemon run them.                                  *)
(***************************************************************************)
EXTENDS IndexStore

CONSTANTS
  NoFile,          \* "nothing at this path"
  NoBody,          \* "not read yet"
  NoWork,          \* "no index_file_with_embedder call in progress"
  SizeOf,          \* SizeOf[b]: length of b in bytes
  LinksOf,         \* LinksOf[b]: the paths the wikilinks of b name
  BacklinkScoring, \* [indexing] backlink_scoring
  Ticks,           \* the ms that can pass between two edits
  MaxEdits         \* bound on the number of edits, for TLC

NoStamp == [mtime |-> 0, size |-> 0]    \* what a failed stat counts as

DiskFile == [body : Body, stamp : Stamp]
Stages == {"mtime", "size", "cached mtime", "cached size",
           "read", "hash", "commit"}
Work == [stage : Stages,
         file : File, known : SUBSET Path, model : ModelId,
         stamp : Stamp, body : Body \cup {NoBody}]

ASSUME IndexerAssumption ==
  /\ SizeOf \in [Body -> Nat]
  /\ LinksOf \in [Body -> SUBSET Path]
  /\ \A b \in Body : IsFiniteSet(LinksOf[b])
  /\ BacklinkScoring \in BOOLEAN
  /\ Ticks \subseteq Nat
  /\ MaxEdits \in Nat
  /\ NoFile \notin DiskFile
  /\ NoBody \notin Body
  /\ NoWork \notin Work

(* A stamp put together from two stat calls is a stamp.                    *)
ASSUME StampAssumption ==
  /\ NoStamp \in Stamp /\ Stamp \subseteq [mtime : Nat, size : Nat]
  /\ \A s, t \in Stamp : [mtime |-> s.mtime, size |-> t.size] \in Stamp

VARIABLES
  disk,         \* file -> DiskFile or NoFile
  clock,        \* the file system's clock, in ms
  edits,        \* the number of edits so far
  work          \* process -> its index_file_with_embedder call

diskVars == <<disk, clock, edits>>

OnDisk(f) == disk[f] # NoFile
StampOf(f) == IF OnDisk(f) THEN disk[f].stamp ELSE NoStamp

IndexerInit ==
  /\ disk = [f \in File |-> NoFile]
  /\ clock = 1
  /\ edits = 0
  /\ work = [p \in Proc |-> NoWork]

-----------------------------------------------------------------------------
(***************************************************************************)
(* The user.  A write stores a body under the time of the write; a rename  *)
(* keeps the stamp and replaces what was at the new path.                  *)
(***************************************************************************)
Edit ==
  /\ edits < MaxEdits
  /\ edits' = edits + 1
  /\ \E ms \in Ticks : clock' = clock + ms

WriteFile(f, b) ==
  /\ Edit
  /\ \E s \in Stamp :
       /\ s = [mtime |-> clock', size |-> SizeOf[b]]
       /\ disk' = [disk EXCEPT ![f] = [body |-> b, stamp |-> s]]

RemoveFile(f) ==
  /\ OnDisk(f)
  /\ Edit
  /\ disk' = [disk EXCEPT ![f] = NoFile]

RenameFile(f, g) ==
  /\ OnDisk(f) /\ f # g /\ f[1] = g[1]
  /\ Edit
  /\ disk' = [disk EXCEPT ![f] = NoFile, ![g] = disk[f]]

-----------------------------------------------------------------------------
(***************************************************************************)
(* The indexer.  The work record collects what the call has read so far;   *)
(* known is the set of paths path_map can resolve a wikilink to.           *)
(***************************************************************************)
At(p, stage) == work[p] # NoWork /\ work[p].stage = stage

SetWork(p, w) == work' = [work EXCEPT ![p] = w]
EndFile(p) == SetWork(p, NoWork)

BeginFile(p, f, known, m) ==
  /\ work[p] = NoWork
  /\ SetWork(p, [stage |-> "mtime", file |-> f, known |-> known,
                 model |-> m, stamp |-> NoStamp, body |-> NoBody])
  /\ UNCHANGED storeVars

(* file_mtime, then fs::metadata once more for the length *)
StatMtime(p) ==
  /\ At(p, "mtime")
  /\ SetWork(p, [work[p] EXCEPT
       !.stage = "size", !.stamp.mtime = StampOf(work[p].file).mtime])
  /\ UNCHANGED storeVars

StatSize(p) ==
  /\ At(p, "size")
  /\ SetWork(p, [work[p] EXCEPT !.stage = "cached mtime",
       !.stamp.size = StampOf(work[p].file).size])
  /\ UNCHANGED storeVars

(* Mutant: the mtime is not compared. *)
MtimeForgotten(w) == Cached(w.file)

(* The fast path compares the stamp only, not the model and not the links, *)
(* with two queries.                                                       *)
MtimeMatches(w) ==
  Cached(w.file) /\ fileCache[w.file].stamp.mtime = w.stamp.mtime

SizeMatches(w) ==
  Cached(w.file) /\ fileCache[w.file].stamp.size = w.stamp.size

CheckMtime(p) ==
  /\ At(p, "cached mtime")
  /\ SetWork(p, [work[p] EXCEPT
       !.stage = IF MtimeMatches(work[p]) THEN "cached size" ELSE "read"])
  /\ UNCHANGED storeVars

CheckSize(p) ==
  /\ At(p, "cached size")
  /\ IF SizeMatches(work[p])
     THEN EndFile(p)
     ELSE SetWork(p, [work[p] EXCEPT !.stage = "read"])
  /\ UNCHANGED storeVars

ReadFile(p) ==
  /\ At(p, "read")
  /\ IF OnDisk(work[p].file)
     THEN SetWork(p, [work[p] EXCEPT
            !.stage = "hash", !.body = disk[work[p].file].body])
     ELSE EndFile(p)
  /\ UNCHANGED storeVars

(* The cached stamp is not refreshed when only the hash matches.           *)
HashMatches(w) == Cached(w.file) /\ fileCache[w.file].body = w.body

CheckHash(p) ==
  /\ At(p, "hash")
  /\ IF HashMatches(work[p])
     THEN EndFile(p)
     ELSE SetWork(p, [work[p] EXCEPT !.stage = "commit"])
  /\ UNCHANGED storeVars

Resolved(w) ==
  IF BacklinkScoring
  THEN {<<w.file[1], q>> : q \in LinksOf[w.body] \cap w.known}
  ELSE {}

(* Mutants: the file is looked at once more for its stamp; the cache row   *)
(* is written in a transaction of its own.                                 *)
CommitFileWithNewStamp(p) ==
  /\ At(p, "commit")
  /\ pending[p] = NoDelete
  /\ LET w == work[p] IN
       ReindexTx(w.file, w.body, StampOf(w.file), w.model, {}, Resolved(w))
  /\ EndFile(p)
  /\ UNCHANGED <<pending, purge>>

CommitCacheRowOnly(p) ==
  /\ At(p, "commit")
  /\ pending[p] = NoDelete
  /\ LET w == work[p] IN
       fileCache' = [fileCache EXCEPT ![w.file] =
         [body |-> w.body, stamp |-> w.stamp, model |-> w.model,
          backlinks |-> 0]]
  /\ EndFile(p)
  /\ UNCHANGED <<chunks, fts, vec, tasks, links, tagCounts, pending, purge>>

(* embed_batch gives a vector for every chunk or, on an error, for none;   *)
(* the file is stored in both cases.                                       *)
CommitFile(p) ==
  /\ At(p, "commit")
  /\ pending[p] = NoDelete
  /\ LET w == work[p] IN
       \E embedded \in IF w.model = "none" THEN {{}}
                       ELSE {{}, 1 .. NumChunks[w.body]} :
         ReindexTx(w.file, w.body, w.stamp, w.model, embedded, Resolved(w))
  /\ EndFile(p)
  /\ UNCHANGED <<pending, purge>>

(* The read, cached_hash or the transaction fails: IndexResult::Error.  A  *)
(* failed query of the fast path only means that the file is read.         *)
FailFile(p) ==
  /\ \/ /\ \E stage \in {"read", "hash", "commit"} : At(p, stage)
        /\ EndFile(p)
     \/ /\ At(p, "cached mtime") \/ At(p, "cached size")
        /\ SetWork(p, [work[p] EXCEPT !.stage = "read"])
  /\ UNCHANGED storeVars

IndexFile(p) ==
  \/ StatMtime(p) \/ StatSize(p) \/ CheckMtime(p) \/ CheckSize(p)
  \/ ReadFile(p) \/ CheckHash(p) \/ CommitFile(p)

-----------------------------------------------------------------------------
IndexerTypeOK ==
  /\ disk \in [File -> DiskFile \cup {NoFile}]
  /\ clock \in Nat
  /\ edits \in 0 .. MaxEdits
  /\ work \in [Proc -> Work \cup {NoWork}]
  /\ \A p \in Proc :
       (At(p, "hash") \/ At(p, "commit")) => work[p].body \in Body

(* A file whose stamp is the cached one is skipped unread by every later   *)
(* pass.  So no interleaving of edits and of two indexers may leave a      *)
(* cached stamp equal to the file's with a body that is not the file's:    *)
(* the stale text would be found for ever.                                 *)
NoFalseSkip ==
  \A f \in File :
    (OnDisk(f) /\ Cached(f) /\ fileCache[f].stamp = disk[f].stamp)
      => fileCache[f].body = disk[f].body
=============================================================================
