----------------------------- MODULE IndexStore -----------------------------
(***************************************************************************)
(* The SQLite index of core/src/db.rs: its tables, and the transactions    *)
(* NoteDatabase runs on them, called in any order by any number of         *)
(* processes (chart, dredge, delete, clean, the watch daemon, MCP rebuild) *)
(* that share one database file in WAL mode.                               *)
(*                                                                         *)
(* A transaction is one step.  What is not one step is delete_file_fully,  *)
(* which reads the tags of the file through the read connection before it  *)
(* opens the transaction, and purge_expired, which selects the paths to    *)
(* purge and then deletes them one by one.                                 *)
(*                                                                         *)
(* A body is the text of a note as the indexer read it; it stands for its  *)
(* SHA-256 as well.  The text, the tags and the tasks of the chunks of a   *)
(* body are functions of the body (core/src/chunker.rs), so a chunk row is *)
(* its body and its position in it.                                        *)
(***************************************************************************)
EXTENDS Naturals, FiniteSets

CONSTANTS
  Proc,         \* the processes that hold a connection to the database
  Vault,        \* configured vaults
  Path,         \* paths relative to a vault
  Body,         \* contents a note can have
  Tag,          \* frontmatter tags
  Task,         \* task lines
  Model,        \* embedding models; indexing without one stores "none"
  Stamp,        \* what stat(2) says of a file: [mtime |-> ms, size |-> bytes]
  NumChunks,    \* NumChunks[b]: chunks split_into_chunks makes of b, >= 1
  TagsOf,       \* TagsOf[b]: the tags every chunk of b carries
  TasksOf,      \* TasksOf[b]: the tasks extract_tasks finds in b
  NoRow,        \* "no row" in a keyed table
  NoDelete,     \* "no delete_file_fully in progress"
  MaxRowId      \* bound on chunks.id, for TLC

ASSUME ConstantsAssumption ==
  /\ NumChunks \in [Body -> Nat \ {0}]
  /\ TagsOf \in [Body -> SUBSET Tag]
  /\ TasksOf \in [Body -> SUBSET Task]
  /\ \A s \in Stamp : s.mtime \in Nat /\ s.size \in Nat
  /\ MaxRowId \in Nat

File == Vault \X Path
ModelId == Model \cup {"none"}
RowId == Nat \ {0}

ChunkRow  == [id : RowId, file : File, body : Body, seq : RowId]
VecRow    == [id : RowId, body : Body, seq : RowId, model : Model]
TaskRow   == [file : File, task : Task]
LinkRow   == [source : File, target : File]
CacheRow  == [body : Body, stamp : Stamp, model : ModelId, backlinks : Nat]
TagTally  == [Tag -> Nat]
PendingDelete == [file : File, tags : TagTally]

ASSUME SentinelsAssumption ==
  /\ NoRow \notin CacheRow
  /\ NoDelete \notin PendingDelete

VARIABLES
  chunks,       \* table chunks
  fts,          \* fts_chunks: the chunk rows whose tokens are in the index
  vec,          \* vec_chunks
  tasks,        \* table tasks
  links,        \* table note_links
  tagCounts,    \* tag_counts: vault -> tag -> count; 0 is "no row"
  fileCache,    \* file_cache: file -> row or NoRow
  pending,      \* process -> the delete_file_fully it is in the middle of
  purge         \* process -> the purge_expired loop: cutoff, paths to do

tables == <<chunks, fts, vec, tasks, links, tagCounts, fileCache>>
storeVars == <<chunks, fts, vec, tasks, links, tagCounts, fileCache,
               pending, purge>>

Cached(f) == fileCache[f] # NoRow
Ids(rows) == {r.id : r \in rows}
(* Mutant: WHERE file_path = ?, with no vault_name. *)
RowsOfPath(f) == {r \in chunks : r.file[2] = f[2]}

RowsOf(f) == {r \in chunks : r.file = f}

(* How many of the given rows carry each tag. *)
TagUse(rows) ==
  [t \in Tag |-> Cardinality({r \in rows : t \in TagsOf[r.body]})]

(* Mutants: the guard count > 0 is missing; one decrement for each file.   *)
DecrementUnguarded(count, n) == count - n
DecrementOnce(count, n) == IF n > 0 /\ count > 0 THEN count - 1 ELSE count

(* n times: UPDATE .. SET count = count - 1 WHERE count > 0; then DELETE   *)
(* .. WHERE count = 0.                                                     *)
Decrement(count, n) == IF n < count THEN count - n ELSE 0

(* chunks.id is INTEGER PRIMARY KEY without AUTOINCREMENT: the next rowid  *)
(* is one above the largest in the table, so the rowids of deleted rows at *)
(* the top are given out again.                                            *)
IsLastId(last, rows) ==
  /\ last \in Ids(rows) \cup {0}
  /\ \A r \in rows : r.id <= last

NewRows(f, b, last) ==
  {[id |-> last + i, file |-> f, body |-> b, seq |-> i] :
     i \in 1 .. NumChunks[b]}

(* Mutants: the text index is deleted from after chunks; the vectors are   *)
(* left to a later clean-up.                                               *)
TextKept(old) == fts
VecKept(old) == vec

(* fts_chunks is an external-content table: deleting by rowid reads the    *)
(* tokens to remove from chunks, so it is done while the rows are there.   *)
TextWithout(old) == fts \ old
VecWithout(old) == {e \in vec : e.id \notin Ids(old)}
TasksWithout(f) == {k \in tasks : k.file # f}

LinksWithout(f) == {l \in links : l.source # f /\ l.target # f}

(***************************************************************************)
(* reindex_file: one transaction.  embedded is the set of positions whose  *)
(* embedding succeeded.  On a conflict file_cache keeps its backlink_count.*)
(***************************************************************************)
ReindexTx(f, b, s, m, embedded, targets) ==
  LET old  == RowsOf(f)
      kept == chunks \ old
  IN  /\ fileCache' = [fileCache EXCEPT ![f] =
           [body |-> b, stamp |-> s, model |-> m,
            backlinks |-> IF Cached(f) THEN fileCache[f].backlinks ELSE 0]]
      /\ \E last \in 0 .. MaxRowId :
           LET new == NewRows(f, b, last) IN
           /\ IsLastId(last, kept)
           /\ last + NumChunks[b] <= MaxRowId
           /\ chunks' = kept \cup new
           /\ fts' = TextWithout(old) \cup new
           /\ vec' = VecWithout(old) \cup
                     {[id |-> last + i, body |-> b, seq |-> i, model |-> m] :
                        i \in embedded}
           /\ tasks' = TasksWithout(f) \cup
                       {[file |-> f, task |-> k] : k \in TasksOf[b]}
           /\ links' = {l \in links : l.source # f} \cup
                       {[source |-> f, target |-> g] : g \in targets}
           /\ tagCounts' = [tagCounts EXCEPT ![f[1]] =
                [t \in Tag |->
                   Decrement(@[t], TagUse(old)[t]) + TagUse(new)[t]]]

(***************************************************************************)
(* delete_file_fully: the transaction, given the tags read before it.      *)
(***************************************************************************)
DeleteTx(f, tally) ==
  LET old == RowsOf(f) IN
  /\ chunks' = chunks \ old
  /\ fts' = TextWithout(old)
  /\ vec' = VecWithout(old)
  /\ tasks' = TasksWithout(f)
  /\ links' = LinksWithout(f)
  /\ tagCounts' = [tagCounts EXCEPT ![f[1]] =
       [t \in Tag |-> Decrement(@[t], tally[t])]]
  /\ fileCache' = [fileCache EXCEPT ![f] = NoRow]

(* Mutant: links from the file are counted, not links to it. *)
RecountForwardTx(v) ==
  /\ fileCache' = [f \in File |->
       IF f[1] = v /\ Cached(f)
       THEN [fileCache[f] EXCEPT !.backlinks =
               Cardinality({l \in links : l.source = f})]
       ELSE fileCache[f]]
  /\ UNCHANGED <<chunks, fts, vec, tasks, links, tagCounts>>

(* update_backlink_counts_for_vault *)
RecountTx(v) ==
  /\ fileCache' = [f \in File |->
       IF f[1] = v /\ Cached(f)
       THEN [fileCache[f] EXCEPT !.backlinks =
               Cardinality({l \in links : l.target = f})]
       ELSE fileCache[f]]
  /\ UNCHANGED <<chunks, fts, vec, tasks, links, tagCounts>>

(* purge_all_user_data *)
PurgeAllTx ==
  /\ chunks' = {} /\ fts' = {} /\ vec' = {} /\ tasks' = {} /\ links' = {}
  /\ tagCounts' = [v \in Vault |-> [t \in Tag |-> 0]]
  /\ fileCache' = [f \in File |-> NoRow]

-----------------------------------------------------------------------------
(***************************************************************************)
(* The clients.  A process runs one call at a time.                        *)
(***************************************************************************)
NoPurge == [cutoff |-> 0, files |-> {}]

StoreInit ==
  /\ chunks = {} /\ fts = {} /\ vec = {} /\ tasks = {} /\ links = {}
  /\ tagCounts = [v \in Vault |-> [t \in Tag |-> 0]]
  /\ fileCache = [f \in File |-> NoRow]
  /\ pending = [p \in Proc |-> NoDelete]
  /\ purge = [p \in Proc |-> NoPurge]

Idle(p) == pending[p] = NoDelete /\ purge[p] = NoPurge

Reindex(p) ==
  /\ Idle(p)
  /\ \E f \in File, b \in Body, s \in Stamp, m \in ModelId :
       \E embedded \in IF m = "none" THEN {{}} ELSE SUBSET (1 .. NumChunks[b]),
          targets \in SUBSET {g \in File : g[1] = f[1]} :
            /\ IsFiniteSet(targets)
            /\ ReindexTx(f, b, s, m, embedded, targets)
  /\ UNCHANGED <<pending, purge>>

(* get_tags_for_file, on the read connection *)
ReadTags(p, f) ==
  /\ pending[p] = NoDelete
  /\ pending' = [pending EXCEPT ![p] =
                   [file |-> f, tags |-> TagUse(RowsOf(f))]]
  /\ UNCHANGED <<tables, purge>>

BeginDelete(p) == Idle(p) /\ \E f \in File : ReadTags(p, f)

(* the loop of purge_expired, over the paths selected at its start *)
BeginPurgeDelete(p) == \E f \in purge[p].files : ReadTags(p, f)

(* When the last selected path is done the loop ends. *)
AfterDelete(pg, f) ==
  IF pg.files \subseteq {f} THEN NoPurge
                            ELSE [pg EXCEPT !.files = @ \ {f}]

CommitDelete(p) ==
  /\ pending[p] # NoDelete
  /\ DeleteTx(pending[p].file, pending[p].tags)
  /\ pending' = [pending EXCEPT ![p] = NoDelete]
  /\ purge' = [purge EXCEPT ![p] = AfterDelete(@, pending[p].file)]

(* SELECT path FROM file_cache WHERE vault_name = v AND mtime < cutoff *)
Expired(v, cutoff) ==
  {f \in File : /\ f[1] = v
                /\ Cached(f)
                /\ fileCache[f].stamp.mtime < cutoff}

(* Whatever the cutoff, it is just after some time a stamp can have.       *)
SelectExpired(p) ==
  /\ Idle(p)
  /\ \E v \in Vault, s \in Stamp :
       LET cutoff == s.mtime + 1 IN
       /\ Expired(v, cutoff) # {}
       /\ purge' = [purge EXCEPT ![p] =
                      [cutoff |-> cutoff, files |-> Expired(v, cutoff)]]
  /\ UNCHANGED <<tables, pending>>

(* SQLITE_BUSY, an I/O error or the death of the process: the transaction  *)
(* is rolled back and the call is over; purge_expired gives up its loop.   *)
Abandon(p) ==
  /\ ~ Idle(p)
  /\ pending' = [pending EXCEPT ![p] = NoDelete]
  /\ purge' = [purge EXCEPT ![p] = NoPurge]
  /\ UNCHANGED tables

Recount(p) ==
  /\ Idle(p)
  /\ \E v \in Vault : RecountTx(v)
  /\ UNCHANGED <<pending, purge>>

PurgeAll(p) ==
  /\ Idle(p)
  /\ PurgeAllTx
  /\ UNCHANGED <<pending, purge>>

StoreNext == \E p \in Proc :
  \/ Reindex(p)
  \/ BeginDelete(p)
  \/ BeginPurgeDelete(p)
  \/ CommitDelete(p)
  \/ SelectExpired(p)
  \/ Abandon(p)
  \/ Recount(p)
  \/ PurgeAll(p)

StoreSpec == StoreInit /\ [][StoreNext]_storeVars

-----------------------------------------------------------------------------
(***************************************************************************)
(* What the index promises.                                                *)
(***************************************************************************)

(* Type invariant of the tables and of the calls in progress.              *)
TypeOK ==
  /\ chunks \subseteq ChunkRow
  /\ fts \subseteq ChunkRow
  /\ vec \subseteq VecRow
  /\ tasks \subseteq TaskRow
  /\ links \subseteq LinkRow
  /\ tagCounts \in [Vault -> TagTally]
  /\ fileCache \in [File -> CacheRow \cup {NoRow}]
  /\ pending \in [Proc -> PendingDelete \cup {NoDelete}]
  /\ purge \in [Proc -> [cutoff : Nat, files : SUBSET File]]

(* Full-text search finds every chunk and nothing else: the inverted index *)
(* holds exactly the rows of chunks, and a rowid names one row.            *)
TextIndexExact ==
  /\ fts = chunks
  /\ \A r, q \in chunks : r.id = q.id => r = q

(* A vector hit leads to the text that was embedded, and was embedded by   *)
(* the model the file is recorded under: no row of vec_chunks outlives its *)
(* chunk and comes to name another one when its rowid is given out again.  *)
VectorsMatchChunks ==
  \A e \in vec : \E r \in chunks :
    /\ r.id = e.id /\ r.body = e.body /\ r.seq = e.seq
    /\ Cached(r.file) /\ fileCache[r.file].model = e.model

(* The indexer skips a file whose hash is the cached one.  That is right   *)
(* only if the rows of a file are always those of the cached hash: all the *)
(* chunks and tasks of that body, and none when the file is not cached.    *)
CacheMatchesRows ==
  \A f \in File :
    /\ {<<r.body, r.seq>> : r \in RowsOf(f)} =
         IF Cached(f)
         THEN {fileCache[f].body} \X (1 .. NumChunks[fileCache[f].body])
         ELSE {}
    /\ {k.task : k \in {j \in tasks : j.file = f}} =
         IF Cached(f) THEN TasksOf[fileCache[f].body] ELSE {}

(* tag_counts is the number of chunk rows of the vault that carry the tag  *)
(* (what tag_stats reports), although no query ever recomputes it.         *)
TagCountsExact ==
  \A v \in Vault, t \in Tag :
    tagCounts[v][t] =
      Cardinality({r \in chunks : r.file[1] = v /\ t \in TagsOf[r.body]})

(* A backlink is counted only from a note that is indexed, in its vault.   *)
LinkSourcesCached ==
  \A l \in links : Cached(l.source) /\ l.source[1] = l.target[1]
=============================================================================
