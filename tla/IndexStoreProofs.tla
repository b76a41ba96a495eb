-------------------------- MODULE IndexStoreProofs --------------------------
(***************************************************************************)
(* What holds of IndexStore for every set of processes, vaults, paths,     *)
(* bodies, tags and models; then what the steps of FileIndexer keep, for   *)
(* every set of files: their types, and that to the index they are the     *)
(* reindex of IndexStore or nothing.  BatchIndexerProofs and               *)
(* WatchDaemonProofs cite the lemmas.                                      *)
(***************************************************************************)
EXTENDS FileIndexer, FiniteSetTheorems, TLAPS

(***************************************************************************)
(* Lemmas about the operators the transactions are built from.             *)
(***************************************************************************)

(* The rows reindex_file inserts: finitely many, one per position, with    *)
(* rowids above every row that stays.                                      *)
LEMMA NewRowsShape ==
  ASSUME NEW f \in File, NEW b \in Body, NEW last \in Nat
  PROVE  /\ NewRows(f, b, last) \subseteq ChunkRow
         /\ IsFiniteSet(NewRows(f, b, last))
         /\ \A r \in NewRows(f, b, last) :
              r.file = f /\ r.body = b /\ r.id > last /\ r.id = last + r.seq
         /\ \A i \in 1 .. NumChunks[b] : \E r \in NewRows(f, b, last) :
              r.id = last + i /\ r.seq = i
         /\ \A r \in NewRows(f, b, last) : r.seq \in 1 .. NumChunks[b]
         /\ \A r, q \in NewRows(f, b, last) : r.id = q.id => r = q
<1> DEFINE row(i) == [id |-> last + i, file |-> f, body |-> b, seq |-> i]
           N == NumChunks[b]
           new == NewRows(f, b, last)
           num == [i \in 1 .. N |-> row(i)]
<1>1. N \in Nat \ {0}
  BY ConstantsAssumption
<1>2. \A i \in 1 .. N : row(i) \in ChunkRow
  BY <1>1 DEF ChunkRow, RowId
<1>3. new = {row(i) : i \in 1 .. N}
  BY DEF NewRows
<1>4. IsFiniteSet(new)
  <2>1. IsFiniteSet(1 .. N)
    BY <1>1, FS_Interval
  <2>2. num \in Surjection(1 .. N, new)
    BY <1>3 DEF Surjection
  <2> HIDE DEF num, new, N
  <2> QED
    BY <2>1, <2>2, FS_Surjection
<1>5. \A i \in 1 .. N : /\ row(i).file = f /\ row(i).body = b
                        /\ row(i).id = last + i /\ row(i).seq = i
  OBVIOUS
<1>6. \A i \in 1 .. N : last + i > last
  BY <1>1
<1>7. \A i, j \in 1 .. N : last + i = last + j => i = j
  BY <1>1
<1>8. \A r, q \in new : r.id = q.id => r = q
  <2> SUFFICES ASSUME NEW i \in 1 .. N, NEW j \in 1 .. N,
                      row(i).id = row(j).id
               PROVE  row(i) = row(j)
    BY <1>3
  <2> QED
    BY <1>5, <1>7
<1> HIDE DEF row, N
<1> QED
  BY <1>2, <1>3, <1>4, <1>5, <1>6, <1>8 DEF N

(* A tally counts finitely many rows.                                      *)
LEMMA TallyType ==
  ASSUME NEW rows, IsFiniteSet(rows)
  PROVE  TagUse(rows) \in TagTally
<1> SUFFICES ASSUME NEW t \in Tag
             PROVE  Cardinality({r \in rows : t \in TagsOf[r.body]}) \in Nat
  BY DEF TagUse, TagTally
<1> {r \in rows : t \in TagsOf[r.body]} \in SUBSET rows
  OBVIOUS
<1> QED
  BY FS_Subset, FS_CardinalityType

(* Decrementing stays in the natural numbers: the WHERE count > 0 guard.   *)
LEMMA DecrementType ==
  ASSUME NEW m \in Nat, NEW n \in Nat
  PROVE  /\ Decrement(m, n) \in Nat
         /\ n <= m => Decrement(m, n) = m - n
BY DEF Decrement

(***************************************************************************)
(* Type correctness.  Counting needs finite tables, so finiteness is part  *)
(* of the inductive invariant.                                             *)
(***************************************************************************)
FiniteTables == IsFiniteSet(chunks) /\ IsFiniteSet(links)

TypeInv == TypeOK /\ FiniteTables

(* The tables are well typed and finite at the start.                      *)
LEMMA InitTypeInv == StoreInit => TypeInv
<1> SUFFICES ASSUME StoreInit PROVE TypeInv
  OBVIOUS
<1>1. FiniteTables
  BY FS_EmptySet DEF StoreInit, FiniteTables
<1>2. TypeOK
  BY DEF StoreInit, TypeOK, NoPurge, TagTally
<1> QED
  BY <1>1, <1>2 DEF TypeInv

(* reindex_file keeps every table well typed and finite.                   *)
LEMMA ReindexTxTypes ==
  ASSUME TypeInv,
         NEW f \in File, NEW b \in Body, NEW s \in Stamp, NEW m \in ModelId,
         NEW embedded \in SUBSET (1 .. NumChunks[b]),
         m = "none" => embedded = {},
         NEW targets \in SUBSET File, IsFiniteSet(targets),
         ReindexTx(f, b, s, m, embedded, targets),
         UNCHANGED <<pending, purge>>
  PROVE  TypeInv'
<1> USE DEF TypeInv, FiniteTables
<1> DEFINE old == RowsOf(f)
           kept == chunks \ old
<1>1. PICK last \in 0 .. MaxRowId :
        LET new == NewRows(f, b, last) IN
        /\ IsLastId(last, kept)
        /\ last + NumChunks[b] <= MaxRowId
        /\ chunks' = kept \cup new
        /\ fts' = TextWithout(old) \cup new
        /\ vec' = VecWithout(old) \cup
                  {[id |-> last + i, body |-> b, seq |-> i, model |-> m] :
                     i \in embedded}
        /\ tasks' = TasksWithout(f) \cup
                    {[file |-> f, task |-> k] : k \in TasksOf[b]}
        /\ links' = {l \in links : l.source # f} \cup
                    {[source |-> f, target |-> g] : g \in targets}
        /\ tagCounts' = [tagCounts EXCEPT ![f[1]] =
             [t \in Tag |->
                Decrement(@[t], TagUse(old)[t]) + TagUse(new)[t]]]
        /\ fileCache' = [fileCache EXCEPT ![f] =
             [body |-> b, stamp |-> s, model |-> m,
              backlinks |-> IF Cached(f) THEN fileCache[f].backlinks ELSE 0]]
  BY Zenon DEF ReindexTx
<1> DEFINE new == NewRows(f, b, last)
<1>last. last \in Nat
  BY ConstantsAssumption
<1>n. NumChunks[b] \in Nat \ {0}
  BY ConstantsAssumption
<1>new. new \subseteq ChunkRow /\ IsFiniteSet(new)
  BY <1>last, NewRowsShape
<1>old. old \in SUBSET chunks /\ IsFiniteSet(old)
  BY FS_Subset DEF RowsOf
<1>2. IsFiniteSet(chunks')
  BY <1>1, <1>new, <1>old, FS_Union, FS_Difference
<1>3. chunks' \subseteq ChunkRow /\ fts' \subseteq ChunkRow
  BY <1>1, <1>new DEF TypeOK, TextWithout
<1>4. vec' \subseteq VecRow
  <2> SUFFICES ASSUME NEW i \in embedded
               PROVE  [id |-> last + i, body |-> b, seq |-> i, model |-> m]
                        \in VecRow
    BY <1>1 DEF TypeOK, VecWithout
  <2>1. m \in Model
    BY DEF ModelId
  <2>2. i \in RowId /\ last + i \in RowId
    BY <1>last, <1>n DEF RowId
  <2> QED
    BY <2>1, <2>2 DEF VecRow
<1>5. tasks' \subseteq TaskRow
  BY <1>1, ConstantsAssumption DEF TypeOK, TasksWithout, TaskRow
<1>6. links' \subseteq LinkRow
  BY <1>1 DEF TypeOK, LinkRow
<1>7. IsFiniteSet(links')
  <2> DEFINE stay == {l \in links : l.source # f}
             add == {[source |-> f, target |-> g] : g \in targets}
             mk == [g \in targets |-> [source |-> f, target |-> g]]
  <2>1. stay \in SUBSET links
    OBVIOUS
  <2>2. IsFiniteSet(stay)
    BY <2>1, FS_Subset
  <2>3. mk \in Surjection(targets, add)
    BY DEF Surjection
  <2>4. IsFiniteSet(add)
    <3> HIDE DEF mk, add
    <3> QED
      BY <2>3, FS_Surjection
  <2>5. links' = stay \cup add
    BY <1>1
  <2> HIDE DEF stay, add
  <2> QED
    BY <2>2, <2>4, <2>5, FS_Union
<1>8. tagCounts' \in [Vault -> TagTally]
  <2>1. TagUse(old) \in TagTally /\ TagUse(new) \in TagTally
    BY <1>new, <1>old, TallyType
  <2>2. f[1] \in Vault
    BY DEF File
  <2>3. tagCounts[f[1]] \in TagTally
    BY <2>2 DEF TypeOK
  <2>4. \A t \in Tag :
          Decrement(tagCounts[f[1]][t], TagUse(old)[t]) + TagUse(new)[t] \in Nat
    <3> TAKE t \in Tag
    <3>1. /\ TagUse(new)[t] \in Nat
          /\ TagUse(old)[t] \in Nat
          /\ tagCounts[f[1]][t] \in Nat
      BY <2>1, <2>3 DEF TagTally
    <3>2. Decrement(tagCounts[f[1]][t], TagUse(old)[t]) \in Nat
      BY <3>1, DecrementType
    <3> HIDE DEF new, old
    <3> QED
      BY <3>1, <3>2
  <2> DEFINE tally == [t \in Tag |->
                         Decrement(tagCounts[f[1]][t], TagUse(old)[t])
                           + TagUse(new)[t]]
  <2>5. tally \in TagTally
    BY <2>4 DEF TagTally
  <2>6. tagCounts' = [tagCounts EXCEPT ![f[1]] = tally]
    BY <1>1
  <2> HIDE DEF tally
  <2> QED
    BY <2>5, <2>6 DEF TypeOK
<1>9. fileCache' \in [File -> CacheRow \cup {NoRow}]
  <2>1. Cached(f) => fileCache[f].backlinks \in Nat
    BY DEF TypeOK, Cached, CacheRow
  <2>2. [body |-> b, stamp |-> s, model |-> m,
         backlinks |-> IF Cached(f) THEN fileCache[f].backlinks ELSE 0]
          \in CacheRow
    BY <2>1 DEF CacheRow
  <2> QED
    BY <1>1, <2>2 DEF TypeOK
<1>10. /\ pending' \in [Proc -> PendingDelete \cup {NoDelete}]
       /\ purge' \in [Proc -> [cutoff : Nat, files : SUBSET File]]
  BY DEF TypeOK
<1> QED
  BY <1>2, <1>3, <1>4, <1>5, <1>6, <1>7, <1>8, <1>9, <1>10 DEF TypeOK

(* The transaction of delete_file_fully keeps every table well typed and   *)
(* finite.                                                                 *)
LEMMA DeleteTxTypes ==
  ASSUME TypeInv, NEW f \in File, NEW tally \in TagTally, DeleteTx(f, tally)
  PROVE  /\ chunks' \subseteq ChunkRow /\ fts' \subseteq ChunkRow
         /\ vec' \subseteq VecRow /\ tasks' \subseteq TaskRow
         /\ links' \subseteq LinkRow
         /\ tagCounts' \in [Vault -> TagTally]
         /\ fileCache' \in [File -> CacheRow \cup {NoRow}]
         /\ FiniteTables'
<1> USE DEF TypeInv, FiniteTables
<1> DEFINE left == [t \in Tag |-> Decrement(tagCounts[f[1]][t], tally[t])]
<1>1. left \in TagTally
  <2>1. tagCounts[f[1]] \in TagTally
    BY DEF TypeOK, File
  <2> QED
    BY <2>1, DecrementType DEF TagTally
<1>2. tagCounts' = [tagCounts EXCEPT ![f[1]] = left]
  BY DEF DeleteTx
<1> HIDE DEF left
<1>3. tagCounts' \in [Vault -> TagTally]
  BY <1>1, <1>2 DEF TypeOK
<1>4. chunks' \in SUBSET chunks /\ links' \in SUBSET links
  BY DEF DeleteTx, LinksWithout
<1>5. FiniteTables'
  BY <1>4, FS_Subset
<1>6. /\ fts' \subseteq fts /\ vec' \subseteq vec /\ tasks' \subseteq tasks
      /\ fileCache' = [fileCache EXCEPT ![f] = NoRow]
  BY DEF DeleteTx, TextWithout, VecWithout, TasksWithout
<1> QED
  BY <1>3, <1>4, <1>5, <1>6 DEF TypeOK

(* update_backlink_counts_for_vault stores natural numbers: finitely many  *)
(* links lead to a file.                                                   *)
LEMMA RecountTxTypes ==
  ASSUME TypeInv, NEW v \in Vault, RecountTx(v), UNCHANGED <<pending, purge>>
  PROVE  TypeInv'
<1> USE DEF TypeInv, FiniteTables
<1>1. \A f \in File : Cardinality({l \in links : l.target = f}) \in Nat
  <2> TAKE f \in File
  <2>1. {l \in links : l.target = f} \in SUBSET links
    OBVIOUS
  <2> QED
    BY <2>1, FS_Subset, FS_CardinalityType
<1>2. \A f \in File : fileCache'[f] \in CacheRow \cup {NoRow}
  <2> TAKE f \in File
  <2>1. CASE f[1] = v /\ Cached(f)
    <3>1. fileCache[f] \in CacheRow
      BY <2>1 DEF TypeOK, Cached
    <3>2. [fileCache[f] EXCEPT !.backlinks =
             Cardinality({l \in links : l.target = f})] \in CacheRow
      BY <3>1, <1>1 DEF CacheRow
    <3> QED
      BY <2>1, <3>2 DEF RecountTx
  <2>2. CASE ~ (f[1] = v /\ Cached(f))
    BY <2>2 DEF RecountTx, TypeOK
  <2> QED
    BY <2>1, <2>2
<1>3. fileCache' \in [File -> CacheRow \cup {NoRow}]
  BY <1>2 DEF RecountTx
<1> QED
  BY <1>3 DEF RecountTx, TypeOK

(* Every step of every process keeps the tables well typed and finite.     *)
LEMMA NextTypeInv == TypeInv /\ [StoreNext]_storeVars => TypeInv'
<1> SUFFICES ASSUME TypeInv, [StoreNext]_storeVars
             PROVE  TypeInv'
  OBVIOUS
<1> USE DEF TypeInv, FiniteTables
<1>1. ASSUME NEW p \in Proc, Reindex(p)
      PROVE  TypeInv'
  <2>1. PICK f \in File, b \in Body, s \in Stamp, m \in ModelId :
          \E embedded \in IF m = "none" THEN {{}} ELSE SUBSET (1 .. NumChunks[b]),
             targets \in SUBSET {g \in File : g[1] = f[1]} :
               /\ IsFiniteSet(targets)
               /\ ReindexTx(f, b, s, m, embedded, targets)
    BY <1>1 DEF Reindex
  <2>2. PICK embedded \in SUBSET (1 .. NumChunks[b]), targets \in SUBSET File :
          /\ m = "none" => embedded = {}
          /\ IsFiniteSet(targets)
          /\ ReindexTx(f, b, s, m, embedded, targets)
    BY <2>1
  <2>3. UNCHANGED <<pending, purge>>
    BY <1>1 DEF Reindex
  <2> QED
    BY <2>2, <2>3, ReindexTxTypes
<1>2. ASSUME NEW p \in Proc, NEW f \in File, ReadTags(p, f)
      PROVE  TypeInv'
  <2>1. RowsOf(f) \in SUBSET chunks
    BY DEF RowsOf
  <2>2. [file |-> f, tags |-> TagUse(RowsOf(f))] \in PendingDelete
    BY <2>1, FS_Subset, TallyType DEF PendingDelete
  <2> QED
    BY <1>2, <2>2 DEF ReadTags, tables, TypeOK
<1>3. ASSUME NEW p \in Proc, BeginDelete(p)
      PROVE  TypeInv'
  BY <1>2, <1>3 DEF BeginDelete
<1>4. ASSUME NEW p \in Proc, BeginPurgeDelete(p)
      PROVE  TypeInv'
  BY <1>2, <1>4 DEF BeginPurgeDelete, TypeOK
<1>5. ASSUME NEW p \in Proc, CommitDelete(p)
      PROVE  TypeInv'
  <2>1. pending[p] \in PendingDelete
    BY <1>5 DEF CommitDelete, TypeOK
  <2>2. pending[p].file \in File /\ pending[p].tags \in TagTally
    BY <2>1 DEF PendingDelete
  <2>3. DeleteTx(pending[p].file, pending[p].tags)
    BY <1>5 DEF CommitDelete
  <2>4. AfterDelete(purge[p], pending[p].file)
          \in [cutoff : Nat, files : SUBSET File]
    BY DEF AfterDelete, NoPurge, TypeOK
  <2>5. /\ pending' \in [Proc -> PendingDelete \cup {NoDelete}]
        /\ purge' \in [Proc -> [cutoff : Nat, files : SUBSET File]]
    BY <1>5, <2>4 DEF CommitDelete, TypeOK
  <2> QED
    BY <2>2, <2>3, <2>5, DeleteTxTypes DEF TypeOK
<1>6. ASSUME NEW p \in Proc, SelectExpired(p)
      PROVE  TypeInv'
  BY <1>6, ConstantsAssumption DEF SelectExpired, Expired, tables, TypeOK
<1>7. ASSUME NEW p \in Proc, Abandon(p)
      PROVE  TypeInv'
  BY <1>7 DEF Abandon, tables, NoPurge, TypeOK
<1>8. ASSUME NEW p \in Proc, Recount(p)
      PROVE  TypeInv'
  BY <1>8, RecountTxTypes DEF Recount
<1>9. ASSUME NEW p \in Proc, PurgeAll(p)
      PROVE  TypeInv'
  BY <1>9, FS_EmptySet DEF PurgeAll, PurgeAllTx, TypeOK, TagTally
<1>10. CASE UNCHANGED storeVars
  BY <1>10 DEF storeVars, TypeOK
<1> QED
  BY <1>1, <1>3, <1>4, <1>5, <1>6, <1>7, <1>8, <1>9, <1>10 DEF StoreNext

(* The tables and the calls in progress keep their types whatever the      *)
(* processes do; in particular no tag count ever goes below zero.          *)
THEOREM TypeCorrect == StoreSpec => []TypeOK
<1>1. TypeInv => TypeOK
  BY DEF TypeInv
<1> QED
  BY <1>1, InitTypeInv, NextTypeInv, PTL DEF StoreSpec

(***************************************************************************)
(* The tables agree with each other.                                       *)
(***************************************************************************)
TablesAgree ==
  /\ TextIndexExact
  /\ VectorsMatchChunks
  /\ CacheMatchesRows
  /\ LinkSourcesCached

StoreInv == TypeInv /\ TablesAgree

(* What reindex_file does to the rows and the cache entry of each file.    *)
LEMMA ReindexTxRows ==
  ASSUME TypeInv,
         NEW f \in File, NEW b \in Body, NEW s \in Stamp, NEW m \in ModelId,
         NEW embedded, NEW targets, NEW last \in Nat,
         chunks' = (chunks \ RowsOf(f)) \cup NewRows(f, b, last),
         fileCache' = [fileCache EXCEPT ![f] =
             [body |-> b, stamp |-> s, model |-> m,
              backlinks |-> IF Cached(f) THEN fileCache[f].backlinks ELSE 0]]
  PROVE  /\ RowsOf(f)' = NewRows(f, b, last)
         /\ Cached(f)' /\ fileCache'[f].body = b /\ fileCache'[f].model = m
         /\ \A g \in File \ {f} : /\ RowsOf(g)' = RowsOf(g)
                                  /\ fileCache'[g] = fileCache[g]
<1>1. \A r \in NewRows(f, b, last) : r.file = f
  BY NewRowsShape
<1>2. RowsOf(f)' = NewRows(f, b, last)
  BY <1>1 DEF RowsOf
<1>3. \A g \in File \ {f} : RowsOf(g)' = RowsOf(g)
  BY <1>1 DEF RowsOf
<1>4. \A g \in File \ {f} : fileCache'[g] = fileCache[g]
  BY DEF TypeInv, TypeOK
<1> DEFINE entry == [body |-> b, stamp |-> s, model |-> m,
                     backlinks |-> IF Cached(f) THEN fileCache[f].backlinks
                                               ELSE 0]
<1>5. entry \in CacheRow
  <2>1. Cached(f) => fileCache[f].backlinks \in Nat
    BY DEF TypeInv, TypeOK, Cached, CacheRow
  <2> QED
    BY <2>1 DEF CacheRow
<1>6. fileCache'[f] = entry
  BY DEF TypeInv, TypeOK
<1>7. Cached(f)'
  BY <1>5, <1>6, SentinelsAssumption DEF Cached
<1> QED
  BY <1>2, <1>3, <1>4, <1>6, <1>7

(* reindex_file replaces the chunks, the text index, the vectors, the      *)
(* tasks and the cache row of a file together, so they still agree after   *)
(* it.                                                                     *)
LEMMA ReindexKeepsAgreement ==
  ASSUME StoreInv,
         NEW f \in File, NEW b \in Body, NEW s \in Stamp, NEW m \in ModelId,
         NEW embedded \in SUBSET (1 .. NumChunks[b]),
         NEW targets \in SUBSET {g \in File : g[1] = f[1]},
         ReindexTx(f, b, s, m, embedded, targets)
  PROVE  TablesAgree'
<1> USE DEF StoreInv, TablesAgree
<1> DEFINE old == RowsOf(f)
           kept == chunks \ old
<1>1. PICK last \in 0 .. MaxRowId :
        LET new == NewRows(f, b, last) IN
        /\ IsLastId(last, kept)
        /\ chunks' = kept \cup new
        /\ fts' = TextWithout(old) \cup new
        /\ vec' = VecWithout(old) \cup
                  {[id |-> last + i, body |-> b, seq |-> i, model |-> m] :
                     i \in embedded}
        /\ tasks' = TasksWithout(f) \cup
                    {[file |-> f, task |-> k] : k \in TasksOf[b]}
        /\ links' = {l \in links : l.source # f} \cup
                    {[source |-> f, target |-> g] : g \in targets}
        /\ fileCache' = [fileCache EXCEPT ![f] =
             [body |-> b, stamp |-> s, model |-> m,
              backlinks |-> IF Cached(f) THEN fileCache[f].backlinks ELSE 0]]
  BY Zenon DEF ReindexTx
<1> DEFINE new == NewRows(f, b, last)
<1>last. last \in Nat
  BY ConstantsAssumption
<1>rows. /\ RowsOf(f)' = new
         /\ Cached(f)' /\ fileCache'[f].body = b /\ fileCache'[f].model = m
         /\ \A g \in File \ {f} : /\ RowsOf(g)' = RowsOf(g)
                                  /\ fileCache'[g] = fileCache[g]
  BY <1>1, <1>last, ReindexTxRows, Zenon
<1>shape. /\ new \subseteq ChunkRow
          /\ \A r \in new : r.file = f /\ r.body = b /\ r.id > last
          /\ \A i \in 1 .. NumChunks[b] : \E r \in new :
               r.id = last + i /\ r.seq = i
          /\ \A r \in new : r.seq \in 1 .. NumChunks[b]
          /\ \A r, q \in new : r.id = q.id => r = q
  BY <1>last, NewRowsShape
<1>keptIds. \A r \in kept : r.id \in Nat /\ r.id <= last
  BY <1>1 DEF IsLastId, TypeInv, TypeOK, ChunkRow, RowId
<1>2. TextIndexExact'
  <2>1. fts' = chunks'
    BY <1>1 DEF TextIndexExact, TextWithout
  <2>2. ASSUME NEW r \in chunks', NEW q \in chunks', r.id = q.id
        PROVE  r = q
    <3>1. \A x \in new : x.id \in Nat /\ x.id > last
      BY <1>shape DEF ChunkRow, RowId
    <3>2. CASE r \in kept /\ q \in kept
      BY <2>2, <3>2 DEF TextIndexExact
    <3>3. CASE r \in new /\ q \in new
      BY <2>2, <3>3, <1>shape
    <3>4. ~ (r \in kept /\ q \in new) /\ ~ (r \in new /\ q \in kept)
      BY <2>2, <3>1, <1>keptIds, <1>last
    <3>5. (r \in kept \/ r \in new) /\ (q \in kept \/ q \in new)
      BY <1>1
    <3> QED
      BY <3>2, <3>3, <3>4, <3>5
  <2> QED
    BY <2>1, <2>2 DEF TextIndexExact
<1>3. VectorsMatchChunks'
  <2> SUFFICES ASSUME NEW e \in vec'
               PROVE  \E r \in chunks' :
                        /\ r.id = e.id /\ r.body = e.body /\ r.seq = e.seq
                        /\ Cached(r.file)' /\ fileCache'[r.file].model = e.model
    BY DEF VectorsMatchChunks
  <2>1. CASE e \in VecWithout(old)
    <3>1. e \in vec /\ e.id \notin Ids(old)
      BY <2>1 DEF VecWithout
    <3>2. PICK r \in chunks :
            /\ r.id = e.id /\ r.body = e.body /\ r.seq = e.seq
            /\ Cached(r.file) /\ fileCache[r.file].model = e.model
      BY <3>1 DEF VectorsMatchChunks
    <3>3. r \in kept /\ r.file \in File \ {f}
      BY <3>1, <3>2 DEF Ids, RowsOf, TypeInv, TypeOK, ChunkRow
    <3>4. Cached(r.file)' /\ fileCache'[r.file].model = e.model
      BY <3>2, <3>3, <1>rows DEF Cached
    <3> QED
      BY <3>2, <3>3, <3>4, <1>1
  <2>2. CASE e \notin VecWithout(old)
    <3>1. PICK i \in embedded :
            e = [id |-> last + i, body |-> b, seq |-> i, model |-> m]
      BY <1>1, <2>2
    <3>2. PICK r \in new : r.id = last + i /\ r.seq = i
      BY <1>shape
    <3> QED
      BY <3>1, <3>2, <1>shape, <1>rows, <1>1
  <2> QED
    BY <2>1, <2>2
<1>4. CacheMatchesRows'
  <2> SUFFICES ASSUME NEW g \in File
               PROVE
      /\ {<<r.body, r.seq>> : r \in RowsOf(g)'} =
           IF Cached(g)'
           THEN {fileCache'[g].body} \X (1 .. NumChunks[fileCache'[g].body])
           ELSE {}
      /\ {k.task : k \in {j \in tasks' : j.file = g}} =
           IF Cached(g)' THEN TasksOf[fileCache'[g].body] ELSE {}
    BY DEF CacheMatchesRows
  <2>1. CASE g = f
    <3>1. \A i \in 1 .. NumChunks[b] : \E r \in new : r.body = b /\ r.seq = i
      BY <1>shape
    <3>4. \A r \in new : r.body = b /\ r.seq \in 1 .. NumChunks[b]
      BY <1>shape
    <3>2. {j \in tasks' : j.file = f} =
            {[file |-> f, task |-> k] : k \in TasksOf[b]}
      BY <1>1 DEF TasksWithout
    <3>3. {k.task : k \in {j \in tasks' : j.file = f}} = TasksOf[b]
      <4>1. \A j \in {i \in tasks' : i.file = f} : j.task \in TasksOf[b]
        BY <3>2
      <4>2. ASSUME NEW k \in TasksOf[b]
            PROVE  \E j \in {i \in tasks' : i.file = f} : j.task = k
        <5>1. [file |-> f, task |-> k] \in {i \in tasks' : i.file = f}
          BY <3>2
        <5> QED
          BY <5>1
      <4> QED
        BY <4>1, <4>2
    <3>5. {<<r.body, r.seq>> : r \in new} = {b} \X (1 .. NumChunks[b])
      <4> HIDE DEF new
      <4>1. \A r \in new : <<r.body, r.seq>> \in {b} \X (1 .. NumChunks[b])
        BY <3>4
      <4>2. ASSUME NEW x \in {b} \X (1 .. NumChunks[b])
            PROVE  \E r \in new : x = <<r.body, r.seq>>
        <5>1. PICK i \in 1 .. NumChunks[b] : x = <<b, i>>
          OBVIOUS
        <5> QED
          BY <5>1, <3>1
      <4> QED
        BY <4>1, <4>2
    <3> QED
      BY <2>1, <3>3, <3>5, <1>rows
  <2>2. CASE g # f
    <3>1. {j \in tasks' : j.file = g} = {j \in tasks : j.file = g}
      BY <1>1, <2>2 DEF TasksWithout
    <3>2. RowsOf(g)' = RowsOf(g) /\ fileCache'[g] = fileCache[g]
      BY <1>rows, <2>2
    <3> QED
      BY <3>1, <3>2 DEF CacheMatchesRows, Cached
  <2> QED
    BY <2>1, <2>2
<1>5. LinkSourcesCached'
  <2> SUFFICES ASSUME NEW l \in links'
               PROVE  Cached(l.source)' /\ l.source[1] = l.target[1]
    BY DEF LinkSourcesCached
  <2>1. CASE l \in links /\ l.source # f
    <3>1. l.source \in File \ {f}
      BY <2>1 DEF TypeInv, TypeOK, LinkRow
    <3> QED
      BY <2>1, <3>1, <1>rows DEF LinkSourcesCached, Cached
  <2>2. CASE ~ (l \in links /\ l.source # f)
    <3>1. PICK g \in targets : l = [source |-> f, target |-> g]
      BY <1>1, <2>2
    <3> QED
      BY <3>1, <1>rows
  <2> QED
    BY <2>1, <2>2
<1> QED
  BY <1>2, <1>3, <1>4, <1>5

(* delete_file_fully removes a file from all of these tables together; the *)
(* tags it read earlier play no part in it.                                *)
LEMMA DeleteKeepsAgreement ==
  ASSUME StoreInv, NEW f \in File, NEW tally \in TagTally, DeleteTx(f, tally)
  PROVE  TablesAgree'
<1> USE DEF StoreInv, TablesAgree
<1> DEFINE old == RowsOf(f)
<1>1. /\ chunks' = chunks \ old /\ fts' = TextWithout(old)
      /\ vec' = VecWithout(old) /\ tasks' = TasksWithout(f)
      /\ links' = LinksWithout(f)
      /\ fileCache' = [fileCache EXCEPT ![f] = NoRow]
  BY DEF DeleteTx
<1>2. /\ RowsOf(f)' = {} /\ ~ Cached(f)'
      /\ \A g \in File \ {f} : /\ RowsOf(g)' = RowsOf(g)
                               /\ fileCache'[g] = fileCache[g]
  BY <1>1 DEF RowsOf, Cached, TypeInv, TypeOK
<1>3. TextIndexExact'
  BY <1>1 DEF TextIndexExact, TextWithout
<1>4. VectorsMatchChunks'
  <2> SUFFICES ASSUME NEW e \in vec'
               PROVE  \E r \in chunks' :
                        /\ r.id = e.id /\ r.body = e.body /\ r.seq = e.seq
                        /\ Cached(r.file)' /\ fileCache'[r.file].model = e.model
    BY DEF VectorsMatchChunks
  <2>1. e \in vec /\ e.id \notin Ids(old)
    BY <1>1 DEF VecWithout
  <2>2. PICK r \in chunks :
          /\ r.id = e.id /\ r.body = e.body /\ r.seq = e.seq
          /\ Cached(r.file) /\ fileCache[r.file].model = e.model
    BY <2>1 DEF VectorsMatchChunks
  <2>3. r \in chunks' /\ r.file \in File \ {f}
    BY <1>1, <2>1, <2>2 DEF Ids, RowsOf, TypeInv, TypeOK, ChunkRow
  <2> QED
    BY <2>2, <2>3, <1>2 DEF Cached
<1>5. CacheMatchesRows'
  <2> SUFFICES ASSUME NEW g \in File
               PROVE
      /\ {<<r.body, r.seq>> : r \in RowsOf(g)'} =
           IF Cached(g)'
           THEN {fileCache'[g].body} \X (1 .. NumChunks[fileCache'[g].body])
           ELSE {}
      /\ {k.task : k \in {j \in tasks' : j.file = g}} =
           IF Cached(g)' THEN TasksOf[fileCache'[g].body] ELSE {}
    BY DEF CacheMatchesRows
  <2>1. CASE g = f
    BY <2>1, <1>1, <1>2 DEF TasksWithout
  <2>2. CASE g # f
    <3>1. {j \in tasks' : j.file = g} = {j \in tasks : j.file = g}
      BY <1>1, <2>2 DEF TasksWithout
    <3>2. RowsOf(g)' = RowsOf(g) /\ fileCache'[g] = fileCache[g]
      BY <1>2, <2>2
    <3> QED
      BY <3>1, <3>2 DEF CacheMatchesRows, Cached
  <2> QED
    BY <2>1, <2>2
<1>6. LinkSourcesCached'
  BY <1>1, <1>2 DEF LinkSourcesCached, LinksWithout, Cached, TypeInv, TypeOK,
     LinkRow
<1> QED
  BY <1>3, <1>4, <1>5, <1>6

(* A recount changes nothing of a row but its backlink_count.              *)
LEMMA RecountRows ==
  ASSUME TypeOK, FiniteTables, NEW v, RecountTx(v), NEW f \in File
  PROVE  /\ Cached(f)' <=> Cached(f)
         /\ Cached(f) => /\ fileCache'[f].body = fileCache[f].body
                         /\ fileCache'[f].model = fileCache[f].model
                         /\ fileCache'[f].stamp = fileCache[f].stamp
<1> DEFINE n == Cardinality({l \in links : l.target = f})
<1>1. n \in Nat
  <2>1. {l \in links : l.target = f} \in SUBSET links
    OBVIOUS
  <2> QED
    BY <2>1, FS_Subset, FS_CardinalityType DEF FiniteTables
<1> HIDE DEF n
<1>2. CASE f[1] = v /\ Cached(f)
  <2>1. fileCache[f] \in CacheRow
    BY <1>2 DEF TypeOK, Cached
  <2>2. fileCache'[f] = [fileCache[f] EXCEPT !.backlinks = n]
    BY <1>2 DEF RecountTx, n
  <2>3. fileCache'[f] \in CacheRow
    BY <1>1, <2>1, <2>2 DEF CacheRow
  <2> QED
    BY <1>2, <2>1, <2>2, <2>3, SentinelsAssumption DEF Cached, CacheRow
<1>3. CASE ~ (f[1] = v /\ Cached(f))
  BY <1>3 DEF RecountTx, Cached
<1> QED
  BY <1>2, <1>3

(* A recount changes no body and no model of a cache row.                  *)
LEMMA RecountKeepsAgreement ==
  ASSUME StoreInv, NEW v \in Vault, RecountTx(v)
  PROVE  TablesAgree'
<1> USE DEF StoreInv, TablesAgree
<1>1. UNCHANGED <<chunks, fts, vec, tasks, links>>
  BY DEF RecountTx
<1>2. \A f \in File : /\ Cached(f)' <=> Cached(f)
                      /\ Cached(f) => /\ fileCache'[f].body = fileCache[f].body
                                      /\ fileCache'[f].model = fileCache[f].model
  BY RecountRows DEF TypeInv
<1>3. TextIndexExact'
  BY <1>1 DEF TextIndexExact
<1>4. VectorsMatchChunks'
  <2> SUFFICES ASSUME NEW e \in vec
               PROVE  \E r \in chunks :
                        /\ r.id = e.id /\ r.body = e.body /\ r.seq = e.seq
                        /\ Cached(r.file)' /\ fileCache'[r.file].model = e.model
    BY <1>1 DEF VectorsMatchChunks
  <2>1. PICK r \in chunks :
          /\ r.id = e.id /\ r.body = e.body /\ r.seq = e.seq
          /\ Cached(r.file) /\ fileCache[r.file].model = e.model
    BY DEF VectorsMatchChunks
  <2>2. r.file \in File
    BY DEF TypeInv, TypeOK, ChunkRow
  <2> QED
    BY <2>1, <2>2, <1>2 DEF Cached
<1>5. CacheMatchesRows'
  <2> SUFFICES ASSUME NEW g \in File
               PROVE
      /\ {<<r.body, r.seq>> : r \in RowsOf(g)} =
           IF Cached(g)'
           THEN {fileCache'[g].body} \X (1 .. NumChunks[fileCache'[g].body])
           ELSE {}
      /\ {k.task : k \in {j \in tasks : j.file = g}} =
           IF Cached(g)' THEN TasksOf[fileCache'[g].body] ELSE {}
    BY <1>1 DEF CacheMatchesRows, RowsOf
  <2> QED
    BY <1>2 DEF CacheMatchesRows, Cached
<1>6. LinkSourcesCached'
  <2> SUFFICES ASSUME NEW l \in links
               PROVE  Cached(l.source)' /\ l.source[1] = l.target[1]
    BY <1>1 DEF LinkSourcesCached
  <2>1. l.source \in File
    BY DEF TypeInv, TypeOK, LinkRow
  <2> QED
    BY <2>1, <1>2 DEF LinkSourcesCached, Cached
<1> QED
  BY <1>3, <1>4, <1>5, <1>6

(* An empty database is consistent.                                        *)
LEMMA InitStoreInv == StoreInit => StoreInv
<1> SUFFICES ASSUME StoreInit PROVE TablesAgree
  BY InitTypeInv DEF StoreInv
<1>1. \A f \in File : RowsOf(f) = {} /\ ~ Cached(f)
  BY DEF StoreInit, RowsOf, Cached
<1> QED
  BY <1>1 DEF StoreInit, TablesAgree, TextIndexExact, VectorsMatchChunks,
     CacheMatchesRows, LinkSourcesCached

(* Every step of every process keeps the tables in agreement.              *)
LEMMA NextStoreInv == StoreInv /\ [StoreNext]_storeVars => StoreInv'
<1> SUFFICES ASSUME StoreInv, [StoreNext]_storeVars
             PROVE  TablesAgree'
  BY NextTypeInv DEF StoreInv
<1>tables. ASSUME UNCHANGED tables
           PROVE  TablesAgree'
  BY <1>tables DEF tables, StoreInv, TablesAgree, TextIndexExact, RowsOf,
     VectorsMatchChunks, CacheMatchesRows, LinkSourcesCached, Cached
<1>1. ASSUME NEW p \in Proc, Reindex(p)
      PROVE  TablesAgree'
  <2>1. PICK f \in File, b \in Body, s \in Stamp, m \in ModelId :
          \E embedded \in IF m = "none" THEN {{}} ELSE SUBSET (1 .. NumChunks[b]),
             targets \in SUBSET {g \in File : g[1] = f[1]} :
               /\ IsFiniteSet(targets)
               /\ ReindexTx(f, b, s, m, embedded, targets)
    BY <1>1 DEF Reindex
  <2>2. PICK embedded \in SUBSET (1 .. NumChunks[b]),
             targets \in SUBSET {g \in File : g[1] = f[1]} :
               ReindexTx(f, b, s, m, embedded, targets)
    BY <2>1
  <2> QED
    BY <2>2, ReindexKeepsAgreement
<1>2. ASSUME NEW p \in Proc, CommitDelete(p)
      PROVE  TablesAgree'
  <2>1. pending[p] \in PendingDelete
    BY <1>2 DEF CommitDelete, StoreInv, TypeInv, TypeOK
  <2>2. pending[p].file \in File /\ pending[p].tags \in TagTally
    BY <2>1 DEF PendingDelete
  <2> QED
    BY <1>2, <2>2, DeleteKeepsAgreement DEF CommitDelete
<1>3. ASSUME NEW p \in Proc, Recount(p)
      PROVE  TablesAgree'
  BY <1>3, RecountKeepsAgreement DEF Recount
<1>4. ASSUME NEW p \in Proc, PurgeAll(p)
      PROVE  TablesAgree'
  BY <1>4 DEF PurgeAll, PurgeAllTx, TablesAgree, TextIndexExact, RowsOf,
     VectorsMatchChunks, CacheMatchesRows, LinkSourcesCached, Cached
<1>5. ASSUME NEW p \in Proc,
             \/ BeginDelete(p) \/ BeginPurgeDelete(p)
             \/ SelectExpired(p) \/ Abandon(p)
      PROVE  TablesAgree'
  BY <1>5, <1>tables DEF BeginDelete, BeginPurgeDelete, ReadTags,
     SelectExpired, Abandon
<1>6. CASE UNCHANGED storeVars
  BY <1>6, <1>tables DEF storeVars, tables
<1> QED
  BY <1>1, <1>2, <1>3, <1>4, <1>5, <1>6 DEF StoreNext

(* The inductive invariant: types, finiteness and the agreement of the     *)
(* tables, for any number of processes.                                    *)
LEMMA StoreInvariant == StoreSpec => []StoreInv
BY InitStoreInv, NextStoreInv, PTL DEF StoreSpec

(* Full-text search finds every chunk and nothing else, and a rowid names  *)
(* one row, although rowids are given out again after deletions.           *)
THEOREM TextIndexCorrect == StoreSpec => []TextIndexExact
<1>1. StoreInv => TextIndexExact
  BY DEF StoreInv, TablesAgree
<1> QED
  BY <1>1, StoreInvariant, PTL

(* A vector always belongs to the chunk its rowid names.                   *)
THEOREM VectorsCorrect == StoreSpec => []VectorsMatchChunks
<1>1. StoreInv => VectorsMatchChunks
  BY DEF StoreInv, TablesAgree
<1> QED
  BY <1>1, StoreInvariant, PTL

(* The rows of a file are those of the body whose hash is cached, so       *)
(* skipping a file with an unchanged hash loses no chunk and no task.      *)
THEOREM CacheCorrect == StoreSpec => []CacheMatchesRows
<1>1. StoreInv => CacheMatchesRows
  BY DEF StoreInv, TablesAgree
<1> QED
  BY <1>1, StoreInvariant, PTL

(* A backlink is counted only from a note that is indexed, in its vault.   *)
THEOREM LinksCorrect == StoreSpec => []LinkSourcesCached
<1>1. StoreInv => LinkSourcesCached
  BY DEF StoreInv, TablesAgree
<1> QED
  BY <1>1, StoreInvariant, PTL

(***************************************************************************)
(* tag_counts with one writer.  What makes the counts exact is that the    *)
(* tags delete_file_fully read are still those of the rows it deletes;     *)
(* with a second writer they need not be (run store_tag_drift).            *)
(***************************************************************************)
Carrying(v, t) == {r \in chunks : r.file[1] = v /\ t \in TagsOf[r.body]}

PendingTagsFresh ==
  \A p \in Proc : pending[p] # NoDelete =>
    pending[p].tags = TagUse(RowsOf(pending[p].file))

TagInv == TypeInv /\ TagCountsExact /\ PendingTagsFresh

(* Replacing the rows of one file by new rows changes the number of rows   *)
(* that carry a tag by the difference of the two tallies.                  *)
LEMMA TallyAfterReplace ==
  ASSUME TypeInv, NEW f \in File, NEW new, IsFiniteSet(new),
         \A r \in new : r.file = f,
         chunks' = (chunks \ RowsOf(f)) \cup new,
         NEW v \in Vault, NEW t \in Tag
  PROVE  IF v = f[1]
         THEN /\ TagUse(RowsOf(f))[t] \in Nat
              /\ TagUse(RowsOf(f))[t] <= Cardinality(Carrying(v, t))
              /\ Cardinality(Carrying(v, t)') =
                   (Cardinality(Carrying(v, t)) - TagUse(RowsOf(f))[t])
                     + TagUse(new)[t]
         ELSE Cardinality(Carrying(v, t)') = Cardinality(Carrying(v, t))
<1> DEFINE before == Carrying(v, t)
           gone == {r \in RowsOf(f) : t \in TagsOf[r.body]}
           added == {r \in new : t \in TagsOf[r.body]}
<1>1. before \in SUBSET chunks /\ added \in SUBSET new /\ IsFiniteSet(chunks)
  BY DEF Carrying, TypeInv, FiniteTables
<1>2. IsFiniteSet(before) /\ IsFiniteSet(added)
  BY <1>1, FS_Subset
<1>3. CASE v = f[1]
  <2>1. gone \in SUBSET before
    BY <1>3 DEF Carrying, RowsOf
  <2>2. Carrying(v, t)' = (before \ gone) \cup added
    BY <1>3 DEF Carrying, RowsOf
  <2>3. (before \ gone) \cap added = {} /\ before \cap gone = gone
    BY <2>1 DEF Carrying, RowsOf
  <2>4. TagUse(RowsOf(f))[t] = Cardinality(gone)
        /\ TagUse(new)[t] = Cardinality(added)
    BY DEF TagUse
  <2> HIDE DEF before, gone, added
  <2>5. IsFiniteSet(gone) /\ Cardinality(gone) <= Cardinality(before)
    BY <1>2, <2>1, FS_Subset
  <2>6. /\ IsFiniteSet(before \ gone)
        /\ Cardinality(before \ gone) = Cardinality(before) - Cardinality(gone)
    BY <1>2, <2>3, FS_Difference
  <2>7. Cardinality((before \ gone) \cup added) =
          Cardinality(before \ gone) + Cardinality(added) - Cardinality({})
    BY <1>2, <2>3, <2>6, FS_Union
  <2>8. /\ Cardinality(before) \in Nat /\ Cardinality(gone) \in Nat
        /\ Cardinality(added) \in Nat /\ Cardinality({}) = 0
    BY <1>2, <2>5, FS_CardinalityType, FS_EmptySet
  <2>9. Cardinality(Carrying(v, t)') =
          (Cardinality(before) - Cardinality(gone)) + Cardinality(added)
    BY <2>2, <2>6, <2>7, <2>8
  <2> QED
    BY <1>3, <2>4, <2>5, <2>8, <2>9 DEF before
<1>4. CASE v # f[1]
  <2>1. Carrying(v, t)' = Carrying(v, t)
    BY <1>4 DEF Carrying, RowsOf
  <2> QED
    BY <1>4, <2>1
<1> QED
  BY <1>3, <1>4

(* Decrementing by the old rows and incrementing by the new ones keeps the *)
(* tag counts exact: the guard count > 0 cuts nothing off.                 *)
LEMMA ReindexKeepsCounts ==
  ASSUME TypeInv, TagCountsExact,
         NEW f \in File, NEW b \in Body, NEW s \in Stamp, NEW m \in ModelId,
         NEW embedded, NEW targets,
         ReindexTx(f, b, s, m, embedded, targets)
  PROVE  TagCountsExact'
<1>1. PICK last \in 0 .. MaxRowId :
        LET new == NewRows(f, b, last) IN
        /\ chunks' = (chunks \ RowsOf(f)) \cup new
        /\ tagCounts' = [tagCounts EXCEPT ![f[1]] =
             [t \in Tag |->
                Decrement(@[t], TagUse(RowsOf(f))[t]) + TagUse(new)[t]]]
  BY Zenon DEF ReindexTx
<1> DEFINE new == NewRows(f, b, last)
<1>2. last \in Nat
  BY ConstantsAssumption
<1>3. IsFiniteSet(new) /\ \A r \in new : r.file = f
  BY <1>2, NewRowsShape
<1> SUFFICES ASSUME NEW v \in Vault, NEW t \in Tag
             PROVE  tagCounts'[v][t] = Cardinality(Carrying(v, t)')
  BY DEF TagCountsExact, Carrying
<1>4. tagCounts[v][t] = Cardinality(Carrying(v, t))
  BY DEF TagCountsExact, Carrying
<1>5. tagCounts[v][t] \in Nat
  BY DEF TypeInv, TypeOK, TagTally
<1>6. chunks' = (chunks \ RowsOf(f)) \cup new
  BY <1>1
<1>7. IF v = f[1]
      THEN /\ TagUse(RowsOf(f))[t] \in Nat
           /\ TagUse(RowsOf(f))[t] <= Cardinality(Carrying(v, t))
           /\ Cardinality(Carrying(v, t)') =
                (Cardinality(Carrying(v, t)) - TagUse(RowsOf(f))[t])
                  + TagUse(new)[t]
      ELSE Cardinality(Carrying(v, t)') = Cardinality(Carrying(v, t))
  <2> HIDE DEF new
  <2> QED
    BY <1>3, <1>6, TallyAfterReplace
<1>8. CASE v = f[1]
  <2>1. tagCounts'[v][t] =
          Decrement(tagCounts[v][t], TagUse(RowsOf(f))[t]) + TagUse(new)[t]
    BY <1>1, <1>8 DEF TypeInv, TypeOK
  <2>2. Decrement(tagCounts[v][t], TagUse(RowsOf(f))[t]) =
          tagCounts[v][t] - TagUse(RowsOf(f))[t]
    BY <1>4, <1>5, <1>7, <1>8, DecrementType
  <2> HIDE DEF new
  <2> QED
    BY <2>1, <2>2, <1>4, <1>7, <1>8
<1>9. CASE v # f[1]
  <2>1. tagCounts'[v] = tagCounts[v]
    BY <1>1, <1>9 DEF TypeInv, TypeOK
  <2> QED
    BY <2>1, <1>4, <1>7, <1>9
<1> QED
  BY <1>8, <1>9

(* A delete keeps the tag counts exact if the tags it read are still those *)
(* of the rows it deletes.                                                 *)
LEMMA DeleteKeepsCounts ==
  ASSUME TypeInv, TagCountsExact, NEW f \in File,
         DeleteTx(f, TagUse(RowsOf(f)))
  PROVE  TagCountsExact'
<1> SUFFICES ASSUME NEW v \in Vault, NEW t \in Tag
             PROVE  tagCounts'[v][t] = Cardinality(Carrying(v, t)')
  BY DEF TagCountsExact, Carrying
<1>1. tagCounts[v][t] = Cardinality(Carrying(v, t))
  BY DEF TagCountsExact, Carrying
<1>2. tagCounts[v][t] \in Nat
  BY DEF TypeInv, TypeOK, TagTally
<1>3. chunks' = (chunks \ RowsOf(f)) \cup {}
  BY DEF DeleteTx
<1>4. IF v = f[1]
      THEN /\ TagUse(RowsOf(f))[t] \in Nat
           /\ TagUse(RowsOf(f))[t] <= Cardinality(Carrying(v, t))
           /\ Cardinality(Carrying(v, t)') =
                (Cardinality(Carrying(v, t)) - TagUse(RowsOf(f))[t])
                  + TagUse({})[t]
      ELSE Cardinality(Carrying(v, t)') = Cardinality(Carrying(v, t))
  <2>1. IsFiniteSet({})
    BY FS_EmptySet
  <2> QED
    BY <2>1, <1>3, TallyAfterReplace
<1>5. TagUse({})[t] = 0
  BY FS_EmptySet DEF TagUse
<1>6. CASE v = f[1]
  <2>1. tagCounts'[v][t] =
          Decrement(tagCounts[v][t], TagUse(RowsOf(f))[t])
    BY <1>6 DEF DeleteTx, TypeInv, TypeOK
  <2>2. Decrement(tagCounts[v][t], TagUse(RowsOf(f))[t]) =
          tagCounts[v][t] - TagUse(RowsOf(f))[t]
    BY <1>1, <1>2, <1>4, <1>6, DecrementType
  <2> QED
    BY <2>1, <2>2, <1>1, <1>2, <1>4, <1>5, <1>6
<1>7. CASE v # f[1]
  <2>1. tagCounts'[v] = tagCounts[v]
    BY <1>7 DEF DeleteTx, TypeInv, TypeOK
  <2> QED
    BY <2>1, <1>1, <1>4, <1>7
<1> QED
  BY <1>6, <1>7

(* With one process nothing runs between the tag read and the delete       *)
(* transaction, so the counts stay exact.                                  *)
LEMMA NextTagInv ==
  ASSUME NEW w, Proc = {w}
  PROVE  TagInv /\ [StoreNext]_storeVars => TagInv'
<1> SUFFICES ASSUME TagInv, [StoreNext]_storeVars
             PROVE  TagCountsExact' /\ PendingTagsFresh'
  BY NextTypeInv DEF TagInv
<1> USE DEF TagInv
<1>1. ASSUME Reindex(w)
      PROVE  TagCountsExact' /\ PendingTagsFresh'
  <2>1. PICK f \in File, b \in Body, s \in Stamp, m \in ModelId :
          \E embedded \in IF m = "none" THEN {{}} ELSE SUBSET (1 .. NumChunks[b]),
             targets \in SUBSET {g \in File : g[1] = f[1]} :
               ReindexTx(f, b, s, m, embedded, targets)
    BY <1>1 DEF Reindex
  <2>2. PendingTagsFresh'
    BY <1>1 DEF Reindex, Idle, PendingTagsFresh
  <2> QED
    BY <2>1, <2>2, ReindexKeepsCounts
<1>2. ASSUME NEW f \in File, ReadTags(w, f)
      PROVE  TagCountsExact' /\ PendingTagsFresh'
  <2>1. pending'[w] = [file |-> f, tags |-> TagUse(RowsOf(f))]
    BY <1>2 DEF ReadTags, TypeInv, TypeOK
  <2>2. chunks' = chunks /\ tagCounts' = tagCounts
    BY <1>2 DEF ReadTags, tables
  <2>3. TagCountsExact'
    BY <2>2 DEF TagCountsExact
  <2>4. pending'[w].tags = TagUse(RowsOf(pending[w].file))'
    <3>1. pending'[w].file = f /\ pending'[w].tags = TagUse(RowsOf(f))
      BY <2>1
    <3>2. TagUse(RowsOf(pending[w].file))' = TagUse(RowsOf(f))
      BY <2>2, <3>1 DEF TagUse, RowsOf
    <3> QED
      BY <3>1, <3>2
  <2>5. PendingTagsFresh'
    BY <2>4 DEF PendingTagsFresh
  <2> QED
    BY <2>3, <2>5
<1>3. ASSUME CommitDelete(w)
      PROVE  TagCountsExact' /\ PendingTagsFresh'
  <2>1. pending[w] \in PendingDelete
    BY <1>3 DEF CommitDelete, TypeInv, TypeOK
  <2>2. pending[w].file \in File
    BY <2>1 DEF PendingDelete
  <2>3. pending[w].tags = TagUse(RowsOf(pending[w].file))
    BY <1>3 DEF CommitDelete, PendingTagsFresh
  <2>4. DeleteTx(pending[w].file, TagUse(RowsOf(pending[w].file)))
    BY <1>3, <2>3 DEF CommitDelete
  <2>5. TagCountsExact'
    BY <2>2, <2>4, DeleteKeepsCounts
  <2>6. PendingTagsFresh'
    BY <1>3 DEF CommitDelete, PendingTagsFresh, TypeInv, TypeOK
  <2> QED
    BY <2>5, <2>6
<1>4. ASSUME SelectExpired(w) \/ Recount(w)
      PROVE  TagCountsExact' /\ PendingTagsFresh'
  <2>1. UNCHANGED <<chunks, tagCounts, pending>>
    BY <1>4 DEF SelectExpired, Recount, RecountTx, tables
  <2> QED
    BY <2>1 DEF TagCountsExact, PendingTagsFresh, TagUse, RowsOf
<1>5. ASSUME Abandon(w)
      PROVE  TagCountsExact' /\ PendingTagsFresh'
  BY <1>5 DEF Abandon, tables, TagCountsExact, PendingTagsFresh, TypeInv,
     TypeOK
<1>6. ASSUME PurgeAll(w)
      PROVE  TagCountsExact' /\ PendingTagsFresh'
  <2>1. PendingTagsFresh'
    BY <1>6 DEF PurgeAll, Idle, PendingTagsFresh
  <2>2. \A v \in Vault, t \in Tag : tagCounts'[v][t] = 0
    BY <1>6 DEF PurgeAll, PurgeAllTx
  <2>3. chunks' = {}
    BY <1>6 DEF PurgeAll, PurgeAllTx
  <2>4. TagCountsExact'
    BY <2>2, <2>3, FS_EmptySet DEF TagCountsExact
  <2> QED
    BY <2>1, <2>4
<1>7. CASE UNCHANGED storeVars
  BY <1>7 DEF storeVars, TagCountsExact, PendingTagsFresh, TagUse, RowsOf
<1>8. \A f \in purge[w].files : f \in File
  BY DEF TypeInv, TypeOK
<1> QED
  BY <1>1, <1>2, <1>3, <1>4, <1>5, <1>6, <1>7, <1>8
     DEF StoreNext, BeginDelete, BeginPurgeDelete

(* As long as one process writes, every tag count is the number of chunk   *)
(* rows that carry the tag, and the guard count > 0 is never needed.       *)
THEOREM TagCountsCorrect ==
  ASSUME NEW CONSTANT w, Proc = {w}
  PROVE  StoreSpec => []TagCountsExact
<1>1. StoreInit => TagInv
  <2> SUFFICES ASSUME StoreInit PROVE TagCountsExact /\ PendingTagsFresh
    BY InitTypeInv DEF TagInv
  <2>1. chunks = {} /\ \A v \in Vault, t \in Tag : tagCounts[v][t] = 0
    BY DEF StoreInit
  <2>2. TagCountsExact
    BY <2>1, FS_EmptySet DEF TagCountsExact
  <2>3. PendingTagsFresh
    BY DEF StoreInit, PendingTagsFresh
  <2> QED
    BY <2>2, <2>3
<1>2. TagInv /\ [StoreNext]_storeVars => TagInv'
  BY NextTagInv
<1>3. TagInv => TagCountsExact
  BY DEF TagInv
<1> QED
  BY <1>1, <1>2, <1>3, PTL DEF StoreSpec

(***************************************************************************)
(* The steps of FileIndexer.                                               *)
(***************************************************************************)
LEMMA StampFacts ==
  /\ NoStamp \in Stamp /\ Stamp \subseteq [mtime : Nat, size : Nat]
  /\ \A s, t \in Stamp : [mtime |-> s.mtime, size |-> t.size] \in Stamp
  /\ \A s \in Stamp : s.mtime \in Nat /\ s.size \in Nat
BY StampAssumption, ConstantsAssumption, Zenon

LEMMA TornStamp ==
  ASSUME NEW s \in Stamp, NEW t \in Stamp
  PROVE  /\ [s EXCEPT !.mtime = t.mtime] \in Stamp
         /\ [s EXCEPT !.size = t.size] \in Stamp
<1>1. /\ s \in [mtime : Nat, size : Nat] /\ t \in [mtime : Nat, size : Nat]
  BY StampFacts
<1>2. /\ [s EXCEPT !.mtime = t.mtime] = [mtime |-> t.mtime, size |-> s.size]
      /\ [s EXCEPT !.size = t.size] = [mtime |-> s.mtime, size |-> t.size]
  BY <1>1
<1> QED
  BY <1>2, StampFacts

LEMMA Sentinels ==
  /\ NoFile \notin DiskFile /\ NoBody \notin Body /\ NoWork \notin Work
  /\ NoRow \notin CacheRow /\ NoDelete \notin PendingDelete
BY IndexerAssumption, SentinelsAssumption, Zenon

LEMMA InitIndexerTypes == IndexerInit => IndexerTypeOK
<1> SUFFICES ASSUME IndexerInit
             PROVE  IndexerTypeOK
  OBVIOUS
<1>1. MaxEdits \in Nat
  BY IndexerAssumption, Zenon
<1> QED
  BY <1>1 DEF IndexerInit, IndexerTypeOK, At

-----------------------------------------------------------------------------
LEMMA EditTypes ==
  ASSUME IndexerTypeOK, UNCHANGED work,
         NEW f \in File,
         \/ \E b \in Body : WriteFile(f, b)
         \/ RemoveFile(f)
         \/ \E g \in File : RenameFile(f, g)
  PROVE  IndexerTypeOK'
<1>1. /\ edits' \in 0 .. MaxEdits /\ clock' \in Nat
  <2>1. Edit
    BY DEF WriteFile, RemoveFile, RenameFile
  <2>2. Ticks \subseteq Nat /\ MaxEdits \in Nat
    BY IndexerAssumption, Zenon
  <2>3. edits \in 0 .. MaxEdits /\ clock \in Nat
    BY DEF IndexerTypeOK
  <2> QED
    BY <2>1, <2>2, <2>3 DEF Edit
<1>2. disk' \in [File -> DiskFile \cup {NoFile}]
  <2>0. disk \in [File -> DiskFile \cup {NoFile}]
    BY DEF IndexerTypeOK
  <2>1. ASSUME NEW b \in Body, WriteFile(f, b)
        PROVE  disk' \in [File -> DiskFile \cup {NoFile}]
    <3>1. PICK s \in Stamp : disk' = [disk EXCEPT ![f] = [body |-> b, stamp |-> s]]
      BY <2>1 DEF WriteFile
    <3>2. [body |-> b, stamp |-> s] \in DiskFile
      BY DEF DiskFile
    <3> QED
      BY <2>0, <3>1, <3>2
  <2>2. CASE RemoveFile(f)
    BY <2>0, <2>2 DEF RemoveFile
  <2>3. ASSUME NEW g \in File, RenameFile(f, g)
        PROVE  disk' \in [File -> DiskFile \cup {NoFile}]
    BY <2>0, <2>3 DEF RenameFile
  <2> QED
    BY <2>1, <2>2, <2>3
<1>3. /\ work' \in [Proc -> Work \cup {NoWork}]
      /\ \A p \in Proc : (At(p, "hash") \/ At(p, "commit"))' => work'[p].body \in Body
  BY DEF IndexerTypeOK, At
<1> QED
  BY <1>1, <1>2, <1>3 DEF IndexerTypeOK

(* The process takes up w, or nothing. *)
LEMMA SetWorkTypes ==
  ASSUME IndexerTypeOK, UNCHANGED diskVars, NEW p \in Proc,
         NEW w \in Work \cup {NoWork}, SetWork(p, w),
         (w # NoWork /\ w.stage \in {"hash", "commit"}) => w.body \in Body
  PROVE  IndexerTypeOK'
<1>1. /\ work' = [work EXCEPT ![p] = w] /\ work \in [Proc -> Work \cup {NoWork}]
  BY DEF SetWork, IndexerTypeOK
<1>2. work' \in [Proc -> Work \cup {NoWork}]
  BY <1>1
<1>3. ASSUME NEW q \in Proc, (At(q, "hash") \/ At(q, "commit"))'
      PROVE  work'[q].body \in Body
  <2>1. CASE q = p
    BY <1>1, <1>3, <2>1 DEF At
  <2>2. CASE q # p
    BY <1>1, <1>3, <2>2 DEF At, IndexerTypeOK
  <2> QED
    BY <2>1, <2>2
<1> QED
  BY <1>2, <1>3 DEF IndexerTypeOK, diskVars

LEMMA BeginTypes ==
  ASSUME IndexerTypeOK, UNCHANGED diskVars, NEW p \in Proc,
         NEW f \in File, NEW known \in SUBSET Path, NEW m \in ModelId,
         BeginFile(p, f, known, m)
  PROVE  IndexerTypeOK'
<1> DEFINE w == [stage |-> "mtime", file |-> f, known |-> known,
                 model |-> m, stamp |-> NoStamp, body |-> NoBody]
<1>1. w \in Work /\ w.stage = "mtime"
  BY StampFacts DEF Work, Stages
<1>2. SetWork(p, w)
  BY DEF BeginFile
<1> HIDE DEF w
<1> QED
  BY <1>1, <1>2, SetWorkTypes

LEMMA EndTypes ==
  ASSUME IndexerTypeOK, UNCHANGED diskVars, NEW p \in Proc, EndFile(p)
  PROVE  IndexerTypeOK'
BY SetWorkTypes DEF EndFile

(* A file that is not there counts as one with the stamp NoStamp. *)
LEMMA StampOfType ==
  ASSUME IndexerTypeOK, NEW f \in File
  PROVE  StampOf(f) \in Stamp
BY StampFacts, Sentinels DEF StampOf, OnDisk, IndexerTypeOK, DiskFile

(* How a call goes on: with more of it known, over, or as it was. *)
Onward(p) ==
  \E w \in Work \cup {NoWork} :
    /\ SetWork(p, w)
    /\ (w # NoWork /\ w.stage \in {"hash", "commit"}) => w.body \in Body

LEMMA OnStage ==
  ASSUME IndexerTypeOK, NEW p \in Proc, work[p] # NoWork,
         NEW stage \in Stages \ {"hash", "commit"},
         SetWork(p, [work[p] EXCEPT !.stage = stage])
  PROVE  Onward(p)
<1>1. work[p] \in Work
  BY DEF IndexerTypeOK
<1>2. /\ [work[p] EXCEPT !.stage = stage] \in Work
      /\ [work[p] EXCEPT !.stage = stage].stage = stage
  BY <1>1 DEF Work
<1> QED
  BY <1>2 DEF Onward

LEMMA OnEnd ==
  ASSUME NEW p \in Proc, EndFile(p)
  PROVE  Onward(p)
BY DEF EndFile, Onward

LEMMA IndexFileWork ==
  ASSUME IndexerTypeOK, NEW p \in Proc, IndexFile(p) \/ FailFile(p)
  PROVE  Onward(p)
<1> DEFINE old == work[p]
<1>1. old # NoWork /\ old \in Work /\ old.file \in File /\ old.stamp \in Stamp
  <2>1. old # NoWork
    BY DEF IndexFile, FailFile, StatMtime, StatSize, CheckMtime, CheckSize, ReadFile,
           CheckHash, CommitFile, At
  <2>2. old \in Work
    BY <2>1 DEF IndexerTypeOK
  <2> QED
    BY <2>1, <2>2 DEF Work
<1>2. StampOf(old.file) \in Stamp
  BY <1>1, StampOfType
<1>3. CASE StatMtime(p)
  <2> DEFINE s == [old.stamp EXCEPT !.mtime = StampOf(old.file).mtime]
             w == [old EXCEPT !.stage = "size", !.stamp.mtime = StampOf(old.file).mtime]
  <2>1. s \in Stamp
    BY <1>1, <1>2, TornStamp
  <2>2. w = [old EXCEPT !.stage = "size", !.stamp = s]
    BY <1>1 DEF Work
  <2> HIDE DEF s
  <2>3. w \in Work /\ w.stage = "size"
    BY <1>1, <2>1, <2>2 DEF Work, Stages
  <2>4. SetWork(p, w)
    BY <1>3 DEF StatMtime
  <2> QED
    BY <2>3, <2>4 DEF Onward
<1>4. CASE StatSize(p)
  <2> DEFINE s == [old.stamp EXCEPT !.size = StampOf(old.file).size]
             w == [old EXCEPT !.stage = "cached mtime", !.stamp.size = StampOf(old.file).size]
  <2>1. s \in Stamp
    BY <1>1, <1>2, TornStamp
  <2>2. w = [old EXCEPT !.stage = "cached mtime", !.stamp = s]
    BY <1>1 DEF Work
  <2> HIDE DEF s
  <2>3. w \in Work /\ w.stage = "cached mtime"
    BY <1>1, <2>1, <2>2 DEF Work, Stages
  <2>4. SetWork(p, w)
    BY <1>4 DEF StatSize
  <2> QED
    BY <2>3, <2>4 DEF Onward
<1>5. CASE CheckMtime(p)
  <2>1. CASE MtimeMatches(old)
    BY <1>1, <1>5, <2>1, OnStage DEF CheckMtime, Stages
  <2>2. CASE ~ MtimeMatches(old)
    BY <1>1, <1>5, <2>2, OnStage DEF CheckMtime, Stages
  <2> QED
    BY <2>1, <2>2
<1>6. CASE CheckSize(p)
  BY <1>1, <1>6, OnStage, OnEnd DEF CheckSize, Stages
<1>7. CASE ReadFile(p)
  <2>1. CASE ~ OnDisk(old.file)
    BY <1>7, <2>1, OnEnd DEF ReadFile
  <2>2. CASE OnDisk(old.file)
    <3> DEFINE w == [old EXCEPT !.stage = "hash", !.body = disk[old.file].body]
    <3>1. disk[old.file].body \in Body
      BY <1>1, <2>2 DEF OnDisk, IndexerTypeOK, DiskFile
    <3>2. w \in Work /\ w.body \in Body
      BY <1>1, <3>1 DEF Work, Stages
    <3>3. SetWork(p, w)
      BY <1>7, <2>2 DEF ReadFile
    <3> QED
      BY <3>2, <3>3 DEF Onward
  <2> QED
    BY <2>1, <2>2
<1>8. CASE CheckHash(p)
  <2>1. CASE HashMatches(old)
    BY <1>8, <2>1, OnEnd DEF CheckHash
  <2>2. CASE ~ HashMatches(old)
    <3> DEFINE w == [old EXCEPT !.stage = "commit"]
    <3>1. old.body \in Body
      BY <1>8 DEF CheckHash, IndexerTypeOK
    <3>2. w \in Work /\ w.body \in Body
      BY <1>1, <3>1 DEF Work, Stages
    <3>3. SetWork(p, w)
      BY <1>8, <2>2 DEF CheckHash
    <3> QED
      BY <3>2, <3>3 DEF Onward
  <2> QED
    BY <2>1, <2>2
<1>9. CASE CommitFile(p)
  BY <1>9, OnEnd DEF CommitFile
<1>10. CASE FailFile(p)
  BY <1>1, <1>10, OnStage, OnEnd DEF FailFile, Stages
<1> QED
  BY <1>3, <1>4, <1>5, <1>6, <1>7, <1>8, <1>9, <1>10 DEF IndexFile

LEMMA IndexFileTypes ==
  ASSUME IndexerTypeOK, UNCHANGED diskVars, NEW p \in Proc,
         IndexFile(p) \/ FailFile(p)
  PROVE  IndexerTypeOK'
BY IndexFileWork, SetWorkTypes DEF Onward

-----------------------------------------------------------------------------
(* To the index a call is one reindex_file, at its end. *)
LEMMA CommitFileIsReindex ==
  ASSUME IndexerTypeOK, NEW p \in Proc, Idle(p), CommitFile(p)
  PROVE  Reindex(p)
<1> DEFINE w == work[p]
<1>1. /\ w \in Work /\ w.body \in Body /\ w.file \in File
      /\ w.stamp \in Stamp /\ w.model \in ModelId
  BY DEF CommitFile, At, IndexerTypeOK, Work
<1>2. Resolved(w) \in SUBSET {g \in File : g[1] = w.file[1]} /\ IsFiniteSet(Resolved(w))
  <2> DEFINE named == LinksOf[w.body] \cap w.known
             target == [q \in named |-> <<w.file[1], q>>]
  <2>1. IsFiniteSet(LinksOf[w.body]) /\ LinksOf[w.body] \subseteq Path
    BY <1>1, IndexerAssumption, Zenon
  <2>2. IsFiniteSet(named) /\ named \subseteq Path
    BY <2>1, FS_Subset
  <2>3. w.file[1] \in Vault
    BY <1>1 DEF File
  <2> HIDE DEF named
  <2>4. target \in Surjection(named, {<<w.file[1], q>> : q \in named})
    BY DEF Surjection
  <2>5. IsFiniteSet({<<w.file[1], q>> : q \in named})
    BY <2>2, <2>4, FS_Surjection
  <2>6. {<<w.file[1], q>> : q \in named} \in SUBSET {g \in File : g[1] = w.file[1]}
    BY <2>2, <2>3 DEF File
  <2>7. Resolved(w) = {<<w.file[1], q>> : q \in named} \/ Resolved(w) = {}
    BY DEF Resolved, named
  <2>8. IsFiniteSet({})
    BY FS_EmptySet
  <2> QED
    BY <2>5, <2>6, <2>7, <2>8
<1>3. PICK embedded \in IF w.model = "none" THEN {{}} ELSE {{}, 1 .. NumChunks[w.body]} :
        ReindexTx(w.file, w.body, w.stamp, w.model, embedded, Resolved(w))
  BY DEF CommitFile
<1>4. embedded \in IF w.model = "none" THEN {{}} ELSE SUBSET (1 .. NumChunks[w.body])
  BY <1>3
<1> HIDE DEF w
<1>5. UNCHANGED <<pending, purge>>
  BY DEF CommitFile
<1> QED
  BY <1>1, <1>2, <1>3, <1>4, <1>5 DEF Reindex

LEMMA IndexFileIsStoreStep ==
  ASSUME IndexerTypeOK, NEW p \in Proc, Idle(p), IndexFile(p)
  PROVE  [StoreNext]_storeVars
<1>1. CASE CommitFile(p)
  BY <1>1, CommitFileIsReindex DEF StoreNext
<1>2. CASE ~ CommitFile(p)
  BY <1>2 DEF IndexFile, StatMtime, StatSize, CheckMtime, CheckSize, ReadFile, CheckHash
<1> QED
  BY <1>1, <1>2

-----------------------------------------------------------------------------
(* Why no file is skipped that is not indexed as it is: when b was read    *)
(* after the time ms was, f has not been written since, or it was written  *)
(* at a later time than ms.                                                *)
ReadAfter(f, ms, b) ==
  /\ ms <= clock
  /\ (OnDisk(f) /\ disk[f].stamp.mtime = ms) => disk[f].body = b

WorkFresh(w) ==
  w # NoWork =>
    /\ w.stamp.mtime <= clock
    /\ w.stage = "mtime" => w.body = NoBody
    /\ w.body # NoBody => ReadAfter(w.file, w.stamp.mtime, w.body)

FreshInv ==
  /\ \A f \in File : OnDisk(f) => disk[f].stamp.mtime <= clock
  /\ \A f \in File :
       Cached(f) => ReadAfter(f, fileCache[f].stamp.mtime, fileCache[f].body)
  /\ \A p \in Proc : WorkFresh(work[p])

LEMMA FreshIsNoFalseSkip == FreshInv => NoFalseSkip
BY DEF FreshInv, NoFalseSkip, ReadAfter

LEMMA InitFresh == IndexerInit /\ (\A f \in File : ~ Cached(f)) => FreshInv
BY DEF IndexerInit, FreshInv, WorkFresh, OnDisk

(* An edit: time passes, so that what was read before it has another time. *)
LEMMA EditFresh ==
  ASSUME FreshInv, IndexerTypeOK, 0 \notin Ticks, UNCHANGED <<storeVars, work>>,
         fileCache \in [File -> CacheRow \cup {NoRow}],
         NEW f \in File,
         (\E b \in Body : WriteFile(f, b)) \/ RemoveFile(f)
  PROVE  FreshInv'
<1>1. clock \in Nat /\ clock' \in Nat /\ clock < clock'
  <2>1. Ticks \subseteq Nat
    BY IndexerAssumption, Zenon
  <2>2. Edit /\ clock \in Nat
    BY DEF WriteFile, RemoveFile, IndexerTypeOK
  <2> QED
    BY <2>1, <2>2 DEF Edit
<1>2. disk \in [File -> DiskFile \cup {NoFile}]
  BY DEF IndexerTypeOK
<1>3. ASSUME NEW g \in File, OnDisk(g)'
      PROVE  \/ OnDisk(g) /\ disk'[g] = disk[g] /\ disk[g].stamp.mtime <= clock
             \/ disk'[g].stamp.mtime = clock'
  <2>1. ASSUME NEW b \in Body, WriteFile(f, b)
        PROVE  \/ OnDisk(g) /\ disk'[g] = disk[g] /\ disk[g].stamp.mtime <= clock
               \/ disk'[g].stamp.mtime = clock'
    BY <1>2, <1>3, <2>1 DEF WriteFile, OnDisk, FreshInv
  <2>2. CASE RemoveFile(f)
    BY <1>2, <1>3, <2>2 DEF RemoveFile, OnDisk, FreshInv
  <2> QED
    BY <2>1, <2>2
<1>4. ASSUME NEW g \in File, NEW ms \in Nat, NEW b, ReadAfter(g, ms, b)
      PROVE  ReadAfter(g, ms, b)'
  <2>1. ms <= clock /\ ms <= clock' /\ ms # clock'
    BY <1>1, <1>4 DEF ReadAfter
  <2> QED
    BY <1>3, <1>4, <2>1 DEF ReadAfter
<1>5. ASSUME NEW g \in File, OnDisk(g)'
      PROVE  disk'[g].stamp.mtime <= clock'
  <2>1. disk'[g].stamp.mtime = clock' \/ disk[g].stamp.mtime <= clock
    BY <1>3, <1>5
  <2>2. CASE OnDisk(g) /\ disk'[g] = disk[g]
    <3>1. disk[g].stamp \in Stamp
      BY <1>2, <2>2 DEF OnDisk, DiskFile
    <3>2. disk[g].stamp.mtime \in Nat
      BY <3>1, StampFacts
    <3>3. disk[g].stamp.mtime <= clock
      BY <2>2 DEF FreshInv
    <3> QED
      BY <1>1, <2>2, <3>2, <3>3
  <2> QED
    BY <1>1, <1>3, <1>5, <2>2
<1>6. ASSUME NEW g \in File, Cached(g)'
      PROVE  ReadAfter(g, fileCache[g].stamp.mtime, fileCache[g].body)'
  <2>1. Cached(g) /\ UNCHANGED fileCache
    BY <1>6 DEF Cached, storeVars
  <2>2. fileCache[g].stamp \in Stamp
    BY <2>1 DEF Cached, CacheRow
  <2>3. fileCache[g].stamp.mtime \in Nat
    BY <2>2, StampFacts
  <2>4. ReadAfter(g, fileCache[g].stamp.mtime, fileCache[g].body)
    BY <2>1 DEF FreshInv
  <2>5. fileCache'[g].stamp.mtime = fileCache[g].stamp.mtime
        /\ fileCache'[g].body = fileCache[g].body
    BY <2>1
  <2> QED
    BY <1>4, <2>3, <2>4, <2>5 DEF ReadAfter
<1>7. ASSUME NEW p \in Proc
      PROVE  WorkFresh(work[p])'
  <2> SUFFICES ASSUME work[p] # NoWork
               PROVE  WorkFresh(work[p])'
    BY DEF WorkFresh
  <2>1. work[p] \in Work
    BY DEF IndexerTypeOK
  <2>2. work[p].file \in File /\ work[p].stamp \in Stamp
    BY <2>1 DEF Work
  <2>3. work[p].stamp.mtime \in Nat
    BY <2>2, StampFacts
  <2>4. WorkFresh(work[p])
    BY DEF FreshInv
  <2>5. work[p].stamp.mtime <= clock'
    BY <1>1, <2>3, <2>4 DEF WorkFresh
  <2>6. work[p].body # NoBody =>
          ReadAfter(work[p].file, work[p].stamp.mtime, work[p].body)'
    BY <1>4, <2>2, <2>3, <2>4 DEF WorkFresh, ReadAfter
  <2> QED
    BY <2>4, <2>5, <2>6 DEF WorkFresh
<1> QED
  BY <1>5, <1>6, <1>7 DEF FreshInv

(* What a step that leaves the disk alone has to show. *)
LEMMA FreshKept ==
  ASSUME FreshInv, UNCHANGED <<disk, clock>>, NEW p \in Proc,
         \A q \in Proc \ {p} : work'[q] = work[q],
         WorkFresh(work'[p]),
         \A f \in File : Cached(f)' =>
           ReadAfter(f, fileCache'[f].stamp.mtime, fileCache'[f].body)
  PROVE  FreshInv'
<1>1. \A q \in Proc : WorkFresh(work[q])'
  <2> SUFFICES ASSUME NEW q \in Proc
               PROVE  WorkFresh(work[q])'
    OBVIOUS
  <2>1. WorkFresh(work'[q])
    BY DEF FreshInv
  <2> QED
    BY <2>1 DEF WorkFresh, ReadAfter, OnDisk
<1>2. \A f \in File : OnDisk(f)' => disk'[f].stamp.mtime <= clock'
  BY DEF FreshInv, OnDisk
<1>3. \A f \in File : Cached(f)' =>
        ReadAfter(f, fileCache[f].stamp.mtime, fileCache[f].body)'
  BY DEF ReadAfter, OnDisk
<1> QED
  BY <1>1, <1>2, <1>3 DEF FreshInv

(* Rows of file_cache only vanish, or get another backlink_count. *)
FewerRows ==
  \A f \in File : Cached(f)' =>
    /\ Cached(f)
    /\ fileCache'[f].stamp = fileCache[f].stamp
    /\ fileCache'[f].body = fileCache[f].body

LEMMA DeleteFewer ==
  ASSUME fileCache \in [File -> CacheRow \cup {NoRow}],
         NEW f \in File, NEW tally, DeleteTx(f, tally)
  PROVE  FewerRows
BY DEF DeleteTx, FewerRows, Cached

LEMMA RecountFewer ==
  ASSUME fileCache \in [File -> CacheRow \cup {NoRow}],
         NEW v, RecountTx(v)
  PROVE  FewerRows
<1> SUFFICES ASSUME NEW f \in File, Cached(f)'
             PROVE  /\ Cached(f)
                    /\ fileCache'[f].stamp = fileCache[f].stamp
                    /\ fileCache'[f].body = fileCache[f].body
  BY DEF FewerRows
<1> DEFINE n == Cardinality({l \in links : l.target = f})
<1>1. fileCache'[f] = IF f[1] = v /\ Cached(f)
                      THEN [fileCache[f] EXCEPT !.backlinks = n]
                      ELSE fileCache[f]
  BY DEF RecountTx
<1>2. Cached(f)
  BY <1>1 DEF Cached
<1>3. fileCache[f] \in CacheRow
  BY <1>2 DEF Cached
<1> HIDE DEF n
<1> QED
  BY <1>1, <1>2, <1>3 DEF CacheRow

LEMMA FewerFresh ==
  ASSUME FreshInv, UNCHANGED <<disk, clock>>, NEW p \in Proc, FewerRows,
         \A q \in Proc \ {p} : work'[q] = work[q],
         WorkFresh(work'[p])
  PROVE  FreshInv'
<1>1. \A f \in File : Cached(f)' =>
        ReadAfter(f, fileCache'[f].stamp.mtime, fileCache'[f].body)
  BY DEF FewerRows, FreshInv
<1> QED
  BY <1>1, FreshKept

LEMMA BeginFresh ==
  ASSUME IndexerTypeOK, NEW p \in Proc, NEW f, NEW known, NEW m,
         BeginFile(p, f, known, m)
  PROVE  WorkFresh(work'[p])
<1> DEFINE w == [stage |-> "mtime", file |-> f, known |-> known,
                 model |-> m, stamp |-> NoStamp, body |-> NoBody]
<1>1. work'[p] = w
  BY DEF BeginFile, SetWork, IndexerTypeOK
<1>2. w.stamp.mtime = 0 /\ w.body = NoBody
  BY DEF NoStamp
<1>3. clock \in Nat
  BY DEF IndexerTypeOK
<1> HIDE DEF w
<1> QED
  BY <1>1, <1>2, <1>3 DEF WorkFresh

LEMMA IndexFileFresh ==
  ASSUME FreshInv, IndexerTypeOK, UNCHANGED <<disk, clock>>, NEW p \in Proc,
         fileCache \in [File -> CacheRow \cup {NoRow}],
         IndexFile(p) \/ FailFile(p)
  PROVE  FreshInv'
<1> DEFINE old == work[p]
<1>1. old # NoWork /\ old \in Work /\ old.file \in File /\ old.stamp \in Stamp
  <2>1. old # NoWork
    BY DEF IndexFile, FailFile, StatMtime, StatSize, CheckMtime, CheckSize, ReadFile,
           CheckHash, CommitFile, At
  <2>2. old \in Work
    BY <2>1 DEF IndexerTypeOK
  <2> QED
    BY <2>1, <2>2 DEF Work
<1>2. work \in [Proc -> Work \cup {NoWork}] /\ clock \in Nat
  BY DEF IndexerTypeOK
<1>3. /\ old.stamp.mtime <= clock
      /\ old.stage = "mtime" => old.body = NoBody
      /\ old.body # NoBody => ReadAfter(old.file, old.stamp.mtime, old.body)
  BY <1>1 DEF FreshInv, WorkFresh
<1>4. \A q \in Proc \ {p} : work'[q] = work[q]
  BY <1>2, IndexFileWork DEF Onward, SetWork
<1>5. WorkFresh(NoWork)
  BY DEF WorkFresh
<1>6. ASSUME NEW stage \in Stages \ {"mtime"}, SetWork(p, [old EXCEPT !.stage = stage])
      PROVE  WorkFresh(work'[p])
  <2>1. work'[p] = [old EXCEPT !.stage = stage]
    BY <1>2, <1>6 DEF SetWork
  <2>2. /\ work'[p].stage = stage /\ work'[p].file = old.file
        /\ work'[p].stamp = old.stamp /\ work'[p].body = old.body
    BY <1>1, <2>1 DEF Work
  <2> QED
    BY <1>3, <2>2 DEF WorkFresh
<1>7. ASSUME EndFile(p)
      PROVE  WorkFresh(work'[p])
  BY <1>2, <1>5, <1>7 DEF EndFile, SetWork
<1>8. ASSUME UNCHANGED storeVars, WorkFresh(work'[p])
      PROVE  FreshInv'
  BY <1>4, <1>8, FewerFresh DEF FewerRows, storeVars, Cached
<1>9. CASE StatMtime(p)
  <2> DEFINE s == [old.stamp EXCEPT !.mtime = StampOf(old.file).mtime]
             w == [old EXCEPT !.stage = "size", !.stamp.mtime = StampOf(old.file).mtime]
  <2>1. s \in Stamp /\ s.mtime = StampOf(old.file).mtime
    <3>1. StampOf(old.file) \in Stamp
      BY <1>1, StampOfType
    <3>2. old.stamp \in [mtime : Nat, size : Nat]
      BY <1>1, StampFacts
    <3> QED
      BY <1>1, <3>1, <3>2, TornStamp
  <2>2. StampOf(old.file).mtime <= clock
    BY <1>1, <1>2 DEF StampOf, NoStamp, FreshInv
  <2>3. w = [old EXCEPT !.stage = "size", !.stamp = s]
    BY <1>1 DEF Work
  <2> HIDE DEF s
  <2>4. w.stage = "size" /\ w.body = old.body /\ w.stamp = s
    BY <1>1, <2>3 DEF Work
  <2>5. old.body = NoBody
    BY <1>3, <1>9 DEF StatMtime, At
  <2>6. work'[p] = w
    BY <1>2, <1>9 DEF StatMtime, SetWork
  <2> HIDE DEF w
  <2>7. WorkFresh(work'[p])
    BY <2>1, <2>2, <2>4, <2>5, <2>6 DEF WorkFresh
  <2> QED
    BY <1>8, <1>9, <2>7 DEF StatMtime
<1>10. CASE StatSize(p)
  <2> DEFINE s == [old.stamp EXCEPT !.size = StampOf(old.file).size]
             w == [old EXCEPT !.stage = "cached mtime", !.stamp.size = StampOf(old.file).size]
  <2>1. s.mtime = old.stamp.mtime
    <3>1. old.stamp \in [mtime : Nat, size : Nat]
      BY <1>1, StampFacts
    <3> QED
      BY <3>1
  <2>2. w = [old EXCEPT !.stage = "cached mtime", !.stamp = s]
    BY <1>1 DEF Work
  <2> HIDE DEF s
  <2>3. w.stage = "cached mtime" /\ w.body = old.body /\ w.stamp = s /\ w.file = old.file
    BY <1>1, <2>2 DEF Work
  <2>4. work'[p] = w
    BY <1>2, <1>10 DEF StatSize, SetWork
  <2> HIDE DEF w
  <2>5. WorkFresh(work'[p])
    BY <1>3, <2>1, <2>3, <2>4 DEF WorkFresh
  <2> QED
    BY <1>8, <1>10, <2>5 DEF StatSize
<1>11. CASE CheckMtime(p)
  <2>1. CASE MtimeMatches(old)
    BY <1>6, <1>8, <1>11, <2>1 DEF CheckMtime, Stages
  <2>2. CASE ~ MtimeMatches(old)
    BY <1>6, <1>8, <1>11, <2>2 DEF CheckMtime, Stages
  <2> QED
    BY <2>1, <2>2
<1>12. CASE CheckSize(p)
  BY <1>6, <1>7, <1>8, <1>12 DEF CheckSize, Stages
<1>13. CASE ReadFile(p)
  <2>1. CASE ~ OnDisk(old.file)
    BY <1>7, <1>8, <1>13, <2>1 DEF ReadFile
  <2>2. CASE OnDisk(old.file)
    <3> DEFINE w == [old EXCEPT !.stage = "hash", !.body = disk[old.file].body]
    <3>1. /\ w.stage = "hash" /\ w.body = disk[old.file].body
          /\ w.stamp = old.stamp /\ w.file = old.file
      BY <1>1 DEF Work
    <3>2. work'[p] = w
      BY <1>2, <1>13, <2>2 DEF ReadFile, SetWork
    <3> HIDE DEF w
    <3>3. WorkFresh(work'[p])
      BY <1>3, <3>1, <3>2 DEF WorkFresh, ReadAfter
    <3> QED
      BY <1>8, <1>13, <3>3 DEF ReadFile
  <2> QED
    BY <2>1, <2>2
<1>14. CASE CheckHash(p)
  <2>1. CASE HashMatches(old)
    BY <1>7, <1>8, <1>14, <2>1 DEF CheckHash
  <2>2. CASE ~ HashMatches(old)
    BY <1>6, <1>8, <1>14, <2>2 DEF CheckHash, Stages
  <2> QED
    BY <2>1, <2>2
<1>15. CASE CommitFile(p)
  <2>1. old.body # NoBody
    BY <1>15, Sentinels DEF CommitFile, IndexerTypeOK
  <2>2. EndFile(p) /\ fileCache' = [fileCache EXCEPT ![old.file] =
           [body |-> old.body, stamp |-> old.stamp, model |-> old.model,
            backlinks |-> IF Cached(old.file) THEN fileCache[old.file].backlinks ELSE 0]]
    BY <1>15 DEF CommitFile, ReindexTx
  <2>3. ASSUME NEW f \in File, Cached(f)'
        PROVE  ReadAfter(f, fileCache'[f].stamp.mtime, fileCache'[f].body)
    <3>1. CASE f = old.file
      <4>1. fileCache'[f].stamp = old.stamp /\ fileCache'[f].body = old.body
        BY <1>1, <2>2, <3>1
      <4> QED
        BY <1>3, <2>1, <3>1, <4>1
    <3>2. CASE f # old.file
      <4>1. fileCache'[f] = fileCache[f]
        BY <2>2, <3>2
      <4>2. Cached(f)
        BY <2>3, <4>1 DEF Cached
      <4> QED
        BY <4>1, <4>2 DEF FreshInv
    <3> QED
      BY <3>1, <3>2
  <2> QED
    BY <1>4, <1>7, <2>2, <2>3, FreshKept
<1>16. CASE FailFile(p)
  BY <1>6, <1>7, <1>8, <1>16 DEF FailFile, Stages
<1> QED
  BY <1>9, <1>10, <1>11, <1>12, <1>13, <1>14, <1>15, <1>16 DEF IndexFile

-----------------------------------------------------------------------------
(* Why a call that nobody disturbs leaves the file indexed as it is.       *)

(* The row of f is that of the file on disk.                               *)
Current(f) == OnDisk(f) => Cached(f) /\ fileCache[f].body = disk[f].body

(* The fast path would not skip f wrongly. *)
SkipsRightly(f) ==
  (OnDisk(f) /\ Cached(f) /\ fileCache[f].stamp = disk[f].stamp)
    => fileCache[f].body = disk[f].body

(* What a call has read of its file is still so.                           *)
WorkCurrent(w) ==
  (w # NoWork /\ OnDisk(w.file)) =>
    /\ w.stage # "mtime" => w.stamp.mtime = disk[w.file].stamp.mtime
    /\ w.stage \notin {"mtime", "size"} => w.stamp.size = disk[w.file].stamp.size
    /\ w.stage = "cached size" => MtimeMatches(w)
    /\ w.stage \in {"hash", "commit"} => w.body = disk[w.file].body

(* Every step of a call keeps what it knows; when it ends, the row is      *)
(* right.                                                                  *)
LEMMA IndexFileCurrent ==
  ASSUME IndexerTypeOK, fileCache \in [File -> CacheRow \cup {NoRow}],
         UNCHANGED disk, NEW p \in Proc, IndexFile(p),
         NEW f, work[p].file = f, WorkCurrent(work[p]), SkipsRightly(f)
  PROVE  /\ WorkCurrent(work[p])'
         /\ work'[p] = NoWork => Current(f)'
         /\ work'[p] # NoWork => work'[p].file = f
         /\ \A g \in File \ {f} : fileCache'[g] = fileCache[g]
<1> DEFINE old == work[p]
           new == work'[p]
           Goal == /\ WorkCurrent(work[p])'
                   /\ work'[p] = NoWork => Current(f)'
                   /\ work'[p] # NoWork => work'[p].file = f
                   /\ \A g \in File \ {f} : fileCache'[g] = fileCache[g]
<1>1. old # NoWork /\ old \in Work /\ f \in File /\ old.file = f /\ old.stamp \in Stamp
  <2>1. old # NoWork
    BY DEF IndexFile, StatMtime, StatSize, CheckMtime, CheckSize, ReadFile,
           CheckHash, CommitFile, At
  <2>2. old \in Work
    BY <2>1 DEF IndexerTypeOK
  <2> QED
    BY <2>1, <2>2 DEF Work
<1>2. /\ work \in [Proc -> Work \cup {NoWork}]
      /\ old.stamp \in [mtime : Nat, size : Nat]
      /\ OnDisk(f) => disk[f].stamp \in [mtime : Nat, size : Nat]
      /\ Cached(f) => fileCache[f].stamp \in [mtime : Nat, size : Nat]
  <2>1. OnDisk(f) => disk[f].stamp \in Stamp
    BY <1>1 DEF IndexerTypeOK, OnDisk, DiskFile
  <2>2. Cached(f) => fileCache[f].stamp \in Stamp
    BY <1>1 DEF Cached, CacheRow
  <2> QED
    BY <1>1, <2>1, <2>2, StampFacts DEF IndexerTypeOK
<1>3. OnDisk(f) =>
        /\ old.stage # "mtime" => old.stamp.mtime = disk[f].stamp.mtime
        /\ old.stage \notin {"mtime", "size"} => old.stamp.size = disk[f].stamp.size
        /\ old.stage = "cached size" => MtimeMatches(old)
        /\ old.stage \in {"hash", "commit"} => old.body = disk[f].body
  BY <1>1 DEF WorkCurrent
<1>4. ASSUME UNCHANGED fileCache, new # NoWork, new.file = f,
             OnDisk(f) =>
               /\ new.stage # "mtime" => new.stamp.mtime = disk[f].stamp.mtime
               /\ new.stage \notin {"mtime", "size"} => new.stamp.size = disk[f].stamp.size
               /\ new.stage = "cached size" => MtimeMatches(new)
               /\ new.stage \in {"hash", "commit"} => new.body = disk[f].body
      PROVE  Goal
  BY <1>4 DEF WorkCurrent, OnDisk, MtimeMatches, Cached
<1>5. ASSUME UNCHANGED fileCache, new = NoWork, Current(f)
      PROVE  Goal
  BY <1>5 DEF WorkCurrent, Current, OnDisk, Cached
<1>6. ASSUME NEW stage \in Stages, new = [old EXCEPT !.stage = stage]
      PROVE  /\ new # NoWork /\ new.file = f /\ new.stage = stage
             /\ new.stamp = old.stamp /\ new.body = old.body
  <2>1. new \in Work
    BY <1>1, <1>6 DEF Work
  <2> QED
    BY <1>1, <1>6, <2>1, Sentinels DEF Work
<1>7. EndFile(p) => new = NoWork
  BY <1>2 DEF EndFile, SetWork
<1>8. CASE StatMtime(p)
  <2> DEFINE s == [old.stamp EXCEPT !.mtime = StampOf(f).mtime]
             w == [old EXCEPT !.stage = "size", !.stamp = s]
  <2>1. s \in Stamp /\ s.mtime = StampOf(f).mtime
    BY <1>1, <1>2, StampOfType, TornStamp
  <2>2. new = w
    BY <1>1, <1>2, <1>8 DEF StatMtime, SetWork, Work
  <2> HIDE DEF s
  <2>3. w \in Work /\ w.stage = "size" /\ w.stamp = s /\ w.file = f
    BY <1>1, <2>1 DEF Work, Stages
  <2>4. UNCHANGED fileCache
    BY <1>8 DEF StatMtime, storeVars
  <2> HIDE DEF w
  <2> QED
    BY <1>4, <2>1, <2>2, <2>3, <2>4, Sentinels DEF StampOf
<1>9. CASE StatSize(p)
  <2> DEFINE s == [old.stamp EXCEPT !.size = StampOf(f).size]
             w == [old EXCEPT !.stage = "cached mtime", !.stamp = s]
  <2>1. s \in Stamp /\ s.size = StampOf(f).size /\ s.mtime = old.stamp.mtime
    BY <1>1, <1>2, StampOfType, TornStamp
  <2>2. new = w
    BY <1>1, <1>2, <1>9 DEF StatSize, SetWork, Work
  <2> HIDE DEF s
  <2>3. w \in Work /\ w.stage = "cached mtime" /\ w.stamp = s /\ w.file = f
    BY <1>1, <2>1 DEF Work, Stages
  <2>4. UNCHANGED fileCache /\ old.stage = "size"
    BY <1>9 DEF StatSize, storeVars, At
  <2> HIDE DEF w
  <2> QED
    BY <1>3, <1>4, <2>1, <2>2, <2>3, <2>4, Sentinels DEF StampOf
<1>10. CASE CheckMtime(p)
  <2>1. UNCHANGED fileCache /\ old.stage = "cached mtime"
    BY <1>10 DEF CheckMtime, storeVars, At
  <2> DEFINE stage == IF MtimeMatches(old) THEN "cached size" ELSE "read"
  <2>2. new = [old EXCEPT !.stage = stage] /\ stage \in Stages
    BY <1>2, <1>10 DEF CheckMtime, SetWork, Stages
  <2>3. /\ new # NoWork /\ new.file = f /\ new.stage = stage
        /\ new.stamp = old.stamp /\ new.body = old.body
    BY <1>6, <2>2
  <2>4. new.stage = "cached size" => MtimeMatches(new)
    BY <2>3 DEF MtimeMatches
  <2> QED
    BY <1>3, <1>4, <2>1, <2>3, <2>4
<1>11. CASE CheckSize(p)
  <2>1. UNCHANGED fileCache /\ old.stage = "cached size"
    BY <1>11 DEF CheckSize, storeVars, At
  <2>2. CASE SizeMatches(old)
    <3>1. new = NoWork
      BY <1>7, <1>11, <2>2 DEF CheckSize
    <3>2. OnDisk(f) => Cached(f) /\ fileCache[f].stamp = disk[f].stamp
      <4>1. ASSUME NEW s \in [mtime : Nat, size : Nat], NEW t \in [mtime : Nat, size : Nat],
                   s.mtime = t.mtime, s.size = t.size
            PROVE  s = t
        BY <4>1
      <4>2. OnDisk(f) => /\ Cached(f)
                         /\ fileCache[f].stamp.mtime = disk[f].stamp.mtime
                         /\ fileCache[f].stamp.size = disk[f].stamp.size
        BY <1>1, <1>3, <2>1, <2>2 DEF SizeMatches, MtimeMatches
      <4> QED
        BY <1>2, <4>1, <4>2
    <3> QED
      BY <1>5, <2>1, <3>1, <3>2 DEF Current, SkipsRightly
  <2>3. CASE ~ SizeMatches(old)
    <3>1. new = [old EXCEPT !.stage = "read"]
      BY <1>2, <1>11, <2>3 DEF CheckSize, SetWork
    <3>2. /\ new # NoWork /\ new.file = f /\ new.stage = "read" /\ new.stamp = old.stamp
      BY <1>6, <3>1 DEF Stages
    <3> QED
      BY <1>3, <1>4, <2>1, <3>2
  <2> QED
    BY <2>2, <2>3
<1>12. CASE ReadFile(p)
  <2>1. UNCHANGED fileCache /\ old.stage = "read"
    BY <1>12 DEF ReadFile, storeVars, At
  <2>2. CASE ~ OnDisk(f)
    BY <1>5, <1>7, <1>12, <2>1, <2>2 DEF ReadFile, Current
  <2>3. CASE OnDisk(f)
    <3> DEFINE w == [old EXCEPT !.stage = "hash", !.body = disk[f].body]
    <3>1. disk[f].body \in Body
      BY <1>1, <2>3 DEF OnDisk, IndexerTypeOK, DiskFile
    <3>2. /\ w \in Work /\ w.stage = "hash" /\ w.body = disk[f].body
          /\ w.stamp = old.stamp /\ w.file = f
      BY <1>1, <3>1 DEF Work, Stages
    <3>3. new = w
      BY <1>2, <1>12, <2>3 DEF ReadFile, SetWork
    <3> HIDE DEF w
    <3> QED
      BY <1>3, <1>4, <2>1, <3>2, <3>3, Sentinels
  <2> QED
    BY <2>2, <2>3
<1>13. CASE CheckHash(p)
  <2>1. UNCHANGED fileCache /\ old.stage = "hash"
    BY <1>13 DEF CheckHash, storeVars, At
  <2>2. CASE HashMatches(old)
    <3>1. new = NoWork
      BY <1>7, <1>13, <2>2 DEF CheckHash
    <3> QED
      BY <1>3, <1>5, <2>1, <2>2, <3>1 DEF Current, HashMatches
  <2>3. CASE ~ HashMatches(old)
    <3>1. new = [old EXCEPT !.stage = "commit"]
      BY <1>2, <1>13, <2>3 DEF CheckHash, SetWork
    <3>2. /\ new # NoWork /\ new.file = f /\ new.stage = "commit"
          /\ new.stamp = old.stamp /\ new.body = old.body
      BY <1>6, <3>1 DEF Stages
    <3> QED
      BY <1>3, <1>4, <2>1, <3>2
  <2> QED
    BY <2>2, <2>3
<1>14. CASE CommitFile(p)
  <2>1. new = NoWork /\ old.stage = "commit" /\ old.body \in Body /\ old.model \in ModelId
    BY <1>1, <1>7, <1>14 DEF CommitFile, At, IndexerTypeOK, Work
  <2> DEFINE n == IF Cached(f) THEN fileCache[f].backlinks ELSE 0
             row == [body |-> old.body, stamp |-> old.stamp, model |-> old.model,
                     backlinks |-> n]
  <2>2. fileCache' = [fileCache EXCEPT ![f] = row]
    BY <1>14 DEF CommitFile, ReindexTx
  <2>3. row \in CacheRow
    <3>1. n \in Nat
      BY <1>1 DEF Cached, CacheRow
    <3> HIDE DEF n
    <3> QED
      BY <1>1, <2>1, <3>1 DEF CacheRow
  <2>4. row.body = old.body /\ row # NoRow
    BY <2>3, Sentinels
  <2> HIDE DEF row
  <2>5. Current(f)'
    BY <1>1, <1>3, <2>1, <2>2, <2>4 DEF Current, OnDisk, Cached
  <2> QED
    BY <2>1, <2>2, <2>5 DEF WorkCurrent
<1> QED
  BY <1>8, <1>9, <1>10, <1>11, <1>12, <1>13, <1>14 DEF IndexFile
(* What a step of a call does, whatever is on disk by now. *)
LEMMA IndexFileEffect ==
  ASSUME IndexerTypeOK, fileCache \in [File -> CacheRow \cup {NoRow}],
         NEW p \in Proc, IndexFile(p), NEW f, work[p].file = f
  PROVE  /\ work'[p] # NoWork =>
              /\ work'[p].file = f /\ work'[p].stage # "mtime"
              /\ \/ work'[p].stamp.mtime = work[p].stamp.mtime /\ work[p].stage # "mtime"
                 \/ work'[p].stamp.mtime = StampOf(f).mtime /\ work[p].stage = "mtime"
              /\ work'[p].stage \in {"hash", "commit"} =>
                   \/ work[p].stage \in {"hash", "commit"} /\ work'[p].body = work[p].body
                   \/ OnDisk(f) /\ work'[p].body = disk[f].body
         /\ \/ UNCHANGED fileCache
            \/ /\ work[p].stage = "commit" /\ work'[p] = NoWork
               /\ \E row \in CacheRow :
                    /\ row.body = work[p].body /\ row.stamp = work[p].stamp
                    /\ fileCache' = [fileCache EXCEPT ![f] = row]
<1> DEFINE old == work[p]
           new == work'[p]
<1>1. old # NoWork /\ old \in Work /\ f \in File /\ old.file = f /\ old.stamp \in Stamp
  <2>1. old # NoWork
    BY DEF IndexFile, StatMtime, StatSize, CheckMtime, CheckSize, ReadFile,
           CheckHash, CommitFile, At
  <2>2. old \in Work
    BY <2>1 DEF IndexerTypeOK
  <2> QED
    BY <2>1, <2>2 DEF Work
<1>2. /\ work \in [Proc -> Work \cup {NoWork}]
      /\ old.stamp \in [mtime : Nat, size : Nat]
  BY <1>1, StampFacts DEF IndexerTypeOK
<1>3. ASSUME NEW stage \in Stages, new = [old EXCEPT !.stage = stage]
      PROVE  /\ new # NoWork /\ new.file = f /\ new.stage = stage
             /\ new.stamp = old.stamp /\ new.body = old.body
  <2>1. new \in Work
    BY <1>1, <1>3 DEF Work
  <2> QED
    BY <1>1, <1>3, <2>1, Sentinels DEF Work
<1>4. EndFile(p) => new = NoWork
  BY <1>2 DEF EndFile, SetWork
<1>5. CASE StatMtime(p)
  <2> DEFINE s == [old.stamp EXCEPT !.mtime = StampOf(f).mtime]
             w == [old EXCEPT !.stage = "size", !.stamp = s]
  <2>1. s \in Stamp /\ s.mtime = StampOf(f).mtime
    BY <1>1, <1>2, StampOfType, TornStamp
  <2>2. new = w
    BY <1>1, <1>2, <1>5 DEF StatMtime, SetWork, Work
  <2> HIDE DEF s
  <2>3. w.stage = "size" /\ w.stamp = s /\ w.file = f
    BY <1>1, <2>1 DEF Work, Stages
  <2>4. UNCHANGED fileCache /\ old.stage = "mtime"
    BY <1>5 DEF StatMtime, storeVars, At
  <2> HIDE DEF w
  <2> QED
    BY <2>1, <2>2, <2>3, <2>4
<1>6. CASE StatSize(p)
  <2> DEFINE s == [old.stamp EXCEPT !.size = StampOf(f).size]
             w == [old EXCEPT !.stage = "cached mtime", !.stamp = s]
  <2>1. s \in Stamp /\ s.mtime = old.stamp.mtime
    BY <1>1, <1>2, StampOfType, TornStamp
  <2>2. new = w
    BY <1>1, <1>2, <1>6 DEF StatSize, SetWork, Work
  <2> HIDE DEF s
  <2>3. w.stage = "cached mtime" /\ w.stamp = s /\ w.file = f
    BY <1>1, <2>1 DEF Work, Stages
  <2>4. UNCHANGED fileCache /\ old.stage = "size"
    BY <1>6 DEF StatSize, storeVars, At
  <2> HIDE DEF w
  <2> QED
    BY <2>1, <2>2, <2>3, <2>4
<1>7. CASE CheckMtime(p)
  <2>1. UNCHANGED fileCache /\ old.stage = "cached mtime"
    BY <1>7 DEF CheckMtime, storeVars, At
  <2> DEFINE stage == IF MtimeMatches(old) THEN "cached size" ELSE "read"
  <2>2. new = [old EXCEPT !.stage = stage] /\ stage \in Stages
    BY <1>2, <1>7 DEF CheckMtime, SetWork, Stages
  <2> QED
    BY <1>3, <2>1, <2>2
<1>8. CASE CheckSize(p)
  <2>1. UNCHANGED fileCache /\ old.stage = "cached size"
    BY <1>8 DEF CheckSize, storeVars, At
  <2>2. new = NoWork \/ new = [old EXCEPT !.stage = "read"]
    BY <1>2, <1>4, <1>8 DEF CheckSize, SetWork
  <2> QED
    BY <1>3, <2>1, <2>2 DEF Stages
<1>9. CASE ReadFile(p)
  <2>1. UNCHANGED fileCache /\ old.stage = "read"
    BY <1>9 DEF ReadFile, storeVars, At
  <2>2. CASE ~ OnDisk(f)
    BY <1>1, <1>4, <1>9, <2>1, <2>2 DEF ReadFile
  <2>3. CASE OnDisk(f)
    <3> DEFINE w == [old EXCEPT !.stage = "hash", !.body = disk[f].body]
    <3>1. w.stage = "hash" /\ w.body = disk[f].body /\ w.stamp = old.stamp /\ w.file = f
      BY <1>1 DEF Work, Stages
    <3>2. new = w
      BY <1>1, <1>2, <1>9, <2>3 DEF ReadFile, SetWork
    <3> HIDE DEF w
    <3> QED
      BY <2>1, <2>3, <3>1, <3>2
  <2> QED
    BY <2>2, <2>3
<1>10. CASE CheckHash(p)
  <2>1. UNCHANGED fileCache /\ old.stage = "hash"
    BY <1>10 DEF CheckHash, storeVars, At
  <2>2. new = NoWork \/ new = [old EXCEPT !.stage = "commit"]
    BY <1>2, <1>4, <1>10 DEF CheckHash, SetWork
  <2> QED
    BY <1>3, <2>1, <2>2 DEF Stages
<1>11. CASE CommitFile(p)
  <2>1. new = NoWork /\ old.stage = "commit" /\ old.body \in Body /\ old.model \in ModelId
    BY <1>1, <1>4, <1>11 DEF CommitFile, At, IndexerTypeOK, Work
  <2> DEFINE n == IF Cached(f) THEN fileCache[f].backlinks ELSE 0
             row == [body |-> old.body, stamp |-> old.stamp, model |-> old.model,
                     backlinks |-> n]
  <2>2. fileCache' = [fileCache EXCEPT ![f] = row]
    BY <1>1, <1>11 DEF CommitFile, ReindexTx
  <2>3. row \in CacheRow
    <3>1. n \in Nat
      BY <1>1 DEF Cached, CacheRow
    <3> HIDE DEF n
    <3> QED
      BY <1>1, <2>1, <3>1 DEF CacheRow
  <2>4. row.body = old.body /\ row.stamp = old.stamp
    OBVIOUS
  <2> HIDE DEF row
  <2> QED
    BY <2>1, <2>2, <2>3, <2>4
<1> QED
  BY <1>5, <1>6, <1>7, <1>8, <1>9, <1>10, <1>11 DEF IndexFile
=============================================================================
