----------------------------- MODULE Migrations -----------------------------
(***************************************************************************)
(* migration::run, which NoteDatabase::open calls in every process         *)
(* (core/src/migration): a cleanup of its own, then one transaction that   *)
(* brings the schema from the version of the file to the newest.  Any      *)
(* number of processes open the database at the same time and are killed   *)
(* anywhere.                                                               *)
(*                                                                         *)
(* SQLite in WAL mode: the deferred transaction sees the commits up to its *)
(* first read; its first write takes the lock, waits for whoever holds it, *)
(* and fails if someone has committed since.  A transaction that is not    *)
(* committed is rolled back when the connection goes.                      *)
(*                                                                         *)
(* The schema is the set of the tables and columns that came after the     *)
(* first version; cached stands for the rows of file_cache, spare for      *)
(* those of file_cache_v3.                                                 *)
(***************************************************************************)
EXTENDS Naturals

CONSTANTS
  Opener,       \* the processes that open the database
  Rows,         \* the rows file_cache may hold
  NoCache,      \* "there is no such table"
  MaxOpens      \* bound on the opens, for TLC

ASSUME MigrationAssumption ==
  (\A rows \in SUBSET Rows : NoCache # rows) /\ MaxOpens \in Nat

NewestVersion == 11

VARIABLES
  schema,       \* the database: version, columns, cached, spare
  schemaCommits,\* how many transactions have changed it
  opener,       \* process -> how far it is and what its transaction sees
  opens         \* how many opens have begun

schemaVars == <<schema, schemaCommits, opener, opens>>

VaultKeys == {"chunks.vault_name", "file_cache.vault_name"}
Frontmatter == {"chunks.tags", "chunks.frontmatter_date", "chunks.title"}

(* What the migration to each version adds, where it is missing.           *)
Adds ==
  [v \in 2 .. NewestVersion |->
    CASE v = 2  -> {"chunks", "file_cache", "vec_chunks"}
      [] v = 3  -> VaultKeys \cup {"file_cache.file_size"}
      [] v = 4  -> {"vec_chunks"}
      [] v = 5  -> {"file_cache.file_size"}
      [] v = 6  -> Frontmatter
      [] v = 7  -> Frontmatter \cup {"tasks"}
      [] v = 8  -> {"chunks.emphasized_text"}
      [] v = 9  -> {"note_links", "file_cache.backlink_count"}
      [] v = 10 -> {"file_cache.char_count", "tag_counts"}
      [] v = 11 -> {"file_cache.vlm_hash"}]
Historic(v) == UNION {Adds[u] : u \in 2 .. v}
FullSchema == Historic(NewestVersion)

(* Mutant: the rows are not carried over. *)
RekeyedWithoutRows(s) ==
  [s EXCEPT !.columns = (@ \ {"file_cache.backlink_count", "file_cache.char_count",
                              "file_cache.vlm_hash"}) \cup Adds[3],
            !.cached = {}]

(* v03: file_cache gets a new key, so it is copied into a new table, with  *)
(* no other columns, that takes its name.                                  *)
Rekeyed(s) ==
  [s EXCEPT !.columns = (@ \ {"file_cache.backlink_count", "file_cache.char_count",
                              "file_cache.vlm_hash"}) \cup Adds[3]]

(* v02: the tables of the first release are dropped and create_schema      *)
(* makes the tables that are missing, in the newest form.                  *)
Created(s) ==
  [s EXCEPT !.columns = IF s.cached = NoCache THEN FullSchema ELSE @,
            !.cached = IF @ = NoCache THEN {} ELSE @]

(* table_has_column, add_column_if_missing: ALTER TABLE, by one who looked *)
(* in the same transaction.                                                *)
HasColumn(s, column) == column \in s.columns
AddColumns(s, columns) == [s EXCEPT !.columns = @ \cup columns]

MigratedTo(s, v) ==
  LET changed == CASE v = 2 -> Created(s)
                   [] v = 3 -> IF HasColumn(s, "chunks.vault_name") THEN s ELSE Rekeyed(s)
                   [] OTHER -> AddColumns(s, Adds[v])
  IN  [changed EXCEPT !.version = v]

(* A new file, one of the first release, or one an earlier release left:   *)
(* some of version 6 lack the columns of version 6, and a crash of an      *)
(* early release left file_cache_v3 behind.                                *)
SchemaFiles ==
  {[version |-> 0, spare |-> spare, cached |-> NoCache, columns |-> {}] :
     spare \in {NoCache, {}}}
  \cup {[version |-> v, spare |-> spare, cached |-> rows, columns |-> Historic(v)] :
          v \in 2 .. NewestVersion, spare \in {NoCache, {}}, rows \in SUBSET Rows}
  \cup {[version |-> 6, spare |-> NoCache, cached |-> rows,
         columns |-> Historic(6) \ lost] :
          rows \in SUBSET Rows, lost \in SUBSET Frontmatter}

SchemaInit ==
  /\ schema \in SchemaFiles
  /\ schemaCommits = 0 /\ opens = 0
  /\ opener = [p \in Opener |-> [stage |-> "out", draft |-> schema, seen |-> 0]]

-----------------------------------------------------------------------------
Locked == \E p \in Opener : opener[p].stage = "write"
Enter(p, stage) == opener' = [opener EXCEPT ![p].stage = stage]

OpenDatabase(p) ==
  /\ opener[p].stage = "out" /\ opens < MaxOpens
  /\ Enter(p, "drop")
  /\ opens' = opens + 1
  /\ UNCHANGED <<schema, schemaCommits>>

(* DROP TABLE IF EXISTS file_cache_v3, on its own *)
DropSpare(p) ==
  /\ opener[p].stage = "drop"
  /\ IF schema.spare = NoCache
     THEN UNCHANGED <<schema, schemaCommits>>
     ELSE /\ ~ Locked
          /\ schema' = [schema EXCEPT !.spare = NoCache]
          /\ schemaCommits' = schemaCommits + 1
  /\ Enter(p, "begin")
  /\ UNCHANGED opens

(* BEGIN, PRAGMA user_version: the first read makes the snapshot.          *)
ReadVersion(p) ==
  /\ opener[p].stage = "begin"
  /\ opener' = [opener EXCEPT ![p] =
       [stage |-> IF schema.version >= NewestVersion THEN "out" ELSE "read",
        draft |-> schema, seen |-> schemaCommits]]
  /\ UNCHANGED <<schema, schemaCommits, opens>>

(* The first statement of the first migration needs the lock, and a        *)
(* snapshot that is still the newest.                                      *)
FirstWrite(p) ==
  /\ opener[p].stage = "read" /\ ~ Locked
  /\ Enter(p, IF opener[p].seen = schemaCommits THEN "write" ELSE "out")
  /\ UNCHANGED <<schema, schemaCommits, opens>>

Migrate(p) ==
  /\ opener[p].stage = "write" /\ opener[p].draft.version < NewestVersion
  /\ LET v == IF opener[p].draft.version = 0 THEN 2 ELSE opener[p].draft.version + 1
     IN  opener' = [opener EXCEPT ![p].draft = MigratedTo(@, v)]
  /\ UNCHANGED <<schema, schemaCommits, opens>>

CommitSchema(p) ==
  /\ opener[p].stage = "write" /\ opener[p].draft.version = NewestVersion
  /\ schema' = opener[p].draft
  /\ schemaCommits' = schemaCommits + 1
  /\ Enter(p, "out")
  /\ UNCHANGED opens

(* A kill, SQLITE_BUSY after the timeout, or any other error. *)
GiveUp(p) ==
  /\ opener[p].stage # "out"
  /\ Enter(p, "out")
  /\ UNCHANGED <<schema, schemaCommits, opens>>

(* Meanwhile a process that has the newest schema indexes a file.          *)
IndexMeanwhile ==
  /\ ~ Locked /\ schema.version = NewestVersion
  /\ \E row \in Rows \ schema.cached :
       schema' = [schema EXCEPT !.cached = @ \cup {row}]
  /\ schemaCommits' = schemaCommits + 1
  /\ UNCHANGED <<opener, opens>>

SchemaNext == IndexMeanwhile \/ \E p \in Opener :
  \/ OpenDatabase(p) \/ DropSpare(p) \/ ReadVersion(p) \/ FirstWrite(p)
  \/ Migrate(p) \/ CommitSchema(p) \/ GiveUp(p)

SchemaSpec == SchemaInit /\ [][SchemaNext]_schemaVars

-----------------------------------------------------------------------------
(* However many processes open an old database at once, wherever they are  *)
(* killed, and although some already index into it: it stays what it was   *)
(* or has every table and column of the newest version, and no row of      *)
(* file_cache is lost on the way.                                          *)
UpgradeIsWhole ==
  /\ [](schema.version = NewestVersion => FullSchema \subseteq schema.columns)
  /\ [][schema.cached # NoCache => schema.cached \subseteq schema'.cached]_schemaVars
=============================================================================
