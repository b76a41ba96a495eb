---------------------------- MODULE BatchIndexer ----------------------------
(***************************************************************************)
(* The passes over whole vaults: index_directory, which chart, clean,      *)
(* doctor and the MCP rebuild run, cleanup_deleted, which dredge runs, and *)
(* purge_expired, which dredge --expired runs.                             *)
(* Any number of processes run passes over the same disk and the same      *)
(* index, while the user edits the notes.  dredge --dry-run is a dredge:   *)
(* run_dredge calls cleanup_deleted whatever the flag says.                *)
(*                                                                         *)
(* The walk of one vault is one step: what it lists is what was there.     *)
(***************************************************************************)
EXTENDS FileIndexer

CONSTANTS
  NoJob,        \* "not in a pass"
  Retention,    \* the retention times to choose from, in ms; {}: not set
  Renames       \* whether the user renames files

VARIABLES
  job,          \* process -> the pass it is in
  calm          \* history: process -> nothing disturbed its pass so far

PassKind == {"chart", "dredge", "expire"}

batchVars == <<storeVars, diskVars, work, job, calm>>

(* vaults: still to be walked; todo: paths of the current vault to be      *)
(* looked at; gone: the path found missing from disk, about to be deleted; *)
(* seen: the walk's listing in chart, the removed paths in dredge; cutoff: *)
(* the time before which a file has expired.                               *)
Job == [kind : PassKind, model : ModelId, inVault : BOOLEAN,
        cutoff : Nat, vaults : SUBSET Vault, vault : Vault,
        todo : SUBSET Path, gone : SUBSET Path, seen : SUBSET Path]

ASSUME BatchAssumption ==
  /\ NoJob \notin Job
  /\ Retention \subseteq Nat
  /\ Renames \in BOOLEAN

BatchInit ==
  /\ StoreInit
  /\ IndexerInit
  /\ job = [p \in Proc |-> NoJob]
  /\ calm = [p \in Proc |-> FALSE]

-----------------------------------------------------------------------------
InPass(p, kind) == job[p] # NoJob /\ job[p].kind = kind
Charting(p) == InPass(p, "chart") /\ job[p].inVault
Dredging(p) == InPass(p, "dredge") /\ job[p].inVault
Expiring(p) == InPass(p, "expire") /\ job[p].inVault
Resting(p) == work[p] = NoWork /\ Idle(p)

SetJob(p, j) == job' = [job EXCEPT ![p] = j]

(* A write to the index by p, an edit or an error ends the calm of others. *)
OnlyCalm(p) == calm' = [q \in Proc |-> calm[q] /\ q = p]
NoneCalm == calm' = [q \in Proc |-> FALSE]

(* The retention counts back from the time purge_expired is called.  Its   *)
(* calls are bounded together with the edits.                              *)
Cutoffs(kind) ==
  IF kind = "expire"
  THEN {IF clock < ms THEN 0 ELSE clock - ms : ms \in Retention}
  ELSE {0}

StartPass(p) ==
  /\ job[p] = NoJob
  /\ \E kind \in PassKind, m \in ModelId, v \in Vault :
       \E cutoff \in Cutoffs(kind) :
         /\ kind = "chart" \/ m = "none"
         /\ SetJob(p, [kind |-> kind, model |-> m, inVault |-> FALSE,
                       cutoff |-> cutoff, vaults |-> Vault, vault |-> v,
                       todo |-> {}, gone |-> {}, seen |-> {}])
         /\ IF kind = "expire"
            THEN edits < MaxEdits /\ edits' = edits + 1
            ELSE UNCHANGED edits
  /\ calm' = [calm EXCEPT ![p] = TRUE]
  /\ UNCHANGED <<storeVars, disk, clock, work>>

(* Mutant: cleanup_deleted walks the disk, too. *)
ListingOfDisk(kind, v) == {q \in Path : OnDisk(<<v, q>>)}

(* WalkDir in index_directory; list_cached_paths in cleanup_deleted *)
Listing(kind, v) ==
  {q \in Path : IF kind = "chart" THEN OnDisk(<<v, q>>) ELSE Cached(<<v, q>>)}

EnterVault(p) ==
  /\ InPass(p, "chart") \/ InPass(p, "dredge")
  /\ ~ job[p].inVault
  /\ \E v \in job[p].vaults :
       LET listing == Listing(job[p].kind, v) IN
       SetJob(p, [job[p] EXCEPT
         !.inVault = TRUE, !.vault = v, !.vaults = @ \ {v},
         !.todo = listing,
         !.seen = IF job[p].kind = "chart" THEN listing ELSE {}])
  /\ UNCHANGED <<storeVars, diskVars, work, calm>>

(* purge_expired selects the expired paths of the next vault.              *)
SelectVault(p) ==
  /\ InPass(p, "expire") /\ ~ job[p].inVault
  /\ \E v \in job[p].vaults :
       LET expired == Expired(v, job[p].cutoff) IN
       /\ purge' = [purge EXCEPT ![p] =
                      IF expired = {} THEN NoPurge
                      ELSE [cutoff |-> job[p].cutoff, files |-> expired]]
       /\ SetJob(p, [job[p] EXCEPT
            !.inVault = TRUE, !.vault = v, !.vaults = @ \ {v}])
  /\ UNCHANGED <<tables, pending, diskVars, work, calm>>

(* Mutant: the loop does not advance. *)
NextFileAgain(p) ==
  /\ Charting(p)
  /\ \E q \in job[p].todo :
       BeginFile(p, <<job[p].vault, q>>, job[p].seen, job[p].model)
  /\ UNCHANGED <<diskVars, job, calm>>

(* index_directory: the next listed file, with the listing as path_map *)
NextFile(p) ==
  /\ Charting(p)
  /\ \E q \in job[p].todo :
       /\ BeginFile(p, <<job[p].vault, q>>, job[p].seen, job[p].model)
       /\ SetJob(p, [job[p] EXCEPT !.todo = @ \ {q}])
  /\ UNCHANGED <<diskVars, calm>>

ChartFile(p) ==
  /\ IndexFile(p)
  /\ IF tables' = tables THEN UNCHANGED calm ELSE OnlyCalm(p)
  /\ UNCHANGED <<diskVars, job>>

(* index_directory collects the error and goes on with the next file. *)
ChartFileFails(p) ==
  /\ FailFile(p)
  /\ calm' = [calm EXCEPT ![p] = FALSE]
  /\ UNCHANGED <<diskVars, job>>

(* cleanup_deleted: full_path.exists() *)
CheckExists(p) ==
  /\ Dredging(p) /\ job[p].gone = {} /\ pending[p] = NoDelete
  /\ \E q \in job[p].todo :
       SetJob(p, [job[p] EXCEPT
         !.todo = @ \ {q},
         !.gone = IF OnDisk(<<job[p].vault, q>>) THEN {} ELSE {q}])
  /\ UNCHANGED <<storeVars, diskVars, work, calm>>

(* delete_file_fully, first half; the path counts as removed either way *)
DredgeFile(p) ==
  /\ Dredging(p)
  /\ \E q \in job[p].gone :
       /\ ReadTags(p, <<job[p].vault, q>>)
       /\ SetJob(p, [job[p] EXCEPT !.gone = {}, !.seen = @ \cup {q}])
  /\ UNCHANGED <<diskVars, work, calm>>

DredgeCommit(p) ==
  /\ Dredging(p) \/ Expiring(p)
  /\ CommitDelete(p)
  /\ OnlyCalm(p)
  /\ UNCHANGED <<diskVars, work, job>>

(* "cleanup_deleted: failed to fully delete": logged, and on it goes *)
DredgeFails(p) ==
  /\ Dredging(p)
  /\ Abandon(p)
  /\ calm' = [calm EXCEPT ![p] = FALSE]
  /\ UNCHANGED <<diskVars, work, job>>

(* purge_expired deletes what it has selected, wherever the files are now. *)
ExpireFile(p) ==
  /\ Expiring(p)
  /\ BeginPurgeDelete(p)
  /\ UNCHANGED <<diskVars, work, job, calm>>

(* and gives up at the first error. *)
ExpireFails(p) ==
  /\ Expiring(p)
  /\ Abandon(p)
  /\ SetJob(p, NoJob)
  /\ UNCHANGED <<diskVars, work, calm>>

CloseVault(p) ==
  /\ job[p] # NoJob /\ job[p].inVault
  /\ job[p].todo = {} /\ job[p].gone = {} /\ Resting(p)
  /\ SetJob(p, [job[p] EXCEPT !.inVault = FALSE, !.seen = {}])
  /\ UNCHANGED <<pending, purge, diskVars, work>>

RecountDue(p) == BacklinkScoring /\ job[p].seen # {}

LeaveVault(p) ==
  /\ CloseVault(p)
  /\ IF RecountDue(p) THEN RecountTx(job[p].vault) ELSE UNCHANGED tables
  /\ IF tables' = tables THEN UNCHANGED calm ELSE OnlyCalm(p)

(* "Failed to update backlink counts": logged, and on it goes *)
RecountFails(p) ==
  /\ CloseVault(p)
  /\ RecountDue(p)
  /\ calm' = [calm EXCEPT ![p] = FALSE]
  /\ UNCHANGED tables

EndPass(p) ==
  /\ job[p] # NoJob /\ ~ job[p].inVault /\ job[p].vaults = {}
  /\ SetJob(p, NoJob)
  /\ UNCHANGED <<storeVars, diskVars, work, calm>>

(* The process is killed, or a query cleanup_deleted does not survive      *)
(* fails: an open transaction is rolled back.                              *)
Crash(p) ==
  /\ job[p] # NoJob
  /\ SetJob(p, NoJob)
  /\ EndFile(p)
  /\ pending' = [pending EXCEPT ![p] = NoDelete]
  /\ purge' = [purge EXCEPT ![p] = NoPurge]
  /\ UNCHANGED <<tables, diskVars, calm>>

PassStep(p) ==
  \/ EnterVault(p) \/ NextFile(p) \/ ChartFile(p)
  \/ CheckExists(p) \/ DredgeFile(p) \/ DredgeCommit(p)
  \/ SelectVault(p) \/ ExpireFile(p)
  \/ LeaveVault(p) \/ EndPass(p)

User ==
  /\ \E f \in File :
       \/ \E b \in Body : WriteFile(f, b)
       \/ RemoveFile(f)
       \/ Renames /\ \E g \in File : RenameFile(f, g)
  /\ NoneCalm
  /\ UNCHANGED <<storeVars, work, job>>

BatchNext ==
  \/ User
  \/ \E p \in Proc :
       \/ StartPass(p)
       \/ PassStep(p)
       \/ ChartFileFails(p)
       \/ DredgeFails(p)
       \/ ExpireFails(p)
       \/ RecountFails(p)
       \/ Crash(p)

BatchSpec == BatchInit /\ [][BatchNext]_batchVars

(* A process that is in a pass keeps running it. *)
FairBatchSpec == BatchSpec /\ \A p \in Proc : WF_batchVars(PassStep(p))

-----------------------------------------------------------------------------
(* Type invariant of the passes; the tables have IndexStore's.  It is a     *)
(* part of ChartSettles, so that the runs check it.                        *)
BatchTypeOK ==
  /\ TypeOK
  /\ IndexerTypeOK
  /\ job \in [Proc -> Job \cup {NoJob}]
  /\ calm \in [Proc -> BOOLEAN]

(* The files p's pass is done with. *)
DoneWith(p) ==
  {f \in File : /\ f[1] \notin job[p].vaults
                /\ job[p].inVault /\ f[1] = job[p].vault
                     => f[2] \notin job[p].todo \cup job[p].gone
                /\ work[p] # NoWork => work[p].file # f
                /\ pending[p] # NoDelete => pending[p].file # f}

(* After an index_directory that nobody disturbed every file on disk is    *)
(* indexed with the body it has, whatever races, crashes and failures came *)
(* before: one undisturbed chart repairs them.                             *)
ChartSettles ==
  /\ BatchTypeOK
  /\ \A p \in Proc : (InPass(p, "chart") /\ calm[p]) =>
       \A f \in DoneWith(p) :
         OnDisk(f) => Cached(f) /\ fileCache[f].body = disk[f].body

(* After a cleanup_deleted that nobody disturbed no file is in the index   *)
(* that is not on disk.                                                    *)
DredgeSettles ==
  \A p \in Proc : (InPass(p, "dredge") /\ calm[p]) =>
    \A f \in DoneWith(p) : Cached(f) => OnDisk(f)

(* After an undisturbed index_directory of a vault with notes in it, the   *)
(* backlink_count of its files is the number of links stored to them:      *)
(* counts left stale by a crash, a failed recount or a delete are repaired *)
(* even when every file is skipped.                                        *)
BacklinksSettle ==
  \A p \in Proc : (InPass(p, "chart") /\ calm[p]) =>
    \A f \in File :
      (/\ Cached(f)
       /\ f[1] \notin job[p].vaults
       /\ ~ (job[p].inVault /\ job[p].vault = f[1])
       /\ \E q \in Path : OnDisk(<<f[1], q>>))
      => fileCache[f].backlinks = Cardinality({l \in links : l.target = f})

(* Every pass ends, however the user edits and the other processes run.    *)
PassEnds == \A p \in Proc : job[p] # NoJob ~> job[p] = NoJob
=============================================================================
