------------------------------ MODULE CleanSwap ------------------------------
(***************************************************************************)
(* run_clean (cli/src/commands/clean.rs) on the file system: the new index *)
(* is built under a temporary name that holds the pid, the old one is      *)
(* copied to a backup and removed, and the new one is renamed to its name  *)
(* - or copied to it, where that cannot be done.  A process can be killed  *)
(* between any two of these calls, run again, and meet another clean.      *)
(*                                                                         *)
(* A file is "partial" while it is being written, "old" the index that was *)
(* there, "new" a finished index, "mixed" what two copies have written to  *)
(* at once.  The -wal and -shm companions share the fate of their database *)
(* file and are not told apart from it.                                    *)
(***************************************************************************)
EXTENDS Naturals, Sequences

CONSTANTS
  Pid,          \* the process ids clean is run under
  KeptBackups,  \* how many old backups survive the pruning: 3
  MaxBackups,   \* bound on the number of backups made, for TLC
  MaxRenameErrors     \* bound on the renames that fail, for TLC

ASSUME CleanAssumption ==
  KeptBackups \in Nat /\ MaxBackups \in Nat /\ MaxRenameErrors \in Nat

Content == {"none", "partial", "mixed", "old", "new"}
Complete == {"old", "new"}
Stage == {"idle", "start", "build", "prune", "copy", "delete", "rename",
          "target", "fill", "drop"}

VARIABLES
  db,           \* what is at db_path
  temp,         \* pid -> what is at its temporary name
  backups,      \* the backup files, oldest first
  made,         \* how many backups were made
  stage,        \* pid -> how far run_clean has come
  into,         \* the pids whose copy is writing to the file at db_path
  renameErrors,       \* how many renames failed
  reused        \* history: was a whole temporary file replaced after that?

backupVars == <<backups, made>>
fallbackVars == <<into, renameErrors, reused>>
cleanVars == <<db, temp, backupVars, stage, fallbackVars>>

CleanInit ==
  /\ db = "old"
  /\ temp = [p \in Pid |-> "none"]
  /\ backups = <<>>
  /\ made = 0
  /\ stage = [p \in Pid |-> "idle"]
  /\ into = {} /\ renameErrors = 0 /\ reused = FALSE

Go(p, from, to) == stage[p] = from /\ stage' = [stage EXCEPT ![p] = to]

(* Mutant: clean also runs when there is no database. *)
StartAnyway(p) ==
  Go(p, "idle", "start") /\ UNCHANGED <<db, temp, backupVars, fallbackVars>>

(* Without a database there is nothing to clean: the command fails.        *)
Start(p) ==
  /\ db # "none"
  /\ Go(p, "idle", "start")
  /\ UNCHANGED <<db, temp, backupVars, fallbackVars>>

(* "Clean up any stale temp file": only the one of the same pid; then open *)
OpenTemp(p) ==
  /\ Go(p, "start", "build")
  /\ temp' = [temp EXCEPT ![p] = "partial"]
  /\ reused' = (reused \/ (renameErrors > 0 /\ temp[p] = "new"))
  /\ UNCHANGED <<db, backupVars, into, renameErrors>>

(* index_directory, wal_checkpoint, drop *)
Build(p) ==
  /\ Go(p, "build", "prune")
  /\ temp' = [temp EXCEPT ![p] = "new"]
  /\ UNCHANGED <<db, backupVars, fallbackVars>>

(* index_directory or the checkpoint fails: run_clean returns the error.   *)
BuildFails(p) ==
  /\ Go(p, "build", "idle")
  /\ UNCHANGED <<db, temp, backupVars, fallbackVars>>

Newest(s, n) == IF Len(s) <= n THEN s ELSE SubSeq(s, Len(s) - n + 1, Len(s))

(* backup_file: prune, then copy; without a database it does nothing *)
Prune(p) ==
  /\ IF db = "none" \/ made = MaxBackups
     THEN Go(p, "prune", "delete") /\ UNCHANGED backupVars
     ELSE /\ Go(p, "prune", "copy")
          /\ backups' = Append(Newest(backups, KeptBackups), "partial")
          /\ made' = made + 1
  /\ UNCHANGED <<db, temp, fallbackVars>>

(* The copy holds what is at db_path; a failed one is reported and ignored. *)
Copy(p) ==
  /\ Go(p, "copy", "delete")
  /\ \E i \in 1 .. Len(backups) :
       /\ backups[i] = "partial"
       /\ \/ db # "none" /\ backups' = [backups EXCEPT ![i] = db]
          \/ UNCHANGED backups
  /\ UNCHANGED <<db, temp, made, fallbackVars>>

(* delete_db_files: an error is ignored, and a symbolic link stays.  A copy *)
(* that was writing to the file goes on without a name.                    *)
Delete(p) ==
  /\ Go(p, "delete", "rename")
  /\ db' = "none" /\ into' = {}
  /\ UNCHANGED <<temp, backupVars, renameErrors, reused>>

DeleteFails(p) ==
  /\ Go(p, "delete", "rename")
  /\ UNCHANGED <<db, temp, backupVars, fallbackVars>>

(* rename, which replaces what is there *)
SwapIn(p) ==
  /\ Go(p, "rename", "idle")
  /\ db' = temp[p] /\ into' = {}
  /\ temp' = [temp EXCEPT ![p] = "none"]
  /\ UNCHANGED <<backupVars, renameErrors, reused>>

(* Both names are in one directory, but a file can be mounted at db_path,  *)
(* or the directory be closed by now: "Cross-device fallback".             *)
RenameFails(p) ==
  /\ Go(p, "rename", "target")
  /\ renameErrors < MaxRenameErrors /\ renameErrors' = renameErrors + 1
  /\ UNCHANGED <<db, temp, backupVars, into, reused>>

(* fs::copy: the target is created, or truncated, and then filled.         *)
OpenTarget(p) ==
  /\ Go(p, "target", "fill")
  /\ db' = IF into = {} THEN "partial" ELSE "mixed"
  /\ into' = into \cup {p}
  /\ UNCHANGED <<temp, backupVars, renameErrors, reused>>

Fill(p) ==
  /\ Go(p, "fill", "drop")
  /\ db' \in IF p \notin into THEN {db}
            ELSE IF db = "partial" THEN {"new"} ELSE {"new", "mixed"}
  /\ into' = into \ {p}
  /\ UNCHANGED <<temp, backupVars, renameErrors, reused>>

CopyFails(p) ==
  /\ Go(p, "target", "idle") \/ Go(p, "fill", "idle")
  /\ into' = into \ {p}
  /\ UNCHANGED <<db, temp, backupVars, renameErrors, reused>>

(* remove_file of the temporary file, which can fail                       *)
DropTemp(p) ==
  /\ Go(p, "drop", "idle")
  /\ temp' \in {temp, [temp EXCEPT ![p] = "none"]}
  /\ UNCHANGED <<db, backupVars, fallbackVars>>

Killed(p) ==
  /\ stage[p] # "idle"
  /\ stage' = [stage EXCEPT ![p] = "idle"]
  /\ into' = into \ {p}
  /\ UNCHANGED <<db, temp, backupVars, renameErrors, reused>>

Step(p) ==
  \/ Start(p) \/ OpenTemp(p) \/ Build(p) \/ BuildFails(p) \/ Prune(p)
  \/ Copy(p) \/ Delete(p) \/ DeleteFails(p) \/ SwapIn(p) \/ RenameFails(p)
  \/ OpenTarget(p) \/ Fill(p) \/ CopyFails(p) \/ DropTemp(p) \/ Killed(p)

CleanNext == \E p \in Pid : Step(p)

CleanSpec == CleanInit /\ [][CleanNext]_cleanVars

-----------------------------------------------------------------------------
(* As long as every rename works, a complete index is on disk whoever is   *)
(* killed where: at db_path or in the temporary file that was to become    *)
(* it, and what is at db_path is never half an index.  (The backup is not  *)
(* needed for that: a failed one is ignored.)                              *)
(* A clean that has to copy leaves half an index at db_path if it is       *)
(* killed, and keeps the whole one in its temporary file.  What can lose   *)
(* that are a second copy at the same time or a later clean that is given  *)
(* the same pid, and nothing else.                                         *)
IndexNeverLost ==
  /\ renameErrors = 0 => db \in Complete \cup {"none"}
  /\ renameErrors = 0 \/ (renameErrors = 1 /\ ~ reused) =>
       db \in Complete \/ \E p \in Pid : temp[p] = "new"
=============================================================================
