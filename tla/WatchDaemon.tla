---------------------------- MODULE WatchDaemon ----------------------------
(***************************************************************************)
(* The watch daemon (core/src/watcher.rs): notify turns each change of the *)
(* vault into an event on a channel, one loop takes the events off it in   *)
(* order and re-indexes or deletes the files they name.                    *)
(*                                                                         *)
(* An event is what the loop does about it: a sequence of tasks.  The      *)
(* daemon starts on an empty vault and an empty index.                     *)
(***************************************************************************)
EXTENDS FileIndexer, Sequences

CONSTANTS
  MovesOut,     \* whether the user moves files out of and into the vault,
                \* and removes directories files were renamed from
  Failures      \* whether reads and transactions fail

ASSUME WatchAssumption == MovesOut \in BOOLEAN /\ Failures \in BOOLEAN

VARIABLES
  events,       \* the channel: sequence of events
  agenda,       \* what is left to do of the event being handled
  missed        \* history: files the daemon was not told of or failed on

watchVars == <<storeVars, diskVars, work, events, agenda, missed>>

Task1(do, f) == <<[do |-> do, file |-> f]>>
TaskRecord == [do : {"index", "delete", "leave", "recount"}, file : File]

(* handle_event, one case per kind of event.  Only Remove recounts.        *)
Touched(f) == Task1("index", f)
Removed(f) ==
  Task1("delete", f) \o IF BacklinkScoring THEN Task1("recount", f) ELSE <<>>
(* Mutant: the old path stays in the index. *)
RenamedNewOnly(f, g) == Task1("index", g)

Renamed(f, g) == Task1("leave", f) \o Task1("index", g)

Notify(event) == events' = Append(events, event) /\ UNCHANGED missed
Miss(f) == missed' = missed \cup {f}

WatchInit ==
  /\ StoreInit
  /\ IndexerInit
  /\ events = <<>>
  /\ agenda = <<>>
  /\ missed = {}

-----------------------------------------------------------------------------
(* A rename out of the vault, or into it, has one path: it is not           *)
(* RenameMode::Both and the loop ignores it.                               *)
User ==
  /\ \E f \in File :
       \/ (\E b \in Body : WriteFile(f, b)) /\ Notify(Touched(f))
       \/ RemoveFile(f) /\ Notify(Removed(f))
       \/ \E g \in File : RenameFile(f, g) /\ Notify(Renamed(f, g))
       \/ /\ MovesOut
          /\ RemoveFile(f) \/ \E b \in Body : WriteFile(f, b)
          /\ Miss(f) /\ UNCHANGED events
  /\ UNCHANGED <<storeVars, work, agenda>>

-----------------------------------------------------------------------------
Resting(p) == work[p] = NoWork /\ pending[p] = NoDelete

(* Mutant: events that came in meanwhile are dropped. *)
TakeEventDropRest(p) ==
  /\ Resting(p) /\ agenda = <<>> /\ events # <<>>
  /\ agenda' = Head(events)
  /\ events' = <<>>
  /\ UNCHANGED <<storeVars, diskVars, work, missed>>

TakeEvent(p) ==
  /\ Resting(p) /\ agenda = <<>> /\ events # <<>>
  /\ agenda' = Head(events)
  /\ events' = Tail(events)
  /\ UNCHANGED <<storeVars, diskVars, work, missed>>

Next1(p, do) == Resting(p) /\ agenda # <<>> /\ Head(agenda).do = do

(* A path that cannot be canonicalized any more is skipped.                *)
SkipMissing(p) ==
  /\ Next1(p, "index") /\ ~ OnDisk(Head(agenda).file)
  /\ agenda' = Tail(agenda)
  /\ UNCHANGED <<storeVars, diskVars, work, events, missed>>

(* is_path_in_notes_dir_lenient: the old path of a rename is left alone if *)
(* its directory is gone, too.                                             *)
SkipOldPath(p) ==
  /\ MovesOut /\ Next1(p, "leave") /\ ~ OnDisk(Head(agenda).file)
  /\ agenda' = Tail(agenda)
  /\ Miss(Head(agenda).file)
  /\ UNCHANGED <<storeVars, diskVars, work, events>>

(* path_map is built from the paths in the index, not from those on disk;  *)
(* from none if they cannot be read.                                       *)
BeginIndex(p, m) ==
  /\ Next1(p, "index") /\ OnDisk(Head(agenda).file)
  /\ LET f == Head(agenda).file
         cached == {q \in Path : Cached(<<f[1], q>>)} IN
       \E known \in {cached} \cup IF Failures THEN {{}} ELSE {} :
         BeginFile(p, f, known, m)
  /\ agenda' = Tail(agenda)
  /\ UNCHANGED <<diskVars, events, missed>>

IndexEventFile(p) ==
  /\ IndexFile(p)
  /\ UNCHANGED <<diskVars, events, agenda, missed>>

(* Mutant: the rows are deleted, the tag counts forgotten. *)
DeleteRowsOnly(p) ==
  /\ Next1(p, "delete") \/ Next1(p, "leave")
  /\ DeleteTx(Head(agenda).file, [t \in Tag |-> 0])
  /\ agenda' = Tail(agenda)
  /\ UNCHANGED <<pending, purge, diskVars, work, events, missed>>

BeginEventDelete(p) ==
  /\ Next1(p, "delete") \/ Next1(p, "leave")
  /\ ReadTags(p, Head(agenda).file)
  /\ agenda' = Tail(agenda)
  /\ UNCHANGED <<diskVars, work, events, missed>>

CommitEventDelete(p) ==
  /\ CommitDelete(p)
  /\ UNCHANGED <<diskVars, work, events, agenda, missed>>

EventRecount(p) ==
  /\ Next1(p, "recount")
  /\ RecountTx(Head(agenda).file[1])
  /\ agenda' = Tail(agenda)
  /\ UNCHANGED <<pending, purge, diskVars, work, events, missed>>

(* Errors are logged; what the event still asks for is done, what failed   *)
(* is never tried again.                                                   *)
Fail(p) ==
  /\ Failures
  /\ \/ /\ FailFile(p)
        /\ IF work'[p] = NoWork THEN Miss(work[p].file) ELSE UNCHANGED missed
        /\ UNCHANGED agenda
     \/ /\ Abandon(p)
        /\ Miss(pending[p].file)
        /\ UNCHANGED <<work, agenda>>
     \/ /\ Next1(p, "recount")
        /\ agenda' = Tail(agenda)
        /\ UNCHANGED <<storeVars, work, missed>>
  /\ UNCHANGED <<diskVars, events>>

Handle(p) ==
  \/ TakeEvent(p)
  \/ SkipMissing(p) \/ SkipOldPath(p)
  \/ \E m \in ModelId : BeginIndex(p, m)
  \/ IndexEventFile(p)
  \/ BeginEventDelete(p)
  \/ CommitEventDelete(p)
  \/ EventRecount(p)

WatchNext == User \/ \E p \in Proc : Handle(p) \/ Fail(p)

WatchSpec == WatchInit /\ [][WatchNext]_watchVars

(* The loop runs as long as there is something to do.  Nothing is assumed  *)
(* of the user.                                                            *)
FairWatchSpec == WatchSpec /\ \A p \in Proc : WF_watchVars(Handle(p))

-----------------------------------------------------------------------------
(* Type invariant of the daemon, a part of CaughtUpIsExact.                *)
WatchTypeOK ==
  /\ IndexerTypeOK
  /\ events \in Seq(Seq(TaskRecord))
  /\ agenda \in Seq(TaskRecord)
  /\ missed \subseteq File

CaughtUp == events = <<>> /\ agenda = <<>> /\ \A p \in Proc : Resting(p)

(* The file's row is that of the file on disk, or neither exists.          *)
InStep(f) == IF OnDisk(f)
             THEN Cached(f) /\ fileCache[f].body = disk[f].body
             ELSE ~ Cached(f)

(* Whatever was edited while the loop was in the middle of a file: once it *)
(* has caught up with the events the index holds exactly the files on      *)
(* disk, with the bodies they have ("Watch vault directories for changes   *)
(* and incrementally re-index") - but for the files it once failed on or   *)
(* was not told of.  Later events need not help those: a row that a failed *)
(* delete left behind can have the stamp of the file that comes back.      *)
CaughtUpIsExact ==
  WatchTypeOK /\ (CaughtUp => \A f \in File \ missed : InStep(f))

(* A change made on disk reaches the index: if the editing stops, the      *)
(* index ends up, and stays, equal to the disk.                            *)
IndexFollowsDisk == <>[](\A f \in File \ missed : InStep(f))
=============================================================================
