------------------------- MODULE WatchDaemonProofs -------------------------
(***************************************************************************)
(* What holds of the watch daemon for every set of vaults, paths and       *)
(* bodies: to the index it is a client of IndexStore like the passes, and  *)
(* once it has caught up with its events the index is the disk.            *)
(***************************************************************************)
EXTENDS WatchDaemon, IndexStoreProofs, SequenceTheorems

ChannelTypeOK == events \in Seq(Seq(TaskRecord)) /\ agenda \in Seq(TaskRecord)

(* The daemon never purges, and deletes nothing while it indexes.          *)
CallInv ==
  \A p \in Proc :
    /\ purge[p] = NoPurge
    /\ work[p] # NoWork => pending[p] = NoDelete

DaemonInv == IndexerTypeOK /\ ChannelTypeOK /\ CallInv

-----------------------------------------------------------------------------
LEMMA InitDaemonInv == WatchInit => DaemonInv
<1> SUFFICES ASSUME WatchInit
             PROVE  DaemonInv
  OBVIOUS
<1>1. IndexerTypeOK
  BY InitIndexerTypes DEF WatchInit
<1>2. ChannelTypeOK
  BY DEF WatchInit, ChannelTypeOK
<1>3. CallInv
  BY DEF WatchInit, CallInv, StoreInit, IndexerInit
<1> QED
  BY <1>1, <1>2, <1>3 DEF DaemonInv

LEMMA EventTypes ==
  ASSUME NEW f \in File, NEW g \in File
  PROVE  /\ Touched(f) \in Seq(TaskRecord)
         /\ Removed(f) \in Seq(TaskRecord)
         /\ Renamed(f, g) \in Seq(TaskRecord)
<1>1. ASSUME NEW h \in File, NEW do \in {"index", "delete", "leave", "recount"}
      PROVE  Task1(do, h) \in Seq(TaskRecord)
  <2>1. [do |-> do, file |-> h] \in TaskRecord
    BY DEF TaskRecord
  <2> QED
    BY <2>1 DEF Task1
<1>2. /\ Task1("index", f) \in Seq(TaskRecord) /\ Task1("delete", f) \in Seq(TaskRecord)
      /\ Task1("leave", f) \in Seq(TaskRecord) /\ Task1("recount", f) \in Seq(TaskRecord)
      /\ Task1("index", g) \in Seq(TaskRecord) /\ <<>> \in Seq(TaskRecord)
  BY <1>1
<1> QED
  BY <1>2, ConcatProperties DEF Touched, Removed, Renamed

(* The channel stays typed: the loop only takes from it. *)
LEMMA AgendaTypes ==
  ASSUME ChannelTypeOK,
         \/ UNCHANGED <<events, agenda>>
         \/ agenda # <<>> /\ agenda' = Tail(agenda) /\ UNCHANGED events
         \/ events # <<>> /\ agenda' = Head(events) /\ events' = Tail(events)
         \/ \E e \in Seq(TaskRecord) : events' = Append(events, e) /\ UNCHANGED agenda
  PROVE  ChannelTypeOK'
<1> DEFINE Event == Seq(TaskRecord)
<1>1. events \in Seq(Event) /\ agenda \in Seq(TaskRecord)
  BY DEF ChannelTypeOK
<1>2. agenda # <<>> => Tail(agenda) \in Seq(TaskRecord)
  BY <1>1, HeadTailProperties
<1>3. \A e \in Event : Append(events, e) \in Seq(Event)
  <2> HIDE DEF Event
  <2> QED
    BY <1>1, AppendProperties
<1>4. events # <<>> => Head(events) \in Event /\ Tail(events) \in Seq(Event)
  <2> HIDE DEF Event
  <2> QED
    BY <1>1, HeadTailProperties
<1>5. events' \in Seq(Event) /\ agenda' \in Event
  <2>1. \/ UNCHANGED <<events, agenda>>
        \/ agenda # <<>> /\ agenda' = Tail(agenda) /\ UNCHANGED events
        \/ events # <<>> /\ agenda' = Head(events) /\ events' = Tail(events)
        \/ \E e \in Event : events' = Append(events, e) /\ UNCHANGED agenda
    OBVIOUS
  <2>2. agenda \in Event /\ (agenda # <<>> => Tail(agenda) \in Event)
    BY <1>1, <1>2
  <2> HIDE DEF Event
  <2> QED
    BY <1>1, <1>3, <1>4, <2>1, <2>2
<1> QED
  BY <1>5 DEF ChannelTypeOK

LEMMA HeadType ==
  ASSUME ChannelTypeOK, agenda # <<>>
  PROVE  Head(agenda).file \in File
<1>1. Head(agenda) \in TaskRecord
  BY DEF ChannelTypeOK
<1> QED
  BY <1>1 DEF TaskRecord

-----------------------------------------------------------------------------
LEMMA UserKeepsDaemon ==
  ASSUME DaemonInv, User
  PROVE  DaemonInv' /\ UNCHANGED storeVars
<1>1. UNCHANGED <<storeVars, work, agenda>>
  BY DEF User
<1>2. PICK f \in File :
        \/ (\E b \in Body : WriteFile(f, b)) /\ Notify(Touched(f))
        \/ RemoveFile(f) /\ Notify(Removed(f))
        \/ \E g \in File : RenameFile(f, g) /\ Notify(Renamed(f, g))
        \/ /\ MovesOut
           /\ RemoveFile(f) \/ \E b \in Body : WriteFile(f, b)
           /\ Miss(f) /\ UNCHANGED events
  BY DEF User
<1>3. IndexerTypeOK'
  BY <1>1, <1>2, EditTypes DEF DaemonInv
<1>4. \/ UNCHANGED events
      \/ \E e \in Seq(TaskRecord) : events' = Append(events, e)
  BY <1>2, EventTypes DEF Notify
<1>5. ChannelTypeOK'
  BY <1>1, <1>4, AgendaTypes DEF DaemonInv
<1> QED
  BY <1>1, <1>3, <1>5 DEF DaemonInv, CallInv, storeVars

(* p's calls go on; those of the others are left alone. *)
LEMMA CallKept ==
  ASSUME CallInv, NEW p \in Proc,
         \A q \in Proc \ {p} :
           work'[q] = work[q] /\ pending'[q] = pending[q] /\ purge'[q] = purge[q],
         purge'[p] = NoPurge,
         work'[p] # NoWork => pending'[p] = NoDelete
  PROVE  CallInv'
BY DEF CallInv

LEMMA IdleInside ==
  ASSUME CallInv, NEW p \in Proc, pending[p] = NoDelete
  PROVE  Idle(p)
BY DEF CallInv, Idle

(* The steps that touch neither the disk nor the index nor a call. *)
LEMMA TakeKeeps ==
  ASSUME DaemonInv, NEW p \in Proc,
         TakeEvent(p) \/ SkipMissing(p) \/ SkipOldPath(p)
  PROVE  DaemonInv' /\ UNCHANGED storeVars
<1>1. UNCHANGED <<storeVars, diskVars, work>>
  BY DEF TakeEvent, SkipMissing, SkipOldPath
<1>2. \/ agenda # <<>> /\ agenda' = Tail(agenda) /\ UNCHANGED events
      \/ events # <<>> /\ agenda' = Head(events) /\ events' = Tail(events)
  BY DEF TakeEvent, SkipMissing, SkipOldPath, Next1
<1>3. ChannelTypeOK'
  BY <1>2, AgendaTypes DEF DaemonInv
<1> QED
  BY <1>1, <1>3 DEF DaemonInv, CallInv, storeVars, IndexerTypeOK, diskVars, At

LEMMA BeginIndexKeeps ==
  ASSUME DaemonInv, NEW p \in Proc, NEW m \in ModelId, BeginIndex(p, m)
  PROVE  DaemonInv' /\ UNCHANGED storeVars
<1>1. /\ agenda # <<>> /\ agenda' = Tail(agenda) /\ UNCHANGED events
      /\ UNCHANGED diskVars /\ Resting(p)
  BY DEF BeginIndex, Next1
<1>2. ChannelTypeOK'
  BY <1>1, AgendaTypes DEF DaemonInv
<1> DEFINE f == Head(agenda).file
<1>3. f \in File
  BY <1>1, HeadType DEF DaemonInv
<1>4. PICK known \in SUBSET Path : BeginFile(p, f, known, m)
  BY DEF BeginIndex
<1>5. IndexerTypeOK'
  BY <1>1, <1>3, <1>4, BeginTypes DEF DaemonInv
<1>6. UNCHANGED storeVars
  BY <1>4 DEF BeginFile
<1>7. \A q \in Proc \ {p} : work'[q] = work[q]
  BY <1>4 DEF BeginFile, SetWork, DaemonInv, IndexerTypeOK
<1>8. CallInv'
  BY <1>1, <1>6, <1>7, CallKept DEF DaemonInv, CallInv, Resting, storeVars
<1> QED
  BY <1>2, <1>5, <1>6, <1>8 DEF DaemonInv

LEMMA IndexEventKeeps ==
  ASSUME DaemonInv, NEW p \in Proc,
         IndexFile(p) \/ FailFile(p),
         UNCHANGED <<diskVars, events, agenda>>
  PROVE  DaemonInv' /\ [StoreNext]_storeVars
<1>1. work[p] # NoWork
  BY DEF IndexFile, FailFile, StatMtime, StatSize, CheckMtime, CheckSize, ReadFile,
         CheckHash, CommitFile, At
<1>2. pending[p] = NoDelete /\ Idle(p)
  BY <1>1, IdleInside DEF DaemonInv, CallInv
<1>3. UNCHANGED <<pending, purge>>
  BY DEF IndexFile, FailFile, StatMtime, StatSize, CheckMtime, CheckSize, ReadFile,
         CheckHash, CommitFile, storeVars
<1>4. \A q \in Proc \ {p} : work'[q] = work[q]
  BY IndexFileWork DEF Onward, SetWork, DaemonInv, IndexerTypeOK
<1>5. IndexerTypeOK'
  BY IndexFileTypes DEF DaemonInv
<1>6. ChannelTypeOK'
  BY AgendaTypes DEF DaemonInv
<1>7. CallInv'
  BY <1>2, <1>3, <1>4, CallKept DEF DaemonInv, CallInv
<1>8. [StoreNext]_storeVars
  BY <1>2, IndexFileIsStoreStep DEF DaemonInv, FailFile
<1> QED
  BY <1>5, <1>6, <1>7, <1>8 DEF DaemonInv

(* The steps that touch the index and leave disk and work alone. *)
LEMMA EventStoreKeeps ==
  ASSUME DaemonInv, TypeOK, NEW p \in Proc,
         \/ BeginEventDelete(p) \/ CommitEventDelete(p) \/ EventRecount(p)
         \/ Abandon(p) /\ UNCHANGED <<diskVars, work, events, agenda>>
  PROVE  DaemonInv' /\ [StoreNext]_storeVars
<1>1. UNCHANGED <<diskVars, work, events>>
  BY DEF BeginEventDelete, CommitEventDelete, EventRecount
<1>2. \/ UNCHANGED agenda
      \/ agenda # <<>> /\ agenda' = Tail(agenda)
  BY DEF BeginEventDelete, CommitEventDelete, EventRecount, Next1
<1>3. ChannelTypeOK'
  BY <1>1, <1>2, AgendaTypes DEF DaemonInv
<1>4. IndexerTypeOK'
  BY <1>1 DEF DaemonInv, IndexerTypeOK, diskVars, At
<1>5. /\ purge[p] = NoPurge
      /\ work[p] # NoWork => pending[p] = NoDelete
      /\ pending \in [Proc -> PendingDelete \cup {NoDelete}]
      /\ purge \in [Proc -> [cutoff : Nat, files : SUBSET File]]
  BY DEF DaemonInv, CallInv, TypeOK
<1>6. CASE BeginEventDelete(p)
  <2>1. /\ agenda # <<>> /\ work[p] = NoWork /\ pending[p] = NoDelete
        /\ ReadTags(p, Head(agenda).file)
    BY <1>6 DEF BeginEventDelete, Next1, Resting
  <2>2. Head(agenda).file \in File /\ Idle(p)
    BY <2>1, HeadType, IdleInside DEF DaemonInv
  <2>3. BeginDelete(p)
    BY <2>1, <2>2 DEF BeginDelete
  <2>4. CallInv'
    BY <1>1, <1>5, <2>1, CallKept DEF ReadTags, DaemonInv, CallInv
  <2> QED
    BY <1>3, <1>4, <2>3, <2>4 DEF DaemonInv, StoreNext
<1>7. CASE CommitEventDelete(p)
  <2>1. CommitDelete(p)
    BY <1>7 DEF CommitEventDelete
  <2>2. /\ pending' = [pending EXCEPT ![p] = NoDelete]
        /\ purge' = [purge EXCEPT ![p] = AfterDelete(purge[p], pending[p].file)]
    BY <2>1 DEF CommitDelete
  <2>3. AfterDelete(purge[p], pending[p].file) = NoPurge
    BY <1>5 DEF AfterDelete, NoPurge
  <2>4. CallInv'
    BY <1>1, <1>5, <2>2, <2>3, CallKept DEF DaemonInv, CallInv
  <2> QED
    BY <1>3, <1>4, <2>1, <2>4 DEF DaemonInv, StoreNext
<1>8. CASE EventRecount(p)
  <2>1. /\ agenda # <<>> /\ pending[p] = NoDelete /\ UNCHANGED <<pending, purge>>
        /\ RecountTx(Head(agenda).file[1])
    BY <1>8 DEF EventRecount, Next1, Resting
  <2>2. Head(agenda).file[1] \in Vault /\ Idle(p)
    BY <2>1, HeadType, IdleInside DEF DaemonInv, File
  <2>3. Recount(p)
    BY <2>1, <2>2 DEF Recount
  <2>4. CallInv'
    BY <1>1, <2>1 DEF DaemonInv, CallInv
  <2> QED
    BY <1>3, <1>4, <2>3, <2>4 DEF DaemonInv, StoreNext
<1>9. CASE Abandon(p)
  <2>1. CallInv'
    BY <1>1, <1>5, <1>9, CallKept DEF Abandon, DaemonInv, CallInv
  <2> QED
    BY <1>3, <1>4, <1>9, <2>1 DEF DaemonInv, StoreNext
<1> QED
  BY <1>6, <1>7, <1>8, <1>9

LEMMA FailKeeps ==
  ASSUME DaemonInv, TypeOK, NEW p \in Proc, Fail(p)
  PROVE  DaemonInv' /\ [StoreNext]_storeVars
<1>1. UNCHANGED <<diskVars, events>>
  BY DEF Fail
<1>2. CASE FailFile(p) /\ UNCHANGED agenda
  BY <1>1, <1>2, IndexEventKeeps
<1>3. CASE Abandon(p) /\ UNCHANGED <<work, agenda>>
  BY <1>1, <1>3, EventStoreKeeps
<1>4. CASE /\ Next1(p, "recount")
           /\ agenda' = Tail(agenda)
           /\ UNCHANGED <<storeVars, work>>
  <2>1. ChannelTypeOK'
    BY <1>1, <1>4, AgendaTypes DEF DaemonInv, Next1
  <2> QED
    BY <1>1, <1>4, <2>1 DEF DaemonInv, CallInv, storeVars, IndexerTypeOK, diskVars, At
<1> QED
  BY <1>2, <1>3, <1>4 DEF Fail

LEMMA NextDaemonInv ==
  ASSUME TypeOK, DaemonInv, [WatchNext]_watchVars
  PROVE  DaemonInv' /\ [StoreNext]_storeVars
<1>1. CASE UNCHANGED watchVars
  BY <1>1 DEF watchVars, storeVars, diskVars, DaemonInv, IndexerTypeOK, ChannelTypeOK,
              CallInv, At
<1>2. CASE User
  BY <1>2, UserKeepsDaemon
<1>3. ASSUME NEW p \in Proc, Handle(p)
      PROVE  DaemonInv' /\ [StoreNext]_storeVars
  <2>1. CASE IndexEventFile(p)
    BY <2>1, IndexEventKeeps DEF IndexEventFile
  <2>2. CASE BeginEventDelete(p) \/ CommitEventDelete(p) \/ EventRecount(p)
    BY <2>2, EventStoreKeeps
  <2>3. CASE TakeEvent(p) \/ SkipMissing(p) \/ SkipOldPath(p)
    BY <2>3, TakeKeeps
  <2>4. ASSUME NEW m \in ModelId, BeginIndex(p, m)
        PROVE  DaemonInv' /\ [StoreNext]_storeVars
    BY <2>4, BeginIndexKeeps
  <2> QED
    BY <1>3, <2>1, <2>2, <2>3, <2>4 DEF Handle
<1> QED
  BY <1>1, <1>2, <1>3, FailKeeps DEF WatchNext

(* The daemon implements the index: whatever its loop does to it, with     *)
(* edits and failures in between, is a call of IndexStore or nothing.      *)
THEOREM DaemonImplementsStore == WatchSpec => StoreSpec
<1>1. WatchInit => StoreInit /\ TypeInv /\ DaemonInv
  BY InitTypeInv, InitDaemonInv DEF WatchInit
<1>2. TypeInv /\ DaemonInv /\ [WatchNext]_watchVars
        => (TypeInv /\ DaemonInv)' /\ [StoreNext]_storeVars
  BY NextDaemonInv, NextTypeInv DEF TypeInv
<1> QED
  BY <1>1, <1>2, PTL DEF WatchSpec, StoreSpec

-----------------------------------------------------------------------------
(***************************************************************************)
(* Why the index is the disk once the loop has caught up.  The events that *)
(* are still to be handled account for every difference, in their order:   *)
(* a file on disk is indexed as it is, or will be indexed after the last   *)
(* delete of it; a file that is not there is not indexed, or will be       *)
(* deleted.  The fast path could skip a file that came back under an old   *)
(* stamp, so a row whose time another text on disk has must be deleted     *)
(* before its file is looked at again.                                     *)
(***************************************************************************)

(* The batches of tasks the loop has before it: the rest of the event it   *)
(* is handling, then the events on the channel.                            *)
Batch(k) == IF k = 0 THEN agenda ELSE events[k]
Batches == 0 .. Len(events)

Asks(batch, dos, f) ==
  \E i \in 1 .. Len(batch) : batch[i].do \in dos /\ batch[i].file = f
Deletes(batch, f) == Asks(batch, {"delete", "leave"}, f)
Indexes(batch, f) == Asks(batch, {"index"}, f)

DeleteQueued(f) == \E k \in Batches : Deletes(Batch(k), f)

(* f will be indexed and not be deleted after that: no event asks for both. *)
IndexQueued(f) ==
  \E k \in Batches : /\ Indexes(Batch(k), f)
                     /\ \A j \in Batches : k <= j => ~ Deletes(Batch(j), f)

LEMMA QueueTyped ==
  ASSUME ChannelTypeOK
  PROVE  /\ Len(events) \in Nat /\ agenda \in Seq(TaskRecord)
         /\ \A k \in 1 .. Len(events) : events[k] \in Seq(TaskRecord)
<1> DEFINE Event == Seq(TaskRecord)
<1>1. events \in Seq(Event) /\ agenda \in Seq(TaskRecord)
  BY DEF ChannelTypeOK
<1> HIDE DEF Event
<1>2. Len(events) \in Nat /\ \A k \in 1 .. Len(events) : events[k] \in Event
  BY <1>1, ElementOfSeq, LenProperties
<1> QED
  BY <1>1, <1>2 DEF Event

(* A new event is the last one. *)
LEMMA QueueAppend ==
  ASSUME ChannelTypeOK, UNCHANGED agenda,
         NEW e \in Seq(TaskRecord), events' = Append(events, e)
  PROVE  /\ \A f \in File : DeleteQueued(f)' <=> DeleteQueued(f) \/ Deletes(e, f)
         /\ \A f \in File : (IndexQueued(f) \/ Indexes(e, f)) /\ ~ Deletes(e, f) => IndexQueued(f)'
<1> DEFINE Event == Seq(TaskRecord)
<1>1. PICK n \in Nat : n = Len(events)
  BY QueueTyped
<1>2. /\ Len(events') = n + 1
      /\ \A k \in 1 .. n : events'[k] = events[k]
      /\ events'[n + 1] = e
  <2>1. events \in Seq(Event) /\ e \in Event
    BY DEF ChannelTypeOK
  <2> HIDE DEF Event
  <2> QED
    BY <1>1, <2>1, AppendProperties
<1>3. /\ Batches' = 0 .. n + 1 /\ Batches = 0 .. n
      /\ \A k \in 0 .. n : Batch(k)' = Batch(k)
      /\ Batch(n + 1)' = e
  <2>1. ASSUME NEW k \in 0 .. n
        PROVE  Batch(k)' = Batch(k)
    BY <1>1, <1>2, <2>1 DEF Batch
  <2>2. (IF n + 1 = 0 THEN agenda' ELSE events'[n + 1]) = e
    BY <1>1, <1>2
  <2> QED
    BY <1>1, <1>2, <2>1, <2>2 DEF Batches, Batch
<1>4. ASSUME NEW f \in File
      PROVE  DeleteQueued(f)' <=> DeleteQueued(f) \/ Deletes(e, f)
  <2>1. DeleteQueued(f)' <=> \E k \in 0 .. n + 1 : Deletes(Batch(k)', f)
    BY <1>3 DEF DeleteQueued, Deletes, Asks
  <2>2. DeleteQueued(f) <=> \E k \in 0 .. n : Deletes(Batch(k), f)
    BY <1>3 DEF DeleteQueued
  <2>3. 0 .. n + 1 = (0 .. n) \cup {n + 1}
    BY <1>1
  <2> QED
    BY <1>3, <2>1, <2>2, <2>3
<1>5. ASSUME NEW f \in File, IndexQueued(f) \/ Indexes(e, f), ~ Deletes(e, f)
      PROVE  IndexQueued(f)'
  <2>1. IndexQueued(f)' <=>
          \E k \in 0 .. n + 1 : /\ Indexes(Batch(k)', f)
                                /\ \A j \in 0 .. n + 1 : k <= j => ~ Deletes(Batch(j)', f)
    BY <1>3 DEF IndexQueued, Deletes, Indexes, Asks
  <2>2. CASE IndexQueued(f)
    <3>1. PICK k \in 0 .. n : /\ Indexes(Batch(k), f)
                              /\ \A j \in 0 .. n : k <= j => ~ Deletes(Batch(j), f)
      BY <1>3, <2>2 DEF IndexQueued
    <3>2. Indexes(Batch(k)', f) /\ k \in 0 .. n + 1
      BY <1>1, <1>3, <3>1
    <3>3. \A j \in 0 .. n + 1 : k <= j => ~ Deletes(Batch(j)', f)
      <4> SUFFICES ASSUME NEW j \in 0 .. n + 1, k <= j
                   PROVE  ~ Deletes(Batch(j)', f)
        OBVIOUS
      <4>1. j \in 0 .. n \/ j = n + 1
        BY <1>1
      <4> QED
        BY <1>3, <1>5, <3>1, <4>1
    <3> QED
      BY <2>1, <3>2, <3>3
  <2>3. CASE Indexes(e, f)
    <3>1. \A j \in 0 .. n + 1 : n + 1 <= j => j = n + 1
      BY <1>1
    <3>2. n + 1 \in 0 .. n + 1
      BY <1>1
    <3> QED
      BY <1>3, <1>5, <2>1, <2>3, <3>1, <3>2
  <2> QED
    BY <1>5, <2>2, <2>3
<1> QED
  BY <1>4, <1>5

(* The next event is taken up whole. *)
LEMMA QueueTake ==
  ASSUME ChannelTypeOK, agenda = <<>>, events # <<>>,
         agenda' = Head(events), events' = Tail(events)
  PROVE  /\ \A f \in File : DeleteQueued(f)' <=> DeleteQueued(f)
         /\ \A f \in File : IndexQueued(f) => IndexQueued(f)'
<1> DEFINE n == Len(events)
           Event == Seq(TaskRecord)
<1>1. /\ n \in Nat /\ n # 0
      /\ Len(events') = n - 1
      /\ \A k \in 1 .. n - 1 : events'[k] = events[k + 1]
      /\ agenda' = events[1]
  <2>1. events \in Seq(Event)
    BY DEF ChannelTypeOK
  <2> HIDE DEF Event
  <2> QED
    BY <2>1, HeadTailProperties, EmptySeq, LenProperties
<1>2. /\ Batches' = 0 .. n - 1 /\ Batches = 0 .. n
      /\ \A k \in 0 .. n - 1 : Batch(k)' = Batch(k + 1)
  <2>1. ASSUME NEW k \in 0 .. n - 1
        PROVE  Batch(k)' = Batch(k + 1)
    BY <1>1 DEF Batch
  <2> QED
    BY <1>1, <2>1 DEF Batches
<1>3. \A f \in File : ~ Deletes(Batch(0), f) /\ ~ Indexes(Batch(0), f)
  BY DEF Batch, Deletes, Indexes, Asks
<1> HIDE DEF n
<1>4. ASSUME NEW f \in File
      PROVE  DeleteQueued(f)' <=> DeleteQueued(f)
  <2>1. DeleteQueued(f)' <=> \E k \in 0 .. n - 1 : Deletes(Batch(k)', f)
    BY <1>2 DEF DeleteQueued, Deletes, Asks
  <2>2. DeleteQueued(f) <=> \E k \in 0 .. n : Deletes(Batch(k), f)
    BY <1>2 DEF DeleteQueued
  <2>3. \A k \in 0 .. n - 1 : k + 1 \in 0 .. n
    BY <1>1
  <2>4. \A k \in 0 .. n : k # 0 => k - 1 \in 0 .. n - 1 /\ (k - 1) + 1 = k
    BY <1>1
  <2>5. DeleteQueued(f)' => DeleteQueued(f)
    BY <1>2, <2>1, <2>2, <2>3
  <2>6. ASSUME NEW k \in 0 .. n, Deletes(Batch(k), f)
        PROVE  DeleteQueued(f)'
    <3>1. k # 0
      BY <1>3, <2>6
    <3>2. k - 1 \in 0 .. n - 1 /\ Batch(k - 1)' = Batch(k)
      BY <1>2, <2>4, <3>1
    <3> QED
      BY <2>1, <2>6, <3>2
  <2> QED
    BY <2>2, <2>5, <2>6
<1>5. ASSUME NEW f \in File, IndexQueued(f)
      PROVE  IndexQueued(f)'
  <2>1. IndexQueued(f)' <=>
          \E k \in 0 .. n - 1 : /\ Indexes(Batch(k)', f)
                                /\ \A j \in 0 .. n - 1 : k <= j => ~ Deletes(Batch(j)', f)
    BY <1>2 DEF IndexQueued, Deletes, Indexes, Asks
  <2>2. PICK k \in 0 .. n : /\ Indexes(Batch(k), f)
                            /\ \A j \in 0 .. n : k <= j => ~ Deletes(Batch(j), f)
    BY <1>2, <1>5 DEF IndexQueued
  <2>3. k - 1 \in 0 .. n - 1 /\ (k - 1) + 1 = k
    BY <1>1, <1>3, <2>2
  <2>4. Indexes(Batch(k - 1)', f)
    BY <1>2, <2>2, <2>3
  <2>5. ASSUME NEW j \in 0 .. n - 1, k - 1 <= j
        PROVE  ~ Deletes(Batch(j)', f)
    <3>1. j + 1 \in 0 .. n /\ k <= j + 1
      BY <1>1, <2>5
    <3> QED
      BY <1>2, <2>2, <3>1
  <2> QED
    BY <2>1, <2>3, <2>4, <2>5
<1> QED
  BY <1>4, <1>5

(* The loop is done with the first task of its agenda. *)
LEMMA QueueTail ==
  ASSUME ChannelTypeOK, agenda # <<>>, agenda' = Tail(agenda), UNCHANGED events
  PROVE  /\ \A f \in File : DeleteQueued(f)' => DeleteQueued(f)
         /\ \A f \in File : DeleteQueued(f) =>
              \/ DeleteQueued(f)'
              \/ Head(agenda).do \in {"delete", "leave"} /\ Head(agenda).file = f
         /\ \A f \in File : IndexQueued(f) =>
              \/ IndexQueued(f)'
              \/ Head(agenda).do = "index" /\ Head(agenda).file = f /\ ~ DeleteQueued(f)
         /\ \A f \in File :
              (Head(agenda).do \in {"delete", "leave"} /\ Head(agenda).file = f)
                => DeleteQueued(f)
<1> DEFINE n == Len(events)
           t == Head(agenda)
<1>1. /\ n \in Nat
      /\ agenda \in Seq(TaskRecord) /\ Len(agenda) \in Nat /\ Len(agenda) # 0
      /\ t = agenda[1] /\ Len(Tail(agenda)) = Len(agenda) - 1
      /\ \A i \in 1 .. Len(agenda) - 1 : Tail(agenda)[i] = agenda[i + 1]
  BY QueueTyped, HeadTailProperties, EmptySeq, LenProperties
<1>2. /\ Batches' = 0 .. n /\ Batches = 0 .. n
      /\ \A k \in 1 .. n : Batch(k)' = Batch(k)
      /\ Batch(0)' = Tail(agenda) /\ Batch(0) = agenda
  BY <1>1 DEF Batches, Batch
<1>3. ASSUME NEW dos, NEW f
      PROVE  Asks(agenda, dos, f) <=> Asks(Tail(agenda), dos, f) \/ (t.do \in dos /\ t.file = f)
  <2>1. \A i \in 1 .. Len(agenda) - 1 : i + 1 \in 1 .. Len(agenda)
    BY <1>1
  <2>2. \A i \in 1 .. Len(agenda) : i # 1 => i - 1 \in 1 .. Len(agenda) - 1 /\ (i - 1) + 1 = i
    BY <1>1
  <2>3. 1 \in 1 .. Len(agenda)
    BY <1>1
  <2>4. ASSUME Asks(agenda, dos, f), ~ (t.do \in dos /\ t.file = f)
        PROVE  Asks(Tail(agenda), dos, f)
    <3>1. PICK i \in 1 .. Len(agenda) : agenda[i].do \in dos /\ agenda[i].file = f
      BY <2>4 DEF Asks
    <3>2. i # 1
      BY <1>1, <2>4, <3>1
    <3>3. Tail(agenda)[i - 1] = agenda[i] /\ i - 1 \in 1 .. Len(Tail(agenda))
      BY <1>1, <2>2, <3>2
    <3> QED
      BY <3>1, <3>3 DEF Asks
  <2>5. Asks(Tail(agenda), dos, f) => Asks(agenda, dos, f)
    BY <1>1, <2>1 DEF Asks
  <2> QED
    BY <1>1, <2>3, <2>4, <2>5 DEF Asks
<1> HIDE DEF n, t
<1>4. /\ \A f \in File : DeleteQueued(f)' <=> \E k \in 0 .. n : Deletes(Batch(k)', f)
      /\ \A f \in File : DeleteQueued(f) <=> \E k \in 0 .. n : Deletes(Batch(k), f)
  BY <1>2 DEF DeleteQueued, Deletes, Asks
<1>5. \A k \in 0 .. n : k # 0 => k \in 1 .. n
  BY <1>1
<1>6. ASSUME NEW f \in File
      PROVE  /\ DeleteQueued(f)' => DeleteQueued(f)
             /\ DeleteQueued(f) =>
                  DeleteQueued(f)' \/ (t.do \in {"delete", "leave"} /\ t.file = f)
             /\ (t.do \in {"delete", "leave"} /\ t.file = f) => DeleteQueued(f)
  <2>1. Deletes(Batch(0), f) <=>
          Deletes(Batch(0)', f) \/ (t.do \in {"delete", "leave"} /\ t.file = f)
    BY <1>2, <1>3 DEF Deletes
  <2>2. 0 \in 0 .. n
    BY <1>1
  <2> QED
    BY <1>2, <1>4, <1>5, <2>1, <2>2
<1>7. ASSUME NEW f \in File, IndexQueued(f)
      PROVE  \/ IndexQueued(f)'
             \/ t.do = "index" /\ t.file = f /\ ~ DeleteQueued(f)
  <2>1. IndexQueued(f)' <=>
          \E k \in 0 .. n : /\ Indexes(Batch(k)', f)
                            /\ \A j \in 0 .. n : k <= j => ~ Deletes(Batch(j)', f)
    BY <1>2 DEF IndexQueued, Deletes, Indexes, Asks
  <2>2. PICK k \in 0 .. n : /\ Indexes(Batch(k), f)
                            /\ \A j \in 0 .. n : k <= j => ~ Deletes(Batch(j), f)
    BY <1>2, <1>7 DEF IndexQueued
  <2>3. \A j \in 0 .. n : Deletes(Batch(j)', f) => Deletes(Batch(j), f)
    BY <1>2, <1>3, <1>5 DEF Deletes
  <2>4. CASE Indexes(Batch(k)', f)
    BY <2>1, <2>2, <2>3, <2>4
  <2>5. CASE ~ Indexes(Batch(k)', f)
    <3>1. k = 0
      BY <1>2, <1>5, <2>2, <2>5
    <3>2. t.do = "index" /\ t.file = f
      BY <1>2, <1>3, <2>2, <2>5, <3>1 DEF Indexes
    <3>3. \A j \in 0 .. n : 0 <= j
      BY <1>1
    <3> QED
      BY <1>4, <2>2, <3>1, <3>2, <3>3
  <2> QED
    BY <2>4, <2>5
<1> QED
  BY <1>6, <1>7 DEF t

-----------------------------------------------------------------------------
(* The loop is the process w. *)
InDelete(w, f) == pending[w] # NoDelete /\ pending[w].file = f
DeleteDue(w, f) == DeleteQueued(f) \/ InDelete(w, f)
Working(w, f) == work[w] # NoWork /\ work[w].file = f

(* A time is that of one write, and so of one file on disk.                *)
TimesInv ==
  \A f \in File : OnDisk(f) =>
    /\ 0 < disk[f].stamp.mtime /\ disk[f].stamp.mtime <= clock
    /\ \A g \in File :
         (OnDisk(g) /\ disk[g].stamp.mtime = disk[f].stamp.mtime) => g = f

(* If the text of time ms is still on disk, wherever it was moved, it is b. *)
Told(ms, b) ==
  /\ ms <= clock
  /\ \A h \in File : (OnDisk(h) /\ disk[h].stamp.mtime = ms) => disk[h].body = b

(* What the call has read of its file may be of two versions of it, but    *)
(* then the older one was moved away, and the loop is yet to be told.      *)
WorkTimes(w) ==
  (work[w] # NoWork /\ work[w].file \notin missed) =>
    /\ work[w].stamp.mtime <= clock
    /\ work[w].stage # "mtime" =>
         \/ DeleteQueued(work[w].file)
         \/ \A h \in File : (OnDisk(h) /\ disk[h].stamp.mtime = work[w].stamp.mtime)
                              => h = work[w].file
    /\ work[w].stage \in {"hash", "commit"} =>
         DeleteQueued(work[w].file) \/ Told(work[w].stamp.mtime, work[w].body)

RowTimes(w, f) ==
  Cached(f) => DeleteDue(w, f) \/ Told(fileCache[f].stamp.mtime, fileCache[f].body)

Present(w, f) ==
  OnDisk(f) =>
    \/ IndexQueued(f)
    \/ /\ ~ DeleteDue(w, f)
       /\ IF Working(w, f) THEN WorkCurrent(work[w]) ELSE Current(f)

Absent(w, f) ==
  ~ OnDisk(f) =>
    \/ DeleteDue(w, f)
    \/ ~ Cached(f) /\ (Working(w, f) => work[w].stage \notin {"hash", "commit"})

FileInv(w, f) == RowTimes(w, f) /\ Present(w, f) /\ Absent(w, f)

AccountInv(w) ==
  TimesInv /\ WorkTimes(w) /\ \A f \in File \ missed : FileInv(w, f)

(* What the steps rely on. *)
AccountBase == TypeOK /\ FiniteTables /\ DaemonInv

LEMMA StampTimes ==
  ASSUME AccountBase, NEW f \in File
  PROVE  /\ OnDisk(f) => disk[f].stamp.mtime \in Nat
         /\ Cached(f) => fileCache[f].stamp.mtime \in Nat
         /\ \A p \in Proc : work[p] # NoWork =>
              work[p] \in Work /\ work[p].file \in File /\ work[p].stamp.mtime \in Nat
<1>1. OnDisk(f) => disk[f].stamp \in Stamp
  BY DEF AccountBase, DaemonInv, IndexerTypeOK, OnDisk, DiskFile
<1>2. Cached(f) => fileCache[f].stamp \in Stamp
  BY DEF AccountBase, TypeOK, Cached, CacheRow
<1>3. \A p \in Proc : work[p] # NoWork =>
        work[p] \in Work /\ work[p].file \in File /\ work[p].stamp \in Stamp
  BY DEF AccountBase, DaemonInv, IndexerTypeOK, Work
<1> QED
  BY <1>1, <1>2, <1>3, StampFacts

(* A step that changes nothing of f, nor of what is still to be done to it. *)
LEMMA SameFile ==
  ASSUME NEW w, NEW f, FileInv(w, f), UNCHANGED <<disk, clock>>,
         Cached(f)' <=> Cached(f),
         Cached(f) => /\ fileCache'[f].body = fileCache[f].body
                      /\ fileCache'[f].stamp = fileCache[f].stamp,
         DeleteDue(w, f)' <=> DeleteDue(w, f),
         IndexQueued(f) /\ OnDisk(f) => IndexQueued(f)',
         Working(w, f)' <=> Working(w, f),
         Working(w, f) => work'[w] = work[w]
  PROVE  FileInv(w, f)'
<1>1. RowTimes(w, f)'
  BY DEF FileInv, RowTimes, Told, OnDisk
<1>2. OnDisk(f)' = OnDisk(f) /\ (Current(f) => Current(f)')
  BY DEF OnDisk, Current
<1>3. Working(w, f) /\ WorkCurrent(work[w]) => WorkCurrent(work[w])'
  BY DEF Working, WorkCurrent, OnDisk, MtimeMatches
<1>4. Present(w, f)'
  BY <1>2, <1>3 DEF FileInv, Present
<1>5. Absent(w, f)'
  BY <1>2 DEF FileInv, Absent, Working
<1> QED
  BY <1>1, <1>4, <1>5 DEF FileInv

LEMMA SameQueue ==
  ASSUME UNCHANGED <<events, agenda>>
  PROVE  /\ \A f \in File : DeleteQueued(f)' <=> DeleteQueued(f)
         /\ \A f \in File : IndexQueued(f)' <=> IndexQueued(f)
BY DEF DeleteQueued, IndexQueued, Batch, Batches, Deletes, Indexes, Asks

LEMMA SameWork ==
  ASSUME NEW w, WorkTimes(w), UNCHANGED <<disk, clock, work>>,
         missed \subseteq missed',
         work[w] # NoWork /\ DeleteQueued(work[w].file)
           => DeleteQueued(work[w].file)' \/ work[w].file \in missed'
  PROVE  WorkTimes(w)'
<1> SUFFICES ASSUME work[w] # NoWork, work[w].file \notin missed'
             PROVE  WorkTimes(w)'
  BY DEF WorkTimes
<1>0. PICK f : f = work[w].file
  OBVIOUS
<1>1. DeleteQueued(f) => DeleteQueued(f)'
  BY <1>0
<1>2. f \notin missed
  BY <1>0
<1>3. Told(work[w].stamp.mtime, work[w].body) => Told(work[w].stamp.mtime, work[w].body)'
  BY DEF Told, OnDisk
<1> QED
  BY <1>0, <1>1, <1>2, <1>3 DEF WorkTimes, OnDisk

-----------------------------------------------------------------------------
LEMMA AsksOne ==
  ASSUME NEW do, NEW g, NEW dos, NEW f
  PROVE  Asks(Task1(do, g), dos, f) <=> do \in dos /\ g = f
<1>1. Len(Task1(do, g)) = 1 /\ Task1(do, g)[1] = [do |-> do, file |-> g]
  BY DEF Task1
<1>2. 1 .. 1 = {1}
  OBVIOUS
<1> QED
  BY <1>1, <1>2 DEF Asks

LEMMA AsksBoth ==
  ASSUME NEW a \in Seq(TaskRecord), NEW b \in Seq(TaskRecord), NEW dos, NEW f
  PROVE  Asks(a \o b, dos, f) <=> Asks(a, dos, f) \/ Asks(b, dos, f)
<1>1. /\ Len(a) \in Nat /\ Len(b) \in Nat
      /\ Len(a \o b) = Len(a) + Len(b)
      /\ \A i \in 1 .. Len(a) + Len(b) :
           (a \o b)[i] = IF i <= Len(a) THEN a[i] ELSE b[i - Len(a)]
  BY ConcatProperties, LenProperties
<1>2. \A i \in 1 .. Len(a) + Len(b) :
        (i <= Len(a) => i \in 1 .. Len(a)) /\ (~ (i <= Len(a)) => i - Len(a) \in 1 .. Len(b))
  BY <1>1
<1>3. Asks(a \o b, dos, f) => Asks(a, dos, f) \/ Asks(b, dos, f)
  BY <1>1, <1>2 DEF Asks
<1>4. Asks(a, dos, f) => Asks(a \o b, dos, f)
  <2>1. \A i \in 1 .. Len(a) : i \in 1 .. Len(a) + Len(b) /\ i <= Len(a)
    BY <1>1
  <2> QED
    BY <1>1, <2>1 DEF Asks
<1>5. Asks(b, dos, f) => Asks(a \o b, dos, f)
  <2>1. \A i \in 1 .. Len(b) : /\ i + Len(a) \in 1 .. Len(a) + Len(b)
                               /\ ~ (i + Len(a) <= Len(a)) /\ (i + Len(a)) - Len(a) = i
    BY <1>1
  <2>2. \A i \in 1 .. Len(b) : (a \o b)[i + Len(a)] = b[i]
    BY <1>1, <2>1
  <2> QED
    BY <1>1, <2>1, <2>2 DEF Asks
<1> QED
  BY <1>3, <1>4, <1>5

(* What the events ask for. *)
LEMMA EventAsks ==
  ASSUME NEW f \in File, NEW g \in File, NEW h
  PROVE  /\ ~ Deletes(Touched(f), h) /\ (Indexes(Touched(f), h) <=> h = f)
         /\ Deletes(Removed(f), h) <=> h = f
         /\ Deletes(Renamed(f, g), h) <=> h = f
         /\ Indexes(Renamed(f, g), h) <=> h = g
<1>1. /\ Task1("index", g) \in Seq(TaskRecord) /\ Task1("delete", f) \in Seq(TaskRecord)
      /\ Task1("leave", f) \in Seq(TaskRecord) /\ Task1("recount", f) \in Seq(TaskRecord)
  <2>1. \A do \in {"index", "delete", "leave", "recount"}, k \in File :
          [do |-> do, file |-> k] \in TaskRecord
    BY DEF TaskRecord
  <2> QED
    BY <2>1 DEF Task1
<1>2. ~ Deletes(Touched(f), h) /\ (Indexes(Touched(f), h) <=> h = f)
  BY AsksOne DEF Touched, Deletes, Indexes
<1>3. Deletes(Removed(f), h) <=> h = f
  <2> DEFINE rest == IF BacklinkScoring THEN Task1("recount", f) ELSE <<>>
  <2>1. rest \in Seq(TaskRecord) /\ ~ Asks(rest, {"delete", "leave"}, h)
    <3>1. ~ Asks(<<>>, {"delete", "leave"}, h)
      BY DEF Asks
    <3>2. ~ Asks(Task1("recount", f), {"delete", "leave"}, h)
      BY AsksOne
    <3> QED
      BY <1>1, <3>1, <3>2
  <2>2. Removed(f) = Task1("delete", f) \o rest
    BY DEF Removed
  <2> HIDE DEF rest
  <2>3. Deletes(Removed(f), h) <=>
          Asks(Task1("delete", f), {"delete", "leave"}, h) \/ Asks(rest, {"delete", "leave"}, h)
    BY <1>1, <2>1, <2>2, AsksBoth DEF Deletes
  <2> QED
    BY <2>1, <2>3, AsksOne
<1>4. /\ Deletes(Renamed(f, g), h) <=> h = f
      /\ Indexes(Renamed(f, g), h) <=> h = g
  BY <1>1, AsksBoth, AsksOne DEF Renamed, Deletes, Indexes
<1> QED
  BY <1>2, <1>3, <1>4

(* Every text on disk after an edit was there before, or is of a new time. *)
LEMMA EditTimes ==
  ASSUME TimesInv, AccountBase, 0 \notin Ticks, NEW f \in File, NEW g \in File,
         (\E b \in Body : WriteFile(f, b)) \/ RemoveFile(f) \/ RenameFile(f, g)
  PROVE  /\ clock \in Nat /\ clock' \in Nat /\ clock < clock'
         /\ \A h \in File : OnDisk(h)' =>
              \/ disk'[h].stamp.mtime = clock'
              \/ \E k \in File : OnDisk(k) /\ disk'[h] = disk[k]
         /\ TimesInv'
<1>1. clock \in Nat /\ clock' \in Nat /\ clock < clock'
  <2>1. Ticks \subseteq Nat
    BY IndexerAssumption, Zenon
  <2>2. Edit /\ clock \in Nat
    BY DEF WriteFile, RemoveFile, RenameFile, AccountBase, DaemonInv, IndexerTypeOK
  <2> QED
    BY <2>1, <2>2 DEF Edit
<1>2. disk \in [File -> DiskFile \cup {NoFile}]
  BY DEF AccountBase, DaemonInv, IndexerTypeOK
<1>3. \A h \in File : OnDisk(h) => disk[h].stamp.mtime \in Nat
  BY StampTimes
<1>4. ASSUME NEW b \in Body, WriteFile(f, b)
      PROVE  /\ \A h \in File : OnDisk(h)' =>
                  \/ disk'[h].stamp.mtime = clock'
                  \/ \E k \in File : OnDisk(k) /\ disk'[h] = disk[k]
             /\ TimesInv'
  <2>1. \A h \in File : OnDisk(h)' =>
          \/ h = f /\ disk'[h].stamp.mtime = clock'
          \/ h # f /\ OnDisk(h) /\ disk'[h] = disk[h]
    BY <1>2, <1>4 DEF WriteFile, OnDisk
  <2>2. \A h \in File : OnDisk(h) => disk[h].stamp.mtime # clock' /\ disk[h].stamp.mtime <= clock'
    BY <1>1, <1>3 DEF TimesInv
  <2>3. TimesInv'
    BY <1>1, <2>1, <2>2 DEF TimesInv
  <2> QED
    BY <2>1, <2>3
<1>5. CASE RemoveFile(f)
  <2>1. \A h \in File : OnDisk(h)' => OnDisk(h) /\ disk'[h] = disk[h]
    BY <1>2, <1>5 DEF RemoveFile, OnDisk
  <2>2. \A h \in File : OnDisk(h) => disk[h].stamp.mtime <= clock'
    BY <1>1, <1>3 DEF TimesInv
  <2>3. TimesInv'
    BY <2>1, <2>2 DEF TimesInv
  <2> QED
    BY <1>1, <2>1, <2>3
<1>6. CASE RenameFile(f, g)
  <2>1. /\ OnDisk(f) /\ f # g
        /\ \A h \in File : OnDisk(h)' => \/ h = g /\ disk'[h] = disk[f]
                                         \/ h # g /\ h # f /\ OnDisk(h) /\ disk'[h] = disk[h]
    BY <1>2, <1>6 DEF RenameFile, OnDisk
  <2>2. \A h \in File : OnDisk(h) => disk[h].stamp.mtime <= clock'
    BY <1>1, <1>3 DEF TimesInv
  <2>3. TimesInv'
    BY <2>1, <2>2 DEF TimesInv
  <2> QED
    BY <1>1, <2>1, <2>3
<1> QED
  BY <1>1, <1>4, <1>5, <1>6

LEMMA ToldStill ==
  ASSUME NEW ms \in Nat, NEW b, Told(ms, b),
         clock \in Nat, clock' \in Nat, clock < clock',
         \A h \in File : OnDisk(h)' =>
           \/ disk'[h].stamp.mtime = clock'
           \/ \E k \in File : OnDisk(k) /\ disk'[h] = disk[k]
  PROVE  Told(ms, b)'
<1>1. ms <= clock' /\ ms # clock'
  BY DEF Told
<1> QED
  BY <1>1 DEF Told

(* What an edit is to a file h that the daemon is told of. *)
ToldOfEdit(h) ==
  /\ DeleteQueued(h) => DeleteQueued(h)'
  /\ DeleteQueued(h)' => DeleteQueued(h) \/ ~ OnDisk(h)'
  /\ IndexQueued(h) /\ OnDisk(h)' => IndexQueued(h)'
  /\ OnDisk(h)' => \/ IndexQueued(h)'
                   \/ OnDisk(h) /\ disk'[h] = disk[h]
  /\ ~ OnDisk(h)' => DeleteQueued(h)' \/ ~ OnDisk(h)
  /\ \A k \in File : (OnDisk(k)' /\ k # h) =>
       \/ DeleteQueued(h)'
       \/ disk'[k].stamp.mtime = clock'
       \/ \E j \in File : j # h /\ OnDisk(j) /\ disk'[k] = disk[j]

LEMMA EditIsTold ==
  ASSUME AccountBase, User, NEW h \in File, h \notin missed'
  PROVE  ToldOfEdit(h)
<1>0. UNCHANGED <<storeVars, work, agenda>> /\ ChannelTypeOK
  BY DEF User, AccountBase, DaemonInv
<1>1. PICK f \in File, g \in File :
        \/ (\E b \in Body : WriteFile(f, b)) /\ Notify(Touched(f))
        \/ RemoveFile(f) /\ Notify(Removed(f))
        \/ RenameFile(f, g) /\ Notify(Renamed(f, g))
        \/ /\ RemoveFile(f) \/ \E b \in Body : WriteFile(f, b)
           /\ Miss(f) /\ UNCHANGED events
  BY DEF User
<1>2. disk \in [File -> DiskFile \cup {NoFile}]
  BY DEF AccountBase, DaemonInv, IndexerTypeOK
<1>3. ASSUME NEW b \in Body, WriteFile(f, b)
      PROVE  /\ OnDisk(f)' => disk'[f].stamp.mtime = clock'
             /\ \A k \in File : k # f => disk'[k] = disk[k]
  BY <1>2, <1>3 DEF WriteFile, OnDisk
<1>4. RemoveFile(f) => ~ OnDisk(f)' /\ \A k \in File : k # f => disk'[k] = disk[k]
  BY <1>2 DEF RemoveFile, OnDisk
<1>5. CASE Miss(f) /\ UNCHANGED events /\ (RemoveFile(f) \/ \E b \in Body : WriteFile(f, b))
  <2>1. h # f
    BY <1>5 DEF Miss
  <2>2. /\ DeleteQueued(h)' <=> DeleteQueued(h)
        /\ IndexQueued(h)' <=> IndexQueued(h)
    BY <1>0, <1>5, SameQueue
  <2>3. /\ OnDisk(f)' => disk'[f].stamp.mtime = clock'
        /\ \A k \in File : k # f => disk'[k] = disk[k]
    BY <1>3, <1>4, <1>5
  <2> QED
    BY <2>1, <2>2, <2>3 DEF ToldOfEdit, OnDisk
<1>6. CASE (\E b \in Body : WriteFile(f, b)) /\ Notify(Touched(f))
  <2>1. Touched(f) \in Seq(TaskRecord) /\ events' = Append(events, Touched(f))
    BY <1>6, EventTypes DEF Notify
  <2>2. ~ Deletes(Touched(f), h) /\ (Indexes(Touched(f), h) <=> h = f)
    BY EventAsks
  <2>3. /\ DeleteQueued(h)' <=> DeleteQueued(h)
        /\ IndexQueued(h) \/ h = f => IndexQueued(h)'
    BY <1>0, <2>1, <2>2, QueueAppend
  <2>4. /\ OnDisk(f)' => disk'[f].stamp.mtime = clock'
        /\ \A k \in File : k # f => disk'[k] = disk[k]
    BY <1>3, <1>6
  <2>5. OnDisk(f)'
    BY <1>2, <1>6, Sentinels DEF WriteFile, OnDisk, DiskFile
  <2> QED
    BY <2>3, <2>4, <2>5 DEF ToldOfEdit, OnDisk
<1>7. CASE RemoveFile(f) /\ Notify(Removed(f))
  <2>1. Removed(f) \in Seq(TaskRecord) /\ events' = Append(events, Removed(f))
    BY <1>7, EventTypes DEF Notify
  <2>2. Deletes(Removed(f), h) <=> h = f
    BY EventAsks
  <2>3. /\ DeleteQueued(h)' <=> DeleteQueued(h) \/ h = f
        /\ IndexQueued(h) /\ h # f => IndexQueued(h)'
    BY <1>0, <2>1, <2>2, QueueAppend
  <2> QED
    BY <1>4, <1>7, <2>3 DEF ToldOfEdit, OnDisk
<1>8. CASE RenameFile(f, g) /\ Notify(Renamed(f, g))
  <2>1. Renamed(f, g) \in Seq(TaskRecord) /\ events' = Append(events, Renamed(f, g))
    BY <1>8, EventTypes DEF Notify
  <2>2. (Deletes(Renamed(f, g), h) <=> h = f) /\ (Indexes(Renamed(f, g), h) <=> h = g)
    BY EventAsks
  <2>3. /\ DeleteQueued(h)' <=> DeleteQueued(h) \/ h = f
        /\ (IndexQueued(h) \/ h = g) /\ h # f => IndexQueued(h)'
    BY <1>0, <2>1, <2>2, QueueAppend
  <2>4. /\ f # g /\ OnDisk(f) /\ ~ OnDisk(f)' /\ disk'[g] = disk[f]
        /\ \A k \in File : k # f /\ k # g => disk'[k] = disk[k]
    BY <1>2, <1>8 DEF RenameFile, OnDisk
  <2> QED
    BY <2>3, <2>4 DEF ToldOfEdit, OnDisk
<1> QED
  BY <1>1, <1>5, <1>6, <1>7, <1>8

LEMMA UserAccount ==
  ASSUME AccountBase, 0 \notin Ticks, NEW w \in Proc, AccountInv(w), User
  PROVE  AccountInv(w)'
<1>0. UNCHANGED <<storeVars, work, agenda>>
  BY DEF User
<1>1. PICK f \in File, g \in File :
        /\ (\E b \in Body : WriteFile(f, b)) \/ RemoveFile(f) \/ RenameFile(f, g)
        /\ missed \subseteq missed'
  BY DEF User, Miss, Notify
<1>2. /\ TimesInv' /\ clock \in Nat /\ clock' \in Nat /\ clock < clock'
      /\ \A h \in File : OnDisk(h)' =>
           \/ disk'[h].stamp.mtime = clock'
           \/ \E k \in File : OnDisk(k) /\ disk'[h] = disk[k]
  BY <1>1, EditTimes DEF AccountInv
<1>3. ASSUME NEW ms \in Nat, NEW b, Told(ms, b)
      PROVE  Told(ms, b)'
  BY <1>2, <1>3, ToldStill
<1>4. ASSUME NEW h \in File, h \notin missed'
      PROVE  FileInv(w, h)'
  <2>1. ToldOfEdit(h) /\ FileInv(w, h)
    BY <1>1, <1>4, EditIsTold DEF AccountInv
  <2>2. /\ Cached(h)' <=> Cached(h)
        /\ InDelete(w, h)' <=> InDelete(w, h)
        /\ Working(w, h)' <=> Working(w, h)
        /\ UNCHANGED <<fileCache, work>>
    BY <1>0 DEF Cached, InDelete, Working, storeVars
  <2>3. DeleteDue(w, h) => DeleteDue(w, h)'
    BY <2>1, <2>2 DEF DeleteDue, ToldOfEdit
  <2>4. RowTimes(w, h)'
    <3>1. Cached(h) => fileCache[h].stamp.mtime \in Nat
      BY StampTimes
    <3>2. ASSUME Cached(h), Told(fileCache[h].stamp.mtime, fileCache[h].body)
          PROVE  Told(fileCache[h].stamp.mtime, fileCache[h].body)'
      BY <1>3, <2>2, <3>1, <3>2 DEF Told
    <3> QED
      BY <2>1, <2>2, <2>3, <3>2 DEF FileInv, RowTimes
  <2>5. Present(w, h)'
    <3> SUFFICES ASSUME OnDisk(h)', ~ IndexQueued(h)'
                 PROVE  Present(w, h)'
      BY DEF Present
    <3>1. OnDisk(h) /\ disk'[h] = disk[h] /\ ~ IndexQueued(h)
      BY <2>1 DEF ToldOfEdit
    <3>2. /\ ~ DeleteDue(w, h)
          /\ IF Working(w, h) THEN WorkCurrent(work[w]) ELSE Current(h)
      BY <2>1, <3>1 DEF FileInv, Present
    <3>3. ~ DeleteDue(w, h)'
      BY <2>1, <2>2, <3>2 DEF DeleteDue, ToldOfEdit
    <3>4. Current(h) => Current(h)'
      BY <2>2, <3>1 DEF Current, OnDisk, Cached
    <3>5. Working(w, h) /\ WorkCurrent(work[w]) => WorkCurrent(work[w])'
      BY <2>2, <3>1 DEF Working, WorkCurrent, OnDisk, MtimeMatches, Cached
    <3> QED
      BY <2>2, <3>2, <3>3, <3>4, <3>5 DEF Present
  <2>6. Absent(w, h)'
    BY <2>1, <2>2, <2>3 DEF FileInv, Absent, ToldOfEdit, Working, DeleteDue
  <2> QED
    BY <2>4, <2>5, <2>6 DEF FileInv
<1>5. WorkTimes(w)'
  <2> SUFFICES ASSUME work[w] # NoWork, work[w].file \notin missed'
               PROVE  WorkTimes(w)'
    BY <1>0 DEF WorkTimes
  <2>0. PICK h \in File : h = work[w].file
    BY StampTimes
  <2>1. PICK ms \in Nat : ms = work[w].stamp.mtime
    BY <2>0, StampTimes
  <2>2. ToldOfEdit(h) /\ WorkTimes(w) /\ h \notin missed
    BY <1>1, <2>0, EditIsTold DEF AccountInv
  <2>3. ms <= clock /\ ms <= clock' /\ ms # clock'
    BY <1>2, <2>0, <2>1, <2>2 DEF WorkTimes
  <2>4. DeleteQueued(h) => DeleteQueued(h)'
    BY <2>2 DEF ToldOfEdit
  <2>5. ASSUME \A k \in File : (OnDisk(k) /\ disk[k].stamp.mtime = ms) => k = h
        PROVE  \/ DeleteQueued(h)'
               \/ \A k \in File : (OnDisk(k)' /\ disk'[k].stamp.mtime = ms) => k = h
    BY <2>2, <2>3, <2>5 DEF ToldOfEdit
  <2>6. PICK b : b = work[w].body
    OBVIOUS
  <2>7. Told(ms, b) => Told(ms, b)'
    BY <1>3
  <2> QED
    BY <1>0, <2>0, <2>1, <2>2, <2>3, <2>4, <2>5, <2>6, <2>7 DEF WorkTimes, OnDisk
<1> QED
  BY <1>2, <1>4, <1>5 DEF AccountInv

-----------------------------------------------------------------------------
LEMMA TakeAccount ==
  ASSUME AccountBase, NEW w \in Proc, AccountInv(w), TakeEvent(w)
  PROVE  AccountInv(w)'
<1>1. /\ agenda = <<>> /\ events # <<>>
      /\ agenda' = Head(events) /\ events' = Tail(events)
      /\ UNCHANGED <<fileCache, pending, disk, clock, work, missed>>
  BY DEF TakeEvent, storeVars, diskVars
<1>2. /\ \A f \in File : DeleteQueued(f)' <=> DeleteQueued(f)
      /\ \A f \in File : IndexQueued(f) => IndexQueued(f)'
  BY <1>1, QueueTake DEF AccountBase, DaemonInv
<1>3. ASSUME NEW f \in File \ missed
      PROVE  FileInv(w, f)'
  BY <1>1, <1>2, SameFile DEF AccountInv, Cached, DeleteDue, InDelete, Working
<1>4. work[w] # NoWork => work[w].file \in File
  BY DEF AccountBase, DaemonInv, IndexerTypeOK, Work
<1>5. WorkTimes(w)'
  BY <1>1, <1>2, <1>4, SameWork DEF AccountInv
<1>6. TimesInv'
  BY <1>1 DEF AccountInv, TimesInv, OnDisk
<1> QED
  BY <1>1, <1>3, <1>5, <1>6 DEF AccountInv

(* The loop is done with a task: one that was skipped, a recount, or the   *)
(* delete of a file that counts as missed.                                 *)
LEMMA TaskDone ==
  ASSUME AccountBase, NEW w \in Proc, AccountInv(w),
         UNCHANGED <<disk, clock, work, pending, events>>,
         agenda # <<>>, agenda' = Tail(agenda), missed \subseteq missed',
         \A f \in File : Cached(f)' <=> Cached(f),
         \A f \in File : Cached(f) => /\ fileCache'[f].body = fileCache[f].body
                                      /\ fileCache'[f].stamp = fileCache[f].stamp,
         Head(agenda).do = "index" => ~ OnDisk(Head(agenda).file),
         Head(agenda).do \in {"delete", "leave"} => Head(agenda).file \in missed'
  PROVE  AccountInv(w)'
<1>1. /\ \A f \in File : DeleteQueued(f)' => DeleteQueued(f)
      /\ \A f \in File : DeleteQueued(f) => DeleteQueued(f)' \/ f \in missed'
      /\ \A f \in File : IndexQueued(f) /\ OnDisk(f) => IndexQueued(f)'
  BY QueueTail DEF AccountBase, DaemonInv
<1>2. ASSUME NEW f \in File, f \notin missed'
      PROVE  FileInv(w, f)'
  <2>1. FileInv(w, f)
    BY <1>2 DEF AccountInv
  <2>2. DeleteDue(w, f)' <=> DeleteDue(w, f)
    BY <1>1, <1>2 DEF DeleteDue, InDelete
  <2> QED
    BY <1>1, <2>1, <2>2, SameFile DEF Working
<1>3. work[w] # NoWork => work[w].file \in File
  BY DEF AccountBase, DaemonInv, IndexerTypeOK, Work
<1>4. WorkTimes(w)'
  BY <1>1, <1>3, SameWork DEF AccountInv
<1>5. TimesInv'
  BY DEF AccountInv, TimesInv, OnDisk
<1> QED
  BY <1>2, <1>4, <1>5 DEF AccountInv

LEMMA SkipAccount ==
  ASSUME AccountBase, NEW w \in Proc, AccountInv(w),
         SkipMissing(w) \/ SkipOldPath(w)
  PROVE  AccountInv(w)'
<1>1. /\ UNCHANGED <<fileCache, disk, clock, work, pending, events>>
      /\ agenda # <<>> /\ agenda' = Tail(agenda) /\ missed \subseteq missed'
      /\ Head(agenda).do = "index" => ~ OnDisk(Head(agenda).file)
      /\ Head(agenda).do \in {"delete", "leave"} => Head(agenda).file \in missed'
  BY DEF SkipMissing, SkipOldPath, Next1, Miss, storeVars, diskVars
<1>2. \A f \in File : Cached(f)' <=> Cached(f)
  BY <1>1 DEF Cached
<1> QED
  BY <1>1, <1>2, TaskDone

LEMMA RecountAccount ==
  ASSUME AccountBase, NEW w \in Proc, AccountInv(w), EventRecount(w)
  PROVE  AccountInv(w)'
<1>1. /\ UNCHANGED <<disk, clock, work, pending, events, missed>>
      /\ agenda # <<>> /\ agenda' = Tail(agenda) /\ Head(agenda).do = "recount"
      /\ RecountTx(Head(agenda).file[1])
  BY DEF EventRecount, Next1, diskVars
<1>2. \A f \in File :
        /\ Cached(f)' <=> Cached(f)
        /\ Cached(f) => /\ fileCache'[f].body = fileCache[f].body
                        /\ fileCache'[f].stamp = fileCache[f].stamp
  BY <1>1, RecountRows DEF AccountBase
<1> QED
  BY <1>1, <1>2, TaskDone

LEMMA BeginIndexAccount ==
  ASSUME AccountBase, NEW w \in Proc, AccountInv(w), NEW m \in ModelId,
         BeginIndex(w, m)
  PROVE  AccountInv(w)'
<1>1. /\ agenda # <<>> /\ agenda' = Tail(agenda) /\ Head(agenda).do = "index"
      /\ UNCHANGED <<events, disk, clock, missed>>
      /\ work[w] = NoWork /\ pending[w] = NoDelete
  BY DEF BeginIndex, Next1, Resting, diskVars
<1>2. PICK f \in File : f = Head(agenda).file
  BY <1>1, HeadType DEF AccountBase, DaemonInv
<1>3. PICK known \in SUBSET Path : BeginFile(w, f, known, m)
  BY <1>2 DEF BeginIndex
<1>4. UNCHANGED <<fileCache, pending>>
  BY <1>3 DEF BeginFile, storeVars
<1>5. /\ work'[w] # NoWork /\ work'[w].file = f /\ work'[w].stage = "mtime"
      /\ work'[w].stamp.mtime = 0
  <2> DEFINE rec == [stage |-> "mtime", file |-> f, known |-> known,
                     model |-> m, stamp |-> NoStamp, body |-> NoBody]
  <2>1. rec \in Work /\ rec.file = f /\ rec.stage = "mtime" /\ rec.stamp = NoStamp
    BY StampFacts DEF Work, Stages
  <2>2. work'[w] = rec
    BY <1>3 DEF BeginFile, SetWork, AccountBase, DaemonInv, IndexerTypeOK
  <2> HIDE DEF rec
  <2> QED
    BY <2>1, <2>2, Sentinels DEF NoStamp
<1>6. /\ \A g \in File : DeleteQueued(g)' <=> DeleteQueued(g)
      /\ \A g \in File : IndexQueued(g) => IndexQueued(g)' \/ (g = f /\ ~ DeleteQueued(g))
  BY <1>1, <1>2, QueueTail DEF AccountBase, DaemonInv
<1>7. ASSUME NEW g \in File \ missed
      PROVE  FileInv(w, g)'
  <2>0. FileInv(w, g)
    BY DEF AccountInv
  <2>1. CASE g # f
    BY <1>1, <1>4, <1>5, <1>6, <2>0, <2>1, SameFile DEF Cached, DeleteDue, InDelete, Working
  <2>2. CASE g = f
    <3>1. /\ DeleteDue(w, f)' <=> DeleteQueued(f)
          /\ DeleteDue(w, f) <=> DeleteQueued(f)
      BY <1>1, <1>4, <1>6 DEF DeleteDue, InDelete
    <3>2. RowTimes(w, f)'
      BY <1>1, <1>4, <2>0, <2>2, <3>1 DEF FileInv, RowTimes, Told, Cached, OnDisk
    <3>3. WorkCurrent(work[w])'
      BY <1>5 DEF WorkCurrent
    <3>4. Present(w, f)'
      BY <1>1, <1>5, <1>6, <2>0, <2>2, <3>1, <3>3 DEF FileInv, Present, OnDisk, Working
    <3>5. Absent(w, f)'
      BY <1>1, <1>4, <1>5, <2>0, <2>2, <3>1 DEF FileInv, Absent, OnDisk, Working, Cached
    <3> QED
      BY <2>2, <3>2, <3>4, <3>5 DEF FileInv
  <2> QED
    BY <2>1, <2>2
<1>8. WorkTimes(w)'
  <2>1. clock \in Nat
    BY DEF AccountBase, DaemonInv, IndexerTypeOK
  <2> QED
    BY <1>1, <1>5, <2>1 DEF WorkTimes
<1>9. TimesInv'
  BY <1>1 DEF AccountInv, TimesInv, OnDisk
<1> QED
  BY <1>1, <1>7, <1>8, <1>9 DEF AccountInv

LEMMA IndexEventAccount ==
  ASSUME AccountBase, NEW w \in Proc, AccountInv(w), IndexEventFile(w)
  PROVE  AccountInv(w)'
<1>1. /\ IndexFile(w) /\ UNCHANGED <<disk, clock, events, agenda, missed, pending>>
  BY DEF IndexEventFile, IndexFile, StatMtime, StatSize, CheckMtime, CheckSize, ReadFile,
         CheckHash, CommitFile, storeVars, diskVars
<1>2. work[w] # NoWork /\ pending[w] = NoDelete
  <2>1. work[w] # NoWork
    BY <1>1 DEF IndexFile, StatMtime, StatSize, CheckMtime, CheckSize, ReadFile,
                CheckHash, CommitFile, At
  <2> QED
    BY <2>1 DEF AccountBase, DaemonInv, CallInv
<1>3. PICK f \in File : f = work[w].file
  BY <1>2 DEF AccountBase, DaemonInv, IndexerTypeOK, Work
<1>4. /\ IndexerTypeOK /\ fileCache \in [File -> CacheRow \cup {NoRow}]
      /\ clock \in Nat
  BY DEF AccountBase, DaemonInv, TypeOK, IndexerTypeOK
<1>5. /\ \A g \in File : DeleteQueued(g)' <=> DeleteQueued(g)
      /\ \A g \in File : IndexQueued(g)' <=> IndexQueued(g)
      /\ \A g \in File : InDelete(w, g)' <=> InDelete(w, g)
  BY <1>1, SameQueue DEF InDelete
<1>6. \A g \in File : (DeleteDue(w, g)' <=> DeleteDue(w, g)) /\ ~ InDelete(w, g)
  BY <1>2, <1>5 DEF DeleteDue, InDelete
<1>7. /\ work'[w] # NoWork =>
              /\ work'[w].file = f /\ work'[w].stage # "mtime"
              /\ \/ work'[w].stamp.mtime = work[w].stamp.mtime /\ work[w].stage # "mtime"
                 \/ work'[w].stamp.mtime = StampOf(f).mtime /\ work[w].stage = "mtime"
              /\ work'[w].stage \in {"hash", "commit"} =>
                   \/ work[w].stage \in {"hash", "commit"} /\ work'[w].body = work[w].body
                   \/ OnDisk(f) /\ work'[w].body = disk[f].body
      /\ \/ UNCHANGED fileCache
         \/ /\ work[w].stage = "commit" /\ work'[w] = NoWork
            /\ \E row \in CacheRow :
                 /\ row.body = work[w].body /\ row.stamp = work[w].stamp
                 /\ fileCache' = [fileCache EXCEPT ![f] = row]
  BY <1>1, <1>3, <1>4, IndexFileEffect
<1>8. \A g \in File : OnDisk(g)' = OnDisk(g)
  BY <1>1 DEF OnDisk
<1>9. \A ms, b : Told(ms, b) => Told(ms, b)'
  BY <1>1 DEF Told, OnDisk
<1>10. ASSUME f \notin missed
       PROVE  FileInv(w, f)'
  <2>1. FileInv(w, f) /\ WorkTimes(w)
    BY <1>10 DEF AccountInv
  <2>2. RowTimes(w, f)'
    <3>1. CASE UNCHANGED fileCache
      BY <1>6, <1>9, <2>1, <3>1 DEF FileInv, RowTimes, Cached, Told
    <3>2. CASE ~ UNCHANGED fileCache
      <4>1. PICK row : /\ row.body = work[w].body /\ row.stamp = work[w].stamp
                       /\ fileCache' = [fileCache EXCEPT ![f] = row]
                       /\ work[w].stage = "commit"
        BY <1>7, <3>2
      <4>2. fileCache'[f] = row
        BY <1>4, <4>1
      <4>3. DeleteQueued(f) \/ Told(row.stamp.mtime, row.body)
        BY <1>2, <1>3, <1>10, <2>1, <4>1 DEF WorkTimes
      <4>4. Told(row.stamp.mtime, row.body) => Told(fileCache[f].stamp.mtime, fileCache[f].body)'
        BY <1>9, <4>2 DEF Told
      <4> QED
        BY <1>5, <4>3, <4>4 DEF RowTimes, DeleteDue
    <3> QED
      BY <3>1, <3>2
  <2>3. Present(w, f)'
    <3> SUFFICES ASSUME OnDisk(f), ~ IndexQueued(f)
                 PROVE  Present(w, f)'
      BY <1>5, <1>8 DEF Present
    <3>1. ~ DeleteDue(w, f) /\ WorkCurrent(work[w])
      BY <1>2, <1>3, <2>1 DEF FileInv, Present, Working
    <3>2. SkipsRightly(f)
      BY <2>1, <3>1 DEF FileInv, RowTimes, SkipsRightly, Told
    <3>3. WorkCurrent(work[w])' /\ (work'[w] = NoWork => Current(f)')
      BY <1>1, <1>3, <1>4, <3>1, <3>2, IndexFileCurrent
    <3> QED
      BY <1>6, <1>7, <3>1, <3>3 DEF Present, Working
  <2>4. Absent(w, f)'
    <3> SUFFICES ASSUME ~ OnDisk(f), ~ DeleteDue(w, f)
                 PROVE  Absent(w, f)'
      BY <1>6, <1>8 DEF Absent
    <3>1. ~ Cached(f) /\ work[w].stage \notin {"hash", "commit"}
      BY <1>2, <1>3, <2>1 DEF FileInv, Absent, Working
    <3>2. UNCHANGED fileCache
      BY <1>7, <3>1
    <3>3. ~ Cached(f)'
      BY <3>1, <3>2 DEF Cached
    <3>4. work'[w] # NoWork => work'[w].stage \notin {"hash", "commit"}
      BY <1>7, <3>1
    <3> QED
      BY <3>3, <3>4 DEF Absent, Working
  <2> QED
    BY <2>2, <2>3, <2>4 DEF FileInv
<1>11. ASSUME NEW g \in File \ missed
       PROVE  FileInv(w, g)'
  <2>1. CASE g # f
    <3>1. fileCache'[g] = fileCache[g]
      BY <1>4, <1>7, <2>1
    <3>2. ~ Working(w, g) /\ ~ Working(w, g)'
      BY <1>3, <1>7, <2>1 DEF Working
    <3>3. FileInv(w, g)
      BY DEF AccountInv
    <3> QED
      BY <1>1, <1>5, <1>6, <3>1, <3>2, <3>3, SameFile DEF Cached
  <2> QED
    BY <1>10, <2>1
<1>12. WorkTimes(w)'
  <2> SUFFICES ASSUME work'[w] # NoWork, f \notin missed
               PROVE  WorkTimes(w)'
    BY <1>1, <1>7 DEF WorkTimes
  <2>1. WorkTimes(w) /\ TimesInv
    BY DEF AccountInv
  <2>2. OnDisk(f) => disk[f].stamp.mtime \in Nat
    BY StampTimes
  <2>3. PICK ms : ms = work'[w].stamp.mtime
    OBVIOUS
  <2>4. ms <= clock
    BY <1>2, <1>3, <1>4, <1>7, <2>1, <2>2, <2>3 DEF WorkTimes, TimesInv, StampOf, NoStamp
  <2>5. \/ DeleteQueued(f)
        \/ \A h \in File : (OnDisk(h) /\ disk[h].stamp.mtime = ms) => h = f
    <3>1. CASE work[w].stage # "mtime"
      BY <1>2, <1>3, <1>7, <2>1, <2>3, <3>1 DEF WorkTimes
    <3>2. CASE work[w].stage = "mtime" /\ OnDisk(f)
      BY <1>7, <2>1, <2>3, <3>2 DEF TimesInv, StampOf
    <3>3. CASE work[w].stage = "mtime" /\ ~ OnDisk(f)
      <4>1. ms = 0
        BY <1>7, <2>3, <3>3 DEF StampOf, NoStamp
      <4> QED
        BY <2>1, <4>1 DEF TimesInv
    <3> QED
      BY <3>1, <3>2, <3>3
  <2>6. work'[w].stage \in {"hash", "commit"} =>
          DeleteQueued(f) \/ Told(ms, work'[w].body)
    <3>1. CASE work[w].stage \in {"hash", "commit"} /\ work'[w].body = work[w].body
      BY <1>2, <1>3, <1>7, <2>1, <2>3, <3>1 DEF WorkTimes
    <3>2. CASE OnDisk(f) /\ work'[w].body = disk[f].body
      BY <2>4, <2>5, <3>2 DEF Told
    <3> QED
      BY <1>7, <3>1, <3>2
  <2>7. work'[w].stage \in {"hash", "commit"} =>
          DeleteQueued(f)' \/ Told(work[w].stamp.mtime, work[w].body)'
    BY <1>5, <1>9, <2>3, <2>6 DEF Told
  <2> QED
    BY <1>1, <1>5, <1>7, <1>8, <2>3, <2>4, <2>5, <2>7 DEF WorkTimes
<1>13. TimesInv'
  BY <1>1 DEF AccountInv, TimesInv, OnDisk
<1> QED
  BY <1>1, <1>11, <1>12, <1>13 DEF AccountInv

LEMMA DeleteAccount ==
  ASSUME AccountBase, NEW w \in Proc, AccountInv(w), BeginEventDelete(w)
  PROVE  AccountInv(w)'
<1>1. /\ agenda # <<>> /\ agenda' = Tail(agenda)
      /\ Head(agenda).do \in {"delete", "leave"}
      /\ work[w] = NoWork /\ pending[w] = NoDelete
      /\ ReadTags(w, Head(agenda).file)
      /\ UNCHANGED <<fileCache, disk, clock, work, events, missed>>
  BY DEF BeginEventDelete, Next1, Resting, ReadTags, tables, diskVars
<1>2. PICK f \in File : f = Head(agenda).file
  BY <1>1, HeadType DEF AccountBase, DaemonInv
<1>3. /\ \A g \in File : InDelete(w, g)' <=> g = f
      /\ \A g \in File : ~ InDelete(w, g)
  <2>1. pending \in [Proc -> PendingDelete \cup {NoDelete}]
    BY DEF AccountBase, TypeOK
  <2>2. [file |-> f, tags |-> TagUse(RowsOf(f))] \in PendingDelete
    <3>1. IsFiniteSet(RowsOf(f)) /\ RowsOf(f) \subseteq ChunkRow
      BY FS_Subset DEF AccountBase, RowsOf, TypeOK, FiniteTables
    <3>2. TagUse(RowsOf(f)) \in TagTally
      BY <3>1, TallyType
    <3> QED
      BY <3>2 DEF PendingDelete
  <2>3. pending'[w] = [file |-> f, tags |-> TagUse(RowsOf(f))]
    BY <1>1, <1>2, <2>1 DEF ReadTags
  <2>4. pending'[w] # NoDelete /\ pending'[w].file = f
    BY <2>2, <2>3, Sentinels
  <2> QED
    BY <1>1, <2>4 DEF InDelete
<1>4. /\ \A g \in File : DeleteQueued(g)' => DeleteQueued(g)
      /\ \A g \in File : DeleteQueued(g) => DeleteQueued(g)' \/ g = f
      /\ \A g \in File : IndexQueued(g) => IndexQueued(g)'
      /\ DeleteQueued(f)
  BY <1>1, <1>2, QueueTail DEF AccountBase, DaemonInv
<1>5. ASSUME NEW g \in File \ missed
      PROVE  FileInv(w, g)'
  <2>0. FileInv(w, g)
    BY DEF AccountInv
  <2>1. CASE g # f
    BY <1>1, <1>3, <1>4, <2>0, <2>1, SameFile DEF Cached, DeleteDue, Working
  <2>2. CASE g = f
    <3>1. DeleteDue(w, f)' /\ DeleteDue(w, f)
      BY <1>3, <1>4 DEF DeleteDue
    <3>2. Present(w, f)'
      BY <1>1, <1>4, <2>0, <2>2, <3>1 DEF FileInv, Present, OnDisk
    <3> QED
      BY <2>2, <3>1, <3>2 DEF FileInv, RowTimes, Absent
  <2> QED
    BY <2>1, <2>2
<1>6. WorkTimes(w)'
  BY <1>1 DEF WorkTimes
<1>7. TimesInv'
  BY <1>1 DEF AccountInv, TimesInv, OnDisk
<1> QED
  BY <1>1, <1>5, <1>6, <1>7 DEF AccountInv

LEMMA CommitDeleteAccount ==
  ASSUME AccountBase, NEW w \in Proc, AccountInv(w), CommitEventDelete(w)
  PROVE  AccountInv(w)'
<1>1. /\ pending[w] # NoDelete /\ CommitDelete(w)
      /\ UNCHANGED <<disk, clock, work, events, agenda, missed>>
  BY DEF CommitEventDelete, CommitDelete, diskVars
<1>2. PICK f : f = pending[w].file
  OBVIOUS
<1>3. /\ work[w] = NoWork
      /\ pending \in [Proc -> PendingDelete \cup {NoDelete}]
      /\ fileCache \in [File -> CacheRow \cup {NoRow}]
  BY <1>1 DEF AccountBase, DaemonInv, CallInv, TypeOK
<1>4. pending'[w] = NoDelete /\ fileCache' = [fileCache EXCEPT ![f] = NoRow]
  BY <1>1, <1>2, <1>3 DEF CommitDelete, DeleteTx
<1>5. /\ \A g \in File : InDelete(w, g) <=> g = f
      /\ \A g \in File : ~ InDelete(w, g)'
  BY <1>1, <1>2, <1>4 DEF InDelete
<1>6. /\ \A g \in File : DeleteQueued(g)' <=> DeleteQueued(g)
      /\ \A g \in File : IndexQueued(g)' <=> IndexQueued(g)
  BY <1>1, SameQueue
<1>7. ASSUME NEW g \in File \ missed
      PROVE  FileInv(w, g)'
  <2>0. FileInv(w, g)
    BY DEF AccountInv
  <2>1. CASE g # f
    <3>1. fileCache'[g] = fileCache[g]
      BY <1>3, <1>4, <2>1
    <3> QED
      BY <1>1, <1>3, <1>5, <1>6, <2>0, <2>1, <3>1, SameFile DEF Cached, DeleteDue, Working
  <2>2. CASE g = f
    <3>1. ~ Cached(f)'
      BY <1>3, <1>4, <2>2 DEF Cached
    <3>2. DeleteDue(w, f)
      BY <1>5, <2>2 DEF DeleteDue
    <3>3. Present(w, f)'
      BY <1>1, <1>6, <2>0, <2>2, <3>2 DEF FileInv, Present, OnDisk
    <3>4. RowTimes(w, f)' /\ Absent(w, f)'
      BY <1>1, <1>3, <3>1 DEF RowTimes, Absent, Working
    <3> QED
      BY <2>2, <3>3, <3>4 DEF FileInv
  <2> QED
    BY <2>1, <2>2
<1>8. WorkTimes(w)'
  BY <1>1, <1>3 DEF WorkTimes
<1>9. TimesInv'
  BY <1>1 DEF AccountInv, TimesInv, OnDisk
<1> QED
  BY <1>1, <1>7, <1>8, <1>9 DEF AccountInv

(* A failed query of the fast path: the file is read after all. *)
LEMMA ReadOnAccount ==
  ASSUME AccountBase, NEW w \in Proc, AccountInv(w),
         UNCHANGED <<disk, clock, fileCache, pending, events, agenda, missed>>,
         At(w, "cached mtime") \/ At(w, "cached size"),
         SetWork(w, [work[w] EXCEPT !.stage = "read"])
  PROVE  AccountInv(w)'
<1>1. work[w] \in Work /\ work[w] # NoWork /\ work[w].file \in File
  BY DEF At, AccountBase, DaemonInv, IndexerTypeOK, Work
<1>2. /\ work'[w] # NoWork /\ work'[w].file = work[w].file /\ work'[w].stage = "read"
      /\ work'[w].stamp = work[w].stamp
  <2> DEFINE rec == [work[w] EXCEPT !.stage = "read"]
  <2>1. /\ rec \in Work /\ rec.file = work[w].file /\ rec.stage = "read"
        /\ rec.stamp = work[w].stamp
    BY <1>1 DEF Work, Stages
  <2>2. work'[w] = rec
    BY DEF SetWork, AccountBase, DaemonInv, IndexerTypeOK
  <2> HIDE DEF rec
  <2> QED
    BY <2>1, <2>2, Sentinels
<1>3. /\ \A g \in File : DeleteQueued(g)' <=> DeleteQueued(g)
      /\ \A g \in File : IndexQueued(g)' <=> IndexQueued(g)
      /\ \A g \in File : DeleteDue(w, g)' <=> DeleteDue(w, g)
      /\ \A g \in File : Working(w, g)' <=> Working(w, g)
  <2>1. /\ \A g \in File : DeleteQueued(g)' <=> DeleteQueued(g)
        /\ \A g \in File : IndexQueued(g)' <=> IndexQueued(g)
    BY SameQueue
  <2>2. \A g \in File : Working(w, g)' <=> Working(w, g)
    BY <1>1, <1>2 DEF Working
  <2> QED
    BY <2>1, <2>2 DEF DeleteDue, InDelete
<1>4. WorkCurrent(work[w]) => WorkCurrent(work[w])'
  BY <1>1, <1>2 DEF WorkCurrent, OnDisk, At
<1>5. ASSUME NEW g \in File \ missed
      PROVE  FileInv(w, g)'
  <2>0. FileInv(w, g)
    BY DEF AccountInv
  <2>1. RowTimes(w, g)'
    BY <1>3, <2>0 DEF FileInv, RowTimes, Told, Cached, OnDisk
  <2>2. Current(g) => Current(g)'
    BY DEF Current, OnDisk, Cached
  <2>3. Present(w, g)'
    BY <1>3, <1>4, <2>0, <2>2 DEF FileInv, Present, OnDisk
  <2>4. Absent(w, g)'
    BY <1>2, <1>3, <2>0 DEF FileInv, Absent, OnDisk, Cached
  <2> QED
    BY <2>1, <2>3, <2>4 DEF FileInv
<1>6. WorkTimes(w)'
  <2>1. work[w].stage # "mtime"
    BY DEF At
  <2> SUFFICES ASSUME work[w].file \notin missed
               PROVE  WorkTimes(w)'
    BY <1>2 DEF WorkTimes
  <2>2. PICK f \in File : f = work[w].file
    BY <1>1
  <2> QED
    BY <1>1, <1>2, <1>3, <2>1, <2>2 DEF AccountInv, WorkTimes, OnDisk
<1>7. TimesInv'
  BY DEF AccountInv, TimesInv, OnDisk
<1> QED
  BY <1>5, <1>6, <1>7 DEF AccountInv

(* What the loop was at fails; the file counts as missed. *)
LEMMA GiveUpAccount ==
  ASSUME AccountBase, NEW w \in Proc, AccountInv(w), NEW f,
         UNCHANGED <<disk, clock, fileCache, events, agenda>>, Miss(f),
         \/ work[w] # NoWork /\ work[w].file = f /\ work'[w] = NoWork /\ UNCHANGED pending
         \/ /\ pending[w] # NoDelete /\ pending[w].file = f /\ pending'[w] = NoDelete
            /\ UNCHANGED work
  PROVE  AccountInv(w)'
<1>1. work'[w] = NoWork
  BY DEF AccountBase, DaemonInv, CallInv
<1>2. \A g \in File : g # f =>
        /\ DeleteDue(w, g)' <=> DeleteDue(w, g)
        /\ IndexQueued(g)' <=> IndexQueued(g)
        /\ ~ Working(w, g) /\ ~ Working(w, g)'
  BY <1>1, SameQueue DEF DeleteDue, InDelete, Working, AccountBase, DaemonInv, CallInv
<1>3. ASSUME NEW g \in File, g \notin missed'
      PROVE  FileInv(w, g)'
  <2>1. g # f /\ FileInv(w, g)
    BY <1>3 DEF Miss, AccountInv
  <2> QED
    BY <1>2, <2>1, SameFile DEF Cached
<1>4. WorkTimes(w)'
  BY <1>1 DEF WorkTimes
<1>5. TimesInv'
  BY DEF AccountInv, TimesInv, OnDisk
<1> QED
  BY <1>3, <1>4, <1>5 DEF AccountInv

LEMMA FailAccount ==
  ASSUME AccountBase, NEW w \in Proc, AccountInv(w), Fail(w)
  PROVE  AccountInv(w)'
<1>1. UNCHANGED <<disk, clock, events>>
  BY DEF Fail, diskVars
<1>2. CASE /\ FailFile(w)
           /\ IF work'[w] = NoWork THEN Miss(work[w].file) ELSE UNCHANGED missed
           /\ UNCHANGED agenda
  <2>1. UNCHANGED <<fileCache, pending>> /\ work[w] # NoWork
    BY <1>2 DEF FailFile, storeVars, At
  <2>2. CASE work'[w] = NoWork
    BY <1>1, <1>2, <2>1, <2>2, GiveUpAccount
  <2>3. CASE work'[w] # NoWork
    <3>1. ~ EndFile(w)
      BY <2>3 DEF EndFile, SetWork, AccountBase, DaemonInv, IndexerTypeOK
    <3>2. /\ At(w, "cached mtime") \/ At(w, "cached size")
          /\ SetWork(w, [work[w] EXCEPT !.stage = "read"])
      BY <1>2, <3>1 DEF FailFile
    <3> QED
      BY <1>1, <1>2, <2>1, <2>3, <3>2, ReadOnAccount
  <2> QED
    BY <2>2, <2>3
<1>3. CASE Abandon(w) /\ Miss(pending[w].file) /\ UNCHANGED <<work, agenda>>
  <2>1. pending[w] # NoDelete /\ pending'[w] = NoDelete /\ UNCHANGED fileCache
    BY <1>3 DEF Abandon, Idle, AccountBase, DaemonInv, CallInv, TypeOK, tables
  <2> QED
    BY <1>1, <1>3, <2>1, GiveUpAccount
<1>4. CASE Next1(w, "recount") /\ agenda' = Tail(agenda) /\ UNCHANGED <<storeVars, work, missed>>
  <2>1. /\ agenda # <<>> /\ Head(agenda).do = "recount"
        /\ UNCHANGED <<fileCache, pending>>
    BY <1>4 DEF Next1, storeVars
  <2>2. \A f \in File : Cached(f)' <=> Cached(f)
    BY <2>1 DEF Cached
  <2> QED
    BY <1>1, <1>4, <2>1, <2>2, TaskDone
<1> QED
  BY <1>2, <1>3, <1>4 DEF Fail

-----------------------------------------------------------------------------
LEMMA InitAccount ==
  ASSUME WatchInit, NEW w \in Proc
  PROVE  AccountInv(w)
<1>1. /\ \A f \in File : ~ OnDisk(f) /\ ~ Cached(f)
      /\ work[w] = NoWork
  BY DEF WatchInit, StoreInit, IndexerInit, OnDisk, Cached
<1> QED
  BY <1>1 DEF AccountInv, TimesInv, WorkTimes, FileInv, RowTimes, Present, Absent, Working

LEMMA NextAccount ==
  ASSUME AccountBase, 0 \notin Ticks, NEW w \in Proc, Proc = {w}, AccountInv(w),
         [WatchNext]_watchVars
  PROVE  AccountInv(w)'
<1>1. CASE UNCHANGED watchVars
  <2>1. UNCHANGED <<disk, clock, work, pending, fileCache, events, agenda, missed>>
    BY <1>1 DEF watchVars, storeVars, diskVars
  <2>2. /\ \A g \in File : DeleteQueued(g)' <=> DeleteQueued(g)
        /\ \A g \in File : IndexQueued(g)' <=> IndexQueued(g)
    BY <2>1, SameQueue
  <2>3. ASSUME NEW g \in File \ missed
        PROVE  FileInv(w, g)'
    BY <2>1, <2>2, SameFile DEF AccountInv, Cached, DeleteDue, InDelete, Working
  <2>4. work[w] # NoWork => work[w].file \in File
    BY DEF AccountBase, DaemonInv, IndexerTypeOK, Work
  <2>5. WorkTimes(w)'
    BY <2>1, <2>2, <2>4, SameWork DEF AccountInv
  <2>6. TimesInv'
    BY <2>1 DEF AccountInv, TimesInv, OnDisk
  <2> QED
    BY <2>1, <2>3, <2>5, <2>6 DEF AccountInv
<1>2. CASE User
  BY <1>2, UserAccount
<1>3. CASE Handle(w)
  BY <1>3, TakeAccount, SkipAccount, RecountAccount, BeginIndexAccount, IndexEventAccount,
     DeleteAccount, CommitDeleteAccount DEF Handle
<1>4. CASE Fail(w)
  BY <1>4, FailAccount
<1> QED
  BY <1>1, <1>2, <1>3, <1>4 DEF WatchNext

LEMMA NextMissed ==
  ASSUME AccountBase, missed \subseteq File, [WatchNext]_watchVars
  PROVE  missed' \subseteq File
<1>1. CASE UNCHANGED watchVars
  BY <1>1 DEF watchVars
<1>2. CASE User
  BY <1>2 DEF User, Notify, Miss
<1>3. ASSUME NEW p \in Proc, Handle(p)
      PROVE  missed' \subseteq File
  <2>1. CASE SkipOldPath(p)
    <3>1. agenda # <<>> /\ Miss(Head(agenda).file)
      BY <2>1 DEF SkipOldPath, Next1
    <3>2. Head(agenda).file \in File
      BY <3>1, HeadType DEF AccountBase, DaemonInv
    <3> QED
      BY <3>1, <3>2 DEF Miss
  <2>2. CASE ~ SkipOldPath(p)
    BY <1>3, <2>2 DEF Handle, TakeEvent, SkipMissing, BeginIndex, IndexEventFile,
       BeginEventDelete, CommitEventDelete, EventRecount
  <2> QED
    BY <2>1, <2>2
<1>4. ASSUME NEW p \in Proc, Fail(p)
      PROVE  missed' \subseteq File
  <2>1. CASE FailFile(p) /\ (Miss(work[p].file) \/ UNCHANGED missed)
    <3>1. work[p].file \in File
      BY <2>1 DEF FailFile, At, AccountBase, DaemonInv, IndexerTypeOK, Work
    <3> QED
      BY <2>1, <3>1 DEF Miss
  <2>2. CASE Abandon(p) /\ Miss(pending[p].file)
    <3>1. pending[p].file \in File
      BY <2>2 DEF Abandon, Idle, AccountBase, DaemonInv, CallInv, TypeOK, PendingDelete
    <3> QED
      BY <2>2, <3>1 DEF Miss
  <2> QED
    BY <1>4, <2>1, <2>2 DEF Fail
<1> QED
  BY <1>1, <1>2, <1>3, <1>4 DEF WatchNext

(* Nothing left to do is nothing left to account for. *)
LEMMA CaughtUpExact ==
  ASSUME AccountBase, missed \subseteq File, NEW w \in Proc, AccountInv(w)
  PROVE  CaughtUpIsExact
<1>1. WatchTypeOK
  BY DEF WatchTypeOK, AccountBase, DaemonInv, ChannelTypeOK
<1>2. ASSUME CaughtUp, NEW f \in File \ missed
      PROVE  InStep(f)
  <2>1. /\ events = <<>> /\ agenda = <<>>
        /\ work[w] = NoWork /\ pending[w] = NoDelete
    BY <1>2 DEF CaughtUp, Resting
  <2>2. Len(events) = 0
    BY <2>1
  <2>3. Batches = {0}
    BY <2>2 DEF Batches
  <2>4. \A dos : ~ Asks(Batch(0), dos, f)
    BY <2>1 DEF Batch, Asks
  <2>5. ~ DeleteQueued(f) /\ ~ IndexQueued(f)
    BY <2>3, <2>4 DEF DeleteQueued, IndexQueued, Deletes, Indexes
  <2>6. ~ DeleteDue(w, f) /\ ~ Working(w, f)
    BY <2>1, <2>5 DEF DeleteDue, InDelete, Working
  <2>7. FileInv(w, f)
    BY DEF AccountInv
  <2> QED
    BY <2>5, <2>6, <2>7 DEF FileInv, Present, Absent, Current, InStep
<1> QED
  BY <1>1, <1>2 DEF CaughtUpIsExact

(* One loop, as watch runs it, and edits at least a millisecond apart (the *)
(* clock of the stamps; without that a text can change under its stamp):   *)
(* however the edits fall between the steps of the loop, once it has       *)
(* caught up the index holds exactly the files on disk, as they are.       *)
THEOREM DaemonKeepsUp ==
  ASSUME 0 \notin Ticks, NEW CONSTANT w, Proc = {w}
  PROVE  WatchSpec => []CaughtUpIsExact
<1> DEFINE Inv == AccountBase /\ missed \subseteq File /\ AccountInv(w)
<1>0. w \in Proc
  OBVIOUS
<1>1. WatchInit => Inv
  BY <1>0, InitTypeInv, InitDaemonInv, InitAccount DEF WatchInit, AccountBase, TypeInv
<1>2. Inv /\ [WatchNext]_watchVars => Inv'
  <2> SUFFICES ASSUME Inv, [WatchNext]_watchVars
               PROVE  Inv'
    OBVIOUS
  <2>1. DaemonInv' /\ [StoreNext]_storeVars
    BY NextDaemonInv DEF AccountBase
  <2>2. TypeInv'
    BY <2>1, NextTypeInv DEF TypeInv, AccountBase
  <2>3. AccountInv(w)'
    BY <1>0, NextAccount
  <2>4. missed' \subseteq File
    BY NextMissed
  <2> QED
    BY <2>1, <2>2, <2>3, <2>4 DEF AccountBase, TypeInv
<1>3. Inv => CaughtUpIsExact
  BY <1>0, CaughtUpExact
<1> QED
  BY <1>1, <1>2, <1>3, PTL DEF WatchSpec
=============================================================================
