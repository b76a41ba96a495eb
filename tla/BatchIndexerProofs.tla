------------------------- MODULE BatchIndexerProofs -------------------------
(***************************************************************************)
(* What holds of the passes over whole vaults, for every set of processes, *)
(* vaults, paths and bodies: to the index they are calls of IndexStore, so *)
(* that everything proved of it holds of them; no interleaving of edits    *)
(* and passes makes a file be skipped that is not indexed as it is; and    *)
(* what one undisturbed pass leaves behind is right, whatever was before.  *)
(***************************************************************************)
EXTENDS BatchIndexer, IndexStoreProofs

JobTypeOK == job \in [Proc -> Job \cup {NoJob}]

(* A process that is in no vault holds nothing; a chart has no delete in   *)
(* progress, a dredge no purge.                                            *)
PassInv ==
  \A p \in Proc :
    /\ (job[p] = NoJob \/ ~ job[p].inVault) => Resting(p)
    /\ job[p] # NoJob =>
         /\ job[p].kind = "chart" => Idle(p)
         /\ job[p].kind = "dredge" => purge[p] = NoPurge
         /\ job[p].kind # "chart" => work[p] = NoWork

StepInv == IndexerTypeOK /\ JobTypeOK /\ PassInv

(* Any time can be the time of a note, so that purge_expired is called     *)
(* with no cutoff that IndexStore does not have.                           *)
AnyTime == \A ms \in Nat : \E s \in Stamp : s.mtime = ms

-----------------------------------------------------------------------------
LEMMA NotAJob == NoJob \notin Job /\ Retention \subseteq Nat
BY BatchAssumption, Zenon

LEMMA InitStepInv == BatchInit => StepInv
<1> SUFFICES ASSUME BatchInit
             PROVE  StepInv
  OBVIOUS
<1>1. IndexerTypeOK
  BY InitIndexerTypes DEF BatchInit
<1> QED
  BY <1>1 DEF BatchInit, StepInv, JobTypeOK, PassInv, StoreInit, IndexerInit, Idle, Resting

(* p goes on with job j; the calls of the others are left alone. *)
LEMMA SetJobInv ==
  ASSUME StepInv, IndexerTypeOK', NEW p \in Proc,
         NEW j \in Job \cup {NoJob}, SetJob(p, j),
         \A q \in Proc \ {p} :
           work'[q] = work[q] /\ pending'[q] = pending[q] /\ purge'[q] = purge[q],
         (j = NoJob \/ ~ j.inVault) => Resting(p)',
         j # NoJob =>
           /\ j.kind = "chart" => Idle(p)'
           /\ j.kind = "dredge" => purge'[p] = NoPurge
           /\ j.kind # "chart" => work'[p] = NoWork
  PROVE  StepInv'
<1>1. job' = [job EXCEPT ![p] = j] /\ job \in [Proc -> Job \cup {NoJob}]
  BY DEF SetJob, StepInv, JobTypeOK
<1>2. JobTypeOK'
  BY <1>1 DEF JobTypeOK
<1>3. PassInv'
  <2> SUFFICES ASSUME NEW q \in Proc
               PROVE  /\ (job'[q] = NoJob \/ ~ job'[q].inVault) => Resting(q)'
                      /\ job'[q] # NoJob =>
                           /\ job'[q].kind = "chart" => Idle(q)'
                           /\ job'[q].kind = "dredge" => purge'[q] = NoPurge
                           /\ job'[q].kind # "chart" => work'[q] = NoWork
    BY DEF PassInv
  <2>1. CASE q = p
    BY <1>1, <2>1
  <2>2. CASE q # p
    BY <1>1, <2>2 DEF StepInv, PassInv, Resting, Idle
  <2> QED
    BY <2>1, <2>2
<1> QED
  BY <1>2, <1>3 DEF StepInv

(* p's pass goes on with its job as it is. *)
LEMMA SameJobInv ==
  ASSUME StepInv, IndexerTypeOK', NEW p \in Proc, UNCHANGED job,
         job[p] # NoJob, job[p].inVault,
         \A q \in Proc \ {p} :
           work'[q] = work[q] /\ pending'[q] = pending[q] /\ purge'[q] = purge[q],
         job[p].kind = "chart" => Idle(p)',
         job[p].kind = "dredge" => purge'[p] = NoPurge,
         job[p].kind # "chart" => work'[p] = NoWork
  PROVE  StepInv'
<1>1. JobTypeOK'
  BY DEF StepInv, JobTypeOK
<1>2. PassInv'
  <2> SUFFICES ASSUME NEW q \in Proc
               PROVE  /\ (job'[q] = NoJob \/ ~ job'[q].inVault) => Resting(q)'
                      /\ job'[q] # NoJob =>
                           /\ job'[q].kind = "chart" => Idle(q)'
                           /\ job'[q].kind = "dredge" => purge'[q] = NoPurge
                           /\ job'[q].kind # "chart" => work'[q] = NoWork
    BY DEF PassInv
  <2>1. CASE q = p
    BY <2>1
  <2>2. CASE q # p
    BY <2>2 DEF StepInv, PassInv, Resting, Idle
  <2> QED
    BY <2>1, <2>2
<1> QED
  BY <1>1, <1>2 DEF StepInv

-----------------------------------------------------------------------------
LEMMA UserKeeps ==
  ASSUME StepInv, User
  PROVE  StepInv' /\ UNCHANGED storeVars
<1>1. IndexerTypeOK'
  BY EditTypes DEF User, StepInv
<1> QED
  BY <1>1 DEF User, StepInv, JobTypeOK, PassInv, Resting, Idle, storeVars

LEMMA StartPassKeeps ==
  ASSUME StepInv, NEW p \in Proc, StartPass(p)
  PROVE  StepInv' /\ UNCHANGED storeVars
<1>a. PICK kind \in PassKind, m \in ModelId, v \in Vault :
        \E cutoff \in Cutoffs(kind) :
         /\ SetJob(p, [kind |-> kind, model |-> m, inVault |-> FALSE,
                       cutoff |-> cutoff, vaults |-> Vault, vault |-> v,
                       todo |-> {}, gone |-> {}, seen |-> {}])
         /\ IF kind = "expire"
            THEN edits < MaxEdits /\ edits' = edits + 1
            ELSE UNCHANGED edits
  BY DEF StartPass
<1>0. PICK cutoff \in Cutoffs(kind) :
         /\ SetJob(p, [kind |-> kind, model |-> m, inVault |-> FALSE,
                       cutoff |-> cutoff, vaults |-> Vault, vault |-> v,
                       todo |-> {}, gone |-> {}, seen |-> {}])
         /\ IF kind = "expire"
            THEN edits < MaxEdits /\ edits' = edits + 1
            ELSE UNCHANGED edits
  BY <1>a
<1> DEFINE j == [kind |-> kind, model |-> m, inVault |-> FALSE,
                 cutoff |-> cutoff, vaults |-> Vault, vault |-> v,
                 todo |-> {}, gone |-> {}, seen |-> {}]
<1>1. cutoff \in Nat
  <2>1. clock \in Nat
    BY DEF StepInv, IndexerTypeOK
  <2> QED
    BY <2>1, NotAJob DEF Cutoffs
<1>2. j \in Job /\ j.inVault = FALSE
  BY <1>1 DEF Job
<1>3. UNCHANGED storeVars /\ UNCHANGED <<disk, clock, work>> /\ job[p] = NoJob
  BY DEF StartPass
<1>4. IndexerTypeOK'
  <2>1. edits' \in 0 .. MaxEdits
    <3>1. edits \in 0 .. MaxEdits /\ MaxEdits \in Nat
      BY IndexerAssumption, Zenon DEF StepInv, IndexerTypeOK
    <3> QED
      BY <1>0, <3>1
  <2> QED
    BY <1>3, <2>1 DEF StepInv, IndexerTypeOK, At
<1>5. SetJob(p, j)
  BY <1>0
<1>6. Resting(p) /\ Idle(p) /\ purge[p] = NoPurge /\ work[p] = NoWork
  BY <1>3 DEF StepInv, PassInv, Resting, Idle
<1>7. Resting(p)' /\ Idle(p)' /\ purge'[p] = NoPurge /\ work'[p] = NoWork
  BY <1>3, <1>6 DEF Resting, Idle, storeVars
<1> HIDE DEF j
<1> QED
  BY <1>2, <1>3, <1>4, <1>5, <1>7, SetJobInv DEF storeVars

(* The steps of a pass that touch neither the disk nor a call. *)
LEMMA WalkKeeps ==
  ASSUME StepInv, NEW p \in Proc,
         EnterVault(p) \/ EndPass(p) \/ CheckExists(p)
  PROVE  StepInv' /\ UNCHANGED storeVars
<1> DEFINE old == job[p]
<1>1. /\ old # NoJob /\ old \in Job /\ UNCHANGED <<storeVars, diskVars, work>>
  BY DEF EnterVault, EndPass, CheckExists, Dredging, InPass, StepInv, JobTypeOK
<1>2. IndexerTypeOK'
  BY <1>1 DEF StepInv, IndexerTypeOK, diskVars, At
<1>3. /\ Idle(p)' = Idle(p) /\ Resting(p)' = Resting(p)
      /\ \A q \in Proc : work'[q] = work[q] /\ pending'[q] = pending[q] /\ purge'[q] = purge[q]
  BY <1>1 DEF storeVars, Idle, Resting
<1>4. /\ (~ old.inVault) => Resting(p)
      /\ old.kind = "chart" => Idle(p)
      /\ old.kind = "dredge" => purge[p] = NoPurge
      /\ old.kind # "chart" => work[p] = NoWork
  BY <1>1 DEF StepInv, PassInv
<1>5. CASE EnterVault(p)
  <2>1. PICK v \in old.vaults :
          SetJob(p, [old EXCEPT
            !.inVault = TRUE, !.vault = v, !.vaults = @ \ {v},
            !.todo = Listing(old.kind, v),
            !.seen = IF old.kind = "chart" THEN Listing(old.kind, v) ELSE {}])
    BY <1>5 DEF EnterVault
  <2> DEFINE j == [old EXCEPT
            !.inVault = TRUE, !.vault = v, !.vaults = @ \ {v},
            !.todo = Listing(old.kind, v),
            !.seen = IF old.kind = "chart" THEN Listing(old.kind, v) ELSE {}]
  <2>2. Listing(old.kind, v) \in SUBSET Path
    BY DEF Listing
  <2>3. j \in Job /\ j.inVault = TRUE /\ j.kind = old.kind
    BY <1>1, <2>2 DEF Job
  <2>4. SetJob(p, j)
    BY <2>1
  <2> HIDE DEF j
  <2> QED
    BY <1>1, <1>2, <1>3, <1>4, <2>3, <2>4, NotAJob, SetJobInv
<1>6. CASE EndPass(p)
  <2>1. SetJob(p, NoJob) /\ ~ old.inVault
    BY <1>6 DEF EndPass
  <2> QED
    BY <1>1, <1>2, <1>3, <1>4, <2>1, SetJobInv
<1>7. CASE CheckExists(p)
  <2>1. PICK q \in old.todo :
          SetJob(p, [old EXCEPT
            !.todo = @ \ {q},
            !.gone = IF OnDisk(<<old.vault, q>>) THEN {} ELSE {q}])
    BY <1>7 DEF CheckExists
  <2> DEFINE j == [old EXCEPT
            !.todo = @ \ {q},
            !.gone = IF OnDisk(<<old.vault, q>>) THEN {} ELSE {q}]
  <2>2. old.inVault
    BY <1>7 DEF CheckExists, Dredging
  <2>3. j \in Job /\ j.inVault = old.inVault /\ j.kind = old.kind
    BY <1>1 DEF Job
  <2>4. SetJob(p, j)
    BY <2>1
  <2> HIDE DEF j
  <2> QED
    BY <1>1, <1>2, <1>3, <1>4, <2>2, <2>3, <2>4, NotAJob, SetJobInv
<1> QED
  BY <1>1, <1>5, <1>6, <1>7

LEMMA NextFileKeeps ==
  ASSUME StepInv, NEW p \in Proc, NextFile(p)
  PROVE  StepInv' /\ UNCHANGED storeVars
<1> DEFINE old == job[p]
<1>1. /\ old # NoJob /\ old \in Job /\ old.kind = "chart" /\ old.inVault
      /\ UNCHANGED diskVars
  BY DEF NextFile, Charting, InPass, StepInv, JobTypeOK
<1>2. PICK q \in old.todo :
        /\ BeginFile(p, <<old.vault, q>>, old.seen, old.model)
        /\ SetJob(p, [old EXCEPT !.todo = @ \ {q}])
  BY DEF NextFile
<1>3. /\ <<old.vault, q>> \in File /\ old.seen \in SUBSET Path /\ old.model \in ModelId
  BY <1>1 DEF Job, File
<1>4. IndexerTypeOK'
  BY <1>1, <1>2, <1>3, BeginTypes DEF StepInv
<1> DEFINE j == [old EXCEPT !.todo = @ \ {q}]
<1>5. j \in Job /\ j.kind = "chart" /\ j.inVault
  BY <1>1 DEF Job
<1>6. SetJob(p, j) /\ UNCHANGED storeVars
  BY <1>2 DEF BeginFile
<1> HIDE DEF j
<1>7. Idle(p)'
  BY <1>1, <1>6 DEF StepInv, PassInv, Idle, storeVars
<1>8. \A r \in Proc \ {p} :
        work'[r] = work[r] /\ pending'[r] = pending[r] /\ purge'[r] = purge[r]
  BY <1>2, <1>6 DEF BeginFile, SetWork, storeVars, StepInv, IndexerTypeOK
<1> QED
  BY <1>4, <1>5, <1>6, <1>7, <1>8, NotAJob, SetJobInv

(* The walk and the calls of index_file_with_embedder: a reindex at most.  *)
LEMMA ChartFileKeeps ==
  ASSUME StepInv, NEW p \in Proc, ChartFile(p) \/ ChartFileFails(p)
  PROVE  StepInv' /\ [StoreNext]_storeVars
<1>1. UNCHANGED <<diskVars, job>> /\ (IndexFile(p) \/ FailFile(p))
  BY DEF ChartFile, ChartFileFails
<1>2. IndexerTypeOK'
  BY <1>1, IndexFileTypes DEF StepInv
<1>3. work[p] # NoWork
  BY <1>1 DEF IndexFile, FailFile, StatMtime, StatSize, CheckMtime, CheckSize, ReadFile,
              CheckHash, CommitFile, At
<1>4. job[p] # NoJob /\ job[p].inVault /\ job[p].kind = "chart" /\ Idle(p)
  BY <1>3 DEF StepInv, PassInv, Resting
<1>5. UNCHANGED <<pending, purge>>
  BY <1>1 DEF IndexFile, FailFile, StatMtime, StatSize, CheckMtime, CheckSize, ReadFile,
              CheckHash, CommitFile, storeVars
<1>6. \A q \in Proc \ {p} : work'[q] = work[q]
  BY <1>1, IndexFileWork DEF Onward, SetWork, StepInv, IndexerTypeOK
<1>7. StepInv'
  BY <1>1, <1>2, <1>4, <1>5, <1>6, SameJobInv DEF Idle
<1>8. [StoreNext]_storeVars
  <2>1. CASE IndexFile(p)
    BY <1>4, <2>1, IndexFileIsStoreStep DEF StepInv
  <2>2. CASE FailFile(p)
    BY <2>2 DEF FailFile
  <2> QED
    BY <1>1, <2>1, <2>2
<1> QED
  BY <1>7, <1>8

LEMMA TypesKept ==
  ASSUME IndexerTypeOK, UNCHANGED <<diskVars, work>>
  PROVE  IndexerTypeOK'
BY DEF IndexerTypeOK, diskVars, At

(* pending and purge are functions of the process.                         *)
CallsTyped == /\ DOMAIN pending = Proc /\ pending = [q \in Proc |-> pending[q]]
              /\ DOMAIN purge = Proc /\ purge = [q \in Proc |-> purge[q]]

LEMMA SameCall ==
  ASSUME NEW S, NEW f, f = [q \in S |-> f[q]], NEW p \in S
  PROVE  [f EXCEPT ![p] = f[p]] = f
OBVIOUS

LEMMA ReadTagsOthers ==
  ASSUME CallsTyped, NEW p \in Proc, NEW f, ReadTags(p, f)
  PROVE  /\ purge' = purge
         /\ \A q \in Proc \ {p} : pending'[q] = pending[q]
BY DEF ReadTags, CallsTyped

LEMMA DredgeFileKeeps ==
  ASSUME StepInv, CallsTyped, NEW p \in Proc, DredgeFile(p)
  PROVE  StepInv' /\ [StoreNext]_storeVars
<1> DEFINE old == job[p]
<1>1. /\ old # NoJob /\ old \in Job /\ old.kind = "dredge" /\ old.inVault
      /\ UNCHANGED <<diskVars, work>>
  BY DEF DredgeFile, Dredging, InPass, StepInv, JobTypeOK
<1>2. PICK q \in old.gone :
        /\ ReadTags(p, <<old.vault, q>>)
        /\ SetJob(p, [old EXCEPT !.gone = {}, !.seen = @ \cup {q}])
  BY DEF DredgeFile
<1> DEFINE j == [old EXCEPT !.gone = {}, !.seen = @ \cup {q}]
<1>3. j \in Job /\ j.kind = "dredge" /\ j.inVault
  BY <1>1 DEF Job
<1>4. SetJob(p, j) /\ <<old.vault, q>> \in File
  BY <1>1, <1>2 DEF Job, File
<1> HIDE DEF j
<1>5. IndexerTypeOK'
  BY <1>1, TypesKept DEF StepInv
<1>6. purge[p] = NoPurge /\ work[p] = NoWork
  BY <1>1 DEF StepInv, PassInv
<1>7. /\ purge' = purge
      /\ \A r \in Proc \ {p} : pending'[r] = pending[r]
  BY <1>2, ReadTagsOthers
<1>8. StepInv'
  BY <1>1, <1>3, <1>4, <1>5, <1>6, <1>7, NotAJob, SetJobInv
<1>9. BeginDelete(p)
  BY <1>2, <1>4, <1>6 DEF BeginDelete, ReadTags, Idle
<1> QED
  BY <1>8, <1>9 DEF StoreNext

LEMMA DredgeCommitKeeps ==
  ASSUME StepInv, CallsTyped, NEW p \in Proc, DredgeCommit(p)
  PROVE  StepInv' /\ [StoreNext]_storeVars
<1>1. /\ job[p] # NoJob /\ job[p].inVault /\ job[p].kind # "chart"
      /\ UNCHANGED <<diskVars, work, job>> /\ CommitDelete(p)
  BY DEF DredgeCommit, Dredging, Expiring, InPass
<1>2. IndexerTypeOK'
  BY <1>1, TypesKept DEF StepInv
<1>3. work[p] = NoWork
  BY <1>1 DEF StepInv, PassInv
<1>4. \A q \in Proc \ {p} : pending'[q] = pending[q] /\ purge'[q] = purge[q]
  BY <1>1 DEF CommitDelete, CallsTyped
<1>5. job[p].kind = "dredge" => purge'[p] = NoPurge
  BY <1>1 DEF StepInv, PassInv, CommitDelete, CallsTyped, AfterDelete, NoPurge
<1>6. StepInv'
  BY <1>1, <1>2, <1>3, <1>4, <1>5, SameJobInv
<1> QED
  BY <1>1, <1>6 DEF StoreNext

LEMMA DredgeFailsKeeps ==
  ASSUME StepInv, CallsTyped, NEW p \in Proc, DredgeFails(p)
  PROVE  StepInv' /\ [StoreNext]_storeVars
<1>1. /\ job[p] # NoJob /\ job[p].inVault /\ job[p].kind = "dredge"
      /\ UNCHANGED <<diskVars, work, job>> /\ Abandon(p)
  BY DEF DredgeFails, Dredging, InPass
<1>2. IndexerTypeOK'
  BY <1>1, TypesKept DEF StepInv
<1>3. work[p] = NoWork
  BY <1>1 DEF StepInv, PassInv
<1>4. /\ purge'[p] = NoPurge
      /\ \A q \in Proc \ {p} : pending'[q] = pending[q] /\ purge'[q] = purge[q]
  BY <1>1 DEF Abandon, CallsTyped
<1>5. StepInv'
  BY <1>1, <1>2, <1>3, <1>4, SameJobInv
<1> QED
  BY <1>1, <1>5 DEF StoreNext

(* The paths selected for a purge are those of SelectExpired, or none.     *)
LEMMA SelectVaultKeeps ==
  ASSUME StepInv, CallsTyped, AnyTime, fileCache \in [File -> CacheRow \cup {NoRow}],
         NEW p \in Proc, SelectVault(p)
  PROVE  StepInv' /\ [StoreNext]_storeVars
<1> DEFINE old == job[p]
<1>1. /\ old # NoJob /\ old \in Job /\ old.kind = "expire" /\ ~ old.inVault
      /\ UNCHANGED <<tables, pending, diskVars, work>>
  BY DEF SelectVault, InPass, StepInv, JobTypeOK
<1>2. PICK v \in old.vaults :
        /\ purge' = [purge EXCEPT ![p] =
             IF Expired(v, old.cutoff) = {} THEN NoPurge
             ELSE [cutoff |-> old.cutoff, files |-> Expired(v, old.cutoff)]]
        /\ SetJob(p, [old EXCEPT !.inVault = TRUE, !.vault = v, !.vaults = @ \ {v}])
  BY DEF SelectVault
<1> DEFINE j == [old EXCEPT !.inVault = TRUE, !.vault = v, !.vaults = @ \ {v}]
<1>3. j \in Job /\ j.kind = "expire" /\ j.inVault = TRUE
  BY <1>1 DEF Job
<1>4. SetJob(p, j) /\ v \in Vault /\ old.cutoff \in Nat
  BY <1>1, <1>2 DEF Job
<1> HIDE DEF j
<1>5. IndexerTypeOK'
  BY <1>1, TypesKept DEF StepInv
<1>6. Idle(p) /\ work[p] = NoWork
  BY <1>1 DEF StepInv, PassInv, Resting
<1>7. \A r \in Proc \ {p} : purge'[r] = purge[r]
  BY <1>2 DEF CallsTyped
<1>8. StepInv'
  BY <1>1, <1>3, <1>4, <1>5, <1>6, <1>7, NotAJob, SetJobInv
<1>9. CASE Expired(v, old.cutoff) = {}
  <2>1. purge' = [purge EXCEPT ![p] = purge[p]]
    BY <1>2, <1>6, <1>9 DEF Idle
  <2>2. purge' = purge
    BY <2>1, SameCall DEF CallsTyped
  <2> QED
    BY <1>1, <1>8, <2>2 DEF storeVars, tables
<1>10. CASE Expired(v, old.cutoff) # {}
  <2>1. PICK f \in Expired(v, old.cutoff) : TRUE
    BY <1>10
  <2>2. fileCache[f].stamp.mtime < old.cutoff /\ fileCache[f].stamp.mtime \in Nat
    <3>1. f \in File /\ fileCache[f] \in CacheRow /\ fileCache[f].stamp.mtime < old.cutoff
      BY <2>1 DEF Expired, Cached
    <3>2. fileCache[f].stamp \in Stamp
      BY <3>1 DEF CacheRow
    <3> QED
      BY <3>1, <3>2, StampFacts
  <2>3. old.cutoff - 1 \in Nat
    BY <1>4, <2>2
  <2>4. PICK s \in Stamp : s.mtime = old.cutoff - 1
    BY <2>3 DEF AnyTime
  <2>5. s.mtime + 1 = old.cutoff
    BY <1>4, <2>4
  <2>6. purge' = [purge EXCEPT ![p] =
                    [cutoff |-> s.mtime + 1, files |-> Expired(v, s.mtime + 1)]]
    BY <1>2, <1>10, <2>5
  <2>7. SelectExpired(p)
    BY <1>1, <1>4, <1>6, <1>10, <2>5, <2>6 DEF SelectExpired
  <2> QED
    BY <1>8, <2>7 DEF StoreNext
<1> QED
  BY <1>9, <1>10

LEMMA ExpireFileKeeps ==
  ASSUME StepInv, CallsTyped, NEW p \in Proc, ExpireFile(p)
  PROVE  StepInv' /\ [StoreNext]_storeVars
<1>1. /\ job[p] # NoJob /\ job[p].inVault /\ job[p].kind = "expire"
      /\ UNCHANGED <<diskVars, work, job>> /\ BeginPurgeDelete(p)
  BY DEF ExpireFile, Expiring, InPass
<1>2. IndexerTypeOK'
  BY <1>1, TypesKept DEF StepInv
<1>3. work[p] = NoWork
  BY <1>1 DEF StepInv, PassInv
<1>4. \A q \in Proc \ {p} : pending'[q] = pending[q] /\ purge'[q] = purge[q]
  BY <1>1, ReadTagsOthers DEF BeginPurgeDelete
<1>5. StepInv'
  BY <1>1, <1>2, <1>3, <1>4, SameJobInv
<1> QED
  BY <1>1, <1>5 DEF StoreNext

LEMMA ExpireFailsKeeps ==
  ASSUME StepInv, CallsTyped, NEW p \in Proc, ExpireFails(p)
  PROVE  StepInv' /\ [StoreNext]_storeVars
<1>1. /\ job[p] # NoJob /\ job[p].kind = "expire"
      /\ UNCHANGED <<diskVars, work>> /\ Abandon(p) /\ SetJob(p, NoJob)
  BY DEF ExpireFails, Expiring, InPass
<1>2. IndexerTypeOK'
  BY <1>1, TypesKept DEF StepInv
<1>3. work[p] = NoWork
  BY <1>1 DEF StepInv, PassInv
<1>4. /\ purge'[p] = NoPurge /\ pending'[p] = NoDelete
      /\ \A q \in Proc \ {p} : pending'[q] = pending[q] /\ purge'[q] = purge[q]
  BY <1>1 DEF Abandon, CallsTyped
<1>5. StepInv'
  BY <1>1, <1>2, <1>3, <1>4, SetJobInv DEF Resting, Idle
<1> QED
  BY <1>1, <1>5 DEF StoreNext

LEMMA CloseVaultKeeps ==
  ASSUME StepInv, NEW p \in Proc, CloseVault(p)
  PROVE  StepInv' /\ Idle(p)
<1> DEFINE old == job[p]
           j == [old EXCEPT !.inVault = FALSE, !.seen = {}]
<1>1. /\ old # NoJob /\ old \in Job /\ Resting(p) /\ SetJob(p, j)
      /\ UNCHANGED <<pending, purge, diskVars, work>>
  BY DEF CloseVault, StepInv, JobTypeOK
<1>2. j \in Job
  BY <1>1 DEF Job
<1> HIDE DEF j
<1>3. IndexerTypeOK'
  BY <1>1, TypesKept DEF StepInv
<1>4. /\ Resting(p)' /\ Idle(p)' /\ Idle(p)
      /\ purge'[p] = NoPurge /\ work'[p] = NoWork
  BY <1>1 DEF Resting, Idle
<1> QED
  BY <1>1, <1>2, <1>3, <1>4, SetJobInv

LEMMA LeaveVaultKeeps ==
  ASSUME StepInv, NEW p \in Proc, LeaveVault(p) \/ RecountFails(p)
  PROVE  StepInv' /\ [StoreNext]_storeVars
<1>1. CloseVault(p)
  BY DEF LeaveVault, RecountFails
<1>2. StepInv' /\ Idle(p)
  BY <1>1, CloseVaultKeeps
<1>3. UNCHANGED <<pending, purge>>
  BY <1>1 DEF CloseVault
<1>4. CASE RecountTx(job[p].vault)
  <2>1. job[p].vault \in Vault
    BY <1>1 DEF CloseVault, StepInv, JobTypeOK, Job
  <2>2. Recount(p)
    BY <1>2, <1>3, <1>4, <2>1 DEF Recount
  <2> QED
    BY <1>2, <2>2 DEF StoreNext
<1>5. CASE UNCHANGED tables
  BY <1>2, <1>3, <1>5 DEF tables, storeVars
<1> QED
  BY <1>4, <1>5 DEF LeaveVault, RecountFails

LEMMA CrashKeeps ==
  ASSUME StepInv, CallsTyped, NEW p \in Proc, Crash(p)
  PROVE  StepInv' /\ [StoreNext]_storeVars
<1>1. /\ SetJob(p, NoJob) /\ EndFile(p) /\ UNCHANGED <<tables, diskVars>>
      /\ pending' = [pending EXCEPT ![p] = NoDelete]
      /\ purge' = [purge EXCEPT ![p] = NoPurge]
  BY DEF Crash
<1>2. IndexerTypeOK'
  BY <1>1, EndTypes DEF StepInv
<1>3. /\ work'[p] = NoWork /\ pending'[p] = NoDelete /\ purge'[p] = NoPurge
      /\ \A q \in Proc \ {p} :
           work'[q] = work[q] /\ pending'[q] = pending[q] /\ purge'[q] = purge[q]
  BY <1>1 DEF EndFile, SetWork, CallsTyped, StepInv, IndexerTypeOK
<1>4. StepInv'
  BY <1>1, <1>2, <1>3, SetJobInv DEF Resting, Idle
<1>5. CASE Idle(p)
  <2>1. pending[p] = NoDelete /\ purge[p] = NoPurge
    BY <1>5 DEF Idle
  <2>2. pending' = pending
    BY <1>1, <2>1, SameCall DEF CallsTyped
  <2>3. purge' = purge
    BY <1>1, <2>1, SameCall DEF CallsTyped
  <2> QED
    BY <1>1, <1>4, <2>2, <2>3 DEF storeVars, tables
<1>6. CASE ~ Idle(p)
  BY <1>1, <1>4, <1>6 DEF Abandon, StoreNext
<1> QED
  BY <1>5, <1>6

-----------------------------------------------------------------------------
LEMMA NextStepInv ==
  ASSUME AnyTime, TypeOK, StepInv, [BatchNext]_batchVars
  PROVE  StepInv' /\ [StoreNext]_storeVars
<1>1. CallsTyped /\ fileCache \in [File -> CacheRow \cup {NoRow}]
  BY DEF TypeOK, CallsTyped
<1>2. CASE UNCHANGED batchVars
  BY <1>2 DEF batchVars, diskVars, storeVars, StepInv, IndexerTypeOK, JobTypeOK, PassInv,
              At, Resting, Idle
<1>3. CASE User
  BY <1>3, UserKeeps
<1>4. ASSUME NEW p \in Proc,
             \/ StartPass(p) \/ PassStep(p) \/ ChartFileFails(p) \/ DredgeFails(p)
             \/ ExpireFails(p) \/ RecountFails(p) \/ Crash(p)
      PROVE  StepInv' /\ [StoreNext]_storeVars
  BY <1>1, <1>4, StartPassKeeps, WalkKeeps, NextFileKeeps, ChartFileKeeps, DredgeFileKeeps,
     DredgeCommitKeeps, DredgeFailsKeeps, SelectVaultKeeps, ExpireFileKeeps, ExpireFailsKeeps,
     LeaveVaultKeeps, CrashKeeps DEF PassStep
<1> QED
  BY <1>2, <1>3, <1>4 DEF BatchNext

LEMMA BatchInvHolds ==
  ASSUME AnyTime
  PROVE  BatchSpec => [](TypeInv /\ StepInv)
<1>1. BatchInit => TypeInv /\ StepInv
  BY InitTypeInv, InitStepInv DEF BatchInit
<1>2. TypeInv /\ StepInv /\ [BatchNext]_batchVars => (TypeInv /\ StepInv)'
  BY NextStepInv, NextTypeInv DEF TypeInv
<1> QED
  BY <1>1, <1>2, PTL DEF BatchSpec

(* The passes implement the index: whatever chart, dredge and purge do to  *)
(* it, with the user's edits, crashes and failures in between, is a call   *)
(* of IndexStore or nothing.                                               *)
THEOREM PassesImplementStore ==
  ASSUME AnyTime
  PROVE  BatchSpec => StoreSpec
<1>1. BatchInit => StoreInit
  BY DEF BatchInit
<1>2. TypeInv /\ StepInv /\ [BatchNext]_batchVars => [StoreNext]_storeVars
  BY NextStepInv DEF TypeInv
<1> QED
  BY <1>1, <1>2, BatchInvHolds, PTL DEF BatchSpec, StoreSpec

(* With one process at work on the index the tag counts stay right under   *)
(* any passes.                                                             *)
THEOREM PassesKeepTagCounts ==
  ASSUME AnyTime, NEW CONSTANT w, Proc = {w}
  PROVE  BatchSpec => []TagCountsExact
<1>1. BatchSpec => StoreSpec
  BY PassesImplementStore
<1>2. StoreSpec => []TagCountsExact
  BY TagCountsCorrect
<1> QED
  BY <1>1, <1>2, PTL

-----------------------------------------------------------------------------
(* No edit falls into the millisecond of the one before, and no rename     *)
(* brings an old stamp to another path.                                    *)
DistinctTimes == 0 \notin Ticks /\ Renames = FALSE

LEMMA NextFresh ==
  ASSUME DistinctTimes, TypeOK, StepInv, FreshInv, [BatchNext]_batchVars
  PROVE  FreshInv'
<1>0. IndexerTypeOK /\ fileCache \in [File -> CacheRow \cup {NoRow}]
  BY DEF StepInv, TypeOK
<1>1. CASE UNCHANGED batchVars
  BY <1>1 DEF batchVars, storeVars, diskVars, FreshInv, WorkFresh, ReadAfter, OnDisk, Cached
<1>2. CASE User
  BY <1>0, <1>2, EditFresh DEF User, DistinctTimes
<1>3. ASSUME NEW p \in Proc, UNCHANGED <<disk, clock, work>>, FewerRows
      PROVE  FreshInv'
  BY <1>3, FewerFresh DEF FreshInv
<1>4. UNCHANGED fileCache => FewerRows
  BY DEF FewerRows, Cached
<1>5. ASSUME NEW p \in Proc, StartPass(p)
      PROVE  FreshInv'
  BY <1>3, <1>4, <1>5 DEF StartPass, storeVars
<1>6. ASSUME NEW p \in Proc, EnterVault(p) \/ CheckExists(p) \/ EndPass(p)
      PROVE  FreshInv'
  BY <1>3, <1>4, <1>6 DEF EnterVault, CheckExists, EndPass, storeVars, diskVars
<1>7. ASSUME NEW p \in Proc, NextFile(p)
      PROVE  FreshInv'
  <2>1. PICK q \in job[p].todo :
          BeginFile(p, <<job[p].vault, q>>, job[p].seen, job[p].model)
    BY <1>7 DEF NextFile
  <2>2. WorkFresh(work'[p])
    BY <1>0, <2>1, BeginFresh
  <2>3. /\ \A q2 \in Proc \ {p} : work'[q2] = work[q2]
        /\ UNCHANGED fileCache
    BY <1>0, <2>1 DEF BeginFile, SetWork, IndexerTypeOK, storeVars
  <2>4. UNCHANGED <<disk, clock>>
    BY <1>7 DEF NextFile, diskVars
  <2> QED
    BY <1>4, <2>2, <2>3, <2>4, FewerFresh
<1>8. ASSUME NEW p \in Proc, ChartFile(p) \/ ChartFileFails(p)
      PROVE  FreshInv'
  BY <1>0, <1>8, IndexFileFresh DEF ChartFile, ChartFileFails, diskVars
<1>9. ASSUME NEW p \in Proc, DredgeFile(p) \/ ExpireFile(p)
      PROVE  FreshInv'
  BY <1>3, <1>4, <1>9 DEF DredgeFile, ExpireFile, BeginPurgeDelete, ReadTags, tables, diskVars
<1>10. ASSUME NEW p \in Proc, DredgeCommit(p)
       PROVE  FreshInv'
  <2>1. pending[p] # NoDelete /\ DeleteTx(pending[p].file, pending[p].tags)
    BY <1>10 DEF DredgeCommit, CommitDelete
  <2>2. pending[p].file \in File
    BY <2>1 DEF TypeOK, PendingDelete
  <2> QED
    BY <1>0, <1>3, <1>10, <2>1, <2>2, DeleteFewer DEF DredgeCommit, diskVars
<1>11. ASSUME NEW p \in Proc, DredgeFails(p) \/ ExpireFails(p) \/ SelectVault(p)
       PROVE  FreshInv'
  BY <1>3, <1>4, <1>11 DEF DredgeFails, ExpireFails, SelectVault, Abandon, tables, diskVars
<1>12. ASSUME NEW p \in Proc, LeaveVault(p) \/ RecountFails(p)
       PROVE  FreshInv'
  <2>1. UNCHANGED <<disk, clock, work>>
    BY <1>12 DEF LeaveVault, RecountFails, CloseVault, diskVars
  <2>2. RecountTx(job[p].vault) \/ UNCHANGED fileCache
    BY <1>12 DEF LeaveVault, RecountFails, tables
  <2> QED
    BY <1>0, <1>3, <1>4, <2>1, <2>2, RecountFewer
<1>13. ASSUME NEW p \in Proc, Crash(p)
       PROVE  FreshInv'
  <2>1. /\ \A q \in Proc \ {p} : work'[q] = work[q]
        /\ work'[p] = NoWork
    BY <1>0, <1>13 DEF Crash, EndFile, SetWork, IndexerTypeOK
  <2>2. UNCHANGED <<disk, clock, fileCache>>
    BY <1>13 DEF Crash, tables, diskVars
  <2> QED
    BY <1>4, <2>1, <2>2, FewerFresh DEF WorkFresh
<1> QED
  BY <1>1, <1>2, <1>5, <1>6, <1>7, <1>8, <1>9, <1>10, <1>11, <1>12, <1>13
     DEF BatchNext, PassStep

(* However edits, passes, crashes and failures interleave, a file whose    *)
(* stamp is the cached one has the cached body: what the fast path skips   *)
(* is indexed as it is.                                                    *)
THEOREM SkippedFilesAreCurrent ==
  ASSUME AnyTime, DistinctTimes
  PROVE  BatchSpec => []NoFalseSkip
<1>1. BatchInit => FreshInv
  BY InitFresh DEF BatchInit, StoreInit, Cached
<1>2. TypeInv /\ StepInv /\ FreshInv /\ [BatchNext]_batchVars => FreshInv'
  BY NextFresh DEF TypeInv
<1>3. FreshInv => NoFalseSkip
  BY FreshIsNoFalseSkip
<1> QED
  BY <1>1, <1>2, <1>3, BatchInvHolds, PTL DEF BatchSpec
-----------------------------------------------------------------------------
(***************************************************************************)
(* What an undisturbed pass leaves behind.  Each of the three invariants   *)
(* below says of a pass that nobody disturbed so far what it has achieved  *)
(* and, for the file it is at, what it knows of it that is still true.     *)
(***************************************************************************)

ChartInv(p) ==
  (InPass(p, "chart") /\ calm[p]) =>
    /\ WorkCurrent(work[p])
    /\ \A f \in DoneWith(p) : Current(f)

DredgeInv(p) ==
  (InPass(p, "dredge") /\ calm[p]) =>
    /\ \A q, r \in job[p].gone : q = r
    /\ \A f \in DoneWith(p) : Cached(f) => OnDisk(f)

(* The links to f that are stored are counted in its row.                  *)
Counted(f) == fileCache[f].backlinks = Cardinality({l \in links : l.target = f})

PathsOnDisk(v) == {q \in Path : disk[<<v, q>>] # NoFile}

Left(p, v) == v \notin job[p].vaults /\ ~ (job[p].inVault /\ job[p].vault = v)

CountsInv(p) ==
  (InPass(p, "chart") /\ calm[p]) =>
    /\ job[p].inVault => /\ job[p].vault \notin job[p].vaults
                         /\ job[p].seen = PathsOnDisk(job[p].vault)
    /\ work[p] # NoWork => work[p].file[1] = job[p].vault
    /\ \A f \in File :
         (Cached(f) /\ Left(p, f[1]) /\ \E q \in Path : OnDisk(<<f[1], q>>)) => Counted(f)

(* Without backlink_scoring no link is stored and no count ever set.       *)
NoScoring ==
  ~ BacklinkScoring =>
    links = {} /\ \A f \in File : Cached(f) => fileCache[f].backlinks = 0

CalmTypeOK == calm \in [Proc -> BOOLEAN]

SettleBase == TypeOK /\ FiniteTables /\ StepInv /\ CalmTypeOK

LEMMA NextCalmTypes ==
  ASSUME CalmTypeOK, [BatchNext]_batchVars
  PROVE  CalmTypeOK'
<1>1. CASE UNCHANGED batchVars
  BY <1>1 DEF batchVars, CalmTypeOK
<1>2. CASE User
  BY <1>2 DEF User, NoneCalm, CalmTypeOK
<1>3. ASSUME NEW p \in Proc,
             \/ StartPass(p) \/ PassStep(p) \/ ChartFileFails(p) \/ DredgeFails(p)
             \/ ExpireFails(p) \/ RecountFails(p) \/ Crash(p)
      PROVE  CalmTypeOK'
  <2>1. \/ UNCHANGED calm \/ OnlyCalm(p)
        \/ calm' = [calm EXCEPT ![p] = TRUE] \/ calm' = [calm EXCEPT ![p] = FALSE]
    BY <1>3 DEF StartPass, PassStep, ChartFileFails, DredgeFails, ExpireFails, RecountFails,
                Crash, EnterVault, NextFile, ChartFile, CheckExists, DredgeFile, DredgeCommit,
                SelectVault, ExpireFile, LeaveVault, EndPass
  <2> QED
    BY <2>1 DEF OnlyCalm, CalmTypeOK
<1> QED
  BY <1>1, <1>2, <1>3 DEF BatchNext

-----------------------------------------------------------------------------
(* Nothing p's pass relies on has changed. *)
Untouched(p) ==
  /\ UNCHANGED <<disk, tables>>
  /\ job'[p] = job[p] /\ work'[p] = work[p] /\ pending'[p] = pending[p]
  /\ calm[p]

(* A step of another process disturbs p's pass, or changes nothing of it.  *)
LEMMA OthersStep ==
  ASSUME SettleBase, NEW p \in Proc, NEW q \in Proc \ {p}, calm'[p],
         \/ StartPass(q) \/ PassStep(q) \/ ChartFileFails(q) \/ DredgeFails(q)
         \/ ExpireFails(q) \/ RecountFails(q) \/ Crash(q)
  PROVE  Untouched(p)
<1>0. /\ calm \in [Proc -> BOOLEAN] /\ CallsTyped
      /\ job \in [Proc -> Job \cup {NoJob}] /\ work \in [Proc -> Work \cup {NoWork}]
  BY DEF SettleBase, CalmTypeOK, TypeOK, CallsTyped, StepInv, JobTypeOK, IndexerTypeOK
<1>1. /\ UNCHANGED disk
      /\ job'[p] = job[p]
  BY <1>0 DEF StartPass, PassStep, ChartFileFails, DredgeFails, ExpireFails, RecountFails,
              Crash, EnterVault, NextFile, ChartFile, CheckExists, DredgeFile, DredgeCommit,
              SelectVault, ExpireFile, LeaveVault, EndPass, CloseVault, SetJob, diskVars
<1>2. work'[p] = work[p]
  <2>1. CASE ChartFile(q) \/ ChartFileFails(q)
    BY <1>0, <2>1, IndexFileWork DEF ChartFile, ChartFileFails, Onward, SetWork, SettleBase, StepInv
  <2>2. CASE NextFile(q)
    BY <1>0, <2>2 DEF NextFile, BeginFile, SetWork
  <2>3. CASE Crash(q)
    BY <1>0, <2>3 DEF Crash, EndFile, SetWork
  <2> QED
    BY <2>1, <2>2, <2>3 DEF StartPass, PassStep, DredgeFails, ExpireFails, RecountFails,
              EnterVault, CheckExists, DredgeFile, DredgeCommit,
              SelectVault, ExpireFile, LeaveVault, EndPass, CloseVault
<1>3. pending'[p] = pending[p]
  <2>1. CASE ChartFile(q) \/ ChartFileFails(q)
    BY <2>1 DEF ChartFile, ChartFileFails, IndexFile, FailFile, StatMtime, StatSize, CheckMtime,
                CheckSize, ReadFile, CheckHash, CommitFile, storeVars
  <2>2. CASE DredgeFile(q) \/ ExpireFile(q)
    BY <1>0, <2>2, ReadTagsOthers DEF DredgeFile, ExpireFile, BeginPurgeDelete
  <2>3. CASE DredgeCommit(q) \/ DredgeFails(q) \/ ExpireFails(q) \/ Crash(q)
    BY <1>0, <2>3 DEF DredgeCommit, DredgeFails, ExpireFails, Crash, CommitDelete, Abandon, CallsTyped
  <2> QED
    BY <2>1, <2>2, <2>3 DEF StartPass, PassStep, RecountFails, EnterVault, CheckExists, NextFile,
              BeginFile, SelectVault, LeaveVault, EndPass, CloseVault, storeVars
<1>4. UNCHANGED tables
  <2>1. CASE ChartFile(q)
    BY <1>0, <2>1 DEF ChartFile, OnlyCalm
  <2>2. CASE DredgeCommit(q)
    BY <1>0, <2>2 DEF DredgeCommit, OnlyCalm
  <2>3. CASE LeaveVault(q)
    BY <1>0, <2>3 DEF LeaveVault, OnlyCalm
  <2> QED
    BY <2>1, <2>2, <2>3 DEF StartPass, PassStep, ChartFileFails, FailFile, DredgeFails, ExpireFails,
              RecountFails, Crash, EnterVault, NextFile, BeginFile, CheckExists, DredgeFile,
              SelectVault, ExpireFile, BeginPurgeDelete, ReadTags, Abandon, EndPass, storeVars, tables
<1>5. calm[p]
  BY <1>0 DEF StartPass, PassStep, ChartFileFails, DredgeFails, ExpireFails, RecountFails,
              Crash, EnterVault, NextFile, ChartFile, CheckExists, DredgeFile, DredgeCommit,
              SelectVault, ExpireFile, LeaveVault, EndPass, OnlyCalm
<1> QED
  BY <1>1, <1>2, <1>3, <1>4, <1>5 DEF Untouched

(* What can happen to a pass that is, and stays, undisturbed.              *)
LEMMA CalmStep ==
  ASSUME SettleBase, [BatchNext]_batchVars, NEW p \in Proc,
         calm'[p], job'[p] # NoJob, job'[p].kind # "expire"
  PROVE  \/ Untouched(p)
         \/ StartPass(p)
         \/ calm[p] /\ \/ EnterVault(p) \/ NextFile(p) \/ ChartFile(p) \/ CheckExists(p)
                       \/ DredgeFile(p) \/ DredgeCommit(p) \/ LeaveVault(p)
<1>0. /\ calm \in [Proc -> BOOLEAN]
      /\ job \in [Proc -> Job \cup {NoJob}]
  BY DEF SettleBase, CalmTypeOK, StepInv, JobTypeOK
<1>1. CASE UNCHANGED batchVars
  BY <1>1 DEF batchVars, storeVars, diskVars, tables, Untouched
<1>2. CASE User
  BY <1>2 DEF User, NoneCalm
<1>3. ASSUME NEW q \in Proc \ {p},
             \/ StartPass(q) \/ PassStep(q) \/ ChartFileFails(q) \/ DredgeFails(q)
             \/ ExpireFails(q) \/ RecountFails(q) \/ Crash(q)
      PROVE  Untouched(p)
  BY <1>3, OthersStep
<1>4. CASE PassStep(p)
  <2>1. CASE SelectVault(p)
    <3>1. job[p] \in Job /\ job[p].kind = "expire"
      BY <1>0, <2>1 DEF SelectVault, InPass
    <3>2. \E v \in job[p].vaults : job'[p] = [job[p] EXCEPT
            !.inVault = TRUE, !.vault = v, !.vaults = @ \ {v}]
      BY <1>0, <2>1 DEF SelectVault, SetJob
    <3>3. job'[p].kind = "expire"
      BY <3>1, <3>2 DEF Job
    <3> QED
      BY <3>3
  <2>2. CASE ExpireFile(p)
    BY <1>0, <2>2 DEF ExpireFile, Expiring, InPass
  <2>3. CASE EndPass(p)
    BY <1>0, <2>3 DEF EndPass, SetJob
  <2>4. CASE EnterVault(p) \/ NextFile(p) \/ ChartFile(p) \/ CheckExists(p)
             \/ DredgeFile(p) \/ DredgeCommit(p) \/ LeaveVault(p)
    <3>1. UNCHANGED calm \/ OnlyCalm(p)
      BY <2>4 DEF EnterVault, NextFile, ChartFile, CheckExists, DredgeFile, DredgeCommit, LeaveVault
    <3>2. calm[p]
      BY <1>0, <3>1 DEF OnlyCalm
    <3> QED
      BY <2>4, <3>2
  <2> QED
    BY <1>4, <2>1, <2>2, <2>3, <2>4 DEF PassStep
<1>5. CASE ChartFileFails(p) \/ DredgeFails(p) \/ RecountFails(p)
  BY <1>0, <1>5 DEF ChartFileFails, DredgeFails, RecountFails
<1>6. CASE ExpireFails(p) \/ Crash(p)
  BY <1>0, <1>6 DEF ExpireFails, Crash, SetJob
<1>7. ASSUME NEW q \in Proc,
             \/ StartPass(q) \/ PassStep(q) \/ ChartFileFails(q) \/ DredgeFails(q)
             \/ ExpireFails(q) \/ RecountFails(q) \/ Crash(q)
      PROVE  \/ Untouched(p)
             \/ StartPass(p)
             \/ calm[p] /\ \/ EnterVault(p) \/ NextFile(p) \/ ChartFile(p) \/ CheckExists(p)
                           \/ DredgeFile(p) \/ DredgeCommit(p) \/ LeaveVault(p)
  BY <1>3, <1>4, <1>5, <1>6, <1>7
<1> QED
  BY <1>1, <1>2, <1>7 DEF BatchNext

-----------------------------------------------------------------------------
LEMMA FileShape ==
  ASSUME NEW f \in File
  PROVE  f[1] \in Vault /\ f[2] \in Path /\ f = <<f[1], f[2]>>
BY DEF File

LEMMA StartedPass ==
  ASSUME SettleBase, NEW p \in Proc, StartPass(p)
  PROVE  /\ job'[p] # NoJob => job'[p].gone = {} /\ job'[p].vaults = Vault
         /\ job'[p] # NoJob => ~ job'[p].inVault
         /\ work'[p] = NoWork
         /\ UNCHANGED storeVars /\ UNCHANGED disk
<1>1. job \in [Proc -> Job \cup {NoJob}] /\ Resting(p)
  BY DEF SettleBase, StepInv, JobTypeOK, PassInv, StartPass
<1>2. PICK kind \in PassKind, m \in ModelId, v \in Vault,
           cutoff \in UNION {Cutoffs(k) : k \in PassKind} :
        SetJob(p, [kind |-> kind, model |-> m, inVault |-> FALSE,
                   cutoff |-> cutoff, vaults |-> Vault, vault |-> v,
                   todo |-> {}, gone |-> {}, seen |-> {}])
  BY DEF StartPass
<1> QED
  BY <1>1, <1>2 DEF SetJob, StartPass, Resting

(* The pass enters vault v with its listing. *)
LEMMA EnteredVault ==
  ASSUME SettleBase, NEW p \in Proc, EnterVault(p)
  PROVE  \E v \in job[p].vaults :
           /\ job[p] # NoJob /\ job[p] \in Job /\ job'[p] \in Job /\ ~ job[p].inVault
           /\ job'[p] # NoJob /\ job'[p].kind = job[p].kind /\ job'[p].inVault
           /\ job'[p].vault = v /\ job'[p].vaults = job[p].vaults \ {v}
           /\ job'[p].todo = Listing(job[p].kind, v) /\ job'[p].gone = job[p].gone
           /\ job'[p].kind = "chart" => job'[p].seen = Listing("chart", v)
           /\ Resting(p) /\ UNCHANGED <<storeVars, diskVars, work>>
<1> DEFINE old == job[p]
<1>1. /\ old # NoJob /\ old \in Job /\ ~ old.inVault /\ Resting(p)
      /\ job \in [Proc -> Job \cup {NoJob}] /\ UNCHANGED <<storeVars, diskVars, work>>
  BY DEF EnterVault, InPass, SettleBase, StepInv, JobTypeOK, PassInv
<1>2. PICK v \in old.vaults : SetJob(p, [old EXCEPT
          !.inVault = TRUE, !.vault = v, !.vaults = @ \ {v},
          !.todo = Listing(old.kind, v),
          !.seen = IF old.kind = "chart" THEN Listing(old.kind, v) ELSE {}])
  BY DEF EnterVault
<1> DEFINE j == [old EXCEPT
          !.inVault = TRUE, !.vault = v, !.vaults = @ \ {v},
          !.todo = Listing(old.kind, v),
          !.seen = IF old.kind = "chart" THEN Listing(old.kind, v) ELSE {}]
<1>3. Listing(old.kind, v) \in SUBSET Path
  BY DEF Listing
<1>4. /\ j \in Job /\ j.inVault = TRUE /\ j.kind = old.kind /\ j.vault = v
      /\ j.vaults = old.vaults \ {v} /\ j.gone = old.gone
      /\ j.todo = Listing(old.kind, v)
      /\ j.kind = "chart" => j.seen = Listing("chart", v)
  BY <1>1, <1>3 DEF Job
<1>5. job'[p] = j
  BY <1>1, <1>2 DEF SetJob
<1> HIDE DEF j
<1>6. job'[p] # NoJob
  BY <1>4, <1>5, NotAJob
<1> QED
  BY <1>1, <1>4, <1>5, <1>6

LEMMA LeftVault ==
  ASSUME SettleBase, NEW p \in Proc, LeaveVault(p)
  PROVE  /\ job[p] # NoJob /\ job[p] \in Job /\ job[p].inVault
         /\ job[p].todo = {} /\ job[p].gone = {} /\ Resting(p)
         /\ job'[p] = [job[p] EXCEPT !.inVault = FALSE, !.seen = {}]
         /\ job'[p].kind = job[p].kind /\ ~ job'[p].inVault /\ job'[p].gone = {}
         /\ job'[p].vaults = job[p].vaults /\ job'[p] # NoJob
         /\ UNCHANGED <<pending, disk, work>>
         /\ \A f \in File : (Cached(f)' = Cached(f)) /\
              (Cached(f) => fileCache'[f].body = fileCache[f].body)
<1> DEFINE old == job[p]
           j == [old EXCEPT !.inVault = FALSE, !.seen = {}]
<1>1. /\ old # NoJob /\ old \in Job /\ old.inVault /\ Resting(p)
      /\ old.todo = {} /\ old.gone = {}
      /\ job \in [Proc -> Job \cup {NoJob}] /\ UNCHANGED <<pending, diskVars, work>>
      /\ SetJob(p, j)
  BY DEF LeaveVault, CloseVault, SettleBase, StepInv, JobTypeOK
<1>2. /\ j \in Job /\ j.kind = old.kind /\ ~ j.inVault /\ j.vaults = old.vaults /\ j.gone = {}
  BY <1>1 DEF Job
<1>3. job'[p] = j
  BY <1>1 DEF SetJob
<1>4. ASSUME NEW f \in File
      PROVE  /\ Cached(f)' = Cached(f)
             /\ Cached(f) => fileCache'[f].body = fileCache[f].body
  <2>1. CASE RecountTx(old.vault)
    BY <2>1, RecountRows DEF SettleBase, Cached
  <2>2. CASE UNCHANGED tables
    BY <2>2 DEF tables, Cached
  <2> QED
    BY <2>1, <2>2 DEF LeaveVault
<1> HIDE DEF j
<1> QED
  BY <1>1, <1>2, <1>3, <1>4, NotAJob DEF j, diskVars

-----------------------------------------------------------------------------
LEMMA NextDredge ==
  ASSUME SettleBase, NEW p \in Proc, DredgeInv(p), [BatchNext]_batchVars
  PROVE  DredgeInv(p)'
<1> SUFFICES ASSUME job'[p] # NoJob, job'[p].kind = "dredge", calm'[p]
             PROVE  (/\ \A q, r \in job[p].gone : q = r
                     /\ \A f \in DoneWith(p) : Cached(f) => OnDisk(f))'
  BY DEF DredgeInv, InPass
<1> DEFINE old == job[p]
           new == job'[p]
<1>0. /\ job \in [Proc -> Job \cup {NoJob}] /\ CallsTyped
      /\ fileCache \in [File -> CacheRow \cup {NoRow}]
  BY DEF SettleBase, StepInv, JobTypeOK, TypeOK, CallsTyped
<1>1. CASE Untouched(p)
  BY <1>1 DEF Untouched, DredgeInv, InPass, DoneWith, Cached, OnDisk, tables
<1>2. CASE StartPass(p)
  BY <1>2, StartedPass, FileShape DEF DoneWith
<1>3. CASE calm[p] /\ EnterVault(p)
  <2>1. PICK v \in old.vaults :
           /\ old # NoJob /\ ~ old.inVault /\ old.kind = new.kind /\ new.inVault
           /\ new.vault = v /\ new.vaults = old.vaults \ {v}
           /\ new.todo = Listing(old.kind, v) /\ new.gone = old.gone
           /\ UNCHANGED <<storeVars, diskVars, work>>
    BY <1>3, EnteredVault
  <2>2. ASSUME NEW f \in DoneWith(p)', Cached(f)'
        PROVE  OnDisk(f)'
    <3>1. /\ f \in File /\ f[1] \notin new.vaults
          /\ f[1] = v => f[2] \notin new.todo
          /\ work[p] # NoWork => work[p].file # f
          /\ pending[p] # NoDelete => pending[p].file # f
          /\ Cached(f)
      BY <2>1, <2>2 DEF DoneWith, storeVars, Cached
    <3>2. CASE f[1] = v
      BY <2>1, <3>1, <3>2, FileShape DEF Listing
    <3>3. CASE f[1] # v
      <4>1. f \in DoneWith(p)
        BY <2>1, <3>1, <3>3 DEF DoneWith
      <4> QED
        BY <1>3, <2>1, <3>1, <4>1 DEF DredgeInv, InPass, OnDisk, diskVars
    <3> QED
      BY <3>2, <3>3
  <2> QED
    BY <1>3, <2>1, <2>2 DEF DredgeInv, InPass
<1>4. CASE calm[p] /\ CheckExists(p)
  <2>1. /\ old # NoJob /\ old \in Job /\ old.inVault /\ old.gone = {} /\ old.kind = "dredge"
        /\ UNCHANGED <<storeVars, diskVars, work>>
    BY <1>0, <1>4 DEF CheckExists, Dredging, InPass
  <2>2. PICK q \in old.todo : new = [old EXCEPT
            !.todo = @ \ {q},
            !.gone = IF OnDisk(<<old.vault, q>>) THEN {} ELSE {q}]
    BY <1>0, <1>4 DEF CheckExists, SetJob
  <2>3. /\ new.todo = old.todo \ {q} /\ new.vaults = old.vaults /\ new.vault = old.vault
        /\ new.inVault /\ new.gone = IF OnDisk(<<old.vault, q>>) THEN {} ELSE {q}
    BY <2>1, <2>2 DEF Job
  <2>4. ASSUME NEW f \in DoneWith(p)', Cached(f)'
        PROVE  OnDisk(f)'
    <3>1. /\ f \in File /\ f[1] \notin old.vaults
          /\ f[1] = old.vault => f[2] \notin (old.todo \ {q}) \cup new.gone
          /\ work[p] # NoWork => work[p].file # f
          /\ pending[p] # NoDelete => pending[p].file # f
          /\ Cached(f)
      BY <2>1, <2>3, <2>4 DEF DoneWith, storeVars, Cached
    <3>2. CASE f = <<old.vault, q>>
      BY <2>1, <2>3, <3>1, <3>2 DEF OnDisk, diskVars
    <3>3. CASE f # <<old.vault, q>>
      <4>1. f \in DoneWith(p)
        BY <2>1, <3>1, <3>3, FileShape DEF DoneWith
      <4> QED
        BY <1>4, <2>1, <3>1, <4>1 DEF DredgeInv, InPass, OnDisk, diskVars
    <3> QED
      BY <3>2, <3>3
  <2> QED
    BY <2>3, <2>4
<1>5. CASE calm[p] /\ DredgeFile(p)
  <2>1. /\ old # NoJob /\ old \in Job /\ old.inVault /\ old.kind = "dredge"
        /\ UNCHANGED <<diskVars, work>>
    BY <1>0, <1>5 DEF DredgeFile, Dredging, InPass
  <2>2. PICK q \in old.gone :
          /\ ReadTags(p, <<old.vault, q>>)
          /\ new = [old EXCEPT !.gone = {}, !.seen = @ \cup {q}]
    BY <1>0, <1>5 DEF DredgeFile, SetJob
  <2>3. /\ new.todo = old.todo /\ new.vaults = old.vaults /\ new.vault = old.vault
        /\ new.inVault /\ new.gone = {} /\ old.gone = {q}
    BY <1>5, <2>1, <2>2 DEF Job, DredgeInv, InPass
  <2>4. /\ pending[p] = NoDelete /\ UNCHANGED fileCache
        /\ pending'[p] # NoDelete /\ pending'[p].file = <<old.vault, q>>
    <3>1. <<old.vault, q>> \in File
      BY <2>1, <2>2 DEF Job, File
    <3>2. IsFiniteSet(RowsOf(<<old.vault, q>>))
      BY FS_Subset DEF SettleBase, FiniteTables, RowsOf
    <3>3. [file |-> <<old.vault, q>>, tags |-> TagUse(RowsOf(<<old.vault, q>>))] \in PendingDelete
      BY <3>1, <3>2, TallyType DEF PendingDelete
    <3> QED
      BY <1>0, <2>2, <3>3, Sentinels DEF ReadTags, CallsTyped, tables
  <2>5. ASSUME NEW f \in DoneWith(p)', Cached(f)'
        PROVE  OnDisk(f)'
    <3>1. /\ f \in File /\ f[1] \notin old.vaults
          /\ f[1] = old.vault => f[2] \notin old.todo
          /\ work[p] # NoWork => work[p].file # f
          /\ f # <<old.vault, q>>
          /\ Cached(f)
      BY <2>1, <2>3, <2>4, <2>5 DEF DoneWith, Cached
    <3>2. f \in DoneWith(p)
      BY <2>3, <2>4, <3>1, FileShape DEF DoneWith
    <3> QED
      BY <1>5, <2>1, <3>1, <3>2 DEF DredgeInv, InPass, OnDisk, diskVars
  <2> QED
    BY <2>3, <2>5
<1>6. CASE calm[p] /\ DredgeCommit(p)
  <2>1. /\ UNCHANGED <<diskVars, work, job>> /\ pending[p] # NoDelete
        /\ fileCache' = [fileCache EXCEPT ![pending[p].file] = NoRow]
    BY <1>6 DEF DredgeCommit, CommitDelete, DeleteTx
  <2>2. ASSUME NEW f \in DoneWith(p)', Cached(f)'
        PROVE  OnDisk(f)'
    <3>1. f \in File /\ f # pending[p].file /\ Cached(f)
      BY <1>0, <2>1, <2>2 DEF Cached, DoneWith
    <3>2. f \in DoneWith(p)
      BY <2>1, <2>2, <3>1 DEF DoneWith
    <3> QED
      BY <1>6, <2>1, <3>1, <3>2 DEF DredgeInv, InPass, OnDisk, diskVars
  <2> QED
    BY <1>6, <2>1, <2>2 DEF DredgeInv, InPass
<1>7. CASE calm[p] /\ LeaveVault(p)
  <2>1. /\ old # NoJob /\ old.todo = {} /\ old.gone = {} /\ new.kind = old.kind
        /\ ~ new.inVault /\ new.gone = {} /\ new.vaults = old.vaults
        /\ UNCHANGED <<pending, disk, work>>
        /\ \A f \in File : Cached(f)' = Cached(f)
    BY <1>7, LeftVault
  <2>2. \A f \in DoneWith(p)' : f \in DoneWith(p)
    BY <2>1 DEF DoneWith
  <2> QED
    BY <1>7, <2>1, <2>2 DEF DredgeInv, InPass, OnDisk, DoneWith
<1>8. CASE NextFile(p) \/ ChartFile(p)
  <2>1. old # NoJob /\ old.kind = "chart"
    <3>1. ChartFile(p) => work[p] # NoWork
      BY DEF ChartFile, IndexFile, StatMtime, StatSize, CheckMtime, CheckSize, ReadFile,
             CheckHash, CommitFile, At
    <3> QED
      BY <1>8, <3>1 DEF NextFile, Charting, InPass, SettleBase, StepInv, PassInv, Resting
  <2>2. new = old \/ \E q \in old.todo : new = [old EXCEPT !.todo = @ \ {q}]
    BY <1>0, <1>8 DEF NextFile, ChartFile, SetJob
  <2> QED
    BY <1>0, <2>1, <2>2 DEF Job
<1> QED
  BY <1>1, <1>2, <1>3, <1>4, <1>5, <1>6, <1>7, <1>8, CalmStep

-----------------------------------------------------------------------------
(* The pass takes up the next file of its listing. *)
LEMMA TookFile ==
  ASSUME SettleBase, NEW p \in Proc, NextFile(p)
  PROVE  \E q \in job[p].todo :
           /\ job[p] # NoJob /\ job[p] \in Job /\ job[p].kind = "chart" /\ job[p].inVault
           /\ job'[p] # NoJob /\ job'[p].kind = "chart" /\ job'[p].inVault
           /\ job'[p].vault = job[p].vault /\ job'[p].vaults = job[p].vaults
           /\ job'[p].seen = job[p].seen /\ job'[p].gone = job[p].gone
           /\ job'[p].todo = job[p].todo \ {q}
           /\ work[p] = NoWork /\ work'[p] # NoWork /\ work'[p].stage = "mtime"
           /\ work'[p].file = <<job[p].vault, q>> /\ <<job[p].vault, q>> \in File
           /\ UNCHANGED <<storeVars, diskVars>>
<1> DEFINE old == job[p]
<1>1. /\ old # NoJob /\ old \in Job /\ old.kind = "chart" /\ old.inVault
      /\ job \in [Proc -> Job \cup {NoJob}] /\ work \in [Proc -> Work \cup {NoWork}]
      /\ UNCHANGED diskVars
  BY DEF NextFile, Charting, InPass, SettleBase, StepInv, JobTypeOK, IndexerTypeOK
<1>2. PICK q \in old.todo :
        /\ BeginFile(p, <<old.vault, q>>, old.seen, old.model)
        /\ SetJob(p, [old EXCEPT !.todo = @ \ {q}])
  BY DEF NextFile
<1> DEFINE j == [old EXCEPT !.todo = @ \ {q}]
           w == [stage |-> "mtime", file |-> <<old.vault, q>>, known |-> old.seen,
                 model |-> old.model, stamp |-> NoStamp, body |-> NoBody]
<1>3. /\ j \in Job /\ j.kind = "chart" /\ j.inVault /\ j.vault = old.vault
      /\ j.vaults = old.vaults /\ j.seen = old.seen /\ j.gone = old.gone
      /\ j.todo = old.todo \ {q}
  BY <1>1 DEF Job
<1>4. <<old.vault, q>> \in File /\ old.seen \in SUBSET Path /\ old.model \in ModelId
  BY <1>1, <1>2 DEF Job, File
<1>5. w \in Work /\ w.stage = "mtime" /\ w.file = <<old.vault, q>>
  BY <1>4, StampFacts DEF Work, Stages
<1>6. job'[p] = j /\ work'[p] = w /\ work[p] = NoWork /\ UNCHANGED storeVars
  BY <1>1, <1>2 DEF SetJob, SetWork, BeginFile
<1> HIDE DEF j, w
<1>7. job'[p] # NoJob /\ work'[p] # NoWork
  BY <1>3, <1>5, <1>6, NotAJob, Sentinels
<1> QED
  BY <1>1, <1>3, <1>4, <1>5, <1>6, <1>7

(* A call of index_file_with_embedder is made by a chart in a vault.       *)
LEMMA InFile ==
  ASSUME SettleBase, NEW p \in Proc, ChartFile(p)
  PROVE  /\ job[p] # NoJob /\ job[p].kind = "chart" /\ job[p].inVault /\ Idle(p)
         /\ work[p] # NoWork /\ work[p] \in Work /\ work[p].file \in File
         /\ UNCHANGED <<diskVars, job, pending>> /\ IndexFile(p)
<1>1. work[p] # NoWork /\ UNCHANGED <<diskVars, job>> /\ IndexFile(p)
  BY DEF ChartFile, IndexFile, StatMtime, StatSize, CheckMtime, CheckSize, ReadFile,
         CheckHash, CommitFile, At
<1>2. work[p] \in Work /\ work[p].file \in File
  BY <1>1 DEF SettleBase, StepInv, IndexerTypeOK, Work
<1>3. UNCHANGED pending
  BY <1>1 DEF IndexFile, StatMtime, StatSize, CheckMtime, CheckSize, ReadFile,
         CheckHash, CommitFile, storeVars
<1> QED
  BY <1>1, <1>2, <1>3 DEF SettleBase, StepInv, PassInv, Resting

LEMMA NextChart ==
  ASSUME SettleBase, NoFalseSkip, NEW p \in Proc, ChartInv(p), [BatchNext]_batchVars
  PROVE  ChartInv(p)'
<1> SUFFICES ASSUME job'[p] # NoJob, job'[p].kind = "chart", calm'[p]
             PROVE  (/\ WorkCurrent(work[p])
                     /\ \A f \in DoneWith(p) : Current(f))'
  BY DEF ChartInv, InPass
<1> DEFINE old == job[p]
           new == job'[p]
<1>0. /\ job \in [Proc -> Job \cup {NoJob}] /\ CallsTyped
      /\ fileCache \in [File -> CacheRow \cup {NoRow}]
  BY DEF SettleBase, StepInv, JobTypeOK, TypeOK, CallsTyped
<1>1. CASE Untouched(p)
  <2>1. WorkCurrent(work[p]) /\ \A f \in DoneWith(p) : Current(f)
    BY <1>1 DEF Untouched, ChartInv, InPass
  <2>2. WorkCurrent(work[p])'
    BY <1>1, <2>1 DEF Untouched, OnDisk, Cached, tables, WorkCurrent, Current, MtimeMatches
  <2>3. DoneWith(p)' = DoneWith(p)
    BY <1>1 DEF Untouched, DoneWith
  <2>4. \A f \in DoneWith(p)' : Current(f)'
    BY <1>1, <2>1, <2>3 DEF Untouched, OnDisk, Cached, tables, Current
  <2> QED
    BY <2>2, <2>4
<1>2. CASE StartPass(p)
  BY <1>2, StartedPass, FileShape DEF DoneWith, WorkCurrent
<1>3. CASE calm[p] /\ EnterVault(p)
  <2>1. PICK v \in old.vaults :
           /\ old # NoJob /\ ~ old.inVault /\ old.kind = new.kind /\ new.inVault
           /\ new.vault = v /\ new.vaults = old.vaults \ {v}
           /\ new.todo = Listing(old.kind, v) /\ new.gone = old.gone
           /\ Resting(p) /\ UNCHANGED <<storeVars, diskVars, work>>
    BY <1>3, EnteredVault
  <2>2. ASSUME NEW f \in DoneWith(p)'
        PROVE  Current(f)'
    <3>1. /\ f \in File /\ f[1] \notin new.vaults
          /\ f[1] = v => f[2] \notin new.todo
      BY <2>1, <2>2 DEF DoneWith
    <3>2. CASE f[1] = v
      BY <2>1, <3>1, <3>2, FileShape DEF Listing, Current, OnDisk, diskVars
    <3>3. CASE f[1] # v
      <4>1. f \in DoneWith(p)
        BY <2>1, <3>1, <3>3 DEF DoneWith, Resting, Idle
      <4> QED
        BY <1>3, <2>1, <4>1 DEF ChartInv, InPass, Current, Cached, OnDisk, diskVars, storeVars
    <3> QED
      BY <3>2, <3>3
  <2> QED
    BY <2>1, <2>2 DEF WorkCurrent, Resting
<1>4. CASE calm[p] /\ NextFile(p)
  <2>1. PICK q \in old.todo :
          /\ old # NoJob /\ old.kind = "chart" /\ old.inVault
          /\ new.vault = old.vault /\ new.vaults = old.vaults /\ new.inVault
          /\ new.todo = old.todo \ {q} /\ new.gone = old.gone
          /\ work[p] = NoWork /\ work'[p] # NoWork /\ work'[p].stage = "mtime"
          /\ work'[p].file = <<old.vault, q>>
          /\ UNCHANGED <<storeVars, diskVars>>
    BY <1>4, TookFile
  <2>2. ASSUME NEW f \in DoneWith(p)'
        PROVE  Current(f)'
    <3>1. f \in DoneWith(p)
      BY <2>1, <2>2, FileShape DEF DoneWith, storeVars
    <3> QED
      BY <1>4, <2>1, <3>1 DEF ChartInv, InPass, Current, Cached, OnDisk, diskVars, storeVars
  <2> QED
    BY <2>1, <2>2 DEF WorkCurrent
<1>5. CASE calm[p] /\ ChartFile(p)
  <2>1. /\ old # NoJob /\ old.kind = "chart" /\ Idle(p)
        /\ work[p] # NoWork /\ work[p].file \in File
        /\ UNCHANGED <<diskVars, job, pending>> /\ IndexFile(p)
    BY <1>5, InFile
  <2>2. PICK g \in File : g = work[p].file
    BY <2>1
  <2>3. /\ WorkCurrent(work[p]) /\ SkipsRightly(g)
    BY <1>5, <2>1 DEF ChartInv, InPass, NoFalseSkip, SkipsRightly
  <2>4. /\ WorkCurrent(work[p])'
        /\ work'[p] = NoWork => Current(g)'
        /\ work'[p] # NoWork => work'[p].file = g
        /\ \A f \in File \ {g} : fileCache'[f] = fileCache[f]
    BY <1>0, <2>1, <2>2, <2>3, IndexFileCurrent DEF SettleBase, StepInv, diskVars
  <2>5. ASSUME NEW f \in DoneWith(p)'
        PROVE  Current(f)'
    <3>1. CASE f = g
      BY <2>4, <2>5, <3>1 DEF DoneWith
    <3>2. CASE f # g
      <4>1. f \in DoneWith(p) /\ f \in File
        BY <2>1, <2>2, <2>5, <3>2 DEF DoneWith
      <4> QED
        BY <1>5, <2>1, <2>4, <3>2, <4>1 DEF ChartInv, InPass, Current, Cached, OnDisk, diskVars
    <3> QED
      BY <3>1, <3>2
  <2> QED
    BY <2>4, <2>5
<1>6. CASE calm[p] /\ LeaveVault(p)
  <2>1. /\ old # NoJob /\ old.todo = {} /\ old.gone = {} /\ new.kind = old.kind
        /\ ~ new.inVault /\ new.vaults = old.vaults /\ Resting(p)
        /\ UNCHANGED <<pending, disk, work>>
        /\ \A f \in File : (Cached(f)' = Cached(f)) /\
             (Cached(f) => fileCache'[f].body = fileCache[f].body)
    BY <1>6, LeftVault
  <2>2. \A f \in DoneWith(p)' : f \in DoneWith(p) /\ f \in File
    BY <2>1 DEF DoneWith
  <2>3. \A f \in DoneWith(p)' : Current(f)'
    BY <1>6, <2>1, <2>2 DEF ChartInv, InPass, Current, OnDisk
  <2> QED
    BY <2>1, <2>3 DEF WorkCurrent, Resting
<1>7. CASE CheckExists(p) \/ DredgeFile(p) \/ DredgeCommit(p)
  <2>1. old # NoJob /\ old \in Job /\ old.kind # "chart"
    BY <1>0, <1>7 DEF CheckExists, DredgeFile, DredgeCommit, Dredging, Expiring, InPass
  <2>2. \/ new = old
        \/ \E q \in old.todo : \E gone : new = [old EXCEPT !.todo = @ \ {q}, !.gone = gone]
        \/ \E q \in old.gone : new = [old EXCEPT !.gone = {}, !.seen = @ \cup {q}]
    BY <1>0, <1>7 DEF CheckExists, DredgeFile, DredgeCommit, SetJob
  <2> QED
    BY <2>1, <2>2 DEF Job
<1> QED
  BY <1>1, <1>2, <1>3, <1>4, <1>5, <1>6, <1>7, CalmStep

-----------------------------------------------------------------------------
(* A reindex leaves the links to the notes of other vaults alone.          *)
LEMMA ReindexElsewhere ==
  ASSUME SettleBase, LinkSourcesCached, NEW p \in Proc, NEW g \in File, g = work[p].file,
         IndexFile(p), NEW f \in File, f[1] # g[1]
  PROVE  /\ fileCache'[f] = fileCache[f]
         /\ {l \in links' : l.target = f} = {l \in links : l.target = f}
<1>1. CASE CommitFile(p)
  <2> DEFINE w == work[p]
  <2>1. /\ fileCache' = [fileCache EXCEPT ![g] =
             [body |-> w.body, stamp |-> w.stamp, model |-> w.model,
              backlinks |-> IF Cached(g) THEN fileCache[g].backlinks ELSE 0]]
        /\ links' = {l \in links : l.source # g} \cup
                    {[source |-> g, target |-> h] : h \in Resolved(w)}
    BY <1>1 DEF CommitFile, ReindexTx
  <2>2. \A h \in Resolved(w) : h[1] = g[1]
    BY DEF Resolved
  <2>3. \A l \in links : l.source[1] = l.target[1]
    BY DEF LinkSourcesCached
  <2>4. fileCache'[f] = fileCache[f]
    BY <2>1 DEF SettleBase, TypeOK
  <2> HIDE DEF w
  <2>5. ASSUME NEW l, l.target = f
        PROVE  l \in links' <=> l \in links
    BY <2>1, <2>2, <2>3, <2>5
  <2> QED
    BY <2>4, <2>5
<1>2. CASE ~ CommitFile(p)
  BY <1>2 DEF IndexFile, StatMtime, StatSize, CheckMtime, CheckSize, ReadFile, CheckHash, storeVars
<1> QED
  BY <1>1, <1>2

LEMMA NextCounts ==
  ASSUME SettleBase, LinkSourcesCached, NoScoring, NEW p \in Proc, CountsInv(p),
         [BatchNext]_batchVars
  PROVE  CountsInv(p)'
<1> DEFINE Noted(f) == \E q \in Path : OnDisk(<<f[1], q>>)
           old == job[p]
           new == job'[p]
<1> SUFFICES ASSUME new # NoJob, new.kind = "chart", calm'[p]
             PROVE  /\ new.inVault => /\ new.vault \notin new.vaults
                                      /\ new.seen = {q \in Path : disk'[<<new.vault, q>>] # NoFile}
                    /\ work'[p] # NoWork => work'[p].file[1] = new.vault
                    /\ \A f \in File :
                         (Cached(f)' /\ Left(p, f[1])' /\ Noted(f)') => Counted(f)'
  BY DEF CountsInv, InPass, PathsOnDisk
<1>0. /\ job \in [Proc -> Job \cup {NoJob}]
      /\ fileCache \in [File -> CacheRow \cup {NoRow}]
  BY DEF SettleBase, StepInv, JobTypeOK, TypeOK
<1>1. CASE Untouched(p)
  BY <1>1 DEF Untouched, CountsInv, InPass, Cached, OnDisk, tables, PathsOnDisk, Left, Counted
<1>2. CASE StartPass(p)
  BY <1>2, StartedPass, FileShape DEF Left
<1>3. CASE calm[p] /\ EnterVault(p)
  <2>1. PICK v \in old.vaults :
           /\ old # NoJob /\ ~ old.inVault /\ old.kind = new.kind /\ new.inVault
           /\ new.vault = v /\ new.vaults = old.vaults \ {v}
           /\ new.seen = Listing("chart", v)
           /\ Resting(p) /\ UNCHANGED <<storeVars, diskVars, work>>
    BY <1>3, EnteredVault
  <2>2. new.seen = {q \in Path : disk'[<<v, q>>] # NoFile}
    BY <2>1 DEF Listing, OnDisk, diskVars
  <2>3. ASSUME NEW f \in File, Cached(f)', Left(p, f[1])', Noted(f)'
        PROVE  Counted(f)'
    <3>1. Cached(f) /\ Left(p, f[1]) /\ Noted(f)
      BY <2>1, <2>3 DEF Cached, Left, OnDisk, diskVars, storeVars
    <3> QED
      BY <1>3, <2>1, <3>1 DEF CountsInv, InPass, Counted, storeVars
  <2> QED
    BY <2>1, <2>2, <2>3 DEF Resting
<1>4. CASE calm[p] /\ NextFile(p)
  <2>1. PICK q \in old.todo :
          /\ old # NoJob /\ old.kind = "chart" /\ old.inVault
          /\ new.vault = old.vault /\ new.vaults = old.vaults /\ new.inVault
          /\ new.seen = old.seen
          /\ work'[p] # NoWork /\ work'[p].file = <<old.vault, q>>
          /\ UNCHANGED <<storeVars, diskVars>>
    BY <1>4, TookFile
  <2>2. /\ old.vault \notin old.vaults /\ old.seen = PathsOnDisk(old.vault)
        /\ \A f \in File : (Cached(f) /\ Left(p, f[1]) /\ Noted(f)) => Counted(f)
    BY <1>4, <2>1 DEF CountsInv, InPass
  <2>4. new.seen = {r \in Path : disk'[<<new.vault, r>>] # NoFile}
    BY <2>1, <2>2 DEF PathsOnDisk, diskVars
  <2>5. \A f \in File : (Cached(f)' /\ Left(p, f[1])' /\ Noted(f)') => Counted(f)'
    BY <2>1, <2>2 DEF Cached, Left, OnDisk, diskVars, storeVars, Counted
  <2> QED
    BY <2>1, <2>2, <2>4, <2>5
<1>5. CASE calm[p] /\ ChartFile(p)
  <2>1. /\ old # NoJob /\ old.kind = "chart" /\ old.inVault /\ new = old
        /\ work[p] # NoWork /\ work[p].file \in File
        /\ UNCHANGED diskVars /\ IndexFile(p)
    BY <1>5, InFile
  <2>2. PICK g \in File : g = work[p].file
    BY <2>1
  <2>3. /\ old.vault \notin old.vaults /\ old.seen = PathsOnDisk(old.vault)
        /\ \A f \in File : (Cached(f) /\ Left(p, f[1]) /\ Noted(f)) => Counted(f)
        /\ g[1] = old.vault
    BY <1>5, <2>1, <2>2 DEF CountsInv, InPass
  <2>4. new.seen = {q \in Path : disk'[<<new.vault, q>>] # NoFile}
    BY <2>1, <2>3 DEF PathsOnDisk, diskVars
  <2>5. work'[p] # NoWork => work'[p].file = g
    <3>1. work \in [Proc -> Work \cup {NoWork}] /\ work[p] \in Work
      BY <1>5, InFile DEF SettleBase, StepInv, IndexerTypeOK
    <3> QED
      BY <2>1, <2>2, <3>1 DEF IndexFile, StatMtime, StatSize, CheckMtime, CheckSize, ReadFile,
         CheckHash, CommitFile, SetWork, EndFile, Work
  <2>6. ASSUME NEW f \in File, Cached(f)', Left(p, f[1])', Noted(f)'
        PROVE  Counted(f)'
    <3>1. Left(p, f[1]) /\ Noted(f) /\ f[1] # g[1]
      BY <2>1, <2>3, <2>6 DEF Left, OnDisk, diskVars
    <3>2. /\ fileCache'[f] = fileCache[f]
          /\ {l \in links' : l.target = f} = {l \in links : l.target = f}
      BY <2>1, <2>2, <3>1, ReindexElsewhere
    <3> QED
      BY <2>3, <2>6, <3>1, <3>2 DEF Cached, Counted
  <2> QED
    BY <2>1, <2>3, <2>4, <2>5, <2>6
<1>6. CASE calm[p] /\ LeaveVault(p)
  <2>1. /\ old # NoJob /\ old.kind = "chart" /\ old.inVault
        /\ ~ new.inVault /\ new.vaults = old.vaults /\ Resting(p)
        /\ UNCHANGED <<disk, work>>
        /\ \A f \in File : Cached(f)' = Cached(f)
    BY <1>6, LeftVault
  <2>2. /\ old.seen = PathsOnDisk(old.vault)
        /\ \A f \in File : (Cached(f) /\ Left(p, f[1]) /\ Noted(f)) => Counted(f)
    BY <1>6, <2>1 DEF CountsInv, InPass
  <2>3. IF RecountDue(p) THEN RecountTx(old.vault) ELSE UNCHANGED tables
    BY <1>6 DEF LeaveVault
  <2>4. ASSUME NEW f \in File, Cached(f)', Left(p, f[1])', Noted(f)'
        PROVE  Counted(f)'
    <3>1. /\ Cached(f) /\ Noted(f) /\ f[1] \notin old.vaults /\ UNCHANGED links
          /\ fileCache[f] \in CacheRow
      BY <1>0, <2>1, <2>3, <2>4 DEF Left, OnDisk, RecountTx, tables, Cached
    <3> DEFINE n == Cardinality({l \in links : l.target = f})
    <3>2. CASE f[1] = old.vault /\ BacklinkScoring
      <4>1. RecountTx(old.vault)
        BY <2>2, <2>3, <3>1, <3>2, FileShape DEF RecountDue, PathsOnDisk, OnDisk
      <4>2. fileCache'[f] = [fileCache[f] EXCEPT !.backlinks = n]
        BY <3>1, <3>2, <4>1 DEF RecountTx
      <4>3. fileCache'[f].backlinks = n
        BY <3>1, <4>2 DEF CacheRow
      <4> QED
        BY <3>1, <4>3 DEF Counted
    <3>3. CASE ~ BacklinkScoring
      <4>1. UNCHANGED fileCache
        BY <2>3, <3>3 DEF RecountDue, tables
      <4>2. {l \in links : l.target = f} = {} /\ fileCache[f].backlinks = 0
        BY <3>1, <3>3 DEF NoScoring
      <4> QED
        BY <3>1, <4>1, <4>2, FS_EmptySet DEF Counted
    <3>4. CASE f[1] # old.vault
      <4>1. fileCache'[f] = fileCache[f]
        BY <2>3, <3>4 DEF RecountTx, tables
      <4>2. Counted(f)
        BY <2>2, <3>1, <3>4 DEF Left
      <4> QED
        BY <3>1, <4>1, <4>2 DEF Counted
    <3> QED
      BY <3>2, <3>3, <3>4
  <2> QED
    BY <2>1, <2>4 DEF Resting
<1>7. CASE CheckExists(p) \/ DredgeFile(p) \/ DredgeCommit(p)
  <2>1. old # NoJob /\ old \in Job /\ old.kind # "chart"
    BY <1>0, <1>7 DEF CheckExists, DredgeFile, DredgeCommit, Dredging, Expiring, InPass
  <2>2. \/ new = old
        \/ \E q \in old.todo : \E gone : new = [old EXCEPT !.todo = @ \ {q}, !.gone = gone]
        \/ \E q \in old.gone : new = [old EXCEPT !.gone = {}, !.seen = @ \cup {q}]
    BY <1>0, <1>7 DEF CheckExists, DredgeFile, DredgeCommit, SetJob
  <2> QED
    BY <2>1, <2>2 DEF Job
<1> QED
  BY <1>1, <1>2, <1>3, <1>4, <1>5, <1>6, <1>7, CalmStep

LEMMA NextScoring ==
  ASSUME SettleBase, NoScoring, [BatchNext]_batchVars
  PROVE  NoScoring'
<1> SUFFICES ASSUME ~ BacklinkScoring
             PROVE  links' = {} /\ \A f \in File : Cached(f)' => fileCache'[f].backlinks = 0
  BY DEF NoScoring
<1>0. /\ links = {} /\ \A f \in File : Cached(f) => fileCache[f].backlinks = 0
      /\ fileCache \in [File -> CacheRow \cup {NoRow}]
  BY DEF NoScoring, SettleBase, TypeOK
<1>1. ASSUME UNCHANGED <<links, fileCache>>
      PROVE  links' = {} /\ \A f \in File : Cached(f)' => fileCache'[f].backlinks = 0
  BY <1>0, <1>1 DEF Cached
<1>2. ASSUME NEW p \in Proc, ChartFile(p)
      PROVE  links' = {} /\ \A f \in File : Cached(f)' => fileCache'[f].backlinks = 0
  <2>1. CASE CommitFile(p)
    <3> DEFINE w == work[p]
               n == IF Cached(w.file) THEN fileCache[w.file].backlinks ELSE 0
    <3>1. /\ fileCache' = [fileCache EXCEPT ![w.file] =
               [body |-> w.body, stamp |-> w.stamp, model |-> w.model, backlinks |-> n]]
          /\ links' = {l \in links : l.source # w.file} \cup
                      {[source |-> w.file, target |-> h] : h \in Resolved(w)}
      BY <2>1 DEF CommitFile, ReindexTx
    <3>2. Resolved(w) = {} /\ w.file \in File /\ n = 0
      BY <1>0, <1>2, InFile DEF Resolved
    <3> HIDE DEF w, n
    <3> QED
      BY <1>0, <3>1, <3>2 DEF Cached
  <2>2. CASE ~ CommitFile(p)
    BY <1>1, <1>2, <2>2 DEF ChartFile, IndexFile, StatMtime, StatSize, CheckMtime, CheckSize,
       ReadFile, CheckHash, storeVars
  <2> QED
    BY <2>1, <2>2
<1>3. ASSUME NEW p \in Proc, DredgeCommit(p)
      PROVE  links' = {} /\ \A f \in File : Cached(f)' => fileCache'[f].backlinks = 0
  BY <1>0, <1>3 DEF DredgeCommit, CommitDelete, DeleteTx, LinksWithout, Cached
<1>4. ASSUME NEW p \in Proc,
             \/ StartPass(p) \/ ChartFileFails(p) \/ DredgeFails(p) \/ ExpireFails(p)
             \/ RecountFails(p) \/ Crash(p) \/ EnterVault(p) \/ NextFile(p) \/ CheckExists(p)
             \/ DredgeFile(p) \/ SelectVault(p) \/ ExpireFile(p) \/ LeaveVault(p) \/ EndPass(p)
      PROVE  UNCHANGED <<links, fileCache>>
  BY <1>4 DEF StartPass, ChartFileFails, FailFile, DredgeFails, ExpireFails, RecountFails, Crash,
     EnterVault, NextFile, BeginFile, CheckExists, DredgeFile, SelectVault, ExpireFile, LeaveVault,
     RecountDue, EndPass, BeginPurgeDelete, ReadTags, Abandon, storeVars, tables
<1>5. CASE User \/ UNCHANGED batchVars
  BY <1>1, <1>5 DEF User, batchVars, storeVars
<1> QED
  BY <1>1, <1>2, <1>3, <1>4, <1>5 DEF BatchNext, PassStep

-----------------------------------------------------------------------------
SettleInv ==
  /\ CalmTypeOK
  /\ NoScoring
  /\ \A p \in Proc : DredgeInv(p) /\ CountsInv(p)

LEMMA InitSettleInv == BatchInit => SettleInv
BY DEF BatchInit, StoreInit, SettleInv, CalmTypeOK, NoScoring, DredgeInv, CountsInv, InPass, Cached

LEMMA SettleInvHolds ==
  ASSUME AnyTime
  PROVE  BatchSpec => []SettleInv
<1>1. BatchSpec => []LinkSourcesCached
  BY PassesImplementStore, LinksCorrect, PTL
<1>2. TypeInv /\ StepInv /\ LinkSourcesCached /\ SettleInv /\ [BatchNext]_batchVars
        => SettleInv'
  <2> SUFFICES ASSUME TypeInv, StepInv, LinkSourcesCached, SettleInv, [BatchNext]_batchVars
               PROVE  SettleInv'
    OBVIOUS
  <2>1. SettleBase
    BY DEF SettleBase, TypeInv, SettleInv
  <2> QED
    BY <2>1, NextCalmTypes, NextScoring, NextDredge, NextCounts DEF SettleInv
<1> QED
  BY <1>1, <1>2, InitSettleInv, BatchInvHolds, PTL DEF BatchSpec

(* Whatever crashes, failures, edits and other processes did before: once  *)
(* cleanup_deleted has run undisturbed, no file is in the index that is    *)
(* not on disk.                                                            *)
THEOREM OneDredgeSettles ==
  ASSUME AnyTime
  PROVE  BatchSpec => []DredgeSettles
<1>1. SettleInv => DredgeSettles
  BY DEF SettleInv, DredgeInv, DredgeSettles
<1> QED
  BY <1>1, SettleInvHolds, PTL

(* Whatever happened before: once index_directory has left a vault that    *)
(* has notes in it, undisturbed, the backlink counts of its files are the  *)
(* numbers of links stored to them.                                        *)
THEOREM OneChartCounts ==
  ASSUME AnyTime
  PROVE  BatchSpec => []BacklinksSettle
<1>1. SettleInv => BacklinksSettle
  BY DEF SettleInv, CountsInv, BacklinksSettle, Left, Counted
<1> QED
  BY <1>1, SettleInvHolds, PTL

(* Whatever happened before: once index_directory has run undisturbed,     *)
(* every file on disk is indexed with the body it has.  It needs what      *)
(* SkippedFilesAreCurrent needs: the fast path believes the stamps.        *)
THEOREM OneChartSettles ==
  ASSUME AnyTime, DistinctTimes
  PROVE  BatchSpec => []ChartSettles
<1> DEFINE Inv == \A p \in Proc : ChartInv(p)
<1>1. BatchInit => Inv
  BY DEF BatchInit, ChartInv, InPass
<1>2. TypeInv /\ StepInv /\ SettleInv /\ NoFalseSkip /\ Inv /\ [BatchNext]_batchVars => Inv'
  <2> SUFFICES ASSUME TypeInv, StepInv, SettleInv, NoFalseSkip, Inv, [BatchNext]_batchVars
               PROVE  Inv'
    OBVIOUS
  <2>1. SettleBase
    BY DEF SettleBase, TypeInv, SettleInv
  <2> QED
    BY <2>1, NextChart
<1>3. TypeInv /\ StepInv /\ SettleInv /\ Inv => ChartSettles
  <2> SUFFICES ASSUME TypeInv, StepInv, SettleInv, Inv
               PROVE  ChartSettles
    OBVIOUS
  <2>1. BatchTypeOK
    BY DEF BatchTypeOK, TypeInv, StepInv, JobTypeOK, SettleInv, CalmTypeOK
  <2> QED
    BY <2>1 DEF ChartSettles, ChartInv, Current
<1> QED
  BY <1>1, <1>2, <1>3, BatchInvHolds, SettleInvHolds, SkippedFilesAreCurrent, PTL DEF BatchSpec
=============================================================================
