---------------------------- MODULE EmbeddedFile ----------------------------
(***************************************************************************)
(* What one file costs and leaves behind: the text of a note or a PDF, its *)
(* extraction by a vision model (VLM) and the cache of that, the vectors   *)
(* of its chunks (index_file_with_embedder in core/src/indexer.rs, vlm.rs, *)
(* embedder.rs, api_embedder.rs), under a model that may be changed and    *)
(* the monthly limit of UsageLimit.                                        *)
(*                                                                         *)
(* A version of the file stands for its bytes and their hash; Wording is   *)
(* its text.  A PDF that is saved again has another version with the same  *)
(* text.  A stored text is [words, whole]: whole says that it still has    *)
(* its headings.  The file is read once for the hash its text is cached    *)
(* under and again for the VLM; torn is the version of that hash if the    *)
(* VLM was sent another one.                                               *)
(***************************************************************************)
EXTENDS UsageLimit, FiniteSets

CONSTANTS
  Wording,      \* version -> text
  ChunkCount,   \* text -> number of chunks
  Local, Remote,\* embedding models: ONNX files, API models
  None,         \* "no row", "no embedder", "no vector", "no task"
  BatchCap,     \* DEFAULT_BATCH_CAP
  MaxAttempts,  \* attempts of send_with_retry
  MaxStamp,     \* bound on the changes of the file, for TLC
  MaxFaults     \* bound on the passes that fail or are killed and on the
                \* counts that are lost, for TLC

Version == DOMAIN Wording
Model == Local \cup Remote

ASSUME EmbeddedAssumption ==
  /\ Version \subseteq Nat /\ 1 \in Version
  /\ "" \notin {Wording[v] : v \in Version} /\ None \notin Model \cup Version
  /\ \A v \in Version : ChunkCount[Wording[v]] \in Nat \ {0}
  /\ BatchCap \in Nat \ {0} /\ MaxAttempts \in Nat \ {0}
  /\ MaxStamp \in Nat \ {0} /\ MaxFaults \in Nat

VARIABLES
  kind,         \* "note" or "pdf"
  disk,         \* [version, stamp]
  row,          \* the row of file_cache with the text of the chunks, or None
  vectors,      \* number of a chunk -> vector or None
  task,         \* the call of index_file_with_embedder, or None
  requests,     \* history: month -> requests sent to the API
  unwritten,    \* history: month -> calls let through that are not counted
  faults        \* history: passes that failed, counts that were lost

countVars == <<month, counted, unwritten>>
fileVars == <<kind, disk, row, vectors, task, requests, faults>>
vars == <<fileVars, countVars>>

Empty == [words |-> "", whole |-> TRUE]
Text(v) == [words |-> Wording[v], whole |-> TRUE]
Chunks(text) == 1 .. IF text.words = "" THEN 1 ELSE ChunkCount[text.words]
Vector(model, text) == [model |-> model, words |-> text.words]
NoVectors(text) == [i \in Chunks(text) |-> None]

FileInit ==
  /\ UsageInit
  /\ kind \in {"note", "pdf"}
  /\ disk = [version |-> 1, stamp |-> 1]
  /\ row = None /\ vectors = <<>> /\ task = None
  /\ requests = [m \in 1 .. Months |-> 0] /\ unwritten = requests
  /\ faults = 0

-----------------------------------------------------------------------------
At(stage) == task # None /\ task.stage = stage
Kept == UNCHANGED <<kind, disk, row, vectors, requests, countVars>>
Rest == Kept /\ UNCHANGED faults

(* The user: another version, an earlier one again, the same bytes with    *)
(* another mtime; dredge --force-vlm-reprocess.                            *)
Change ==
  /\ disk.stamp < MaxStamp
  /\ \E v \in Version : disk' = [version |-> v, stamp |-> disk.stamp + 1]
  /\ UNCHANGED <<kind, row, vectors, task, requests, faults, countVars>>

ClearVlmHashes ==
  /\ row # None /\ row.vlmHash # None
  /\ row' = [row EXCEPT !.vlmHash = None]
  /\ UNCHANGED <<kind, disk, vectors, task, requests, faults, countVars>>

-----------------------------------------------------------------------------
(* The stamp is read first, and decides alone if it is the one cached.     *)
(* Every pass may come with another model and with or without the VLM      *)
(* (configuration, consent, the model of the MCP server).                  *)
Begin ==
  /\ task = None
  /\ \E model \in Model \cup {None}, vlm \in BOOLEAN :
       task' = [stage |-> "stat", stamp |-> disk.stamp, model |-> model,
                vlm |-> vlm, text |-> Empty, vlmHash |-> None, torn |-> None,
                vectors |-> <<>>, month |-> 0, attempt |-> 0]
  /\ Rest

(* Mutant: any row will do. *)
FastPathAnyStamp ==
  /\ At("stat")
  /\ task' = IF row # None THEN None ELSE [task EXCEPT !.stage = "read"]
  /\ Rest

FastPath ==
  /\ At("stat")
  /\ task' = IF row # None /\ row.stamp = task.stamp
             THEN None ELSE [task EXCEPT !.stage = "read"]
  /\ Rest

(* A scan has no text, and the text of a PDF cannot always be read.        *)
NativeText == {Text(disk.version)} \cup IF kind = "pdf" THEN {Empty} ELSE {}

ReadText ==
  /\ At("read")
  /\ \E text \in NativeText :
       task' = [task EXCEPT !.text = text,
                  !.stage = IF kind # "note" /\ text = Empty /\ task.vlm
                            THEN "hash" ELSE "check"]
  /\ Rest

(* Mutant: a text that was extracted is used whatever it was made of. *)
HashPdfAnyText ==
  /\ At("hash")
  /\ task' = [task EXCEPT !.vlmHash = disk.version,
                !.stage = IF row # None /\ row.vlmHash # None
                          THEN "check" ELSE "vlm",
                !.text = IF row # None /\ row.vlmHash # None
                         THEN [row.text EXCEPT !.whole = FALSE] ELSE @]
  /\ Rest

(* The VLM cache: if the bytes are those of the last extraction, the       *)
(* chunks are put together again, without their headings.                  *)
HashPdf ==
  /\ At("hash")
  /\ task' = LET hit == row # None /\ row.vlmHash = disk.version IN
             [task EXCEPT !.vlmHash = disk.version,
                !.stage = IF hit THEN "check" ELSE "vlm",
                !.torn = IF hit THEN row.torn ELSE None,
                !.text = IF hit /\ row.text # Empty
                         THEN [row.text EXCEPT !.whole = FALSE] ELSE @]
  /\ Rest

(* extract_text_with_vlm reads the file again, whatever is in it by now.   *)
(* Without a key, with an error or a page without text there is none.      *)
VlmText == {Text(disk.version), Empty}

CallVlm ==
  /\ At("vlm")
  /\ \E text \in VlmText :
       task' = [task EXCEPT !.stage = "check", !.text = text,
                            !.torn = IF disk.version = task.vlmHash
                                     THEN None ELSE task.vlmHash]
  /\ Rest

NextStage == CASE task.model \in Remote -> "count"
               [] task.model \in Local -> "embed"
               [] OTHER -> "commit"

(* Mutant: the hash of the text decides nothing. *)
CheckHashNever ==
  /\ At("check")
  /\ task' = [task EXCEPT !.stage = NextStage, !.vectors = NoVectors(task.text)]
  /\ Rest

(* The hash of the text: the same text is skipped, and the row keeps its   *)
(* stamp and its hashes.                                                   *)
CheckHash ==
  /\ At("check")
  /\ IF row # None /\ row.text = task.text
     THEN task' = None
     ELSE task' = [task EXCEPT !.stage = NextStage,
                               !.vectors = NoVectors(task.text)]
  /\ Rest

-----------------------------------------------------------------------------
Filled(i) == task.vectors[i] # None
Missing == {i \in DOMAIN task.vectors : ~ Filled(i)}
Batch == {i \in Missing : Cardinality({j \in Missing : j <= i}) <= BatchCap}
LastBatch == Missing = Batch

Given(chunks) ==
  [i \in DOMAIN task.vectors |->
     IF i \in chunks THEN Vector(task.model, task.text) ELSE task.vectors[i]]

(* embed_batch_inner: one run of the model for all chunks.                 *)
EmbedLocally ==
  /\ At("embed")
  /\ \E chunks \in {Missing, {}} :
       task' = [task EXCEPT !.stage = "commit", !.vectors = Given(chunks)]
  /\ Rest

(* Mutant: what was embedded before the error is kept. *)
Unembedded == [task EXCEPT !.stage = "commit"]

(* One error loses the vectors of every batch: embed_batch gives each text *)
(* the error.                                                              *)
NotEmbedded == [task EXCEPT !.stage = "commit", !.vectors = NoVectors(task.text)]

(* check_and_increment before every batch: counted, let through without    *)
(* (usage.json cannot be written, or no limit is asked for), or refused.   *)
CountCall ==
  /\ At("count")
  /\ \/ /\ Admit(month)
        /\ task' = [task EXCEPT !.stage = "send", !.month = month, !.attempt = 0]
        /\ UNCHANGED <<unwritten, faults>>
     \/ /\ faults < MaxFaults /\ faults' = faults + 1
        /\ unwritten' = [unwritten EXCEPT ![month] = @ + 1]
        /\ task' = [task EXCEPT !.stage = "send", !.month = month, !.attempt = 0]
        /\ UNCHANGED <<month, counted>>
     \/ /\ counted[month] >= Limit
        /\ task' = NotEmbedded
        /\ UNCHANGED <<countVars, faults>>
  /\ UNCHANGED <<kind, disk, row, vectors, requests>>

(* A usage.json that was removed, reset, cannot be read or does not parse  *)
(* counts nothing.                                                         *)
LoseCount ==
  /\ faults < MaxFaults /\ faults' = faults + 1
  /\ TakeBack
  /\ unwritten' = [m \in 1 .. Months |-> unwritten[m] + counted[m]]
  /\ UNCHANGED <<kind, disk, row, vectors, task, requests>>

(* Mutant: an attempt too many. *)
AgainOnceMore == task.attempt + 1 <= MaxAttempts

Again == task.attempt + 1 < MaxAttempts

(* send_with_retry: an answer with a vector for each chunk of the batch, a *)
(* passing error with attempts left, or an error for good.                 *)
SendBatch ==
  /\ At("send")
  /\ requests' = [requests EXCEPT ![task.month] = @ + 1]
  /\ \/ task' = [task EXCEPT !.stage = IF LastBatch THEN "commit" ELSE "count",
                             !.vectors = Given(Batch)]
     \/ Again /\ task' = [task EXCEPT !.attempt = @ + 1]
     \/ task' = NotEmbedded
  /\ UNCHANGED <<kind, disk, row, vectors, faults, countVars>>

(* reindex_file, with the model of the embedder whether it worked or not.  *)
CommitFile ==
  /\ At("commit")
  /\ row' = [stamp |-> task.stamp, text |-> task.text, model |-> task.model,
             vlmHash |-> task.vlmHash, torn |-> task.torn]
  /\ vectors' = task.vectors
  /\ task' = None
  /\ UNCHANGED <<kind, disk, requests, faults, countVars>>

(* The file cannot be read, the transaction fails or the process is killed. *)
Fail ==
  /\ task # None /\ faults < MaxFaults
  /\ task' = None
  /\ faults' = faults + 1
  /\ Kept

IndexStep ==
  \/ Begin \/ FastPath \/ ReadText \/ HashPdf \/ CallVlm \/ CheckHash
  \/ EmbedLocally \/ CountCall \/ SendBatch \/ CommitFile

NewMonth == LaterMonth /\ UNCHANGED <<fileVars, unwritten>>

FileNext ==
  \/ Change \/ ClearVlmHashes \/ NewMonth \/ LoseCount
  \/ IndexStep \/ Fail

(* chart is run again and again; it fails or is killed MaxFaults times.    *)
FileSpec == FileInit /\ [][FileNext]_vars /\ WF_vars(IndexStep)

-----------------------------------------------------------------------------
(* Type invariant, a part of CachedIsCurrent.                              *)
Words == {""} \cup {Wording[v] : v \in Version}
FileTypeOK ==
  /\ kind \in {"note", "pdf"}
  /\ disk \in [version : Version, stamp : 1 .. MaxStamp]
  /\ row = None \/
       row \in [stamp : 1 .. MaxStamp, text : [words : Words, whole : BOOLEAN],
               model : Model \cup {None}, vlmHash : Version \cup {None},
               torn : Version \cup {None}]
  /\ requests \in [1 .. Months -> Nat] /\ faults \in 0 .. MaxFaults
  /\ unwritten \in [1 .. Months -> Nat]
  /\ month \in 1 .. Months /\ counted \in [1 .. Months -> 0 .. Limit]
  /\ task # None =>
       /\ task.stage \in {"stat", "read", "hash", "vlm", "check", "embed",
                         "count", "send", "commit"}
       /\ At("send") => task.month \in 1 .. Months /\ Missing # {}

(* The vectors of a file are all of the model it is recorded under and of  *)
(* the text that is stored, or there is none: a batch that fails late, the *)
(* limit reached between two batches or a model changed in between leave   *)
(* no mixture that a search would compare.                                 *)
VectorsAgree ==
  row # None =>
    /\ DOMAIN vectors = Chunks(row.text)
    /\ \/ vectors = NoVectors(row.text)
       \/ /\ row.model # None
          /\ \A i \in DOMAIN vectors :
               vectors[i] = Vector(row.model, row.text)

(* The text that is stored is the one the VLM gave for other bytes than    *)
(* those it was cached under, and these are in the file now.               *)
TornHere == row.torn = disk.version

(* The text of the present bytes, or none for a PDF that gave none.        *)
RowIsCurrent ==
  row.text.words \in {Wording[disk.version]} \cup
                     IF kind = "note" THEN {} ELSE {""}

(* A file whose stamp is cached has the text of its bytes: neither the     *)
(* stamp nor the cache of the VLM makes an older text pass for the present *)
(* one.  The exception is a PDF that was replaced between its hash and the *)
(* call of the VLM and is put back later: the cache then has the text of   *)
(* the replacement under the hash of the original.                         *)
CachedIsCurrent ==
  FileTypeOK /\ ((row # None /\ row.stamp = disk.stamp) => RowIsCurrent \/ TornHere)

(* The API gets at most MaxAttempts requests for each call that is let     *)
(* through, so that a month costs at most MaxAttempts times the limit and  *)
(* the calls that usage.json does not know of, whatever fails and is       *)
(* started again.                                                          *)
RequestsBounded ==
  \A m \in 1 .. Months : requests[m] <= MaxAttempts * (counted[m] + unwritten[m])

(* Text that is stored is not paid for again: a chunk goes to the API only *)
(* if the stored text of the file is another one.                          *)
OnlyNewText ==
  [][requests' # requests => row = None \/ row.text # task.text]_vars

(* Once the file is left alone its text is stored, whatever happens to the *)
(* models, the limit and the calls, with the exception above.              *)
TextSettles == <>[](row # None /\ (RowIsCurrent \/ TornHere))
=============================================================================
