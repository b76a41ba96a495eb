------------------------- MODULE EmbeddedFileProofs -------------------------
(***************************************************************************)
(* What holds of EmbeddedFile for every file, every number of versions and *)
(* chunks, any models, batch sizes, limits and attempts, and passes that   *)
(* fail or are killed at any point.                                        *)
(***************************************************************************)
EXTENDS EmbeddedFile, TLAPS

(* The stages before the text is read, and those after it was found new.   *)
Reading == {"stat", "read", "hash", "vlm"}
Storing == {"embed", "count", "send", "commit"}

TaskFields == {"stage", "stamp", "model", "vlm", "text", "vlmHash", "torn",
               "vectors", "month", "attempt"}
TextType == [words : Words, whole : BOOLEAN]
RowType == [stamp : 1 .. MaxStamp, text : TextType,
            model : Model \cup {None}, vlmHash : Version \cup {None},
            torn : Version \cup {None}]

StateType ==
  /\ kind \in {"note", "pdf"}
  /\ disk \in [version : Version, stamp : 1 .. MaxStamp]
  /\ row = None \/ row \in RowType
  /\ requests \in [1 .. Months -> Nat] /\ faults \in 0 .. MaxFaults
  /\ month \in 1 .. Months /\ counted \in [1 .. Months -> 0 .. Limit]
  /\ unwritten \in [1 .. Months -> Nat]

TaskType ==
  task # None =>
    /\ DOMAIN task = TaskFields
    /\ task.stage \in Reading \cup {"check"} \cup Storing
    /\ task.stamp \in 1 .. MaxStamp /\ task.stamp <= disk.stamp
    /\ task.model \in Model \cup {None}
    /\ task.text \in TextType
    /\ task.vlmHash \in Version \cup {None}
    /\ task.torn \in Version \cup {None}

(* Words that a file of this version may be stored with. *)
Fits(words, v) == words = Wording[v] \/ (words = "" /\ kind # "note")

(* The text is of the bytes under the stamp, and of the bytes that were    *)
(* hashed, unless the VLM was sent others.                                 *)
FitsOrTorn(text, torn, v) == Fits(text.words, v) \/ torn = v
TextInv ==
  /\ row # None =>
       /\ row.stamp <= disk.stamp
       /\ row.stamp = disk.stamp => FitsOrTorn(row.text, row.torn, disk.version)
       /\ row.vlmHash # None =>
            kind # "note" /\ FitsOrTorn(row.text, row.torn, row.vlmHash)
  /\ task # None =>
       /\ task.stage \in {"hash", "vlm"} => kind # "note" /\ task.text.words = ""
       /\ task.stage \in {"stat", "read", "hash"} => task.vlmHash = None
       /\ (task.stage \notin Reading /\ task.stamp = disk.stamp) =>
            FitsOrTorn(task.text, task.torn, disk.version)
       /\ task.vlmHash # None =>
            /\ kind # "note"
            /\ task.stage \notin Reading =>
                 FitsOrTorn(task.text, task.torn, task.vlmHash)

(* A chunk has no vector or that of its text; a batch is only asked for    *)
(* while one is missing.                                                   *)
VectorInv ==
  /\ VectorsAgree
  /\ task # None =>
       /\ task.stage \in Storing =>
            /\ DOMAIN task.vectors = Chunks(task.text)
            /\ \A i \in DOMAIN task.vectors :
                 task.vectors[i] \in {None, Vector(task.model, task.text)}
       /\ task.stage \in {"embed", "count", "send"} => task.model # None
       /\ task.stage = "embed" => task.vectors = NoVectors(task.text)
       /\ task.stage \in {"count", "send"} =>
            \E i \in DOMAIN task.vectors : task.vectors[i] = None
       /\ task.stage = "commit" =>
            \/ task.vectors = NoVectors(task.text)
            \/ /\ task.model # None
               /\ \A i \in DOMAIN task.vectors :
                    task.vectors[i] = Vector(task.model, task.text)

(* The calls of a month that were let through. *)
LetThrough(m) == counted[m] + unwritten[m]

(* A call that is let through leaves room for all of its attempts. *)
Pending(m) ==
  IF At("send") /\ task.month = m THEN MaxAttempts - task.attempt ELSE 0
CostInv ==
  /\ At("send") => task.month \in 1 .. Months /\ task.attempt \in 0 .. MaxAttempts - 1
  /\ \A m \in 1 .. Months : requests[m] + Pending(m) <= MaxAttempts * LetThrough(m)

NewInv ==
  (task # None /\ task.stage \in Storing) => row = None \/ row.text # task.text

FileInv == StateType /\ TaskType /\ TextInv /\ VectorInv /\ CostInv /\ NewInv

-----------------------------------------------------------------------------
LEMMA Caps ==
  /\ Version \subseteq Nat /\ 1 \in Version
  /\ MaxStamp \in Nat \ {0} /\ MaxFaults \in Nat /\ MaxAttempts \in Nat \ {0}
BY EmbeddedAssumption, Zenon

LEMMA Product ==
  ASSUME NEW a \in Nat, NEW c \in Nat
  PROVE  a * c \in Nat /\ a * (c + 1) = a * c + a
OBVIOUS

LEMMA ThroughIs ==
  ASSUME StateType, NEW m \in 1 .. Months
  PROVE  LetThrough(m) \in Nat
<1>1. counted[m] \in Nat /\ unwritten[m] \in Nat
  BY LimitAssumption DEF StateType
<1> QED
  BY <1>1 DEF LetThrough

LEMMA TextOf ==
  ASSUME NEW v \in Version
  PROVE  Text(v) \in TextType /\ Text(v).words = Wording[v]
<1>1. Wording[v] \in Words
  BY DEF Words
<1> QED
  BY <1>1 DEF Text, TextType

LEMMA SomeChunk ==
  ASSUME NEW text \in TextType
  PROVE  1 \in Chunks(text)
<1>1. CASE text.words = ""
  <2>1. Chunks(text) = 1 .. 1
    BY <1>1 DEF Chunks
  <2> QED
    BY <2>1
<1>2. CASE text.words # ""
  <2>1. PICK v \in Version : text.words = Wording[v]
    BY <1>2 DEF TextType, Words
  <2>2. ChunkCount[text.words] \in Nat \ {0}
    BY <2>1, EmbeddedAssumption, Zenon
  <2>3. Chunks(text) = 1 .. ChunkCount[text.words]
    BY <1>2 DEF Chunks
  <2> QED
    BY <2>2, <2>3
<1> QED
  BY <1>1, <1>2

LEMMA InitFileInv == FileInit => FileInv
<1> SUFFICES ASSUME FileInit
             PROVE  FileInv
  OBVIOUS
<1>1. 1 \in Version /\ 1 \in 1 .. MaxStamp /\ 0 \in 0 .. MaxFaults
  BY Caps
<1>2. 1 \in 1 .. Months /\ 0 \in 0 .. Limit
  BY LimitAssumption
<1>3. StateType
  BY <1>1, <1>2 DEF FileInit, UsageInit, StateType
<1>4. TaskType /\ TextInv /\ VectorInv /\ NewInv
  BY DEF FileInit, TaskType, TextInv, VectorInv, VectorsAgree, NewInv
<1>5. CostInv
  <2>1. SUFFICES ASSUME NEW m \in 1 .. Months
                 PROVE  requests[m] + Pending(m) <= MaxAttempts * LetThrough(m)
    BY DEF FileInit, CostInv, At
  <2>2. requests[m] = 0 /\ LetThrough(m) = 0 /\ Pending(m) = 0
    BY DEF FileInit, UsageInit, Pending, At, LetThrough
  <2> QED
    BY <2>2, Caps
<1> QED
  BY <1>3, <1>4, <1>5 DEF FileInv

-----------------------------------------------------------------------------
(* Nothing but the call itself and the failures counted has changed. *)
LEMMA KeptState ==
  ASSUME StateType, Kept, faults' \in 0 .. MaxFaults
  PROVE  StateType'
BY DEF StateType, Kept, countVars

(* The call is over and nothing was stored. *)
LEMMA Ended ==
  ASSUME FileInv, Kept, faults' \in 0 .. MaxFaults, task' = None
  PROVE  FileInv'
<1>1. StateType'
  BY KeptState DEF FileInv
<1>2. TaskType' /\ NewInv'
  BY DEF TaskType, NewInv
<1>3. TextInv'
  BY DEF FileInv, TextInv, Kept, Fits, FitsOrTorn
<1>4. VectorInv'
  BY DEF FileInv, VectorInv, VectorsAgree, Kept, NoVectors, Chunks, Vector
<1>5. CostInv'
  <2>1. SUFFICES ASSUME NEW m \in 1 .. Months
                 PROVE  (requests[m] + Pending(m) <= MaxAttempts * LetThrough(m))'
    BY DEF CostInv, At
  <2>2. Pending(m)' = 0
    BY DEF Pending, At
  <2>3. requests[m] \in Nat
    BY DEF FileInv, StateType
  <2>7. LetThrough(m) \in Nat
    BY ThroughIs DEF FileInv
  <2>8. Pending(m) \in Nat
    <3>1. CASE At("send") /\ task.month = m
      <4>1. task.attempt \in 0 .. MaxAttempts - 1
        BY <3>1 DEF FileInv, CostInv
      <4> QED
        BY <3>1, <4>1, Caps DEF Pending
    <3>2. CASE ~ (At("send") /\ task.month = m)
      BY <3>2 DEF Pending
    <3> QED
      BY <3>1, <3>2
  <2>4. requests[m] + Pending(m) <= MaxAttempts * LetThrough(m)
    BY DEF FileInv, CostInv
  <2>5. MaxAttempts * LetThrough(m) \in Nat
    BY <2>7, Caps, Product
  <2>6. requests' = requests /\ LetThrough(m)' = LetThrough(m)
    BY DEF Kept, countVars, LetThrough
  <2> QED
    BY <2>2, <2>3, <2>4, <2>5, <2>6, <2>8
<1> QED
  BY <1>1, <1>2, <1>3, <1>4, <1>5 DEF FileInv

(* The call goes on, and has not yet found a text to store. *)
LEMMA NotStoring ==
  ASSUME FileInv, Rest, task'.stage \notin Storing
  PROVE  StateType' /\ VectorInv' /\ CostInv' /\ NewInv'
<1>1. StateType'
  BY KeptState DEF FileInv, Rest, StateType
<1>2. NewInv'
  BY DEF NewInv
<1>3. VectorInv'
  BY DEF FileInv, VectorInv, VectorsAgree, Rest, Kept, NoVectors, Chunks, Vector, Storing
<1>4. CostInv'
  <2>1. ~ At("send")'
    BY DEF At, Storing
  <2>2. SUFFICES ASSUME NEW m \in 1 .. Months
                 PROVE  (requests[m] + Pending(m) <= MaxAttempts * LetThrough(m))'
    BY <2>1 DEF CostInv
  <2>3. Pending(m)' = 0
    BY <2>1 DEF Pending
  <2>4. requests[m] \in Nat /\ LetThrough(m) \in Nat /\ Pending(m) \in Nat
    BY Caps, ThroughIs DEF FileInv, StateType, CostInv, Pending
  <2>5. requests[m] + Pending(m) <= MaxAttempts * LetThrough(m)
    BY DEF FileInv, CostInv
  <2>6. MaxAttempts * LetThrough(m) \in Nat
    BY <2>4, Caps, Product
  <2> QED
    BY <2>3, <2>4, <2>5, <2>6 DEF Rest, Kept, countVars, LetThrough
<1> QED
  BY <1>1, <1>2, <1>3, <1>4

LEMMA ChangeInv == FileInv /\ Change => FileInv'
<1> SUFFICES ASSUME FileInv, Change
             PROVE  FileInv'
  OBVIOUS
<1>0. PICK v \in Version : disk' = [version |-> v, stamp |-> disk.stamp + 1]
  BY DEF Change
<1>1. /\ disk'.stamp = disk.stamp + 1 /\ disk'.stamp \in 1 .. MaxStamp
      /\ disk.stamp \in Nat /\ disk'.version = v
  BY <1>0, Caps DEF Change, FileInv, StateType
<1>3. StateType'
  BY <1>0, <1>1 DEF Change, FileInv, StateType, countVars
<1>4. TaskType'
  BY <1>1, Caps DEF Change, FileInv, TaskType
<1>5. TextInv'
  <2>1. ASSUME row # None
        PROVE  row.stamp <= disk'.stamp /\ row.stamp # disk'.stamp
    <3>1. row.stamp \in 1 .. MaxStamp /\ row.stamp <= disk.stamp
      BY <2>1 DEF FileInv, StateType, RowType, TextInv
    <3> QED
      BY <1>1, <3>1, Caps
  <2>2. ASSUME task # None PROVE task.stamp # disk'.stamp
    <3>1. task.stamp \in 1 .. MaxStamp /\ task.stamp <= disk.stamp
      BY <2>2 DEF FileInv, TaskType
    <3> QED
      BY <1>1, <3>1, Caps
  <2>3. row' = row /\ task' = task /\ kind' = kind
    BY DEF Change
  <2> QED
    BY <2>1, <2>2, <2>3 DEF FileInv, TextInv, FitsOrTorn, Fits
<1>6. VectorInv' /\ NewInv'
  BY DEF Change, FileInv, VectorInv, VectorsAgree, NewInv, NoVectors, Chunks, Vector
<1>7. CostInv'
  BY DEF Change, FileInv, CostInv, Pending, At, LetThrough, countVars
<1> QED
  BY <1>3, <1>4, <1>5, <1>6, <1>7 DEF FileInv

LEMMA ClearInv == FileInv /\ ClearVlmHashes => FileInv'
<1> SUFFICES ASSUME FileInv, ClearVlmHashes
             PROVE  FileInv'
  OBVIOUS
<1>1. /\ row # None /\ row' \in RowType /\ row'.vlmHash = None
      /\ row'.stamp = row.stamp /\ row'.text = row.text /\ row'.model = row.model
      /\ row'.torn = row.torn
  BY DEF ClearVlmHashes, FileInv, StateType, RowType
<1>2. StateType'
  BY <1>1 DEF ClearVlmHashes, FileInv, StateType, countVars
<1>3. TaskType'
  BY DEF ClearVlmHashes, FileInv, TaskType
<1>4. TextInv'
  BY <1>1 DEF ClearVlmHashes, FileInv, TextInv, Fits, FitsOrTorn
<1>5. VectorInv' /\ NewInv'
  BY <1>1 DEF ClearVlmHashes, FileInv, VectorInv, VectorsAgree, NewInv,
              NoVectors, Chunks, Vector
<1>6. CostInv'
  BY DEF ClearVlmHashes, FileInv, CostInv, Pending, At, LetThrough, countVars
<1> QED
  BY <1>2, <1>3, <1>4, <1>5, <1>6 DEF FileInv

LEMMA NewMonthInv == FileInv /\ NewMonth => FileInv'
<1> SUFFICES ASSUME FileInv, NewMonth
             PROVE  FileInv'
  OBVIOUS
<1>1. month' \in 1 .. Months
  BY LimitAssumption DEF NewMonth, LaterMonth, FileInv, StateType
<1>2. StateType'
  BY <1>1 DEF NewMonth, LaterMonth, fileVars, FileInv, StateType
<1>3. TaskType' /\ NewInv'
  BY DEF NewMonth, fileVars, FileInv, TaskType, NewInv
<1>4. TextInv'
  BY DEF NewMonth, fileVars, FileInv, TextInv, Fits, FitsOrTorn
<1>5. VectorInv'
  BY DEF NewMonth, fileVars, FileInv, VectorInv, VectorsAgree, NoVectors, Chunks, Vector
<1>6. CostInv'
  BY DEF NewMonth, LaterMonth, fileVars, FileInv, CostInv, Pending, At, LetThrough
<1> QED
  BY <1>2, <1>3, <1>4, <1>5, <1>6 DEF FileInv

LEMMA LoseCountInv == FileInv /\ LoseCount => FileInv'
<1> SUFFICES ASSUME FileInv, LoseCount
             PROVE  FileInv'
  OBVIOUS
<1>1. /\ UNCHANGED <<kind, disk, row, vectors, task, requests, month>>
      /\ counted' = [m \in 1 .. Months |-> 0]
      /\ unwritten' = [m \in 1 .. Months |-> unwritten[m] + counted[m]]
      /\ faults < MaxFaults /\ faults' = faults + 1
  BY DEF LoseCount, TakeBack
<1>2. Limit \in Nat
  BY LimitAssumption
<1>3. StateType'
  <2>1. \A m \in 1 .. Months : unwritten[m] \in Nat /\ counted[m] \in Nat
    BY <1>2 DEF FileInv, StateType
  <2>2. unwritten' \in [1 .. Months -> Nat] /\ counted' \in [1 .. Months -> 0 .. Limit]
    BY <1>1, <1>2, <2>1
  <2>3. faults' \in 0 .. MaxFaults
    BY <1>1, Caps DEF FileInv, StateType
  <2> QED
    BY <1>1, <2>2, <2>3 DEF FileInv, StateType
<1>4. TaskType' /\ NewInv'
  BY <1>1 DEF FileInv, TaskType, NewInv
<1>5. TextInv'
  BY <1>1 DEF FileInv, TextInv, Fits, FitsOrTorn
<1>6. VectorInv'
  BY <1>1 DEF FileInv, VectorInv, VectorsAgree, NoVectors, Chunks, Vector
<1>7. CostInv'
  <2>1. ASSUME NEW m \in 1 .. Months PROVE LetThrough(m)' = LetThrough(m)
    <3>1. unwritten[m] \in Nat /\ counted[m] \in Nat
      BY <1>2 DEF FileInv, StateType
    <3>2. unwritten'[m] = unwritten[m] + counted[m] /\ counted'[m] = 0
      BY <1>1
    <3> QED
      BY <3>1, <3>2 DEF LetThrough
  <2> QED
    BY <1>1, <2>1 DEF FileInv, CostInv, Pending, At
<1> QED
  BY <1>3, <1>4, <1>5, <1>6, <1>7 DEF FileInv

-----------------------------------------------------------------------------
LEMMA BeginInv == FileInv /\ Begin => FileInv'
<1> SUFFICES ASSUME FileInv, Begin
             PROVE  FileInv'
  OBVIOUS
<1>0. PICK model \in Model \cup {None}, vlm \in BOOLEAN :
         task' = [stage |-> "stat", stamp |-> disk.stamp, model |-> model,
                  vlm |-> vlm, text |-> Empty, vlmHash |-> None,
                  torn |-> None, vectors |-> <<>>, month |-> 0, attempt |-> 0]
  BY DEF Begin
<1>1. /\ DOMAIN task' = TaskFields /\ task'.stage = "stat"
      /\ task'.stamp = disk.stamp /\ task'.model = model
      /\ task'.text = Empty /\ task'.vlmHash = None
      /\ task'.torn = None
  BY <1>0 DEF TaskFields
<1>2. Empty \in TextType
  BY DEF Empty, TextType, Words
<1>3. disk.stamp \in 1 .. MaxStamp /\ disk.stamp <= disk.stamp
  BY Caps DEF FileInv, StateType
<1>4. TaskType'
  BY <1>1, <1>2, <1>3 DEF TaskType, Reading, Begin, Rest, Kept
<1>5. TextInv'
  BY <1>1 DEF FileInv, TextInv, Fits, FitsOrTorn, Reading, Begin, Rest, Kept
<1> QED
  BY <1>1, <1>4, <1>5, NotStoring DEF FileInv, Begin, Storing

LEMMA FastPathInv == FileInv /\ FastPath => FileInv'
<1> SUFFICES ASSUME FileInv, FastPath
             PROVE  FileInv'
  OBVIOUS
<1>1. CASE task' = None
  BY <1>1, Ended DEF FastPath, Rest, FileInv, StateType
<1>2. CASE task' = [task EXCEPT !.stage = "read"]
  <2>1. /\ DOMAIN task' = TaskFields /\ task'.stage = "read"
        /\ task'.stamp = task.stamp /\ task'.model = task.model
        /\ task'.text = task.text /\ task'.vlmHash = task.vlmHash
        /\ task'.torn = task.torn
    BY <1>2 DEF FileInv, TaskType, TaskFields, FastPath, At
  <2>2. TaskType'
    BY <2>1 DEF FileInv, TaskType, Reading, FastPath, At, Rest, Kept
  <2>3. TextInv'
    BY <2>1 DEF FileInv, TextInv, Fits, FitsOrTorn, Reading, FastPath, At, Rest, Kept
  <2> QED
    BY <2>1, <2>2, <2>3, NotStoring DEF FileInv, FastPath, Storing
<1> QED
  BY <1>1, <1>2 DEF FastPath

LEMMA ReadTextInv == FileInv /\ ReadText => FileInv'
<1> SUFFICES ASSUME FileInv, ReadText
             PROVE  FileInv'
  OBVIOUS
<1>0. PICK text \in NativeText :
         task' = [task EXCEPT !.text = text,
                    !.stage = IF kind # "note" /\ text = Empty /\ task.vlm
                              THEN "hash" ELSE "check"]
  BY DEF ReadText
<1>1. /\ DOMAIN task' = TaskFields
      /\ task'.stage = IF kind # "note" /\ text = Empty /\ task.vlm
                       THEN "hash" ELSE "check"
      /\ task'.stamp = task.stamp /\ task'.model = task.model
      /\ task'.text = text /\ task'.vlmHash = None /\ task'.torn = task.torn
  BY <1>0 DEF FileInv, TaskType, TextInv, TaskFields, ReadText, At
<1>2. text \in TextType /\ Fits(text.words, disk.version)
  <2>1. disk.version \in Version /\ kind \in {"note", "pdf"}
    BY DEF FileInv, StateType
  <2>2. text = Text(disk.version) \/ (text = Empty /\ kind # "note")
    <3>1. CASE kind = "note"
      BY <3>1 DEF NativeText
    <3>2. CASE kind = "pdf"
      BY <3>2 DEF NativeText
    <3> QED
      BY <2>1, <3>1, <3>2
  <2>3. CASE text = Text(disk.version)
    <3>1. Text(disk.version) \in TextType
      BY <2>1, TextOf
    <3>2. Text(disk.version).words = Wording[disk.version]
      BY <2>1, TextOf
    <3> QED
      BY <2>3, <3>1, <3>2 DEF Fits
  <2>4. CASE text = Empty /\ kind # "note"
    BY <2>4 DEF Empty, TextType, Words, Fits
  <2> QED
    BY <2>2, <2>3, <2>4
<1>3. TaskType'
  BY <1>1, <1>2 DEF FileInv, TaskType, Reading, ReadText, At, Rest, Kept
<1>4. TextInv'
  <2>1. task'.stage = "hash" => kind # "note" /\ text.words = ""
    <3>1. Empty.words = ""
      BY DEF Empty
    <3> QED
      BY <1>1, <3>1
  <2>2. row' = row /\ disk' = disk /\ kind' = kind
    BY DEF ReadText, Rest, Kept
  <2>3. task'.stage \in {"hash", "check"}
    BY <1>1
  <2> QED
    BY <1>1, <1>2, <2>1, <2>2, <2>3 DEF FileInv, TextInv, Fits, FitsOrTorn, Reading
<1> QED
  BY <1>1, <1>3, <1>4, NotStoring DEF FileInv, ReadText, Storing

LEMMA HashPdfInv == FileInv /\ HashPdf => FileInv'
<1> SUFFICES ASSUME FileInv, HashPdf
             PROVE  FileInv'
  OBVIOUS
<1> DEFINE hit == row # None /\ row.vlmHash = disk.version
<1>1. /\ task # None /\ task.stage = "hash" /\ kind # "note"
      /\ task.text \in TextType /\ task.text.words = ""
      /\ DOMAIN task = TaskFields
  BY DEF HashPdf, At, FileInv, TaskType, TextInv
<1>2. /\ DOMAIN task' = TaskFields
      /\ task'.stage = IF hit THEN "check" ELSE "vlm"
      /\ task'.stamp = task.stamp /\ task'.model = task.model
      /\ task'.vlmHash = disk.version
      /\ task'.torn = IF hit THEN row.torn ELSE None
      /\ task'.text = IF hit /\ row.text # Empty
                      THEN [row.text EXCEPT !.whole = FALSE] ELSE task.text
  BY <1>1 DEF HashPdf, TaskFields
<1>3. disk.version \in Version /\ disk.version \in Nat /\ None \notin Version
  <2>1. None \notin Version
    BY EmbeddedAssumption, Zenon
  <2> QED
    BY <2>1, Caps DEF FileInv, StateType
<1>4. /\ task'.text \in TextType /\ task'.torn \in Version \cup {None}
      /\ hit => Fits(task'.text.words, disk.version) \/ task'.torn = disk.version
      /\ ~ hit => task'.text.words = ""
  <2>0. task'.torn \in Version \cup {None}
    <3>1. CASE hit
      <4>1. row.torn \in Version \cup {None}
        BY <3>1 DEF FileInv, StateType, RowType
      <4> QED
        BY <1>2, <3>1, <4>1
    <3>2. CASE ~ hit
      BY <1>2, <3>2
    <3> QED
      BY <3>1, <3>2
  <2>1. CASE hit /\ row.text # Empty
    <3>0. row.vlmHash # None
      BY <1>3, <2>1
    <3>1. row.text \in TextType /\ (Fits(row.text.words, disk.version) \/ row.torn = disk.version)
      BY <2>1, <3>0 DEF FileInv, StateType, RowType, TextInv, FitsOrTorn
    <3>2. task'.text = [row.text EXCEPT !.whole = FALSE] /\ task'.torn = row.torn
      BY <1>2, <2>1
    <3>3. [row.text EXCEPT !.whole = FALSE] \in TextType
      BY <3>1 DEF TextType
    <3>4. [row.text EXCEPT !.whole = FALSE].words = row.text.words
      BY <3>1 DEF TextType
    <3> QED
      BY <2>0, <2>1, <3>1, <3>2, <3>3, <3>4
  <2>2. CASE ~ (hit /\ row.text # Empty)
    <3>1. task'.text = task.text
      BY <1>2, <2>2
    <3> QED
      BY <1>1, <2>0, <3>1 DEF Fits
  <2> QED
    BY <2>1, <2>2
<1>5. task'.stage \in {"check", "vlm"} /\ (task'.stage = "check" <=> hit)
  BY <1>2
<1>6. row' = row /\ disk' = disk /\ kind' = kind
  BY DEF HashPdf, Rest, Kept
<1>7. TaskType'
  BY <1>1, <1>2, <1>3, <1>4, <1>5, <1>6 DEF FileInv, TaskType, Reading
<1> HIDE DEF hit
<1>8. TextInv'
  <2>1. /\ task'.stage \in {"hash", "vlm"} => kind # "note" /\ task'.text.words = ""
        /\ task'.stage \notin Reading =>
             Fits(task'.text.words, disk.version) \/ task'.torn = disk.version
    BY <1>1, <1>4, <1>5 DEF Reading
  <2>2. task'.stage \notin {"stat", "read", "hash"}
    BY <1>5
  <2> QED
    BY <1>1, <1>2, <1>6, <2>1, <2>2 DEF FileInv, TextInv, Fits, FitsOrTorn
<1> QED
  BY <1>5, <1>7, <1>8, NotStoring DEF FileInv, HashPdf, Storing

LEMMA CallVlmInv == FileInv /\ CallVlm => FileInv'
<1> SUFFICES ASSUME FileInv, CallVlm
             PROVE  FileInv'
  OBVIOUS
<1>0. PICK text \in VlmText :
         task' = [task EXCEPT !.stage = "check", !.text = text,
                              !.torn = IF disk.version = task.vlmHash
                                       THEN None ELSE task.vlmHash]
  BY DEF CallVlm
<1>1. /\ task # None /\ task.stage = "vlm" /\ kind # "note"
      /\ DOMAIN task = TaskFields /\ task.vlmHash \in Version \cup {None}
  BY DEF CallVlm, At, FileInv, TaskType, TextInv
<1>2. /\ DOMAIN task' = TaskFields /\ task'.stage = "check"
      /\ task'.stamp = task.stamp /\ task'.model = task.model
      /\ task'.text = text /\ task'.vlmHash = task.vlmHash
      /\ task'.torn = IF disk.version = task.vlmHash THEN None ELSE task.vlmHash
  BY <1>0, <1>1 DEF TaskFields
<1>3. text \in TextType /\ Fits(text.words, disk.version)
  <2>1. disk.version \in Version
    BY DEF FileInv, StateType
  <2>2. CASE text = Text(disk.version)
    <3>1. Text(disk.version) \in TextType
      BY <2>1, TextOf
    <3>2. Text(disk.version).words = Wording[disk.version]
      BY <2>1, TextOf
    <3> QED
      BY <2>2, <3>1, <3>2 DEF Fits
  <2>3. CASE text = Empty
    BY <1>1, <2>3 DEF Empty, TextType, Words, Fits
  <2> QED
    BY <2>2, <2>3 DEF VlmText
<1>4. row' = row /\ disk' = disk /\ kind' = kind
  BY DEF CallVlm, Rest, Kept
<1>5. TaskType'
  BY <1>1, <1>2, <1>3, <1>4 DEF FileInv, TaskType, Reading
<1>6. TextInv'
  BY <1>1, <1>2, <1>3, <1>4 DEF FileInv, TextInv, Fits, FitsOrTorn, Reading
<1> QED
  BY <1>2, <1>5, <1>6, NotStoring DEF FileInv, CallVlm, Storing

-----------------------------------------------------------------------------
(* What a step that stores keeps of the call. *)
Carry ==
  /\ DOMAIN task' = TaskFields
  /\ task'.stage \in Storing
  /\ task'.stamp = task.stamp /\ task'.model = task.model
  /\ task'.text = task.text /\ task'.vlmHash = task.vlmHash
  /\ task'.torn = task.torn
  /\ UNCHANGED <<kind, disk, row, vectors>>

LEMMA Carried ==
  ASSUME FileInv, task # None, task.stage \notin Reading, Carry
  PROVE  TaskType' /\ TextInv'
<1>1. TaskType'
  BY DEF FileInv, TaskType, Carry
<1>2. TextInv'
  BY DEF FileInv, TextInv, Fits, FitsOrTorn, Carry, Reading, Storing
<1> QED
  BY <1>1, <1>2

LEMMA CheckHashInv == FileInv /\ CheckHash => FileInv'
<1> SUFFICES ASSUME FileInv, CheckHash
             PROVE  FileInv'
  OBVIOUS
<1>1. CASE row # None /\ row.text = task.text
  BY <1>1, Ended DEF CheckHash, Rest, FileInv, StateType
<1>2. CASE ~ (row # None /\ row.text = task.text)
  <2>1. /\ task # None /\ task.stage = "check" /\ DOMAIN task = TaskFields
        /\ task.text \in TextType /\ task.model \in Model \cup {None}
    BY DEF CheckHash, At, FileInv, TaskType
  <2>2. /\ NextStage \in {"count", "embed", "commit"}
        /\ NextStage # "commit" => task.model \in Model
    BY DEF NextStage, Model
  <2>3. task' = [task EXCEPT !.stage = NextStage, !.vectors = NoVectors(task.text)]
    BY <1>2 DEF CheckHash
  <2>4. /\ DOMAIN task' = TaskFields /\ task'.stage = NextStage
        /\ task'.stamp = task.stamp /\ task'.model = task.model
        /\ task'.text = task.text /\ task'.vlmHash = task.vlmHash
        /\ task'.torn = task.torn
        /\ task'.vectors = NoVectors(task.text)
    BY <2>1, <2>3 DEF TaskFields
  <2>5. Carry
    BY <2>2, <2>4 DEF Carry, Storing, CheckHash, Rest, Kept
  <2>6. TaskType' /\ TextInv'
    BY <2>1, <2>5, Carried DEF Reading
  <2>7. StateType'
    BY KeptState DEF FileInv, CheckHash, Rest, StateType
  <2>8. VectorInv'
    <3>1. 1 \in Chunks(task.text)
      BY <2>1, SomeChunk
    <3>2. /\ DOMAIN NoVectors(task.text) = Chunks(task.text)
          /\ \A i \in Chunks(task.text) : NoVectors(task.text)[i] = None
      BY DEF NoVectors
    <3>3. None \notin Model
      BY EmbeddedAssumption, Zenon
    <3>4. VectorsAgree'
      BY <2>5 DEF FileInv, VectorInv, VectorsAgree, Carry, NoVectors, Chunks, Vector
    <3>5. NoVectors(task.text)' = NoVectors(task'.text) /\ Chunks(task.text)' = Chunks(task'.text)
      BY DEF NoVectors, Chunks
    <3> QED
      BY <2>2, <2>4, <3>1, <3>2, <3>3, <3>4, <3>5 DEF VectorInv, Storing
  <2>9. CostInv'
    <3>1. ~ At("send")' /\ ~ At("send")
      BY <2>1, <2>2, <2>4 DEF At
    <3> QED
      BY <3>1 DEF FileInv, CostInv, Pending, LetThrough, CheckHash, Rest, Kept, countVars
  <2>10. NewInv'
    BY <1>2, <2>4, <2>5 DEF NewInv, Carry
  <2> QED
    BY <2>6, <2>7, <2>8, <2>9, <2>10 DEF FileInv
<1> QED
  BY <1>1, <1>2

(* The vectors that are put into the task. *)
LEMMA GivenVectors ==
  ASSUME FileInv, task # None, task.stage \in Storing, NEW chunks
  PROVE  /\ DOMAIN Given(chunks) = Chunks(task.text)
         /\ \A i \in DOMAIN Given(chunks) :
              /\ Given(chunks)[i] \in {None, Vector(task.model, task.text)}
              /\ i \in chunks => Given(chunks)[i] = Vector(task.model, task.text)
              /\ i \notin chunks => Given(chunks)[i] = task.vectors[i]
<1>1. /\ DOMAIN task.vectors = Chunks(task.text)
      /\ \A i \in DOMAIN task.vectors :
           task.vectors[i] \in {None, Vector(task.model, task.text)}
  BY DEF FileInv, VectorInv
<1>2. /\ DOMAIN Given(chunks) = DOMAIN task.vectors
      /\ \A i \in DOMAIN task.vectors :
           Given(chunks)[i] = IF i \in chunks THEN Vector(task.model, task.text)
                              ELSE task.vectors[i]
  BY DEF Given
<1> QED
  BY <1>1, <1>2

(* Giving the vectors of the missing chunks leaves none without. *)
LEMMA GivenAll ==
  ASSUME FileInv, task # None, task.stage \in Storing,
         NEW chunks, Missing \subseteq chunks
  PROVE  \A i \in DOMAIN Given(chunks) :
           Given(chunks)[i] = Vector(task.model, task.text)
<1>1. DOMAIN Given(chunks) = DOMAIN task.vectors
  BY DEF Given
<1>2. ASSUME NEW i \in DOMAIN task.vectors, i \notin chunks
      PROVE  task.vectors[i] = Vector(task.model, task.text)
  <2>1. task.vectors[i] # None
    BY <1>2 DEF Missing, Filled
  <2> QED
    BY <2>1 DEF FileInv, VectorInv
<1> QED
  BY <1>1, <1>2, GivenVectors

(* The vectors of the row are left alone. *)
LEMMA RowVectors ==
  ASSUME FileInv, UNCHANGED <<row, vectors>>
  PROVE  VectorsAgree'
BY DEF FileInv, VectorInv, VectorsAgree, NoVectors, Chunks, Vector

LEMMA EmbedLocallyInv == FileInv /\ EmbedLocally => FileInv'
<1> SUFFICES ASSUME FileInv, EmbedLocally
             PROVE  FileInv'
  OBVIOUS
<1>0. PICK chunks \in {Missing, {}} :
           task' = [task EXCEPT !.stage = "commit", !.vectors = Given(chunks)]
  BY DEF EmbedLocally
<1>1. /\ task # None /\ task.stage = "embed" /\ DOMAIN task = TaskFields
      /\ task.vectors = NoVectors(task.text) /\ task.model # None
  BY DEF EmbedLocally, At, FileInv, TaskType, VectorInv
<1>2. /\ DOMAIN task' = TaskFields /\ task'.stage = "commit"
      /\ task'.stamp = task.stamp /\ task'.model = task.model
      /\ task'.text = task.text /\ task'.vlmHash = task.vlmHash
      /\ task'.torn = task.torn
      /\ task'.vectors = Given(chunks)
  BY <1>0, <1>1 DEF TaskFields
<1>3. Carry
  BY <1>2 DEF Carry, Storing, EmbedLocally, Rest, Kept
<1>4. TaskType' /\ TextInv'
  BY <1>1, <1>3, Carried DEF Reading
<1>5. StateType'
  BY KeptState DEF FileInv, EmbedLocally, Rest, StateType
<1>6. VectorInv'
  <2>1. /\ DOMAIN Given(chunks) = Chunks(task.text)
        /\ \A i \in DOMAIN Given(chunks) :
             /\ Given(chunks)[i] \in {None, Vector(task.model, task.text)}
             /\ i \notin chunks => Given(chunks)[i] = task.vectors[i]
    BY <1>1, GivenVectors DEF Storing
  <2>2. \/ Given(chunks) = NoVectors(task.text)
        \/ \A i \in DOMAIN Given(chunks) :
             Given(chunks)[i] = Vector(task.model, task.text)
    <3>1. CASE chunks = {}
      <4>1. \A i \in Chunks(task.text) : task.vectors[i] = None
        BY <1>1 DEF NoVectors
      <4>2. Given(chunks) = [i \in DOMAIN task.vectors |-> task.vectors[i]]
        BY <3>1 DEF Given
      <4>3. DOMAIN task.vectors = Chunks(task.text)
        BY <1>1 DEF NoVectors
      <4> QED
        BY <4>1, <4>2, <4>3 DEF NoVectors
    <3>2. CASE chunks = Missing
      BY <1>1, <3>2, GivenAll DEF Storing
    <3> QED
      BY <3>1, <3>2
  <2>3. /\ VectorsAgree'
        /\ NoVectors(task.text)' = NoVectors(task.text)
        /\ Chunks(task.text)' = Chunks(task.text)
        /\ Vector(task.model, task.text)' = Vector(task.model, task.text)
    BY <1>2, <1>3, RowVectors DEF NoVectors, Chunks, Vector, Carry
  <2> QED
    BY <1>1, <1>2, <2>1, <2>2, <2>3 DEF VectorInv
<1>7. CostInv'
  <2>1. ~ At("send")' /\ ~ At("send")
    BY <1>1, <1>2 DEF At
  <2> QED
    BY <2>1 DEF FileInv, CostInv, Pending, LetThrough, EmbedLocally, Rest, Kept, countVars
<1>8. NewInv'
  BY <1>1, <1>2, <1>3 DEF FileInv, NewInv, Carry, Storing
<1> QED
  BY <1>4, <1>5, <1>6, <1>7, <1>8 DEF FileInv

LEMMA FailInv == FileInv /\ Fail => FileInv'
<1> SUFFICES ASSUME FileInv, Fail
             PROVE  FileInv'
  OBVIOUS
<1>1. faults' \in 0 .. MaxFaults
  BY Caps DEF Fail, FileInv, StateType
<1> QED
  BY <1>1, Ended DEF Fail

LEMMA CommitFileInv == FileInv /\ CommitFile => FileInv'
<1> SUFFICES ASSUME FileInv, CommitFile
             PROVE  FileInv'
  OBVIOUS
<1>1. /\ task # None /\ task.stage = "commit" /\ task' = None
      /\ task.stamp \in 1 .. MaxStamp /\ task.stamp <= disk.stamp
      /\ task.text \in TextType /\ task.model \in Model \cup {None}
      /\ task.vlmHash \in Version \cup {None} /\ task.torn \in Version \cup {None}
  BY DEF CommitFile, At, FileInv, TaskType
<1>2. /\ row' \in RowType
      /\ row'.stamp = task.stamp /\ row'.text = task.text
      /\ row'.model = task.model /\ row'.vlmHash = task.vlmHash
      /\ row'.torn = task.torn
      /\ vectors' = task.vectors
  BY <1>1 DEF CommitFile, RowType
<1>3. StateType'
  BY <1>2 DEF CommitFile, FileInv, StateType, countVars
<1>4. TaskType' /\ NewInv'
  BY <1>1 DEF TaskType, NewInv
<1>5. TextInv'
  BY <1>1, <1>2 DEF CommitFile, FileInv, TextInv, Fits, FitsOrTorn, Reading
<1>6. VectorInv'
  <2>1. /\ DOMAIN task.vectors = Chunks(task.text)
        /\ \/ task.vectors = NoVectors(task.text)
           \/ /\ task.model # None
              /\ \A i \in DOMAIN task.vectors :
                   task.vectors[i] = Vector(task.model, task.text)
    BY <1>1 DEF FileInv, VectorInv, Storing
  <2>2. /\ NoVectors(row.text)' = NoVectors(task.text)
        /\ Chunks(row.text)' = Chunks(task.text)
        /\ Vector(row.model, row.text)' = Vector(task.model, task.text)
    BY <1>2 DEF NoVectors, Chunks, Vector
  <2> QED
    BY <1>1, <1>2, <2>1, <2>2 DEF VectorInv, VectorsAgree
<1>7. CostInv'
  <2>1. ~ At("send")' /\ ~ At("send")
    BY <1>1 DEF At
  <2> QED
    BY <2>1 DEF FileInv, CostInv, Pending, LetThrough, CommitFile, countVars
<1> QED
  BY <1>3, <1>4, <1>5, <1>6, <1>7 DEF FileInv

(* The embedding is given up: no vectors, and nothing is asked for. *)
LEMMA GivenUp ==
  ASSUME FileInv, task # None, task.stage \in {"count", "send"},
         task' = NotEmbedded, UNCHANGED <<kind, disk, row, vectors>>
  PROVE  /\ TaskType' /\ TextInv' /\ VectorInv' /\ NewInv'
         /\ ~ At("send")'
<1>1. /\ DOMAIN task' = TaskFields /\ task'.stage = "commit"
      /\ task'.stamp = task.stamp /\ task'.model = task.model
      /\ task'.text = task.text /\ task'.vlmHash = task.vlmHash
      /\ task'.torn = task.torn
      /\ task'.vectors = NoVectors(task.text)
  BY DEF NotEmbedded, TaskFields, FileInv, TaskType
<1>2. Carry
  BY <1>1 DEF Carry, Storing
<1>3. TaskType' /\ TextInv'
  BY <1>2, Carried DEF Reading
<1>4. VectorInv'
  <2>1. /\ VectorsAgree'
        /\ NoVectors(task.text)' = NoVectors(task.text)
        /\ Chunks(task.text)' = Chunks(task.text)
    BY <1>1, RowVectors DEF NoVectors, Chunks
  <2>2. /\ DOMAIN NoVectors(task.text) = Chunks(task.text)
        /\ \A i \in Chunks(task.text) : NoVectors(task.text)[i] = None
    BY DEF NoVectors
  <2> QED
    BY <1>1, <2>1, <2>2 DEF VectorInv
<1>5. NewInv'
  BY <1>1, <1>2 DEF FileInv, NewInv, Carry, Storing
<1>6. ~ At("send")'
  BY <1>1 DEF At
<1> QED
  BY <1>3, <1>4, <1>5, <1>6

(* The call is let through, and may be sent MaxAttempts times. *)
LEMMA Through ==
  ASSUME FileInv, task # None, task.stage = "count",
         task' = [task EXCEPT !.stage = "send", !.month = month, !.attempt = 0],
         UNCHANGED <<kind, disk, row, vectors, requests, month>>,
         StateType',
         \A m \in 1 .. Months :
           LetThrough(m)' = IF m = month THEN LetThrough(m) + 1 ELSE LetThrough(m)
  PROVE  FileInv'
<1>1. DOMAIN task = TaskFields /\ ~ At("send") /\ month \in 1 .. Months
  BY DEF At, FileInv, TaskType, StateType
<1>2. /\ DOMAIN task' = TaskFields /\ task'.stage = "send"
      /\ task'.stamp = task.stamp /\ task'.model = task.model
      /\ task'.text = task.text /\ task'.vlmHash = task.vlmHash
      /\ task'.torn = task.torn
      /\ task'.vectors = task.vectors
      /\ task'.month = month /\ task'.attempt = 0
  BY <1>1 DEF TaskFields
<1>3. Carry
  BY <1>2 DEF Carry, Storing
<1>4. TaskType' /\ TextInv'
  BY <1>1, <1>3, Carried DEF Reading
<1>5. VectorInv'
  <2>1. /\ VectorsAgree'
        /\ Chunks(task.text)' = Chunks(task.text)
        /\ Vector(task.model, task.text)' = Vector(task.model, task.text)
    BY <1>2, RowVectors DEF Chunks, Vector
  <2> QED
    BY <1>2, <2>1 DEF FileInv, VectorInv, Storing
<1>6. CostInv'
  <2>1. task'.month \in 1 .. Months /\ task'.attempt \in 0 .. MaxAttempts - 1
    BY <1>1, <1>2, Caps
  <2>2. ASSUME NEW m \in 1 .. Months
        PROVE  (requests[m] + Pending(m) <= MaxAttempts * LetThrough(m))'
    <3>1. requests[m] \in Nat /\ LetThrough(m) \in Nat
      BY ThroughIs DEF FileInv, StateType
    <3>2. requests[m] <= MaxAttempts * LetThrough(m)
      BY <1>1, <3>1 DEF FileInv, CostInv, Pending
    <3>3. /\ MaxAttempts * LetThrough(m) \in Nat
          /\ MaxAttempts * (LetThrough(m) + 1) = MaxAttempts * LetThrough(m) + MaxAttempts
      BY <3>1, Caps, Product
    <3>4. CASE m = month
      <4>1. Pending(m)' \in {0, MaxAttempts}
        BY <1>2, Caps DEF Pending
      <4>2. requests'[m] = requests[m] /\ LetThrough(m)' = LetThrough(m) + 1
        BY <3>4
      <4> QED
        BY <3>1, <3>2, <3>3, <4>1, <4>2, Caps
    <3>5. CASE m # month
      <4>1. Pending(m)' = 0
        BY <1>2, <3>5 DEF Pending
      <4>2. requests'[m] = requests[m] /\ LetThrough(m)' = LetThrough(m)
        BY <3>5
      <4> QED
        BY <3>1, <3>2, <4>1, <4>2
    <3> QED
      BY <3>4, <3>5
  <2> QED
    BY <2>1, <2>2 DEF CostInv
<1>7. NewInv'
  BY <1>2, <1>3 DEF FileInv, NewInv, Carry, Storing
<1> QED
  BY <1>4, <1>5, <1>6, <1>7 DEF FileInv

LEMMA CountCallInv == FileInv /\ CountCall => FileInv'
<1> SUFFICES ASSUME FileInv, CountCall
             PROVE  FileInv'
  OBVIOUS
<1>1. /\ task # None /\ task.stage = "count"
      /\ UNCHANGED <<kind, disk, row, vectors, requests>>
  BY DEF CountCall, At
<1>2. /\ month \in 1 .. Months /\ counted \in [1 .. Months -> 0 .. Limit]
      /\ unwritten \in [1 .. Months -> Nat] /\ faults \in 0 .. MaxFaults
      /\ Limit \in Nat /\ StateType
  BY LimitAssumption DEF FileInv, StateType
<1> DEFINE task1 == [task EXCEPT !.stage = "send", !.month = month, !.attempt = 0]
<1>3. CASE task' = NotEmbedded /\ UNCHANGED <<countVars, faults>>
  <2>0. UNCHANGED <<month, counted, unwritten, faults>>
    BY <1>3 DEF countVars
  <2>1. TaskType' /\ TextInv' /\ VectorInv' /\ NewInv' /\ ~ At("send")'
    BY <1>1, <1>3, GivenUp
  <2>2. StateType'
    BY <1>1, <2>0 DEF FileInv, StateType
  <2>3. CostInv'
    <3>1. ~ At("send")
      BY <1>1 DEF At
    <3> QED
      BY <1>1, <2>0, <2>1, <3>1 DEF FileInv, CostInv, Pending, LetThrough
  <2> QED
    BY <2>1, <2>2, <2>3 DEF FileInv
<1>4. CASE Admit(month) /\ task' = task1 /\ UNCHANGED <<unwritten, faults>>
  <2>1. /\ counted' \in [1 .. Months -> 0 .. Limit] /\ month' = month
        /\ counted'[month] = counted[month] + 1
        /\ \A m \in 1 .. Months : m # month => counted'[m] = counted[m]
    BY <1>2, <1>4 DEF Admit
  <2>2. StateType'
    BY <1>1, <1>2, <1>4, <2>1 DEF StateType
  <2>3. ASSUME NEW m \in 1 .. Months
        PROVE  LetThrough(m)' = IF m = month THEN LetThrough(m) + 1 ELSE LetThrough(m)
    <3>1. counted[m] \in Nat /\ unwritten[m] \in Nat /\ unwritten'[m] = unwritten[m]
      BY <1>2, <1>4
    <3> QED
      BY <2>1, <3>1 DEF LetThrough
  <2> QED
    BY <1>1, <1>4, <2>1, <2>2, <2>3, Through
<1>5. CASE /\ faults < MaxFaults /\ faults' = faults + 1
           /\ unwritten' = [unwritten EXCEPT ![month] = @ + 1]
           /\ task' = task1 /\ UNCHANGED <<month, counted>>
  <2>1. /\ unwritten' \in [1 .. Months -> Nat]
        /\ unwritten'[month] = unwritten[month] + 1
        /\ \A m \in 1 .. Months : m # month => unwritten'[m] = unwritten[m]
    BY <1>2, <1>5
  <2>2. StateType'
    <3>1. faults' \in 0 .. MaxFaults
      BY <1>2, <1>5, Caps
    <3> QED
      BY <1>1, <1>2, <1>5, <2>1, <3>1 DEF StateType
  <2>3. ASSUME NEW m \in 1 .. Months
        PROVE  LetThrough(m)' = IF m = month THEN LetThrough(m) + 1 ELSE LetThrough(m)
    <3>1. counted[m] \in Nat /\ unwritten[m] \in Nat /\ counted'[m] = counted[m]
      BY <1>2, <1>5
    <3> QED
      BY <2>1, <3>1 DEF LetThrough
  <2> QED
    BY <1>1, <1>5, <2>2, <2>3, Through
<1> QED
  BY <1>3, <1>4, <1>5 DEF CountCall

LEMMA SendBatchInv == FileInv /\ SendBatch => FileInv'
<1> SUFFICES ASSUME FileInv, SendBatch
             PROVE  FileInv'
  OBVIOUS
<1>1. /\ task # None /\ task.stage = "send" /\ DOMAIN task = TaskFields
      /\ At("send") /\ task.model # None
      /\ task.month \in 1 .. Months /\ task.attempt \in 0 .. MaxAttempts - 1
      /\ requests' = [requests EXCEPT ![task.month] = @ + 1]
      /\ UNCHANGED <<kind, disk, row, vectors, faults, month, counted, unwritten>>
  BY DEF SendBatch, At, FileInv, TaskType, VectorInv, CostInv, countVars
<1>2. /\ counted \in [1 .. Months -> 0 .. Limit]
      /\ requests \in [1 .. Months -> Nat] /\ Limit \in Nat
      /\ requests' \in [1 .. Months -> Nat]
  <2>1. /\ counted \in [1 .. Months -> 0 .. Limit]
        /\ requests \in [1 .. Months -> Nat]
    BY DEF FileInv, StateType
  <2>2. Limit \in Nat
    BY LimitAssumption
  <2>3. requests' \in [1 .. Months -> Nat]
    BY <1>1, <2>1
  <2> QED
    BY <2>1, <2>2, <2>3
<1>3. StateType'
  BY <1>1, <1>2 DEF FileInv, StateType
<1>4. ASSUME NEW m \in 1 .. Months
      PROVE  /\ requests[m] \in Nat /\ LetThrough(m) \in Nat
             /\ requests'[m] = IF m = task.month THEN requests[m] + 1 ELSE requests[m]
             /\ IF m = task.month
                THEN requests[m] + (MaxAttempts - task.attempt) <= MaxAttempts * LetThrough(m)
                ELSE requests[m] <= MaxAttempts * LetThrough(m)
             /\ LetThrough(m)' = LetThrough(m)
             /\ MaxAttempts * LetThrough(m) \in Nat
  <2>1. requests[m] \in Nat /\ LetThrough(m) \in Nat
    BY <1>2, ThroughIs DEF FileInv
  <2>2. MaxAttempts * LetThrough(m) \in Nat
    BY <2>1, Caps, Product
  <2>3. requests[m] + Pending(m) <= MaxAttempts * LetThrough(m)
    BY DEF FileInv, CostInv
  <2>4. IF m = task.month
        THEN requests[m] + (MaxAttempts - task.attempt) <= MaxAttempts * LetThrough(m)
        ELSE requests[m] <= MaxAttempts * LetThrough(m)
    BY <1>1, <2>1, <2>3 DEF Pending
  <2>5. requests'[m] = IF m = task.month THEN requests[m] + 1 ELSE requests[m]
    BY <1>1, <1>2
  <2>6. LetThrough(m)' = LetThrough(m)
    BY <1>1 DEF LetThrough
  <2> QED
    BY <2>1, <2>2, <2>4, <2>5, <2>6
<1>5. ~ At("send")' => CostInv'
  <2> SUFFICES ASSUME ~ At("send")', NEW m \in 1 .. Months
               PROVE  (requests[m] + Pending(m) <= MaxAttempts * LetThrough(m))'
    BY DEF CostInv
  <2>1. Pending(m)' = 0
    BY DEF Pending
  <2> QED
    BY <1>1, <1>4, <2>1, Caps
<1>6. CASE task' = NotEmbedded
  <2>1. TaskType' /\ TextInv' /\ VectorInv' /\ NewInv' /\ ~ At("send")'
    BY <1>1, <1>6, GivenUp
  <2> QED
    BY <1>3, <1>5, <2>1 DEF FileInv
<1>7. CASE Again /\ task' = [task EXCEPT !.attempt = @ + 1]
  <2>1. /\ DOMAIN task' = TaskFields /\ task'.stage = "send"
        /\ task'.stamp = task.stamp /\ task'.model = task.model
        /\ task'.text = task.text /\ task'.vlmHash = task.vlmHash
        /\ task'.torn = task.torn
        /\ task'.vectors = task.vectors
        /\ task'.month = task.month /\ task'.attempt = task.attempt + 1
    BY <1>1, <1>7 DEF TaskFields
  <2>2. Carry
    BY <1>1, <2>1 DEF Carry, Storing
  <2>3. TaskType' /\ TextInv'
    BY <1>1, <2>2, Carried DEF Reading
  <2>4. VectorInv'
    <3>1. /\ VectorsAgree'
          /\ Chunks(task.text)' = Chunks(task.text)
          /\ Vector(task.model, task.text)' = Vector(task.model, task.text)
      BY <1>1, <2>1, RowVectors DEF Chunks, Vector
    <3> QED
      BY <1>1, <2>1, <3>1 DEF FileInv, VectorInv, Storing
  <2>5. CostInv'
    <3>1. task'.month \in 1 .. Months /\ task'.attempt \in 0 .. MaxAttempts - 1
      BY <1>1, <1>7, <2>1, Caps DEF Again
    <3>2. ASSUME NEW m \in 1 .. Months
          PROVE  (requests[m] + Pending(m) <= MaxAttempts * LetThrough(m))'
      <4>1. CASE m = task.month
        <5>1. Pending(m)' \in {0, MaxAttempts - (task.attempt + 1)}
          BY <2>1 DEF Pending
        <5> QED
          BY <1>1, <1>4, <4>1, <5>1, Caps
      <4>2. CASE m # task.month
        <5>1. Pending(m)' = 0
          BY <2>1, <4>2 DEF Pending
        <5> QED
          BY <1>1, <1>4, <4>2, <5>1, Caps
      <4> QED
        BY <4>1, <4>2
    <3> QED
      BY <3>1, <3>2 DEF CostInv
  <2>6. NewInv'
    BY <1>1, <2>1, <2>2 DEF FileInv, NewInv, Carry, Storing
  <2> QED
    BY <1>3, <2>3, <2>4, <2>5, <2>6 DEF FileInv
<1>8. CASE task' = [task EXCEPT !.stage = IF LastBatch THEN "commit" ELSE "count",
                                !.vectors = Given(Batch)]
  <2>1. /\ DOMAIN task' = TaskFields
        /\ task'.stage = IF LastBatch THEN "commit" ELSE "count"
        /\ task'.stamp = task.stamp /\ task'.model = task.model
        /\ task'.text = task.text /\ task'.vlmHash = task.vlmHash
        /\ task'.torn = task.torn
        /\ task'.vectors = Given(Batch)
    BY <1>1, <1>8 DEF TaskFields
  <2>2. Carry
    BY <1>1, <2>1 DEF Carry, Storing
  <2>3. TaskType' /\ TextInv'
    BY <1>1, <2>2, Carried DEF Reading
  <2>4. VectorInv'
    <3>1. /\ DOMAIN Given(Batch) = Chunks(task.text)
          /\ \A i \in DOMAIN Given(Batch) :
               /\ Given(Batch)[i] \in {None, Vector(task.model, task.text)}
               /\ i \notin Batch => Given(Batch)[i] = task.vectors[i]
      BY <1>1, GivenVectors DEF Storing
    <3>2. LastBatch => \A i \in DOMAIN Given(Batch) :
                         Given(Batch)[i] = Vector(task.model, task.text)
      BY <1>1, GivenAll DEF Storing, LastBatch
    <3>3. ~ LastBatch => \E i \in DOMAIN Given(Batch) : Given(Batch)[i] = None
      <4>1. Batch \subseteq Missing
        BY DEF Batch
      <4>2. ASSUME ~ LastBatch
            PROVE  \E i \in Missing : i \notin Batch
        BY <4>1, <4>2 DEF LastBatch
      <4>3. \A i \in Missing : i \in DOMAIN task.vectors /\ task.vectors[i] = None
        BY DEF Missing, Filled
      <4>4. DOMAIN Given(Batch) = DOMAIN task.vectors
        BY DEF Given
      <4> QED
        BY <3>1, <4>2, <4>3, <4>4
    <3>4. /\ VectorsAgree'
          /\ NoVectors(task.text)' = NoVectors(task.text)
          /\ Chunks(task.text)' = Chunks(task.text)
          /\ Vector(task.model, task.text)' = Vector(task.model, task.text)
      BY <1>1, <2>1, RowVectors DEF Chunks, Vector, NoVectors
    <3> QED
      BY <1>1, <2>1, <3>1, <3>2, <3>3, <3>4 DEF VectorInv
  <2>5. CostInv'
    <3>1. ~ At("send")'
      BY <2>1 DEF At
    <3> QED
      BY <1>5, <3>1
  <2>6. NewInv'
    BY <1>1, <2>1, <2>2 DEF FileInv, NewInv, Carry, Storing
  <2> QED
    BY <1>3, <2>3, <2>4, <2>5, <2>6 DEF FileInv
<1> QED
  BY <1>6, <1>7, <1>8 DEF SendBatch

-----------------------------------------------------------------------------
LEMMA NextFileInv == FileInv /\ [FileNext]_vars => FileInv'
<1> SUFFICES ASSUME FileInv, [FileNext]_vars
             PROVE  FileInv'
  OBVIOUS
<1>1. CASE UNCHANGED vars
  <2>1. StateType'
    BY <1>1 DEF vars, fileVars, countVars, FileInv, StateType
  <2>2. TaskType' /\ NewInv'
    BY <1>1 DEF vars, fileVars, FileInv, TaskType, NewInv
  <2>3. TextInv'
    BY <1>1 DEF vars, fileVars, FileInv, TextInv, Fits, FitsOrTorn
  <2>4. VectorInv'
    BY <1>1 DEF vars, fileVars, FileInv, VectorInv, VectorsAgree,
                NoVectors, Chunks, Vector
  <2>5. CostInv'
    BY <1>1 DEF vars, fileVars, countVars, FileInv, CostInv, Pending, At, LetThrough
  <2> QED
    BY <2>1, <2>2, <2>3, <2>4, <2>5 DEF FileInv
<1>2. CASE FileNext
  BY <1>2, ChangeInv, ClearInv, NewMonthInv, LoseCountInv, BeginInv, FastPathInv, ReadTextInv,
     HashPdfInv, CallVlmInv, CheckHashInv, EmbedLocallyInv, CountCallInv,
     SendBatchInv, CommitFileInv, FailInv DEF FileNext, IndexStep
<1> QED
  BY <1>1, <1>2

LEMMA FileInvHolds == FileSpec => []FileInv
<1>1. FileInit => FileInv
  BY InitFileInv
<1>2. FileInv /\ [FileNext]_vars => FileInv'
  BY NextFileInv
<1> QED
  BY <1>1, <1>2, PTL DEF FileSpec

(* The vectors that are stored are all of the recorded model and of the    *)
(* stored text, or there is none: whatever batch fails, and whatever model *)
(* the passes come with.                                                   *)
THEOREM VectorsAlwaysAgree == FileSpec => []VectorsAgree
<1>1. FileInv => VectorsAgree
  BY DEF FileInv, VectorInv
<1> QED
  BY <1>1, FileInvHolds, PTL

(* Neither the stamp nor the cache of the VLM makes an older text pass for *)
(* the present one, unless the VLM was sent other bytes than those hashed  *)
(* and these are put back.                                                 *)
THEOREM TextIsCurrent == FileSpec => []CachedIsCurrent
<1>1. ASSUME FileInv
      PROVE  CachedIsCurrent
  <2>1. FileTypeOK
    <3>1. row = None \/ row \in RowType
      BY <1>1 DEF FileInv, StateType
    <3>2. task # None => task.stage \in {"stat", "read", "hash", "vlm", "check",
                                         "embed", "count", "send", "commit"}
      BY <1>1 DEF FileInv, TaskType, Reading, Storing
    <3>3. At("send") => task.month \in 1 .. Months
      BY <1>1 DEF FileInv, CostInv
    <3>4. At("send") => Missing # {}
      BY <1>1 DEF FileInv, VectorInv, At, Missing, Filled
    <3> QED
      BY <1>1, <3>1, <3>2, <3>3, <3>4 DEF FileInv, StateType, FileTypeOK, RowType, TextType
  <2>2. (row # None /\ row.stamp = disk.stamp) =>
          RowIsCurrent \/ TornHere
    BY <1>1 DEF FileInv, TextInv, Fits, FitsOrTorn, RowIsCurrent, TornHere
  <2> QED
    BY <2>1, <2>2 DEF CachedIsCurrent
<1> QED
  BY <1>1, FileInvHolds, PTL

(* A month costs at most MaxAttempts requests for each call that was let   *)
(* through, counted or not, whatever fails, is retried or is started again. *)
THEOREM CostIsBounded == FileSpec => []RequestsBounded
<1>1. ASSUME FileInv, NEW m \in 1 .. Months
      PROVE  requests[m] <= MaxAttempts * LetThrough(m)
  <2>1. requests[m] \in Nat /\ LetThrough(m) \in Nat /\ Pending(m) \in Nat
    <3>1. requests[m] \in Nat /\ LetThrough(m) \in Nat
      BY <1>1, ThroughIs DEF FileInv, StateType
    <3>2. At("send") => task.attempt \in 0 .. MaxAttempts - 1
      BY <1>1 DEF FileInv, CostInv
    <3>3. Pending(m) \in Nat
      BY <3>2, Caps DEF Pending
    <3> QED
      BY <3>1, <3>3
  <2>2. requests[m] + Pending(m) <= MaxAttempts * LetThrough(m)
    BY <1>1 DEF FileInv, CostInv
  <2>3. MaxAttempts * LetThrough(m) \in Nat
    BY <2>1, Caps, Product
  <2> QED
    BY <2>1, <2>2, <2>3
<1>2. FileInv => RequestsBounded
  BY <1>1 DEF RequestsBounded, LetThrough
<1> QED
  BY <1>2, FileInvHolds, PTL

(* Text that is stored is not sent to the API again. *)
THEOREM OnlyNewTextIsSent == FileSpec => OnlyNewText
<1>1. FileInv /\ [FileNext]_vars =>
        [requests' # requests => row = None \/ row.text # task.text]_vars
  <2> SUFFICES ASSUME FileInv, FileNext, requests' # requests
               PROVE  row = None \/ row.text # task.text
    BY DEF vars, fileVars
  <2>1. SendBatch
    BY DEF FileNext, IndexStep, Change, ClearVlmHashes, NewMonth, LoseCount, fileVars, Begin,
           FastPath, ReadText, HashPdf, CallVlm, CheckHash, EmbedLocally,
           CountCall, CommitFile, Fail, Rest, Kept
  <2> QED
    BY <2>1 DEF SendBatch, At, FileInv, NewInv, Storing
<1> QED
  BY <1>1, FileInvHolds, PTL DEF FileSpec, OnlyNewText
=============================================================================
