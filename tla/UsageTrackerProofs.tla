------------------------- MODULE UsageTrackerProofs -------------------------
(***************************************************************************)
(* What holds of UsageTracker for one process, every limit and number of   *)
(* months, with crashes, resets and writes that fail at any point.  With   *)
(* two processes it does not hold: see the run usage_race.                 *)
(***************************************************************************)
EXTENDS UsageTracker, TLAPS

OneProcess == \A p, q \in Proc : p = q

CallType == [stage : {"open", "write", "rename"}, data : Usage,
             fd : Inode \cup {Absent}, counts : BOOLEAN]

(* The calls of month m that a file with this content knows of. *)
Of(u, m) == IF u.month = m THEN u.count ELSE u.history[m]
Known(m) == IF json = Absent THEN 0 ELSE Of(content[json], m)

(* A content that is not ahead of the clock nor of the limit. *)
Sound(u) ==
  /\ u.month <= thisMonth /\ u.count <= MonthlyLimit
  /\ \A m \in Month : m > u.month => u.history[m] = 0

TrackerInv ==
  /\ TrackerTypeOK
  /\ \A m \in Month : uncounted[m] <= admitted[m]
  /\ \A m \in Month : admitted[m] - uncounted[m] <= Known(m)
  /\ tmp = Absent \/ tmp # json
  /\ json # Absent => content[json] # Absent /\ Sound(content[json])

(* What a call in flight will write: the file and itself, or after a reset *)
(* nothing; and where it has got to.                                       *)
CallInv(p) ==
  call[p] # Absent =>
    /\ Sound(call[p].data)
    /\ call[p].counts =>
         /\ call[p].data.count > 0
         /\ \A m \in Month :
              admitted[m] - uncounted[m] <=
                Of(call[p].data, m) - IF m = call[p].data.month THEN 1 ELSE 0
    /\ ~ call[p].counts => \A m \in Month : admitted[m] = uncounted[m]
    /\ call[p].stage = "write" => tmp = call[p].fd /\ tmp \in Inode
    /\ call[p].stage = "rename" => tmp # Absent /\ content[tmp] = call[p].data

OneInv == TrackerInv /\ \A p \in Proc : CallInv(p)

-----------------------------------------------------------------------------
LEMMA Sizes ==
  MonthlyLimit \in Nat /\ LastMonth \in Nat \ {0} /\ Absent \notin Inode /\ Absent \notin Usage
BY TrackerAssumption, Zenon

LEMMA FreshFacts ==
  ASSUME NEW m \in Month
  PROVE  /\ Fresh(m) \in Usage /\ Fresh(m).month = m /\ Fresh(m).count = 0
         /\ \A k \in Month : Fresh(m).history[k] = 0
         /\ \A k \in Month : Of(Fresh(m), k) = 0
BY DEF Fresh, Zero, Usage, Of

LEMMA OfIsNat ==
  ASSUME NEW u \in Usage, NEW m \in Month
  PROVE  Of(u, m) \in Nat
BY DEF Of, Usage

(* The month of the file is closed and no call of it is forgotten. *)
LEMMA RolledOverFacts ==
  ASSUME NEW u \in Usage, Sound(u), thisMonth \in Month
  PROVE  /\ RolledOver(u) \in Usage /\ Sound(RolledOver(u))
         /\ RolledOver(u).month = thisMonth
         /\ \A m \in Month : Of(RolledOver(u), m) = Of(u, m)
<1>1. CASE u.month = thisMonth
  BY <1>1 DEF RolledOver
<1>2. CASE u.month # thisMonth
  <2> DEFINE r == [month |-> thisMonth, count |-> 0,
                   history |-> [u.history EXCEPT ![u.month] = u.count]]
  <2>1. RolledOver(u) = r
    BY <1>2 DEF RolledOver
  <2>2. /\ u.month \in Month /\ u.count \in Nat /\ u.history \in [Month -> Nat]
    BY DEF Usage
  <2>3. /\ r.month = thisMonth /\ r.count = 0
        /\ r.history \in [Month -> Nat]
        /\ r.history[u.month] = u.count
        /\ \A m \in Month : m # u.month => r.history[m] = u.history[m]
    BY <2>2
  <2>4. u.month < thisMonth /\ \A m \in Month : m \in Nat
    BY <1>2, <2>2, Sizes DEF Sound, Month
  <2>5. r \in Usage
    BY <2>3 DEF Usage
  <2> HIDE DEF r
  <2>6. Sound(r)
    BY <2>2, <2>3, <2>4, Sizes DEF Sound
  <2>7. ASSUME NEW m \in Month
        PROVE  Of(r, m) = Of(u, m)
    <3>1. CASE m = thisMonth
      BY <1>2, <2>3, <2>4, <3>1 DEF Sound, Of
    <3>2. CASE m = u.month
      BY <1>2, <2>3, <3>2 DEF Of
    <3>3. CASE m # thisMonth /\ m # u.month
      BY <2>3, <3>3 DEF Of
    <3> QED
      BY <3>1, <3>2, <3>3
  <2> QED
    BY <2>1, <2>3, <2>5, <2>6, <2>7
<1> QED
  BY <1>1, <1>2

LEMMA InitOneInv == TrackerInit => OneInv
<1> SUFFICES ASSUME TrackerInit
             PROVE  OneInv
  OBVIOUS
<1>1. TrackerTypeOK
  BY Sizes DEF TrackerInit, TrackerTypeOK, Month, Zero, InCall
<1>2. ASSUME NEW m \in Month
      PROVE  admitted[m] = 0 /\ uncounted[m] = 0 /\ Known(m) = 0
  BY DEF TrackerInit, Zero, Known
<1> QED
  BY <1>1, <1>2 DEF TrackerInit, OneInv, TrackerInv, CallInv

-----------------------------------------------------------------------------
(* The call of p is over, or was given up: the file is what it was. *)
LEMMA CallOver ==
  ASSUME OneProcess, OneInv, NEW p \in Proc, call' = [call EXCEPT ![p] = Absent],
         UNCHANGED <<thisMonth, content, json, tmp>>,
         admitted' \in [Month -> Nat], uncounted' \in [Month -> Nat],
         \A m \in Month : /\ uncounted'[m] <= admitted'[m]
                          /\ admitted'[m] - uncounted'[m] <= Known(m)
  PROVE  OneInv'
<1>1. call' = [q \in Proc |-> Absent]
  BY DEF OneProcess, OneInv, TrackerInv, TrackerTypeOK
<1>2. TrackerTypeOK'
  BY <1>1 DEF OneInv, TrackerInv, TrackerTypeOK, InCall
<1>3. TrackerInv'
  BY <1>2 DEF OneInv, TrackerInv, Known, Of, Sound
<1> QED
  BY <1>1, <1>3 DEF OneInv, CallInv

LEMMA NextMonthInv == OneInv /\ NextMonth => OneInv'
<1> SUFFICES ASSUME OneInv, NextMonth
             PROVE  OneInv'
  OBVIOUS
<1>1. thisMonth' \in Month /\ thisMonth \in Nat /\ thisMonth' = thisMonth + 1
  BY Sizes DEF NextMonth, Month, OneInv, TrackerInv, TrackerTypeOK
<1>2. TrackerTypeOK'
  BY <1>1 DEF NextMonth, OneInv, TrackerInv, TrackerTypeOK, InCall
<1>3. ASSUME NEW u \in Usage, Sound(u)
      PROVE  Sound(u)'
  <2>1. u.month \in Nat
    BY Sizes DEF Usage, Month
  <2> QED
    BY <1>1, <1>3, <2>1 DEF Sound
<1>4. json # Absent => Sound(content[json])'
  <2>1. json # Absent => content[json] \in Usage /\ Sound(content[json])
    BY DEF OneInv, TrackerInv, TrackerTypeOK
  <2>2. json' = json /\ content' = content
    BY DEF NextMonth
  <2> QED
    BY <1>3, <2>1, <2>2 DEF Sound
<1>5. TrackerInv'
  BY <1>2, <1>4 DEF NextMonth, OneInv, TrackerInv, Known, Of
<1>6. ASSUME NEW p \in Proc
      PROVE  CallInv(p)'
  <2>1. call[p] # Absent => call[p].data \in Usage /\ Sound(call[p].data)
    BY DEF OneInv, TrackerInv, TrackerTypeOK, CallInv
  <2>2. call' = call
    BY DEF NextMonth
  <2>3. call[p] # Absent => Sound(call[p].data)'
    BY <1>3, <2>1, <2>2 DEF Sound
  <2> QED
    BY <2>2, <2>3 DEF NextMonth, OneInv, CallInv, Of
<1> QED
  BY <1>5, <1>6 DEF OneInv

LEMMA LoadInv ==
  ASSUME OneProcess, OneInv, NEW p \in Proc, Load(p)
  PROVE  OneInv'
<1> DEFINE u == RolledOver(Loaded)
           c == [stage |-> "open", fd |-> Absent,
                 data |-> [u EXCEPT !.count = @ + 1], counts |-> TRUE]
<1>1. thisMonth \in Month /\ thisMonth \in Nat
  BY Sizes DEF Month, OneInv, TrackerInv, TrackerTypeOK
<1>2. /\ Loaded \in Usage /\ Sound(Loaded)
      /\ \A m \in Month : Of(Loaded, m) = Known(m)
  <2>1. CASE json = Absent
    <3>1. Loaded = Fresh(thisMonth)
      BY <2>1 DEF Loaded
    <3> QED
      BY <1>1, <2>1, <3>1, FreshFacts, Sizes DEF Known, Sound
  <2>2. CASE json # Absent
    <3>1. /\ content[json] # Absent /\ Sound(content[json])
          /\ content[json] \in Usage
      BY <2>2 DEF OneInv, TrackerInv, TrackerTypeOK
    <3>2. Loaded = content[json]
      BY <2>2, <3>1 DEF Loaded
    <3> QED
      BY <2>2, <3>1, <3>2 DEF Known
  <2> QED
    BY <2>1, <2>2
<1>3. /\ u \in Usage /\ Sound(u) /\ u.month = thisMonth
      /\ \A m \in Month : Of(u, m) = Known(m)
  BY <1>1, <1>2, RolledOverFacts
<1>4. u.count < MonthlyLimit /\ call' = [call EXCEPT ![p] = c]
  BY DEF Load, Allowed, SetCall
<1> HIDE DEF u
<1>5. /\ c.data \in Usage /\ c.data.month = thisMonth /\ c.data.count = u.count + 1
      /\ c.data.history = u.history
  BY <1>3 DEF Usage
<1>6. u.count \in Nat
  BY <1>3 DEF Usage
<1>7. c \in CallType
  BY <1>5 DEF CallType
<1>8. c.stage = "open" /\ c.counts = TRUE
  OBVIOUS
<1> HIDE DEF c
<1>9. UNCHANGED <<thisMonth, content, json, tmp, admitted, uncounted>>
  BY DEF Load
<1>10. TrackerTypeOK'
  BY <1>4, <1>7, <1>8, <1>9 DEF OneInv, TrackerInv, TrackerTypeOK, CallType, InCall
<1>11. TrackerInv'
  BY <1>9, <1>10 DEF OneInv, TrackerInv, Known, Of, Sound
<1>12. Sound(c.data)
  BY <1>1, <1>3, <1>4, <1>5, <1>6, Sizes DEF Sound
<1>13. ASSUME NEW m \in Month
       PROVE  admitted[m] - uncounted[m] <=
                Of(c.data, m) - IF m = c.data.month THEN 1 ELSE 0
  <2>1. admitted[m] - uncounted[m] <= Of(u, m) /\ Of(u, m) \in Nat
    BY <1>3, OfIsNat DEF OneInv, TrackerInv
  <2>2. /\ m = thisMonth => Of(u, m) = u.count /\ Of(c.data, m) = u.count + 1
        /\ m # thisMonth => Of(c.data, m) = Of(u, m)
    BY <1>3, <1>5 DEF Of
  <2>3. admitted[m] \in Nat /\ uncounted[m] \in Nat
    BY DEF OneInv, TrackerInv, TrackerTypeOK
  <2> QED
    BY <1>5, <1>6, <2>1, <2>2, <2>3
<1>14. ASSUME NEW q \in Proc
       PROVE  CallInv(q)'
  <2>1. q = p /\ call'[q] = c
    BY <1>4 DEF OneProcess, OneInv, TrackerInv, TrackerTypeOK
  <2> QED
    BY <1>5, <1>6, <1>8, <1>9, <1>12, <1>13, <2>1 DEF CallInv, Of, Sound
<1> QED
  BY <1>11, <1>14 DEF OneInv

LEMMA ResetInv ==
  ASSUME OneProcess, OneInv, NEW p \in Proc, Reset(p)
  PROVE  OneInv'
<1> DEFINE c == [stage |-> "open", fd |-> Absent, data |-> Fresh(thisMonth), counts |-> FALSE]
<1>1. thisMonth \in Month /\ thisMonth \in Nat
  BY Sizes DEF Month, OneInv, TrackerInv, TrackerTypeOK
<1>2. /\ call' = [call EXCEPT ![p] = c] /\ json' = Absent
      /\ admitted' = Zero /\ uncounted' = Zero
      /\ UNCHANGED <<thisMonth, content, tmp>>
  BY DEF Reset, SetCall
<1>3. c \in CallType /\ Sound(c.data)
  BY <1>1, FreshFacts, Sizes DEF CallType, Sound
<1>4. c.stage = "open" /\ c.counts = FALSE
  OBVIOUS
<1> HIDE DEF c
<1>5. Zero \in [Month -> Nat] /\ \A m \in Month : Zero[m] = 0
  BY DEF Zero
<1>6. TrackerTypeOK'
  BY <1>2, <1>3, <1>4, <1>5 DEF OneInv, TrackerInv, TrackerTypeOK, CallType, InCall
<1>7. TrackerInv'
  BY <1>2, <1>5, <1>6, Sizes DEF OneInv, TrackerInv, TrackerTypeOK, Known
<1>8. ASSUME NEW q \in Proc
      PROVE  CallInv(q)'
  <2>1. q = p /\ call'[q] = c
    BY <1>2 DEF OneProcess, OneInv, TrackerInv, TrackerTypeOK
  <2> QED
    BY <1>2, <1>3, <1>4, <1>5, <2>1 DEF CallInv, Sound
<1> QED
  BY <1>7, <1>8 DEF OneInv

LEMMA OpenTmpInv ==
  ASSUME OneProcess, OneInv, NEW p \in Proc, OpenTmp(p)
  PROVE  OneInv'
<1>0. PICK i \in IF tmp # Absent THEN {tmp} ELSE {j \in Inode : Free(j)} :
           /\ tmp' = i
           /\ content' = [content EXCEPT ![i] = Absent]
           /\ SetCall(p, [call[p] EXCEPT !.stage = "write", !.fd = i])
  BY DEF OpenTmp
<1>1. i \in Inode /\ i # json /\ i # Absent
  BY <1>0, Sizes DEF Free, OneInv, TrackerInv, TrackerTypeOK
<1>2. /\ call[p] # Absent /\ call[p] \in CallType
      /\ UNCHANGED <<thisMonth, json, admitted, uncounted>>
  BY DEF OpenTmp, InCall, CallType, OneInv, TrackerInv, TrackerTypeOK
<1>3. /\ tmp' = i /\ content' \in [Inode -> Usage \cup {Absent}]
      /\ \A j \in Inode : j # i => content'[j] = content[j]
  BY <1>0, <1>1 DEF OneInv, TrackerInv, TrackerTypeOK
<1>4. PICK c \in CallType :
         /\ call' = [call EXCEPT ![p] = c]
         /\ c.stage = "write" /\ c.fd = i
         /\ c.data = call[p].data /\ c.counts = call[p].counts
  <2>1. [call[p] EXCEPT !.stage = "write", !.fd = i] \in CallType
    BY <1>1, <1>2 DEF CallType
  <2> QED
    BY <1>0, <1>2, <2>1 DEF SetCall, CallType
<1>5. \A q \in Proc : q = p /\ call'[q] = c
  BY <1>4 DEF OneProcess, OneInv, TrackerInv, TrackerTypeOK
<1>6. TrackerTypeOK'
  BY <1>1, <1>2, <1>3, <1>4, <1>5 DEF OneInv, TrackerInv, TrackerTypeOK, CallType, InCall
<1>7. json # Absent => content'[json] = content[json]
  BY <1>1, <1>3 DEF OneInv, TrackerInv, TrackerTypeOK
<1>8. TrackerInv'
  BY <1>1, <1>2, <1>3, <1>6, <1>7 DEF OneInv, TrackerInv, Known, Of, Sound
<1>9. ASSUME NEW q \in Proc
      PROVE  CallInv(q)'
  <2>1. CallInv(p)
    BY DEF OneInv
  <2> QED
    BY <1>1, <1>2, <1>3, <1>4, <1>5, <2>1 DEF CallInv, Of, Sound
<1> QED
  BY <1>8, <1>9 DEF OneInv

LEMMA WriteTmpInv ==
  ASSUME OneProcess, OneInv, NEW p \in Proc, WriteTmp(p)
  PROVE  OneInv'
<1>1. /\ call[p] # Absent /\ call[p] \in CallType
      /\ call[p].fd = tmp /\ tmp \in Inode /\ tmp # json
      /\ UNCHANGED <<thisMonth, json, tmp, admitted, uncounted>>
  BY Sizes DEF WriteTmp, InCall, CallType, CallInv, OneInv, TrackerInv, TrackerTypeOK
<1>2. call[p].data \in Usage
  BY <1>1 DEF CallType
<1>3. /\ content' \in [Inode -> Usage \cup {Absent}]
      /\ content'[tmp] = call[p].data
      /\ \A j \in Inode : j # tmp => content'[j] = content[j]
  BY <1>1, <1>2 DEF WriteTmp, OneInv, TrackerInv, TrackerTypeOK
<1>4. PICK c \in CallType :
         /\ call' = [call EXCEPT ![p] = c]
         /\ c.stage = "rename"
         /\ c.data = call[p].data /\ c.counts = call[p].counts
  <2>1. [call[p] EXCEPT !.stage = "rename", !.fd = Absent] \in CallType
    BY <1>1 DEF CallType
  <2> QED
    BY <1>1, <2>1 DEF WriteTmp, SetCall, CallType
<1>5. \A q \in Proc : q = p /\ call'[q] = c
  BY <1>4 DEF OneProcess, OneInv, TrackerInv, TrackerTypeOK
<1>6. TrackerTypeOK'
  BY <1>1, <1>3, <1>4, <1>5 DEF OneInv, TrackerInv, TrackerTypeOK, CallType, InCall
<1>7. json # Absent => content'[json] = content[json]
  BY <1>1, <1>3 DEF OneInv, TrackerInv, TrackerTypeOK
<1>8. TrackerInv'
  BY <1>1, <1>6, <1>7 DEF OneInv, TrackerInv, Known, Of, Sound
<1>9. ASSUME NEW q \in Proc
      PROVE  CallInv(q)'
  <2>1. CallInv(p)
    BY DEF OneInv
  <2> QED
    BY <1>1, <1>3, <1>4, <1>5, Sizes, <2>1 DEF CallInv, Of, Sound
<1> QED
  BY <1>8, <1>9 DEF OneInv

(* The call is let through, and at most one more is. *)
LEMMA WithCallFacts ==
  ASSUME OneInv, NEW p \in Proc, call[p] # Absent, NEW calls \in [Month -> Nat]
  PROVE  /\ WithCall(calls, p) \in [Month -> Nat]
         /\ \A m \in Month :
              WithCall(calls, p)[m] =
                IF call[p].counts /\ m = call[p].data.month THEN calls[m] + 1 ELSE calls[m]
<1>1. call[p].data.month \in Month
  BY DEF OneInv, TrackerInv, TrackerTypeOK, Usage
<1> QED
  BY <1>1 DEF WithCall

LEMMA RenameInv ==
  ASSUME OneProcess, OneInv, NEW p \in Proc, Rename(p)
  PROVE  OneInv'
<1> DEFINE c == call[p]
<1>1. /\ c # Absent /\ c \in CallType /\ Sound(c.data)
      /\ c.stage = "rename" /\ tmp \in Inode /\ content[tmp] = c.data
      /\ c.data \in Usage
  BY DEF Rename, InCall, CallType, CallInv, OneInv, TrackerInv, TrackerTypeOK
<1>2. /\ json' = tmp /\ tmp' = Absent /\ call' = [call EXCEPT ![p] = Absent]
      /\ admitted' = WithCall(admitted, p)
      /\ UNCHANGED <<thisMonth, content, uncounted>>
  BY <1>1, Sizes DEF Rename, SetCall
<1>3. call' = [q \in Proc |-> Absent]
  BY <1>2 DEF OneProcess, OneInv, TrackerInv, TrackerTypeOK
<1>4. /\ admitted' \in [Month -> Nat]
      /\ \A m \in Month :
           admitted'[m] = IF c.counts /\ m = c.data.month THEN admitted[m] + 1 ELSE admitted[m]
  BY <1>1, <1>2, WithCallFacts DEF OneInv, TrackerInv, TrackerTypeOK
<1>5. TrackerTypeOK'
  BY <1>1, <1>2, <1>3, <1>4 DEF OneInv, TrackerInv, TrackerTypeOK, InCall
<1>6. content[tmp] # Absent
  BY <1>1, Sizes
<1>7. ASSUME NEW m \in Month
      PROVE  /\ uncounted[m] <= admitted'[m]
             /\ admitted'[m] - uncounted[m] <= Of(c.data, m)
  <2>1. /\ admitted[m] \in Nat /\ uncounted[m] \in Nat /\ uncounted[m] <= admitted[m]
        /\ Of(c.data, m) \in Nat /\ c.counts \in BOOLEAN
    BY <1>1, OfIsNat DEF CallType, OneInv, TrackerInv, TrackerTypeOK
  <2>2. CASE c.counts
    <3>1. admitted[m] - uncounted[m] <= Of(c.data, m) - IF m = c.data.month THEN 1 ELSE 0
      BY <1>1, <2>2 DEF OneInv, CallInv
    <3> QED
      BY <1>4, <2>1, <2>2, <3>1
  <2>3. CASE ~ c.counts
    <3>1. admitted[m] = uncounted[m]
      BY <1>1, <2>3 DEF OneInv, CallInv
    <3> QED
      BY <1>4, <2>1, <2>3, <3>1
  <2> QED
    BY <2>1, <2>2, <2>3
<1>8. json' # Absent /\ content'[json'] = c.data
  BY <1>1, <1>2, Sizes
<1>9. TrackerInv'
  BY <1>1, <1>2, <1>5, <1>6, <1>7, <1>8 DEF TrackerInv, Known, Of, Sound
<1> QED
  BY <1>3, <1>9 DEF OneInv, CallInv

LEMMA WriteFailsInv ==
  ASSUME OneProcess, OneInv, NEW p \in Proc, WriteFails(p)
  PROVE  OneInv'
<1>1. /\ call[p] # Absent
      /\ admitted' = WithCall(admitted, p) /\ uncounted' = WithCall(uncounted, p)
      /\ call' = [call EXCEPT ![p] = Absent]
      /\ UNCHANGED <<thisMonth, content, json, tmp>>
  BY DEF WriteFails, InCall, SetCall
<1>2. admitted \in [Month -> Nat] /\ uncounted \in [Month -> Nat]
  BY DEF OneInv, TrackerInv, TrackerTypeOK
<1>3. admitted' \in [Month -> Nat] /\ uncounted' \in [Month -> Nat]
  BY <1>1, <1>2, WithCallFacts
<1>4. ASSUME NEW m \in Month
      PROVE  /\ uncounted'[m] <= admitted'[m]
             /\ admitted'[m] - uncounted'[m] <= Known(m)
  <2>1. /\ admitted[m] \in Nat /\ uncounted[m] \in Nat
        /\ uncounted[m] <= admitted[m] /\ admitted[m] - uncounted[m] <= Known(m)
    BY <1>2 DEF OneInv, TrackerInv
  <2>2. PICK n \in {0, 1} : admitted'[m] = admitted[m] + n /\ uncounted'[m] = uncounted[m] + n
    <3>1. CASE call[p].counts /\ m = call[p].data.month
      BY <1>1, <1>2, <3>1, WithCallFacts
    <3>2. CASE ~ (call[p].counts /\ m = call[p].data.month)
      BY <1>1, <1>2, <2>1, <3>2, WithCallFacts
    <3> QED
      BY <3>1, <3>2
  <2>3. admitted'[m] - uncounted'[m] = admitted[m] - uncounted[m]
    BY <2>1, <2>2
  <2> QED
    BY <2>1, <2>2, <2>3
<1> QED
  BY <1>1, <1>3, <1>4, CallOver

LEMMA CrashInv ==
  ASSUME OneProcess, OneInv, NEW p \in Proc, Crash(p)
  PROVE  OneInv'
<1>1. /\ call' = [call EXCEPT ![p] = Absent]
      /\ UNCHANGED <<thisMonth, content, json, tmp, admitted, uncounted>>
  BY DEF Crash, SetCall
<1>2. /\ admitted' \in [Month -> Nat] /\ uncounted' \in [Month -> Nat]
      /\ \A m \in Month : /\ uncounted'[m] <= admitted'[m]
                          /\ admitted'[m] - uncounted'[m] <= Known(m)
  BY <1>1 DEF OneInv, TrackerInv, TrackerTypeOK
<1> QED
  BY <1>1, <1>2, CallOver

-----------------------------------------------------------------------------
LEMMA NextOneInv ==
  ASSUME OneProcess
  PROVE  OneInv /\ [TrackerNext]_trackerVars => OneInv'
<1> SUFFICES ASSUME OneInv, [TrackerNext]_trackerVars
             PROVE  OneInv'
  OBVIOUS
<1>1. CASE UNCHANGED trackerVars
  BY <1>1 DEF trackerVars, OneInv, TrackerInv, TrackerTypeOK, CallInv, InCall, Known, Of, Sound
<1>2. CASE NextMonth
  BY <1>2, NextMonthInv
<1>3. ASSUME NEW p \in Proc,
             \/ Load(p) \/ OpenTmp(p) \/ WriteTmp(p) \/ Rename(p)
             \/ Reset(p) \/ WriteFails(p) \/ Crash(p)
      PROVE  OneInv'
  BY <1>3, LoadInv, OpenTmpInv, WriteTmpInv, RenameInv, ResetInv, WriteFailsInv, CrashInv
<1> QED
  BY <1>1, <1>2, <1>3 DEF TrackerNext

LEMMA OneInvHolds ==
  ASSUME OneProcess
  PROVE  TrackerSpec => []OneInv
<1>1. TrackerInit => OneInv
  BY InitOneInv
<1>2. OneInv /\ [TrackerNext]_trackerVars => OneInv'
  BY NextOneInv
<1> QED
  BY <1>1, <1>2, PTL DEF TrackerSpec

(* With one process no call that was let through is ever missing from      *)
(* usage.json once it is over, and the file always parses: over any number *)
(* of months, of crashes and of writes that fail.                          *)
THEOREM NoCallIsForgotten ==
  ASSUME OneProcess
  PROVE  TrackerSpec => []AdmittedAreCounted
<1>1. ASSUME OneInv
      PROVE  AdmittedAreCounted
  <2>1. ASSUME NEW m \in Month, admitted[m] > uncounted[m]
        PROVE  /\ json # Absent
               /\ admitted[m] - uncounted[m] <= IF content[json].month = m
                                                THEN content[json].count
                                                ELSE content[json].history[m]
    <3>1. /\ admitted[m] \in Nat /\ uncounted[m] \in Nat
          /\ admitted[m] - uncounted[m] <= Known(m)
      BY <1>1 DEF OneInv, TrackerInv, TrackerTypeOK
    <3> QED
      BY <2>1, <3>1 DEF Known, Of
  <2> QED
    BY <1>1, <2>1 DEF AdmittedAreCounted, OneInv, TrackerInv
<1> QED
  BY <1>1, OneInvHolds, PTL

-----------------------------------------------------------------------------
(* The refinement. *)
Calls == [m \in Month |-> admitted[m] - uncounted[m]]

(* A step of the files is no step of the count until the call is let       *)
(* through.                                                                *)
LEMMA StepImplements ==
  ASSUME OneProcess, OneInv, [TrackerNext]_trackerVars
  PROVE  [Counted!UsageNext]_<<thisMonth, Calls>>
<1>1. CASE UNCHANGED <<thisMonth, admitted, uncounted>>
  BY <1>1 DEF Calls
<1>2. CASE NextMonth
  BY <1>2 DEF NextMonth, Counted!UsageNext, Counted!LaterMonth, Calls
<1>3. ASSUME NEW p \in Proc, Reset(p)
      PROVE  Counted!TakeBack
  <2>1. thisMonth' = thisMonth /\ admitted' = Zero /\ uncounted' = Zero
    BY <1>3 DEF Reset
  <2>2. \A m \in Month : Zero[m] - Zero[m] = 0
    BY DEF Zero
  <2> QED
    BY <2>1, <2>2 DEF Counted!TakeBack, Month
<1>4. ASSUME NEW p \in Proc, WriteFails(p)
      PROVE  thisMonth' = thisMonth /\ Calls' = Calls
  <2>1. /\ call[p] # Absent /\ thisMonth' = thisMonth
        /\ admitted' = WithCall(admitted, p) /\ uncounted' = WithCall(uncounted, p)
        /\ admitted \in [Month -> Nat] /\ uncounted \in [Month -> Nat]
    BY <1>4 DEF WriteFails, InCall, OneInv, TrackerInv, TrackerTypeOK
  <2>2. ASSUME NEW m \in Month
        PROVE  admitted'[m] - uncounted'[m] = admitted[m] - uncounted[m]
    <3>1. PICK n \in {0, 1} : admitted'[m] = admitted[m] + n /\ uncounted'[m] = uncounted[m] + n
      <4>1. CASE call[p].counts /\ m = call[p].data.month
        BY <2>1, <4>1, WithCallFacts
      <4>2. CASE ~ (call[p].counts /\ m = call[p].data.month)
        <5>1. admitted'[m] = admitted[m] + 0 /\ uncounted'[m] = uncounted[m] + 0
          BY <2>1, <4>2, WithCallFacts
        <5> QED
          BY <5>1
      <4> QED
        BY <4>1, <4>2
    <3> QED
      BY <2>1, <3>1
  <2> QED
    BY <2>1, <2>2 DEF Calls
<1>5. ASSUME NEW p \in Proc, Rename(p)
      PROVE  [Counted!UsageNext]_<<thisMonth, Calls>>
  <2> DEFINE c == call[p]
  <2>1. /\ c # Absent /\ c \in CallType /\ c.stage = "rename"
        /\ Sound(c.data) /\ c.data \in Usage
        /\ thisMonth' = thisMonth /\ uncounted' = uncounted
        /\ admitted' = WithCall(admitted, p)
        /\ admitted \in [Month -> Nat] /\ uncounted \in [Month -> Nat]
    BY <1>5 DEF Rename, InCall, CallType, CallInv, OneInv, TrackerInv, TrackerTypeOK
  <2>2. \A m \in Month :
          admitted'[m] = IF c.counts /\ m = c.data.month THEN admitted[m] + 1 ELSE admitted[m]
    BY <2>1, WithCallFacts
  <2>3. CASE ~ c.counts
    <3>1. \A m \in Month : admitted'[m] = admitted[m]
      BY <2>2, <2>3
    <3> QED
      BY <2>1, <3>1 DEF Calls
  <2>4. CASE c.counts
    <3>0. PICK m \in Month : m = c.data.month
      BY <2>1 DEF Usage
    <3>1. /\ m \in 1 .. thisMonth /\ c.data.count \in Nat
          /\ c.data.count <= MonthlyLimit /\ thisMonth \in Nat
      BY <2>1, <3>0, Sizes DEF Usage, Sound, Month, OneInv, TrackerInv, TrackerTypeOK
    <3>2. admitted[m] - uncounted[m] <= Of(c.data, m) - 1 /\ Of(c.data, m) = c.data.count
      BY <2>1, <2>4, <3>0 DEF OneInv, CallInv, Of
    <3>3. admitted[m] \in Nat /\ uncounted[m] \in Nat
      BY <2>1
    <3>4. /\ Calls[m] < MonthlyLimit
          /\ Calls' = [Calls EXCEPT ![m] = @ + 1]
      <4>1. Calls[m] = admitted[m] - uncounted[m]
        BY DEF Calls
      <4>2. Calls[m] < MonthlyLimit
        BY <3>1, <3>2, <3>3, <4>1, Sizes
      <4>3. ASSUME NEW k \in Month
            PROVE  admitted'[k] - uncounted'[k] =
                     IF k = m THEN Calls[m] + 1 ELSE Calls[k]
        <5>1. admitted[k] \in Nat /\ uncounted[k] \in Nat /\ uncounted'[k] = uncounted[k]
          BY <2>1
        <5>2. Calls[k] = admitted[k] - uncounted[k]
          BY DEF Calls
        <5> QED
          BY <2>2, <2>4, <3>0, <4>1, <5>1, <5>2
      <4>4. Calls' = [k \in Month |-> admitted'[k] - uncounted'[k]]
        BY DEF Calls
      <4>5. DOMAIN Calls = Month
        BY DEF Calls
      <4>6. Calls' = [k \in Month |-> IF k = m THEN Calls[m] + 1 ELSE Calls[k]]
        BY <4>3, <4>4
      <4>7. [Calls EXCEPT ![m] = @ + 1] =
              [k \in Month |-> IF k = m THEN Calls[m] + 1 ELSE Calls[k]]
        BY <4>5
      <4> QED
        BY <4>2, <4>6, <4>7
    <3>5. Counted!Admit(m)
      BY <2>1, <3>4 DEF Counted!Admit, Calls
    <3>6. \E k \in 1 .. thisMonth : Counted!Admit(k)
      BY <3>1, <3>5
    <3> QED
      BY <3>6 DEF Counted!UsageNext
  <2> QED
    BY <2>3, <2>4
<1>6. ASSUME NEW p \in Proc, Load(p) \/ OpenTmp(p) \/ WriteTmp(p) \/ Crash(p)
      PROVE  UNCHANGED <<thisMonth, admitted, uncounted>>
  BY <1>6 DEF Load, OpenTmp, WriteTmp, Crash
<1>7. CASE UNCHANGED trackerVars
  BY <1>1, <1>7 DEF trackerVars
<1> QED
  BY <1>1, <1>2, <1>3, <1>4, <1>5, <1>6, <1>7 DEF TrackerNext, Counted!UsageNext

(* One process implements the limit: however its steps on the files are    *)
(* cut off, the calls it let through and counted never pass the limit of   *)
(* their month, and only a reset takes them back.                          *)
THEOREM OneProcessImplementsLimit ==
  ASSUME OneProcess
  PROVE  TrackerSpec => ImplementsLimit
<1>1. TrackerInit => Counted!UsageInit
  <2> SUFFICES ASSUME TrackerInit
               PROVE  Counted!UsageInit
    OBVIOUS
  <2>1. \A m \in Month : admitted[m] - uncounted[m] = 0
    BY DEF TrackerInit, Zero
  <2> QED
    BY <2>1 DEF TrackerInit, Counted!UsageInit, Month
<1>2. OneInv /\ [TrackerNext]_trackerVars => [Counted!UsageNext]_<<thisMonth, Calls>>
  BY StepImplements
<1> QED
  BY <1>1, <1>2, OneInvHolds, PTL DEF TrackerSpec, ImplementsLimit, Counted!UsageSpec, Calls
=============================================================================
