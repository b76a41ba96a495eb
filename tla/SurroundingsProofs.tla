-------------------------- MODULE SurroundingsProofs --------------------------
(***************************************************************************)
(* What holds of the parts around the index, which share no state with     *)
(* each other: for any notes, vaults, settings, processes and terminals,   *)
(* and without the bounds of MCSurroundings.                               *)
(***************************************************************************)
EXTENDS RateLimiter, CleanSwap, Migrations, ConfigFile, McpServer, ListPaging,
        CommandLine, SequenceTheorems, FiniteSetTheorems, WellFoundedInduction, TLAPS

LEMMA LeastNumber ==
  ASSUME NEW T \in SUBSET Nat, T # {}
  PROVE  \E m \in T : \A k \in T : m <= k
<1>1. PICK m \in T : \A k \in T : ~ (<<k, m>> \in OpToRel(<, Nat))
  BY NatLessThanWellFounded, WFMin
<1>2. \A k \in T : ~ (k < m)
  BY <1>1 DEF OpToRel
<1> QED
  BY <1>2

-----------------------------------------------------------------------------
(***************************************************************************)
(* The request limiter.  The deque is the end of the list of grants: what  *)
(* was popped is too old, for good.                                        *)
(***************************************************************************)
Ascending(s) == \A i, j \in 1 .. Len(s) : i <= j => s[i] <= s[j]

GrantsEndAt(k) ==
  /\ timestamps = SubSeq(granted, k + 1, Len(granted))
  /\ \A i \in 1 .. k : TooOld(granted[i])

LimiterInv ==
  /\ now \in Nat /\ granted \in Seq(Nat)
  /\ Ascending(granted) /\ \A i \in 1 .. Len(granted) : granted[i] <= now
  /\ \E k \in 0 .. Len(granted) : GrantsEndAt(k)
  /\ RollingWindow

(* The end of a list, element by element. *)
LEMMA EndOf ==
  ASSUME NEW s \in Seq(Nat), NEW k \in 0 .. Len(s)
  PROVE  /\ SubSeq(s, k + 1, Len(s)) \in Seq(Nat)
         /\ Len(SubSeq(s, k + 1, Len(s))) = Len(s) - k
         /\ \A i \in 1 .. Len(s) - k : SubSeq(s, k + 1, Len(s))[i] = s[k + i]
<1>1. /\ k + 1 \in Int /\ Len(s) \in Int /\ k \in Int
      /\ \A i \in k + 1 .. Len(s) : s[i] \in Nat
  BY ElementOfSeq, LenProperties
<1>2. /\ SubSeq(s, k + 1, Len(s)) \in Seq(Nat)
      /\ Len(SubSeq(s, k + 1, Len(s))) = IF k + 1 <= Len(s) THEN Len(s) - (k + 1) + 1 ELSE 0
      /\ \A i \in 1 .. Len(s) - (k + 1) + 1 :
           SubSeq(s, k + 1, Len(s))[i] = s[(k + 1) + i - 1]
  BY <1>1, SubSeqProperties
<1>3. \A i \in 1 .. Len(s) - k : (k + 1) + i - 1 = k + i
  BY <1>1
<1>4. Len(s) - (k + 1) + 1 = Len(s) - k
  BY <1>1
<1>5. (IF k + 1 <= Len(s) THEN Len(s) - (k + 1) + 1 ELSE 0) = Len(s) - k
  BY <1>1
<1>6. \A i \in 1 .. Len(s) - k : SubSeq(s, k + 1, Len(s))[i] = s[(k + 1) + i - 1]
  BY <1>2, <1>4
<1>7. \A i \in 1 .. Len(s) - k : SubSeq(s, k + 1, Len(s))[i] = s[k + i]
  BY <1>3, <1>6
<1> QED
  BY <1>2, <1>5, <1>7

LEMMA SameEnd ==
  ASSUME NEW s \in Seq(Nat), NEW k \in 0 .. Len(s), NEW m \in 0 .. Len(s) - k
  PROVE  SubSeq(SubSeq(s, k + 1, Len(s)), m + 1, Len(SubSeq(s, k + 1, Len(s))))
           = SubSeq(s, k + m + 1, Len(s))
<1> DEFINE t == SubSeq(s, k + 1, Len(s))
<1>0. Len(s) \in Nat /\ k + m \in 0 .. Len(s) /\ (k + m) + 1 = k + m + 1
  BY LenProperties
<1>1. /\ t \in Seq(Nat) /\ Len(t) = Len(s) - k
      /\ \A i \in 1 .. Len(s) - k : t[i] = s[k + i]
  BY EndOf
<1> DEFINE u == SubSeq(t, m + 1, Len(t))
           v == SubSeq(s, k + m + 1, Len(s))
<1> HIDE DEF t
<1>2. m \in 0 .. Len(t)
  BY <1>1
<1>3. /\ u \in Seq(Nat) /\ Len(u) = Len(t) - m
      /\ \A i \in 1 .. Len(t) - m : u[i] = t[m + i]
  BY <1>1, <1>2, EndOf
<1>4. /\ v \in Seq(Nat) /\ Len(v) = Len(s) - (k + m)
      /\ \A i \in 1 .. Len(s) - (k + m) : v[i] = s[(k + m) + i]
  BY <1>0, EndOf
<1> HIDE DEF u, v
<1>5. Len(u) = Len(v)
  BY <1>0, <1>1, <1>3, <1>4
<1>6. ASSUME NEW i \in 1 .. Len(u)
      PROVE  u[i] = v[i]
  <2>1. m + i \in 1 .. Len(s) - k /\ k + (m + i) = (k + m) + i
    BY <1>0, <1>1, <1>3
  <2>2. u[i] = s[k + (m + i)]
    BY <1>1, <1>3, <2>1
  <2> QED
    BY <1>4, <1>5, <2>1, <2>2
<1>7. u = v
  BY <1>3, <1>4, <1>5, <1>6, SeqEqual
<1> QED
  BY <1>7 DEF u, v, t

(* The loop pops exactly what is too old. *)
LEMMA PoppedIsEnd ==
  ASSUME now \in Nat, NEW s \in Seq(Nat), Ascending(s), \A i \in 1 .. Len(s) : s[i] <= now
  PROVE  \E m \in 0 .. Len(s) :
           /\ Popped(s) = SubSeq(s, m + 1, Len(s))
           /\ \A i \in 1 .. Len(s) : TooOld(s[i]) <=> i <= m
<1> DEFINE keep == {i \in 1 .. Len(s) : \E j \in 1 .. i : ~ TooOld(s[j])}
<1>0. /\ Len(s) \in Nat /\ \A i \in 1 .. Len(s) : s[i] \in Nat
      /\ Second \in Nat
  BY LimiterAssumption, LenProperties, ElementOfSeq
<1>1. \A i \in 1 .. Len(s) : i \in keep <=> ~ TooOld(s[i])
  <2> SUFFICES ASSUME NEW i \in 1 .. Len(s)
               PROVE  i \in keep <=> ~ TooOld(s[i])
    OBVIOUS
  <2>1. ASSUME NEW j \in 1 .. i, ~ TooOld(s[j])
        PROVE  ~ TooOld(s[i])
    <3>1. j \in 1 .. Len(s) /\ s[j] <= s[i]
      BY <1>0 DEF Ascending
    <3> QED
      BY <1>0, <2>1, <3>1 DEF TooOld
  <2> QED
    BY <1>0, <2>1
<1>2. CASE keep = {}
  <2>1. Popped(s) = <<>> /\ \A i \in 1 .. Len(s) : TooOld(s[i]) /\ i <= Len(s)
    BY <1>0, <1>1, <1>2 DEF Popped
  <2>2. SubSeq(s, Len(s) + 1, Len(s)) = <<>>
    BY <1>0, SubSeqEmpty
  <2>3. Len(s) \in 0 .. Len(s)
    BY <1>0
  <2> QED
    BY <2>1, <2>2, <2>3
<1>3. CASE keep # {}
  <2>1. PICK m \in keep : \A j \in keep : m <= j
    <3>1. keep \in SUBSET Nat
      BY <1>0
    <3> HIDE DEF keep
    <3> QED
      BY <1>3, <3>1, LeastNumber
  <2>2. (CHOOSE i \in keep : \A j \in keep : i <= j) = m
    <3>1. keep \subseteq Nat
      BY <1>0
    <3> HIDE DEF keep
    <3>2. \A i \in keep : (\A j \in keep : i <= j) => i = m
      BY <2>1, <3>1
    <3> QED
      BY <2>1, <3>2
  <2>3. Popped(s) = SubSeq(s, m, Len(s))
    BY <1>3, <2>2 DEF Popped
  <2>4. m \in 1 .. Len(s) /\ m - 1 \in 0 .. Len(s) /\ (m - 1) + 1 = m
    BY <1>0
  <2>5. ASSUME NEW i \in 1 .. Len(s)
        PROVE  TooOld(s[i]) <=> i <= m - 1
    <3>1. CASE i < m
      <4>1. i \notin keep
        BY <1>0, <2>1, <2>4, <3>1
      <4> QED
        BY <1>0, <1>1, <2>4, <3>1, <4>1
    <3>2. CASE m <= i
      <4>1. PICK j \in 1 .. m : ~ TooOld(s[j])
        BY <2>1
      <4>2. j \in 1 .. i
        BY <1>0, <2>4, <3>2
      <4>3. i \in keep
        BY <4>1, <4>2
      <4> QED
        BY <1>0, <1>1, <2>4, <3>2, <4>3
    <3> QED
      BY <1>0, <2>4, <3>1, <3>2
  <2> QED
    BY <2>3, <2>4, <2>5
<1> QED
  BY <1>2, <1>3

LEMMA ExactWindow ==
  ASSUME LimiterInv
  PROVE  \E k \in 0 .. Len(granted) :
           /\ Popped(timestamps) = SubSeq(granted, k + 1, Len(granted))
           /\ \A i \in 1 .. Len(granted) : TooOld(granted[i]) <=> i <= k
<1> DEFINE n == Len(granted)
           s == timestamps
<1>0. n \in Nat /\ \A i \in 1 .. n : granted[i] \in Nat
  BY LenProperties, ElementOfSeq DEF LimiterInv
<1>1. PICK k \in 0 .. n : GrantsEndAt(k)
  BY DEF LimiterInv
<1>2. /\ s \in Seq(Nat) /\ Len(s) = n - k
      /\ \A i \in 1 .. n - k : s[i] = granted[k + i]
  BY <1>1, EndOf DEF LimiterInv, GrantsEndAt
<1>3. \A i \in 1 .. n - k : k + i \in 1 .. n
  BY <1>0
<1>4. Ascending(s) /\ \A i \in 1 .. Len(s) : s[i] <= now
  <2>1. \A i, j \in 1 .. n - k : i <= j => k + i <= k + j
    BY <1>0
  <2> QED
    BY <1>2, <1>3, <2>1 DEF LimiterInv, Ascending
<1>5. PICK m \in 0 .. Len(s) :
        /\ Popped(s) = SubSeq(s, m + 1, Len(s))
        /\ \A i \in 1 .. Len(s) : TooOld(s[i]) <=> i <= m
  BY <1>2, <1>4, PoppedIsEnd DEF LimiterInv
<1>6. m \in 0 .. n - k /\ k + m \in 0 .. n
  BY <1>0, <1>2
<1>7. Popped(s) = SubSeq(granted, k + m + 1, n)
  BY <1>1, <1>5, <1>6, SameEnd DEF LimiterInv, GrantsEndAt
<1>8. ASSUME NEW i \in 1 .. n
      PROVE  TooOld(granted[i]) <=> i <= k + m
  <2>1. CASE i <= k
    BY <1>0, <1>1, <1>6, <2>1 DEF GrantsEndAt
  <2>2. CASE ~ (i <= k)
    <3>1. i - k \in 1 .. n - k /\ k + (i - k) = i /\ (i - k <= m <=> i <= k + m)
      BY <1>0, <1>6, <2>2
    <3>2. s[i - k] = granted[i]
      BY <1>2, <3>1
    <3> QED
      BY <1>2, <1>5, <3>1, <3>2
  <2> QED
    BY <2>1, <2>2
<1> QED
  BY <1>6, <1>7, <1>8

LEMMA NextLimiterInv == LimiterInv /\ [LimiterNext]_limiterVars => LimiterInv'
<1> SUFFICES ASSUME LimiterInv, [LimiterNext]_limiterVars
             PROVE  LimiterInv'
  OBVIOUS
<1> DEFINE n == Len(granted)
<1>0. /\ n \in Nat /\ now \in Nat /\ granted \in Seq(Nat)
      /\ \A i \in 1 .. n : granted[i] \in Nat /\ granted[i] <= now
      /\ Second \in Nat /\ MaxPerSecond \in Nat
  BY LimiterAssumption, LenProperties, ElementOfSeq DEF LimiterInv
<1>1. CASE UNCHANGED limiterVars
  BY <1>1 DEF limiterVars, LimiterInv, Ascending, GrantsEndAt, TooOld, RollingWindow
<1>2. CASE Tick
  <2>1. now' = now + 1 /\ UNCHANGED <<timestamps, granted>>
    BY <1>2 DEF Tick
  <2>2. PICK k \in 0 .. n : GrantsEndAt(k)
    BY DEF LimiterInv
  <2>3. \A i \in 1 .. k : TooOld(granted[i])'
    <3>1. \A i \in 1 .. k : i \in 1 .. n
      BY <1>0
    <3> QED
      BY <1>0, <2>1, <2>2, <3>1 DEF GrantsEndAt, TooOld
  <2>4. GrantsEndAt(k)'
    BY <2>1, <2>2, <2>3 DEF GrantsEndAt
  <2>5. \A i \in 1 .. n : granted[i] <= now'
    BY <1>0, <2>1
  <2> QED
    BY <1>0, <2>1, <2>4, <2>5 DEF LimiterInv, Ascending, RollingWindow
<1>3. PICK k \in 0 .. n :
        /\ Popped(timestamps) = SubSeq(granted, k + 1, n)
        /\ \A i \in 1 .. n : TooOld(granted[i]) <=> i <= k
  BY ExactWindow
<1>4. CASE Allow
  <2>1. /\ Len(Popped(timestamps)) < MaxPerSecond /\ now' = now
        /\ timestamps' = Append(SubSeq(granted, k + 1, n), now)
        /\ granted' = Append(granted, now)
    BY <1>3, <1>4 DEF Allow
  <2>2. /\ granted' \in Seq(Nat) /\ Len(granted') = n + 1
        /\ \A i \in 1 .. n : granted'[i] = granted[i]
        /\ granted'[n + 1] = now
    BY <1>0, <2>1, AppendProperties
  <2>3. \A i \in 1 .. n + 1 : i \in 1 .. n \/ i = n + 1
    BY <1>0
  <2>4. \A i \in 1 .. n + 1 : granted'[i] \in Nat /\ granted'[i] <= now
    BY <1>0, <2>2, <2>3
  <2>5. Ascending(granted)'
    <3> SUFFICES ASSUME NEW i \in 1 .. n + 1, NEW j \in 1 .. n + 1, i <= j
                 PROVE  granted'[i] <= granted'[j]
      BY <2>2 DEF Ascending
    <3>1. CASE j = n + 1
      BY <2>2, <2>4, <3>1
    <3>2. CASE j \in 1 .. n
      BY <1>0, <2>2, <3>2 DEF LimiterInv, Ascending
    <3> QED
      BY <2>3, <3>1, <3>2
  <2>6. GrantsEndAt(k)'
    <3> DEFINE t == SubSeq(granted, k + 1, n)
               u == SubSeq(granted', k + 1, n + 1)
    <3>1. t \in Seq(Nat) /\ Len(t) = n - k /\ \A i \in 1 .. n - k : t[i] = granted[k + i]
      BY <1>0, EndOf
    <3>2. k \in 0 .. Len(granted')
      BY <1>0, <2>2
    <3>3. /\ u \in Seq(Nat) /\ Len(u) = n + 1 - k
          /\ \A i \in 1 .. n + 1 - k : u[i] = granted'[k + i]
      BY <2>2, <3>2, EndOf
    <3> HIDE DEF t, u
    <3>4. /\ Append(t, now) \in Seq(Nat) /\ Len(Append(t, now)) = (n - k) + 1
          /\ \A i \in 1 .. n - k : Append(t, now)[i] = t[i]
          /\ Append(t, now)[(n - k) + 1] = now
      BY <1>0, <3>1, AppendProperties
    <3>5. (n - k) + 1 = n + 1 - k /\ k + ((n - k) + 1) = n + 1
      BY <1>0
    <3>6. \A i \in 1 .. (n - k) + 1 : i = (n - k) + 1 \/ (i \in 1 .. n - k /\ k + i \in 1 .. n)
      BY <1>0
    <3>7. ASSUME NEW i \in 1 .. (n - k) + 1
          PROVE  Append(t, now)[i] = u[i]
      <4>1. u[i] = granted'[k + i]
        BY <3>3, <3>5
      <4>2. CASE i = (n - k) + 1
        <5>1. Append(t, now)[i] = now /\ k + i = n + 1
          BY <3>4, <3>5, <4>2
        <5> QED
          BY <2>2, <4>1, <5>1
      <4>3. CASE i \in 1 .. n - k /\ k + i \in 1 .. n
        <5>1. Append(t, now)[i] = granted[k + i]
          BY <3>1, <3>4, <4>3
        <5>2. granted'[k + i] = granted[k + i]
          BY <2>2, <4>3
        <5> QED
          BY <4>1, <5>1, <5>2
      <4> QED
        BY <3>6, <4>2, <4>3
    <3>8. Append(t, now) = u
      BY <3>3, <3>4, <3>5, <3>7, SeqEqual
    <3>9. \A i \in 1 .. k : i \in 1 .. n /\ i <= k
      BY <1>0
    <3> QED
      BY <1>3, <2>1, <2>2, <3>8, <3>9 DEF GrantsEndAt, TooOld, t, u
  <2>7. k \in 0 .. Len(granted')
    BY <1>0, <2>2
  <2>8. RollingWindow'
    <3> SUFFICES ASSUME NEW i \in 1 .. n + 1, i + MaxPerSecond <= n + 1
                 PROVE  granted'[i + MaxPerSecond] - granted'[i] >= Second
      BY <2>2 DEF RollingWindow
    <3>1. n - k < MaxPerSecond
      BY <1>0, <1>3, <2>1, EndOf
    <3>2. CASE i + MaxPerSecond <= n
      <4>1. i \in 1 .. n /\ i + MaxPerSecond \in 1 .. n
        BY <1>0, <3>2
      <4> QED
        BY <2>2, <3>2, <4>1 DEF LimiterInv, RollingWindow
    <3>3. CASE i + MaxPerSecond = n + 1
      <4>1. i \in 1 .. n /\ i <= k
        BY <1>0, <3>1, <3>3
      <4>2. TooOld(granted[i])
        BY <1>3, <4>1
      <4> QED
        BY <2>2, <3>3, <4>1, <4>2 DEF TooOld
    <3>4. i + MaxPerSecond <= n \/ i + MaxPerSecond = n + 1
      BY <1>0
    <3> QED
      BY <3>2, <3>3, <3>4
  <2> QED
    BY <1>0, <2>1, <2>2, <2>4, <2>5, <2>6, <2>7, <2>8 DEF LimiterInv
<1>5. CASE Deny
  <2>1. timestamps' = SubSeq(granted, k + 1, n) /\ UNCHANGED <<now, granted>>
    BY <1>3, <1>5 DEF Deny
  <2>2. \A i \in 1 .. k : i \in 1 .. n /\ i <= k
    BY <1>0
  <2>3. GrantsEndAt(k)'
    BY <1>3, <2>1, <2>2 DEF GrantsEndAt, TooOld
  <2> QED
    BY <2>1, <2>3 DEF LimiterInv, Ascending, RollingWindow
<1> QED
  BY <1>1, <1>2, <1>4, <1>5 DEF LimiterNext

(* However the calls fall, no window of a second holds more than           *)
(* MaxPerSecond grants, and none is turned away for grants older than that *)
(* (allow of SlidingWindowRateLimiter, core/src/rate_limiter.rs).          *)
THEOREM LimiterIsExact == LimiterSpec => []WindowIsExact
<1>1. LimiterInit => LimiterInv
  <2> SUFFICES ASSUME LimiterInit
               PROVE  LimiterInv
    OBVIOUS
  <2>1. /\ now = 0 /\ granted = <<>> /\ timestamps = <<>> /\ Len(granted) = 0
    BY DEF LimiterInit
  <2>2. 0 \in 0 .. Len(granted) /\ 1 .. Len(granted) = {}
    BY <2>1
  <2>3. GrantsEndAt(0)
    BY <2>1, SubSeqEmpty DEF GrantsEndAt
  <2> QED
    BY <2>1, <2>2, <2>3 DEF LimiterInv, Ascending, RollingWindow
<1>2. LimiterInv => WindowIsExact
  BY ExactWindow DEF LimiterInv, WindowIsExact
<1> QED
  BY <1>1, <1>2, NextLimiterInv, PTL DEF LimiterSpec

-----------------------------------------------------------------------------
(***************************************************************************)
(* CleanSwap: the index is never lost.                                     *)
(***************************************************************************)
CleanTypeOK ==
  /\ db \in Content
  /\ temp \in [Pid -> Content]
  /\ stage \in [Pid -> Stage]
  /\ into \in SUBSET Pid
  /\ renameErrors \in Nat /\ reused \in BOOLEAN

(* Here a process copies instead of renaming. *)
Copying == {"target", "fill", "drop"}

(* From here on the new index of a process is complete. *)
Built == {"prune", "copy", "delete", "rename"} \cup Copying

(* A complete index is under the temporary name of a process that will not *)
(* write to it again: it is about to rename it, or it has gone, and clean  *)
(* does not start without a database.                                      *)
Safe(p) == temp[p] = "new" /\ stage[p] \in {"idle", "rename"}

(* No rename has failed yet. *)
Renamed ==
  /\ ~ reused /\ into = {}
  /\ db \in Complete \cup {"none"}
  /\ \A p \in Pid : stage[p] \notin Copying
  /\ db = "none" => \E p \in Pid : Safe(p)

(* There is a complete index that p will not remove. *)
Covered(p) == db \in Complete \/ \E q \in Pid \ {p} : temp[q] = "new"

(* One has, of the only process that can be copying: what it copies stays, *)
(* until the copy is whole or there is another index.                      *)
Copied ==
  /\ db \in Complete \/ \E p \in Pid : temp[p] = "new"
  /\ \A p, q \in Pid : stage[p] \in Copying /\ stage[q] \in Copying => p = q
  /\ \A p \in into : stage[p] = "fill" /\ db = "partial"
  /\ \A p \in Pid : stage[p] = "drop" \/ (stage[p] = "fill" /\ p \notin into)
                      => Covered(p)

CleanInv ==
  /\ CleanTypeOK
  /\ \A p \in Pid : stage[p] \in Built => temp[p] = "new"
  /\ renameErrors = 0 => Renamed
  /\ renameErrors = 1 /\ ~ reused => Copied

LEMMA InitCleanInv == CleanInit => CleanInv
<1> SUFFICES ASSUME CleanInit PROVE CleanInv
  OBVIOUS
<1>1. /\ db = "old" /\ temp = [p \in Pid |-> "none"] /\ stage = [p \in Pid |-> "idle"]
      /\ into = {} /\ renameErrors = 0 /\ reused = FALSE
  BY DEF CleanInit
<1>2. CleanTypeOK
  BY <1>1 DEF CleanTypeOK, Content, Stage
<1>3. Renamed
  BY <1>1 DEF Renamed, Complete, Copying
<1> QED
  BY <1>1, <1>2, <1>3 DEF CleanInv, Built, Copying

(* Who is safe stays safe as long as there is no database. *)
LEMMA NextCleanInv == CleanInv /\ [CleanNext]_cleanVars => CleanInv'
<1> SUFFICES ASSUME CleanInv, [CleanNext]_cleanVars
             PROVE  CleanInv'
  OBVIOUS
<1> USE DEF Go, backupVars, fallbackVars
<1>1. CASE UNCHANGED cleanVars
  BY <1>1 DEF cleanVars, CleanInv, CleanTypeOK, Renamed, Copied, Covered, Safe
<1>2. ASSUME NEW p \in Pid, Step(p)
      PROVE  CleanInv'
  <2> USE DEF Start, OpenTemp, Build, BuildFails, Prune, Copy, Delete, DeleteFails,
              SwapIn, RenameFails, OpenTarget, Fill, CopyFails, DropTemp, Killed
  <2>1. CleanTypeOK'
    <3> USE DEF CleanInv, CleanTypeOK, Content, Stage
    <3>1. CASE Start(p) \/ OpenTemp(p) \/ Build(p) \/ BuildFails(p) \/ Prune(p) \/ Copy(p)
      BY <3>1
    <3>2. CASE Delete(p) \/ DeleteFails(p) \/ SwapIn(p) \/ RenameFails(p) \/ OpenTarget(p)
      BY <3>2
    <3>3. CASE Fill(p) \/ CopyFails(p) \/ DropTemp(p) \/ Killed(p)
      BY <3>3
    <3> QED
      BY <1>2, <3>1, <3>2, <3>3 DEF Step
  <2>2. \A q \in Pid : (stage[q] \in Built => temp[q] = "new")'
    BY <1>2 DEF Step, CleanInv, CleanTypeOK, Built, Copying, Stage
  <2>3. ASSUME renameErrors' = 0
        PROVE  Renamed'
    <3>1. renameErrors = 0 /\ ~ RenameFails(p)
      BY <1>2, <2>3 DEF Step, CleanInv, CleanTypeOK
    <3>2. Renamed
      BY <3>1 DEF CleanInv
    <3> USE DEF Renamed, CleanInv, CleanTypeOK, Built, Copying, Safe, Complete
    <3>3. stage[p] \notin Copying
      BY <3>2
    <3>4. CASE Start(p)
      BY <3>2, <3>4
    <3>5. CASE OpenTemp(p)
      BY <3>1, <3>2, <3>5
    <3>6. CASE Build(p) \/ BuildFails(p) \/ Prune(p) \/ Copy(p) \/ DeleteFails(p)
      BY <3>2, <3>6
    <3>7. CASE Delete(p)
      BY <3>2, <3>7
    <3>8. CASE SwapIn(p)
      BY <3>2, <3>8
    <3>9. CASE Killed(p)
      BY <3>2, <3>9
    <3> QED
      BY <1>2, <3>1, <3>3, <3>4, <3>5, <3>6, <3>7, <3>8, <3>9 DEF Step
  <2>4. ASSUME renameErrors' = 1, ~ reused'
        PROVE  Copied'
    <3> USE DEF CleanInv, CleanTypeOK, Built, Copying, Complete
    <3>1. CASE RenameFails(p)
      <4>1. Renamed
        BY <2>4, <3>1
      <4> QED
        BY <3>1, <4>1 DEF Renamed, Copied
    <3>2. CASE ~ RenameFails(p)
      <4>1. renameErrors = 1 /\ ~ reused
        BY <1>2, <2>4, <3>2 DEF Step
      <4>2. Copied
        BY <4>1
      <4> USE DEF Copied, Covered
      <4>3. CASE Start(p) \/ BuildFails(p) \/ Prune(p) \/ Copy(p) \/ DeleteFails(p)
        BY <4>2, <4>3
      <4>4. CASE OpenTemp(p)
        <5>1. renameErrors > 0
          BY <4>1
        <5>2. temp[p] # "new"
          BY <2>4, <4>4, <5>1, Zenon
        <5>3. \A q \in Pid : temp[q] = "new" => temp'[q] = "new"
          BY <4>4, <5>2
        <5> QED
          BY <4>2, <4>4, <5>3
      <4>5. CASE Build(p)
        BY <4>2, <4>5
      <4>6. CASE Delete(p)
        BY <4>2, <4>6
      <4>7. CASE SwapIn(p)
        BY <4>2, <4>7
      <4>8. CASE OpenTarget(p)
        BY <4>2, <4>8
      <4>9. CASE Fill(p)
        BY <4>2, <4>9
      <4>10. CASE CopyFails(p)
        BY <4>2, <4>10
      <4>11. CASE DropTemp(p)
        BY <4>2, <4>11
      <4>12. CASE Killed(p)
        BY <4>2, <4>12
      <4> QED
        BY <1>2, <3>2, <4>3, <4>4, <4>5, <4>6, <4>7, <4>8, <4>9, <4>10, <4>11, <4>12
           DEF Step
    <3> QED
      BY <3>1, <3>2
  <2> QED
    BY <2>1, <2>2, <2>3, <2>4 DEF CleanInv
<1> QED
  BY <1>1, <1>2 DEF CleanNext

(* As long as every rename works, a complete index is on disk whoever is   *)
(* killed where and however many clean at once, and what is at db_path is  *)
(* never half of one; the first clean that has to copy keeps that until    *)
(* its pid is used again (run_clean, cli/src/commands/clean.rs).           *)
THEOREM IndexIsNeverLost == CleanSpec => []IndexNeverLost
<1>1. CleanInv => IndexNeverLost
  BY DEF CleanInv, Renamed, Copied, Safe, IndexNeverLost
<1> QED
  BY <1>1, InitCleanInv, NextCleanInv, PTL DEF CleanSpec

-----------------------------------------------------------------------------
(***************************************************************************)
(* Migrations: an upgrade is whole.  A schema is sound when it has what    *)
(* its version promises, but for the columns version 6 may lack, which the *)
(* next migration adds again.  The draft of a process inside its           *)
(* transaction is sound and, if no one has committed since it was read, it *)
(* began as the schema itself; past its first write it holds the lock, so  *)
(* no one has, and its rows contain those of the schema.                   *)
(***************************************************************************)
SchemaType ==
  [version : {0} \cup 2 .. NewestVersion, spare : {NoCache, {}},
   cached : {NoCache} \cup SUBSET Rows, columns : SUBSET FullSchema]

SoundSchema(s) ==
  /\ s \in SchemaType
  /\ s.version = 0 <=> s.cached = NoCache
  /\ Historic(s.version) \ (IF s.version = 6 THEN Frontmatter ELSE {}) \subseteq s.columns
  /\ s.version = 2 /\ "chunks.vault_name" \in s.columns => Adds[3] \subseteq s.columns

OpenerType ==
  [stage : {"out", "drop", "begin", "read", "write"}, draft : SchemaType, seen : Nat]

SoundOpener(o) ==
  /\ SoundSchema(o.draft)
  /\ o.seen <= schemaCommits
  /\ o.stage = "read" /\ o.seen = schemaCommits => o.draft = schema
  /\ o.stage = "write" /\ schema.cached # NoCache =>
       o.draft.cached # NoCache /\ schema.cached \subseteq o.draft.cached

SchemaInv ==
  /\ SoundSchema(schema)
  /\ schemaCommits \in Nat /\ opens \in Nat
  /\ opener \in [Opener -> OpenerType]
  /\ \A p \in Opener : SoundOpener(opener[p])
  /\ \A p, q \in Opener : opener[p].stage = "write" /\ opener[q].stage = "write" => p = q

(* What a version has is what the one before it had and what its migration *)
(* adds.                                                                   *)
LEMMA HistoricStep ==
  /\ Historic(0) = {}
  /\ \A v \in 2 .. NewestVersion - 1 : Historic(v + 1) = Historic(v) \cup Adds[v + 1]
  /\ \A v \in {0} \cup 2 .. NewestVersion : Historic(v) \subseteq FullSchema
  /\ \A v \in 2 .. NewestVersion : Adds[v] \subseteq FullSchema
<1>1. Historic(0) = {}
  BY DEF Historic
<1>2. ASSUME NEW v \in 2 .. NewestVersion - 1
      PROVE  Historic(v + 1) = Historic(v) \cup Adds[v + 1]
  <2>1. 2 .. v + 1 = (2 .. v) \cup {v + 1}
    BY DEF NewestVersion
  <2> QED
    BY <2>1 DEF Historic
<1>3. ASSUME NEW v \in {0} \cup 2 .. NewestVersion
      PROVE  Historic(v) \subseteq FullSchema
  <2>1. 2 .. v \subseteq 2 .. NewestVersion
    BY DEF NewestVersion
  <2> QED
    BY <2>1 DEF FullSchema, Historic
<1>4. \A v \in 2 .. NewestVersion : Adds[v] \subseteq FullSchema
  BY DEF FullSchema, Historic
<1> QED
  BY <1>1, <1>2, <1>3, <1>4

(* The columns of the migrations that do more than add some.               *)
LEMMA AddsAre ==
  /\ Adds[2] = {"chunks", "file_cache", "vec_chunks"}
  /\ Adds[3] = {"chunks.vault_name", "file_cache.vault_name", "file_cache.file_size"}
  /\ Frontmatter \subseteq Adds[7]
  /\ Historic(2) = Adds[2]
<1>1. /\ Adds[2] = {"chunks", "file_cache", "vec_chunks"}
      /\ Adds[3] = VaultKeys \cup {"file_cache.file_size"}
      /\ Adds[7] = Frontmatter \cup {"tasks"}
  BY DEF Adds, NewestVersion
<1>2. 2 .. 2 = {2}
  OBVIOUS
<1>3. Historic(2) = Adds[2]
  BY <1>2 DEF Historic
<1> QED
  BY <1>1, <1>3 DEF VaultKeys

(* A migration makes a sound schema of a sound one, one version up, and    *)
(* keeps the rows it has.                                                  *)
LEMMA MigrationIsSound ==
  ASSUME NEW s, SoundSchema(s), s.version < NewestVersion,
         NEW v, v = IF s.version = 0 THEN 2 ELSE s.version + 1
  PROVE  /\ SoundSchema(MigratedTo(s, v))
         /\ s.cached # NoCache => MigratedTo(s, v).cached = s.cached
<1> DEFINE t == MigratedTo(s, v)
<1> USE MigrationAssumption
<1>0. /\ s \in SchemaType /\ s.columns \in SUBSET FullSchema
      /\ v \in 2 .. NewestVersion
      /\ s.cached \in {NoCache} \cup SUBSET Rows /\ s.spare \in {NoCache, {}}
  BY DEF SoundSchema, SchemaType, NewestVersion
<1>1. CASE s.version = 0
  <2>1. v = 2 /\ s.cached = NoCache
    BY <1>1 DEF SoundSchema
  <2>2. /\ Created(s) \in SchemaType /\ Created(s).cached = {}
        /\ Created(s).columns = FullSchema
    BY <1>0, <2>1 DEF Created, SchemaType
  <2>3. /\ t \in SchemaType /\ t.version = 2 /\ t.cached = {} /\ t.columns = FullSchema
    <3>1. t = [Created(s) EXCEPT !.version = 2]
      BY <2>1 DEF MigratedTo
    <3> HIDE DEF t
    <3> QED
      BY <2>2, <3>1 DEF SchemaType, NewestVersion
  <2>4. Historic(2) \subseteq FullSchema /\ Adds[3] \subseteq FullSchema
    BY HistoricStep DEF NewestVersion
  <2>5. {} # NoCache
    OBVIOUS
  <2> HIDE DEF t
  <2>6. SoundSchema(t)
    BY <2>3, <2>4, <2>5 DEF SoundSchema
  <2> QED
    BY <2>1, <2>6 DEF t
<1>2. CASE s.version # 0
  <2>1. /\ v = s.version + 1 /\ v \in 3 .. NewestVersion /\ s.version \in 2 .. NewestVersion - 1
        /\ s.cached # NoCache
    BY <1>0, <1>2 DEF SoundSchema, SchemaType, NewestVersion
  <2>2. Historic(v) = Historic(s.version) \cup Adds[v] /\ Adds[v] \subseteq FullSchema
    BY <2>1, HistoricStep DEF NewestVersion
  <2>3. CASE v = 3
    <3>1. s.version = 2 /\ Historic(2) \subseteq s.columns
      BY <2>1, <2>3 DEF SoundSchema
    <3>2. CASE HasColumn(s, "chunks.vault_name")
      <4>1. t = [s EXCEPT !.version = 3]
        BY <2>3, <3>2 DEF MigratedTo
      <4>2. t \in SchemaType /\ t.version = 3 /\ t.cached = s.cached /\ t.columns = s.columns
        BY <1>0, <4>1 DEF SchemaType, NewestVersion
      <4>3. Adds[3] \subseteq s.columns
        BY <3>1, <3>2 DEF SoundSchema, HasColumn
      <4> HIDE DEF t
      <4>4. SoundSchema(t)
        BY <2>1, <2>2, <2>3, <3>1, <4>2, <4>3 DEF SoundSchema
      <4> QED
        BY <4>2, <4>4 DEF t
    <3>3. CASE ~ HasColumn(s, "chunks.vault_name")
      <4> DEFINE rekeyed == (s.columns \ {"file_cache.backlink_count", "file_cache.char_count",
                              "file_cache.vlm_hash"}) \cup Adds[3]
      <4>2. rekeyed \in SUBSET FullSchema /\ Historic(2) \subseteq rekeyed /\ Adds[3] \subseteq rekeyed
        BY <1>0, <2>2, <2>3, <3>1, AddsAre
      <4> HIDE DEF rekeyed
      <4>1. /\ Rekeyed(s) \in SchemaType /\ Rekeyed(s).columns = rekeyed
            /\ Rekeyed(s).cached = s.cached
        BY <1>0, <4>2 DEF Rekeyed, SchemaType, rekeyed
      <4>3. t \in SchemaType /\ t.version = 3 /\ t.cached = s.cached /\ t.columns = rekeyed
        <5>1. t = [Rekeyed(s) EXCEPT !.version = 3]
          BY <2>3, <3>3 DEF MigratedTo
        <5> HIDE DEF t
        <5> QED
          BY <4>1, <5>1 DEF SchemaType, NewestVersion
      <4> HIDE DEF t
      <4>4. SoundSchema(t)
        BY <2>1, <2>2, <2>3, <3>1, <4>2, <4>3 DEF SoundSchema
      <4> QED
        BY <4>3, <4>4 DEF t
    <3> QED
      BY <3>2, <3>3
  <2>4. CASE v # 3
    <3> DEFINE added == s.columns \cup Adds[v]
    <3>2. added \in SUBSET FullSchema
      BY <1>0, <2>2
    <3>3. Historic(v) \subseteq added
      BY <2>1, <2>2, AddsAre DEF SoundSchema
    <3> HIDE DEF added
    <3>1. LET a == AddColumns(s, Adds[v])
          IN  a \in SchemaType /\ a.columns = added /\ a.cached = s.cached
      BY <1>0, <3>2 DEF AddColumns, SchemaType, added
    <3>4. t \in SchemaType /\ t.version = v /\ t.cached = s.cached /\ t.columns = added
      <4>1. t = [AddColumns(s, Adds[v]) EXCEPT !.version = v]
        BY <2>1, <2>4 DEF MigratedTo
      <4> HIDE DEF t
      <4> QED
        BY <1>0, <3>1, <4>1 DEF SchemaType
    <3> HIDE DEF t
    <3>5. SoundSchema(t)
      BY <2>1, <2>4, <3>3, <3>4 DEF SoundSchema
    <3> QED
      BY <3>4, <3>5 DEF t
  <2> QED
    BY <2>3, <2>4
<1> QED
  BY <1>1, <1>2

(* Every file an upgrade can start from is sound.                          *)
LEMMA FilesAreSound ==
  ASSUME NEW s \in SchemaFiles
  PROVE  SoundSchema(s)
<1> USE MigrationAssumption
<1>1. \A rws \in SUBSET Rows : rws # NoCache
  OBVIOUS
<1>2. CASE s \in {[version |-> 0, spare |-> spare, cached |-> NoCache, columns |-> {}] :
                    spare \in {NoCache, {}}}
  BY <1>2, HistoricStep DEF SoundSchema, SchemaType
<1>3. ASSUME NEW v \in 2 .. NewestVersion, NEW spare \in {NoCache, {}},
             NEW rowsOf \in SUBSET Rows,
             s = [version |-> v, spare |-> spare, cached |-> rowsOf, columns |-> Historic(v)]
      PROVE  SoundSchema(s)
  <2>1. Historic(v) \subseteq FullSchema
    BY HistoricStep
  <2>2. s \in SchemaType
    BY <1>3, <2>1 DEF SchemaType
  <2>3. v = 2 => "chunks.vault_name" \notin Historic(v)
    BY AddsAre
  <2> QED
    BY <1>1, <1>3, <2>2, <2>3 DEF SoundSchema
<1>4. ASSUME NEW rowsOf \in SUBSET Rows, NEW lost \in SUBSET Frontmatter,
             s = [version |-> 6, spare |-> NoCache, cached |-> rowsOf,
                  columns |-> Historic(6) \ lost]
      PROVE  SoundSchema(s)
  <2>1. Historic(6) \subseteq FullSchema
    BY HistoricStep DEF NewestVersion
  <2>2. s \in SchemaType
    BY <1>4, <2>1 DEF SchemaType, NewestVersion
  <2> QED
    BY <1>1, <1>4, <2>2 DEF SoundSchema
<1> QED
  BY <1>2, <1>3, <1>4 DEF SchemaFiles

LEMMA InitSchemaInv == SchemaInit => SchemaInv
<1> SUFFICES ASSUME SchemaInit PROVE SchemaInv
  OBVIOUS
<1>1. SoundSchema(schema)
  BY FilesAreSound DEF SchemaInit
<1>2. schema \in SchemaType
  BY <1>1 DEF SoundSchema
<1> QED
  BY <1>1, <1>2 DEF SchemaInit, SchemaInv, SoundOpener, OpenerType

(* No step loses a row, and a step keeps the invariant.                    *)
LEMMA NextSchemaInv ==
  SchemaInv /\ [SchemaNext]_schemaVars =>
    /\ SchemaInv'
    /\ schema.cached # NoCache => schema.cached \subseteq schema'.cached
<1> SUFFICES ASSUME SchemaInv, [SchemaNext]_schemaVars
             PROVE  /\ SchemaInv'
                    /\ schema.cached # NoCache => schema.cached \subseteq schema'.cached
  OBVIOUS
<1> DEFINE Goal == /\ SchemaInv'
                   /\ schema.cached # NoCache => schema.cached \subseteq schema'.cached
<1> USE MigrationAssumption
<1>0. /\ schema \in SchemaType /\ schemaCommits \in Nat
      /\ \A p \in Opener : opener[p] \in OpenerType
  BY DEF SchemaInv, SoundSchema
(* Steps that move one process, which then is out or reads nothing.        *)
<1>1. ASSUME NEW p \in Opener, NEW to \in {"out", "drop", "begin"}, Enter(p, to),
             UNCHANGED <<schema, schemaCommits>>, opens' \in Nat
      PROVE  Goal
  <2>1. opener' = [opener EXCEPT ![p] = [opener[p] EXCEPT !.stage = to]]
    BY <1>1, <1>0 DEF Enter, SchemaInv
  <2>2. opener' \in [Opener -> OpenerType]
    BY <1>0, <2>1 DEF SchemaInv, OpenerType
  <2>3. \A q \in Opener : q # p => opener'[q] = opener[q]
    BY <2>1 DEF SchemaInv
  <2>4. opener'[p].stage = to /\ opener'[p].draft = opener[p].draft /\ opener'[p].seen = opener[p].seen
    BY <1>0, <2>1 DEF SchemaInv, OpenerType
  <2>5. \A q \in Opener : SoundOpener(opener[q])'
    BY <1>1, <2>3, <2>4 DEF SchemaInv, SoundOpener, SoundSchema
  <2>6. \A q, r \in Opener : opener'[q].stage = "write" /\ opener'[r].stage = "write" => q = r
    BY <1>1, <2>3, <2>4 DEF SchemaInv
  <2> QED
    BY <1>1, <2>2, <2>5, <2>6 DEF SchemaInv, SoundSchema
<1>2. ASSUME NEW p \in Opener, OpenDatabase(p) PROVE Goal
  <2>1. opens' \in Nat
    BY <1>2 DEF OpenDatabase, SchemaInv
  <2> QED
    BY <1>1, <1>2, <2>1 DEF OpenDatabase
<1>3. ASSUME NEW p \in Opener, GiveUp(p) PROVE Goal
  BY <1>1, <1>3 DEF GiveUp, SchemaInv
(* A commit of someone who is not an opener, or no more than drops the     *)
(* spare table: nobody holds the lock.                                     *)
<1>4. ASSUME ~ Locked, SoundSchema(schema)', schemaCommits' = schemaCommits + 1,
             opens' = opens,
             schema.cached # NoCache => schema.cached \subseteq schema'.cached,
             \/ opener' = opener
             \/ \E p \in Opener : Enter(p, "begin")
      PROVE  Goal
  <2>1. opener' \in [Opener -> OpenerType]
    BY <1>0, <1>4 DEF SchemaInv, OpenerType, Enter
  <2>2. \A q \in Opener : /\ opener'[q].stage # "write"
                          /\ opener'[q].draft = opener[q].draft
                          /\ opener'[q].seen = opener[q].seen
    BY <1>0, <1>4 DEF SchemaInv, OpenerType, Enter, Locked
  <2>3. \A q \in Opener : opener[q].seen \in Nat /\ opener[q].seen <= schemaCommits
    BY <1>0 DEF SchemaInv, SoundOpener, OpenerType
  <2>4. \A q \in Opener : /\ SoundSchema(opener[q].draft)' /\ opener'[q].seen <= schemaCommits'
                          /\ opener'[q].seen # schemaCommits'
    BY <1>0, <1>4, <2>2, <2>3 DEF SchemaInv, SoundOpener, SoundSchema
  <2>5. \A q \in Opener : SoundOpener(opener[q])'
    BY <2>2, <2>4 DEF SoundOpener
  <2> QED
    BY <1>0, <1>4, <2>1, <2>2, <2>5 DEF SchemaInv
<1>5. ASSUME NEW p \in Opener, DropSpare(p) PROVE Goal
  <2>1. CASE schema.spare = NoCache
    BY <1>1, <1>5, <2>1 DEF DropSpare, SchemaInv
  <2>2. CASE schema.spare # NoCache
    <3>1. schema' = [schema EXCEPT !.spare = NoCache]
      BY <1>5, <2>2 DEF DropSpare
    <3>2. schema'.cached = schema.cached /\ SoundSchema(schema)'
      BY <1>0, <3>1 DEF SchemaInv, SoundSchema, SchemaType
    <3> QED
      BY <1>4, <1>5, <2>2, <3>2 DEF DropSpare
  <2> QED
    BY <2>1, <2>2
<1>6. CASE IndexMeanwhile
  <2>1. PICK row \in Rows \ schema.cached :
          schema' = [schema EXCEPT !.cached = @ \cup {row}]
    BY <1>6 DEF IndexMeanwhile
  <2>2. schema.version = NewestVersion /\ schema.cached \in SUBSET Rows
    BY <1>0, <1>6 DEF IndexMeanwhile, SchemaInv, SoundSchema, SchemaType, NewestVersion
  <2>3. schema'.cached = schema.cached \cup {row} /\ schema'.cached \in SUBSET Rows
    BY <1>0, <2>1, <2>2 DEF SchemaType
  <2>4. SoundSchema(schema)'
    BY <1>0, <2>1, <2>2, <2>3 DEF SchemaInv, SoundSchema, SchemaType, NewestVersion
  <2> QED
    BY <1>4, <1>6, <2>3, <2>4 DEF IndexMeanwhile
<1>7. ASSUME NEW p \in Opener, ReadVersion(p) PROVE Goal
  <2> DEFINE o == [stage |-> IF schema.version >= NewestVersion THEN "out" ELSE "read",
                   draft |-> schema, seen |-> schemaCommits]
  <2>1. opener' = [opener EXCEPT ![p] = o]
    BY <1>7 DEF ReadVersion
  <2>2. o \in OpenerType /\ o.stage \in {"out", "read"} /\ o.draft = schema /\ o.seen = schemaCommits
    BY <1>0 DEF OpenerType
  <2> HIDE DEF o
  <2>3. opener' \in [Opener -> OpenerType] /\ opener'[p] = o
        /\ \A q \in Opener : q # p => opener'[q] = opener[q]
    BY <2>1, <2>2 DEF SchemaInv
  <2>4. \A q \in Opener : SoundOpener(opener[q])'
    BY <1>0, <1>7, <2>2, <2>3 DEF SchemaInv, SoundOpener, ReadVersion, SoundSchema
  <2>5. \A q, r \in Opener : opener'[q].stage = "write" /\ opener'[r].stage = "write" => q = r
    BY <2>2, <2>3 DEF SchemaInv
  <2> QED
    BY <1>7, <2>3, <2>4, <2>5 DEF SchemaInv, ReadVersion, SoundSchema
<1>8. ASSUME NEW p \in Opener, FirstWrite(p) PROVE Goal
  <2>1. CASE opener[p].seen = schemaCommits
    <3>1. opener' = [opener EXCEPT ![p] = [opener[p] EXCEPT !.stage = "write"]]
      BY <1>8, <2>1 DEF FirstWrite, Enter, SchemaInv
    <3>2. opener' \in [Opener -> OpenerType]
      BY <1>0, <3>1 DEF SchemaInv, OpenerType
    <3>3. /\ \A q \in Opener : q # p => opener'[q] = opener[q] /\ opener[q].stage # "write"
          /\ opener'[p].stage = "write" /\ opener'[p].draft = opener[p].draft
          /\ opener'[p].seen = opener[p].seen
      BY <1>0, <1>8, <3>1 DEF SchemaInv, OpenerType, FirstWrite, Locked
    <3>4. opener[p].draft = schema
      BY <1>8, <2>1 DEF FirstWrite, SchemaInv, SoundOpener
    <3>5. \A q \in Opener : SoundOpener(opener[q])'
      BY <1>8, <3>3, <3>4 DEF SchemaInv, SoundOpener, FirstWrite, SoundSchema
    <3> QED
      BY <1>8, <3>2, <3>3, <3>5 DEF SchemaInv, FirstWrite, SoundSchema
  <2>2. CASE opener[p].seen # schemaCommits
    BY <1>1, <1>8, <2>2 DEF FirstWrite, SchemaInv
  <2> QED
    BY <2>1, <2>2
<1>9. ASSUME NEW p \in Opener, Migrate(p) PROVE Goal
  <2> DEFINE v == IF opener[p].draft.version = 0 THEN 2 ELSE opener[p].draft.version + 1
             d == MigratedTo(opener[p].draft, v)
  <2>1. opener' = [opener EXCEPT ![p] = [opener[p] EXCEPT !.draft = d]]
    BY <1>9 DEF Migrate, SchemaInv
  <2>2. /\ SoundSchema(d)
        /\ opener[p].draft.cached # NoCache => d.cached = opener[p].draft.cached
    BY <1>9, MigrationIsSound DEF Migrate, SchemaInv, SoundOpener
  <2>3. schema.cached # NoCache => opener[p].draft.cached # NoCache
    BY <1>0, <1>9 DEF Migrate, SchemaInv, SoundOpener
  <2> HIDE DEF d
  <2>4. d \in SchemaType
    BY <2>2 DEF SoundSchema
  <2>5. opener' \in [Opener -> OpenerType]
    BY <1>0, <2>1, <2>4 DEF SchemaInv, OpenerType
  <2>6. /\ \A q \in Opener : q # p => opener'[q] = opener[q]
        /\ opener'[p].stage = "write" /\ opener'[p].draft = d /\ opener'[p].seen = opener[p].seen
    BY <1>0, <1>9, <2>1 DEF SchemaInv, OpenerType, Migrate
  <2>7. \A q \in Opener : SoundOpener(opener[q])'
    BY <1>9, <2>2, <2>3, <2>6 DEF SchemaInv, SoundOpener, Migrate, SoundSchema
  <2>8. \A q, r \in Opener : opener'[q].stage = "write" /\ opener'[r].stage = "write" => q = r
    BY <1>9, <2>6 DEF SchemaInv, Migrate
  <2> QED
    BY <1>9, <2>5, <2>7, <2>8 DEF SchemaInv, Migrate, SoundSchema
<1>10. ASSUME NEW p \in Opener, CommitSchema(p) PROVE Goal
  <2>1. opener' = [opener EXCEPT ![p] = [opener[p] EXCEPT !.stage = "out"]]
    BY <1>10 DEF CommitSchema, Enter, SchemaInv
  <2>2. opener' \in [Opener -> OpenerType]
    BY <1>0, <2>1 DEF SchemaInv, OpenerType
  <2>3. /\ \A q \in Opener : q # p => opener'[q] = opener[q] /\ opener'[q].stage # "write"
        /\ opener'[p].stage = "out" /\ opener'[p].draft = opener[p].draft
        /\ opener'[p].seen = opener[p].seen
    BY <1>0, <1>10, <2>1 DEF SchemaInv, OpenerType, CommitSchema
  <2>4. schema' = opener[p].draft /\ schemaCommits' = schemaCommits + 1
    BY <1>10 DEF CommitSchema
  <2>5. SoundSchema(schema)'
    BY <2>4 DEF SchemaInv, SoundOpener, SoundSchema
  <2>6. \A q \in Opener : opener[q].seen \in Nat /\ opener[q].seen <= schemaCommits
    BY <1>0 DEF SchemaInv, SoundOpener, OpenerType
  <2>7. \A q \in Opener : /\ SoundSchema(opener[q].draft)' /\ opener'[q].seen <= schemaCommits'
                          /\ opener'[q].seen # schemaCommits' /\ opener'[q].stage # "write"
    BY <1>0, <2>3, <2>4, <2>6 DEF SchemaInv, SoundOpener, SoundSchema
  <2>8. \A q \in Opener : SoundOpener(opener[q])'
    BY <2>7 DEF SoundOpener
  <2>9. schema.cached # NoCache => schema.cached \subseteq schema'.cached
    BY <1>10, <2>4 DEF CommitSchema, SchemaInv, SoundOpener
  <2> QED
    BY <1>0, <1>10, <2>2, <2>4, <2>5, <2>7, <2>8, <2>9 DEF SchemaInv, CommitSchema
<1>11. CASE UNCHANGED schemaVars
  BY <1>11 DEF schemaVars, SchemaInv, SoundOpener, SoundSchema
<1> QED
  BY <1>2, <1>3, <1>5, <1>6, <1>7, <1>8, <1>9, <1>10, <1>11 DEF SchemaNext

(* However many processes open an old database at once and wherever they   *)
(* are killed, it stays what it was or has every table and column of the   *)
(* newest version, and no row of file_cache is lost (migration::run, v02   *)
(* to v11).                                                                *)
THEOREM UpgradesAreWhole == SchemaSpec => UpgradeIsWhole
<1>1. SchemaInit => SchemaInv
  BY InitSchemaInv
<1>2. SchemaInv /\ [SchemaNext]_schemaVars =>
        /\ SchemaInv'
        /\ [schema.cached # NoCache => schema.cached \subseteq schema'.cached]_schemaVars
  BY NextSchemaInv
<1>3. SchemaInv => (schema.version = NewestVersion => FullSchema \subseteq schema.columns)
  BY DEF SchemaInv, SoundSchema, FullSchema, NewestVersion
<1> QED
  BY <1>1, <1>2, <1>3, PTL DEF SchemaSpec, UpgradeIsWhole

-----------------------------------------------------------------------------
(***************************************************************************)
(* ConfigFile: what a command overwrites is backed up, an upgrade keeps    *)
(* its meaning, doctor repairs.  Between two steps of a command that no    *)
(* one disturbs, config.toml is what the command has made of it; the       *)
(* invariant says at each stage what that is.                              *)
(***************************************************************************)
SafeToWrite == config = None \/ config \in copies

StageInv(m) ==
  /\ m.stage \in {"copyUnknown", "reread", "truncateFixed", "copyOld", "truncateOld"}
       => config # None
  /\ m.stage \in {"copyOld", "truncateOld", "writeOld"} => ~ m.cfg.unknown
  /\ m.stage \in {"reread", "truncateFixed", "truncateOld"} /\ ~ disturbed
       => config \in copies
  /\ m.stage = "answer" /\ ~ disturbed => SafeToWrite
  /\ m.stage \in {"writeFixed", "writeOld"} /\ ~ disturbed => config = Default
  /\ m.stage = "save" /\ m.name # "set" /\ ~ disturbed =>
       config # None /\ Settings(config) \subseteq Settings(Serialized(m.cfg))

ConfigInv ==
  /\ config \in ConfigType \cup {None}
  /\ thesaurus \in SUBSET Word
  /\ copies \in SUBSET ConfigType
  /\ cmd \in Underway \cup {None}
  /\ disturbed \in BOOLEAN
  /\ edits \in 0 .. MaxEdits /\ runs \in 0 .. MaxRuns
  /\ cmd # None => StageInv(cmd)

LEMMA DefaultIs ==
  /\ Default \in ConfigType /\ Default # None /\ Settings(Default) = {}
  /\ NoVaults \in [Name -> Dir \cup {None}]
<1>1. Default \in ConfigType /\ NoVaults \in [Name -> Dir \cup {None}]
  BY DEF Default, ConfigType, NoVaults
<1>2. Settings(Default) = {}
  BY ConfigAssumption DEF Default, Settings, NoVaults, ResolvedDb
<1> QED
  BY <1>1, <1>2, ConfigAssumption

(* What is written is a configuration, and keeps what it is made of.       *)
LEMMA SerializedIs ==
  ASSUME NEW c \in ConfigType
  PROVE  /\ Serialized(c) \in ConfigType
         /\ Settings(Serialized(c)) = Settings(c)
<1> USE ConfigAssumption
<1>1. Serialized(c) \in ConfigType
  BY DEF Serialized, ConfigType
<1>2. /\ Serialized(c).vault = c.vault /\ Serialized(c).vaultDb = c.vaultDb
      /\ Serialized(c).database = c.database /\ Serialized(c).vaults = c.vaults
      /\ Serialized(c).synonyms = c.synonyms /\ Serialized(c).consent = c.consent
      /\ Serialized(c).usage = IF c.usage = None THEN "off" ELSE c.usage
  BY DEF Serialized, ConfigType
<1>3. {Serialized(c).usage} \cap {"on"} = {c.usage} \cap {"on"}
  BY <1>2
<1>4. ResolvedDb(Serialized(c)) = ResolvedDb(c)
  BY <1>2 DEF ResolvedDb
<1> QED
  BY <1>1, <1>2, <1>3, <1>4 DEF Settings

(* With the limit or the consent added, no setting is gone.                *)
LEMMA AddedIs ==
  ASSUME NEW c \in ConfigType
  PROVE  /\ \A u \in {"on", "off"} : [c EXCEPT !.usage = u] \in ConfigType
         /\ [c EXCEPT !.consent = TRUE] \in ConfigType
         /\ Settings(c) \subseteq Settings(Serialized([c EXCEPT !.usage = "on"]))
         /\ Settings(c) \subseteq Settings(Serialized([c EXCEPT !.consent = TRUE]))
<1> DEFINE u == [c EXCEPT !.usage = "on"]
           a == [c EXCEPT !.consent = TRUE]
<1>1. /\ \A w \in {"on", "off"} : [c EXCEPT !.usage = w] \in ConfigType
      /\ u \in ConfigType /\ a \in ConfigType
  BY DEF ConfigType
<1>2. /\ u.vault = c.vault /\ u.vaultDb = c.vaultDb /\ u.database = c.database
      /\ u.vaults = c.vaults /\ u.synonyms = c.synonyms /\ u.consent = c.consent
      /\ u.usage = "on"
  BY DEF ConfigType
<1>3. /\ a.vault = c.vault /\ a.vaultDb = c.vaultDb /\ a.database = c.database
      /\ a.vaults = c.vaults /\ a.synonyms = c.synonyms /\ a.consent = TRUE
      /\ a.usage = c.usage
  BY DEF ConfigType
<1> HIDE DEF u, a
<1>4. ResolvedDb(u) = ResolvedDb(c) /\ ResolvedDb(a) = ResolvedDb(c)
  BY <1>2, <1>3 DEF ResolvedDb
<1>5. Settings(c) \subseteq Settings(u)
  BY <1>2, <1>4 DEF Settings
<1>6. Settings(c) \subseteq Settings(a)
  BY <1>3, <1>4 DEF Settings
<1> QED
  BY <1>1, <1>5, <1>6, SerializedIs DEF u, a

LEMMA LoadedIs ==
  ASSUME ConfigInv
  PROVE  Loaded \in ConfigType
<1>1. (IF Loads(config) THEN config ELSE Default) \in ConfigType
  BY DefaultIs DEF ConfigInv, Loads
<1> QED
  BY <1>1 DEF Loaded, ConfigType, ConfigInv

(* The upgrade of an old file: no old section, the same vault, database    *)
(* and indexing.                                                           *)
LEMMA MigratedIs ==
  ASSUME NEW c \in ConfigType
  PROVE  /\ Migrated(c) \in ConfigType
         /\ Migrated(c).vault = None /\ Migrated(c).vaultDb = None
         /\ Migrated(c).database = ResolvedDb(c)
         /\ Migrated(c).vaults = [NoVaults EXCEPT !["default"] = c.vault]
         /\ Migrated(c).unknown = c.unknown
<1> DEFINE d == [c EXCEPT !.vault = None, !.vaultDb = None, !.database = ResolvedDb(c),
                          !.vaults = [NoVaults EXCEPT !["default"] = c.vault],
                          !.synonyms = {}, !.usage = None]
<1>1. ResolvedDb(c) \in Db \cup {None}
  BY DEF ResolvedDb, ConfigType
<1>2. [NoVaults EXCEPT !["default"] = c.vault] \in [Name -> Dir \cup {None}]
  BY DEF NoVaults, Name, ConfigType
<1>3. d \in ConfigType
  BY <1>1, <1>2 DEF ConfigType
<1>4. /\ d.vault = None /\ d.vaultDb = None /\ d.database = ResolvedDb(c)
      /\ d.vaults = [NoVaults EXCEPT !["default"] = c.vault]
      /\ d.unknown = c.unknown
  BY DEF ConfigType
<1>5. Migrated(c) = Serialized(d)
  BY DEF Migrated
<1> HIDE DEF d
<1>6. /\ Serialized(d) \in ConfigType
      /\ Serialized(d).vault = d.vault /\ Serialized(d).vaultDb = d.vaultDb
      /\ Serialized(d).database = d.database /\ Serialized(d).vaults = d.vaults
      /\ Serialized(d).unknown = d.unknown
  BY <1>3, SerializedIs DEF Serialized, ConfigType
<1> QED
  BY <1>4, <1>5, <1>6

(* The file init writes. *)
LEMMA InitConfigIs ==
  ASSUME NEW m \in Underway, NEW dir \in NotesDirs(m.cfg), cmd = m
  PROVE  InitConfig(m.cfg, dir) \in ConfigType
<1>1. m.cfg \in ConfigType /\ m.given \in Dir \cup {None}
  BY DEF Underway
<1>2. \A v \in ResolvedVaults(m.cfg) : v[2] \in Dir
  <2>1. m.cfg.vault \in Dir \cup {None} /\ \A n \in Name : m.cfg.vaults[n] \in Dir \cup {None}
    BY <1>1 DEF ConfigType
  <2> QED
    BY <2>1, ConfigAssumption DEF ResolvedVaults
<1>3. dir \in Dir \cup {None}
  BY <1>1, <1>2 DEF NotesDirs, ConfigType
<1> DEFINE d == [m.cfg EXCEPT !.vault = None, !.vaultDb = None, !.vaults["default"] = dir]
<1>4. d \in ConfigType
  BY <1>1, <1>3 DEF ConfigType, Name
<1> QED
  BY <1>4, SerializedIs DEF InitConfig

(* A step to the next stage changes nothing else of the command.           *)
LEMMA Moves ==
  ASSUME NEW m \in Underway, NEW to, NEW c \in ConfigType, cmd = m,
         to \in {"answer", "limit", "save", "copyUnknown", "reread",
                    "truncateFixed", "writeFixed", "reload", "copyOld",
                    "truncateOld", "writeOld", "empty", "fill"}
  PROVE  /\ Goto(to) => /\ cmd' \in Underway /\ cmd'.stage = to
                           /\ cmd'.name = m.name /\ cmd'.cfg = m.cfg
         /\ GotoWith(to, c) => /\ cmd' \in Underway /\ cmd'.stage = to
                                  /\ cmd'.name = m.name /\ cmd'.cfg = c
  BY DEF Goto, GotoWith, Underway

LEMMA InitConfigInv == ConfigInit => ConfigInv
<1> SUFFICES ASSUME ConfigInit PROVE ConfigInv
  OBVIOUS
<1>1. config \in ConfigType \cup {None}
  <2>1. ASSUME config # None
        PROVE  config \in [vault : {None, Cwd}, vaultDb : {None} \cup Db, database : {None},
                           vaults : [Name -> Dir \cup {None}], synonyms : {{}},
                           usage : {None, "on"}, consent : {FALSE}, unknown : BOOLEAN]
    BY <2>1 DEF ConfigInit
  <2> QED
    BY <2>1, ConfigAssumption DEF ConfigType
<1>2. thesaurus \in SUBSET Word /\ copies = {} /\ cmd = None /\ disturbed = FALSE
      /\ edits = 0 /\ runs = 0
  BY DEF ConfigInit
<1>3. 0 \in 0 .. MaxEdits /\ 0 \in 0 .. MaxRuns
  BY ConfigAssumption
<1> QED
  BY <1>1, <1>2, <1>3 DEF ConfigInv

(* What a step may write over. *)
Dropping ==
  (config # None /\ config' # config /\ cmd # None /\ ~ disturbed
   /\ edits' = edits /\ cmd.name # "set") =>
     \A s \in Settings(config) \ Settings(config') :
       \E b \in copies : s \in Settings(b)

Upgrading ==
  (WriteOld /\ cmd.cfg.vaults = NoVaults) =>
    /\ ResolvedVaults(config') = ResolvedVaults(cmd.cfg)
    /\ ResolvedDb(config') = ResolvedDb(cmd.cfg)

Repairing ==
  ((LoadOld \/ WriteOld \/ WriteFixed) /\ At({"doctor"}, cmd.stage) /\ cmd' = None
   /\ cmd.yes /\ ~ disturbed) => Loads(config') /\ ~ OldFormat(config')

LEMMA NextConfigInv ==
  ConfigInv /\ [ConfigNext]_configVars => ConfigInv' /\ Dropping
<1> SUFFICES ASSUME ConfigInv, [ConfigNext]_configVars
             PROVE  ConfigInv' /\ Dropping
  OBVIOUS
<1> USE ConfigAssumption
<1> DEFINE Goal == ConfigInv' /\ Dropping
<1>0. cmd # None => /\ cmd \in Underway /\ cmd.cfg \in ConfigType /\ StageInv(cmd)
  BY DEF ConfigInv, Underway
<1>1. \A x \in Underway : x # None
  OBVIOUS
<1>2. \A x \in ConfigType : x # None
  OBVIOUS
(* Steps after which no command runs and that write what is safe.          *)
<1>3. ASSUME cmd # None, End, Others,
             config' \in ConfigType \cup {None}, thesaurus' \in SUBSET Word,
             UNCHANGED copies, Dropping
      PROVE  Goal
  BY <1>3 DEF ConfigInv, End, Others
(* Steps that leave the files alone.                                       *)
<1>4. ASSUME NEW to \in {"answer", "limit", "save", "copyUnknown", "reread",
                            "truncateFixed", "writeFixed", "reload", "copyOld",
                            "truncateOld", "writeOld", "empty", "fill"},
             cmd # None, cmd' \in Underway, cmd'.stage = to, Others, 
             UNCHANGED <<config, copies>>, thesaurus' \in SUBSET Word, StageInv(cmd)'
      PROVE  Goal
  BY <1>4, <1>1 DEF ConfigInv, Others, Dropping
<1>5. CASE Edit
  <2>1. config \in ConfigType
    BY <1>5 DEF Edit, ConfigInv
  <2>2. config' \in ConfigType
    <3>1. /\ [config EXCEPT !.usage = "on"] \in ConfigType
          /\ [config EXCEPT !.unknown = TRUE] \in ConfigType
          /\ [config EXCEPT !.consent = FALSE] \in ConfigType
          /\ \A d \in Dir : [config EXCEPT !.vault = d] \in ConfigType
      BY <2>1 DEF ConfigType
    <3> QED
      BY <1>5, <3>1 DEF Edit
  <2>3. Dropping
    BY <1>5 DEF Edit, Dropping, ConfigInv
  <2>4. disturbed' = (cmd # None) /\ UNCHANGED <<thesaurus, copies, cmd, runs>>
        /\ edits' \in 0 .. MaxEdits
    BY <1>5 DEF Edit, ConfigInv
  <2>5. cmd # None => StageInv(cmd)'
    BY <1>0, <1>2, <2>2, <2>4 DEF StageInv
  <2> QED
    BY <2>2, <2>3, <2>4, <2>5 DEF ConfigInv
<1>6. CASE Begin
  <2>1. PICK name \in CommandName, yes \in BOOLEAN, given \in Dir \cup {None} :
          cmd' = [name |-> name, stage |-> "start", yes |-> yes, given |-> given,
                  cfg |-> IF given = None THEN Loaded
                          ELSE [Loaded EXCEPT !.vaults["default"] = given]]
    BY <1>6 DEF Begin
  <2>2. (IF given = None THEN Loaded
         ELSE [Loaded EXCEPT !.vaults["default"] = given]) \in ConfigType
    BY LoadedIs DEF ConfigType, Name
  <2>3. cmd' \in Underway /\ cmd'.stage = "start"
    BY <2>1, <2>2 DEF Underway
  <2>4. StageInv(cmd)'
    BY <2>3 DEF StageInv
  <2>5. runs' \in 0 .. MaxRuns /\ disturbed' = FALSE
        /\ UNCHANGED <<config, thesaurus, copies, edits>>
    BY <1>6 DEF Begin, ConfigInv
  <2> QED
    BY <2>3, <2>4, <2>5 DEF ConfigInv, Dropping
<1>7. CASE Stop
  BY <1>3, <1>7 DEF Stop, Files, ConfigInv, Dropping
<1>8. CASE InitStart
  <2>1. cmd # None /\ Goto("answer") /\ Others /\ UNCHANGED <<config, thesaurus>>
        /\ (copies' = copies \/ (config # None /\ copies' = copies \cup {config}))
        /\ (config = None \/ config \in copies')
    BY <1>8 DEF InitStart, At, BackupConfig, Files
  <2>2. cmd' \in Underway /\ cmd'.stage = "answer"
    BY <1>0, <2>1, Moves
  <2>3. copies' \in SUBSET ConfigType
    BY <2>1 DEF ConfigInv
  <2>4. StageInv(cmd)'
    BY <2>1, <2>2 DEF StageInv, SafeToWrite
  <2> QED
    BY <1>1, <2>1, <2>2, <2>3, <2>4 DEF ConfigInv, Others, Dropping
<1>9. CASE InitWrite
  <2>1. /\ cmd # None /\ cmd.stage = "answer" /\ Others /\ UNCHANGED <<thesaurus, copies>>
        /\ End \/ Goto("limit")
    BY <1>9 DEF InitWrite, At
  <2>2. config' \in ConfigType
    BY <1>0, <1>9, <2>1, InitConfigIs DEF InitWrite
  <2>3. Dropping
    BY <1>0, <2>1 DEF Dropping, StageInv, SafeToWrite
  <2>4. CASE End
    BY <1>3, <2>1, <2>2, <2>3, <2>4 DEF ConfigInv
  <2>5. CASE Goto("limit")
    <3>1. cmd' \in Underway /\ cmd'.stage = "limit"
      BY <1>0, <2>1, <2>5, Moves
    <3>2. StageInv(cmd)'
      BY <3>1 DEF StageInv
    <3> QED
      BY <2>1, <2>2, <2>3, <3>1, <3>2 DEF ConfigInv, Others
  <2> QED
    BY <2>1, <2>4, <2>5
<1>10. CASE LimitLoad \/ ConsentLoad
  <2>1. PICK c \in {[config EXCEPT !.usage = "on"], [config EXCEPT !.consent = TRUE]} :
          /\ cmd # None /\ Loads(config) /\ GotoWith("save", c)
          /\ UNCHANGED Files /\ Others
    BY <1>10 DEF LimitLoad, ConsentLoad, At
  <2>2. config \in ConfigType
    BY <2>1 DEF ConfigInv, Loads
  <2>3. c \in ConfigType /\ Settings(config) \subseteq Settings(Serialized(c))
    BY <2>2, AddedIs
  <2>4. cmd' \in Underway /\ cmd'.stage = "save" /\ cmd'.cfg = c
    BY <1>0, <2>1, <2>3, Moves
  <2>5. StageInv(cmd)'
    BY <1>2, <2>1, <2>2, <2>3, <2>4 DEF StageInv, Files
  <2> QED
    BY <1>4, <2>1, <2>4, <2>5 DEF ConfigInv, Files
<1>11. CASE SetLoad
  <2>1. PICK usage \in {"on", "off"} :
          /\ cmd # None /\ cmd.name = "set" /\ config # None
          /\ GotoWith("save", [config EXCEPT !.usage = usage])
          /\ UNCHANGED Files /\ Others
    BY <1>11 DEF SetLoad, At
  <2>2. [config EXCEPT !.usage = usage] \in ConfigType
    BY <2>1, AddedIs DEF ConfigInv
  <2>3. cmd' \in Underway /\ cmd'.stage = "save" /\ cmd'.name = "set"
    BY <1>0, <2>1, <2>2, Moves
  <2>4. StageInv(cmd)'
    BY <2>3 DEF StageInv
  <2> QED
    BY <1>4, <2>1, <2>3, <2>4 DEF ConfigInv, Files
<1>12. CASE Save
  <2>1. /\ cmd # None /\ cmd.stage = "save" /\ End /\ Others
        /\ UNCHANGED <<thesaurus, copies>>
        /\ config' = IF cmd.name = "set" THEN cmd.cfg ELSE Serialized(cmd.cfg)
    BY <1>12 DEF Save, At
  <2>2. config' \in ConfigType
    BY <1>0, <2>1, SerializedIs
  <2>3. Dropping
    BY <1>0, <2>1 DEF Dropping, StageInv
  <2> QED
    BY <1>3, <2>1, <2>2, <2>3 DEF ConfigInv
<1>13. CASE DoctorStart
  <2>1. PICK to \in {"copyUnknown", "reload"} :
          /\ cmd # None /\ config # None /\ Goto(to) /\ UNCHANGED Files /\ Others
    BY <1>13 DEF DoctorStart, At
  <2>2. cmd' \in Underway /\ cmd'.stage = to
    BY <1>0, <2>1, Moves
  <2>3. StageInv(cmd)'
    BY <2>1, <2>2 DEF StageInv, Files
  <2> QED
    BY <1>4, <2>1, <2>2, <2>3 DEF ConfigInv, Files
<1>14. CASE CopyUnknown \/ CopyOld
  <2>1. PICK to \in {"reread", "truncateOld"} :
          /\ cmd # None /\ cmd.stage \in {"copyUnknown", "copyOld"}
          /\ to = "truncateOld" => cmd.stage = "copyOld"
          /\ copies' = copies \cup {config}
          /\ Goto(to) /\ UNCHANGED <<config, thesaurus>> /\ Others
    BY <1>14 DEF CopyUnknown, CopyOld, At
  <2>2. config \in ConfigType /\ (to = "truncateOld" => ~ cmd.cfg.unknown)
    BY <1>0, <2>1 DEF StageInv, ConfigInv
  <2>3. cmd' \in Underway /\ cmd'.stage = to /\ cmd'.cfg = cmd.cfg
    BY <1>0, <2>1, Moves
  <2>4. StageInv(cmd)'
    BY <1>2, <2>1, <2>2, <2>3 DEF StageInv
  <2> QED
    BY <1>1, <2>1, <2>2, <2>3, <2>4 DEF ConfigInv, Others, Dropping
<1>15. CASE Reread
  <2>1. /\ cmd # None /\ cmd.stage = "reread"
        /\ GotoWith("truncateFixed", [config EXCEPT !.unknown = FALSE])
        /\ UNCHANGED Files /\ Others
    BY <1>15 DEF Reread, At
  <2>2. config \in ConfigType
    BY <1>0, <2>1 DEF StageInv, ConfigInv
  <2>3. [config EXCEPT !.unknown = FALSE] \in ConfigType
    BY <2>2 DEF ConfigType
  <2>4. cmd' \in Underway /\ cmd'.stage = "truncateFixed"
    BY <1>0, <2>1, <2>3, Moves
  <2>5. StageInv(cmd)'
    BY <1>0, <1>2, <2>1, <2>2, <2>4 DEF StageInv, Files, Others
  <2> QED
    BY <1>4, <2>1, <2>4, <2>5 DEF ConfigInv, Files
<1>16. CASE LoadOld
  <2>1. /\ cmd # None /\ Loads(config) /\ UNCHANGED Files /\ Others
        /\ GotoWith("copyOld", config) \/ End
    BY <1>16 DEF LoadOld, At
  <2>2. config \in ConfigType /\ ~ config.unknown
    BY <2>1 DEF Loads, ConfigInv
  <2>3. CASE End
    BY <1>3, <2>1, <2>3 DEF ConfigInv, Files, Dropping
  <2>4. CASE GotoWith("copyOld", config)
    <3>1. cmd' \in Underway /\ cmd'.stage = "copyOld" /\ cmd'.cfg = config
      BY <1>0, <2>1, <2>2, <2>4, Moves
    <3>2. StageInv(cmd)'
      BY <1>2, <2>1, <2>2, <3>1 DEF StageInv, Files
    <3> QED
      BY <1>4, <2>1, <3>1, <3>2 DEF ConfigInv, Files
  <2> QED
    BY <2>1, <2>3, <2>4
<1>17. CASE Truncate
  <2>1. PICK to \in {"writeFixed", "writeOld"} :
          /\ cmd # None /\ cmd.stage \in {"truncateFixed", "truncateOld"}
          /\ to = "writeOld" => cmd.stage = "truncateOld"
          /\ Goto(to) /\ config' = Default
          /\ UNCHANGED <<thesaurus, copies>> /\ Others
    BY <1>17 DEF Truncate, At
  <2>2. cmd' \in Underway /\ cmd'.stage = to /\ cmd'.cfg = cmd.cfg
    BY <1>0, <2>1, Moves
  <2>3. StageInv(cmd)'
    BY <1>0, <2>1, <2>2 DEF StageInv
  <2>4. Dropping
    BY <1>0, <2>1 DEF StageInv, Dropping
  <2> QED
    BY <1>1, <2>1, <2>2, <2>3, <2>4, DefaultIs DEF ConfigInv, Others
<1>18. CASE WriteFixed
  <2>1. /\ cmd # None /\ cmd.stage = "writeFixed" /\ config' = cmd.cfg
        /\ Goto("reload") /\ UNCHANGED <<thesaurus, copies>> /\ Others
    BY <1>18 DEF WriteFixed, At
  <2>2. cmd' \in Underway /\ cmd'.stage = "reload"
    BY <1>0, <2>1, Moves
  <2>3. StageInv(cmd)'
    BY <2>2 DEF StageInv
  <2>4. Dropping
    BY <1>0, <2>1, DefaultIs DEF StageInv, Dropping
  <2> QED
    BY <1>0, <1>1, <2>1, <2>2, <2>3, <2>4 DEF ConfigInv, Others
<1>19. CASE WriteOld
  <2>1. /\ cmd # None /\ cmd.stage = "writeOld" /\ config' = Migrated(cmd.cfg)
        /\ End /\ UNCHANGED <<thesaurus, copies>> /\ Others
    BY <1>19 DEF WriteOld, At
  <2>2. config' \in ConfigType
    BY <1>0, <2>1, MigratedIs
  <2>3. Dropping
    BY <1>0, <2>1, DefaultIs DEF StageInv, Dropping
  <2> QED
    BY <1>3, <2>1, <2>2, <2>3 DEF ConfigInv
<1>20. CASE SynonymLoad
  <2>1. PICK words \in SUBSET Word :
          /\ cmd # None
          /\ GotoWith("empty", [Default EXCEPT !.synonyms = words])
          /\ UNCHANGED Files /\ Others
    <3>1. PICK word \in Word :
            GotoWith("empty", [Default EXCEPT !.synonyms =
              IF cmd.name = "add" THEN thesaurus \cup {word} ELSE thesaurus \ {word}])
      BY <1>20 DEF SynonymLoad
    <3>2. (IF cmd.name = "add" THEN thesaurus \cup {word} ELSE thesaurus \ {word})
            \in SUBSET Word
      BY DEF ConfigInv
    <3> QED
      BY <1>20, <3>1, <3>2 DEF SynonymLoad, At
  <2>2. [Default EXCEPT !.synonyms = words] \in ConfigType
    BY DefaultIs DEF ConfigType
  <2>3. cmd' \in Underway /\ cmd'.stage = "empty"
    BY <1>0, <2>1, <2>2, Moves
  <2>4. StageInv(cmd)'
    BY <2>3 DEF StageInv
  <2> QED
    BY <1>4, <2>1, <2>3, <2>4 DEF ConfigInv, Files
<1>21. CASE SynonymEmpty
  <2>1. cmd # None /\ Goto("fill") /\ UNCHANGED <<config, copies>> /\ Others
        /\ thesaurus' = {}
    BY <1>21 DEF SynonymEmpty, At
  <2>2. cmd' \in Underway /\ cmd'.stage = "fill"
    BY <1>0, <2>1, Moves
  <2>3. StageInv(cmd)'
    BY <2>2 DEF StageInv
  <2> QED
    BY <1>4, <2>1, <2>2, <2>3
<1>22. CASE SynonymFill
  <2>1. thesaurus' \in SUBSET Word
    BY <1>0, <1>22 DEF SynonymFill, At, ConfigType
  <2> QED
    BY <1>3, <1>22, <2>1 DEF SynonymFill, At, ConfigInv, Dropping
<1>23. CASE UNCHANGED configVars
  BY <1>23 DEF configVars, ConfigInv, StageInv, SafeToWrite, Dropping
<1> QED
  BY <1>5, <1>6, <1>7, <1>8, <1>9, <1>10, <1>11, <1>12, <1>13, <1>14, <1>15, <1>16,
     <1>17, <1>18, <1>19, <1>20, <1>21, <1>22, <1>23 DEF ConfigNext

LEMMA UpgradeStep == ConfigInv => Upgrading
<1> SUFFICES ASSUME ConfigInv, WriteOld, cmd.cfg.vaults = NoVaults
             PROVE  /\ ResolvedVaults(config') = ResolvedVaults(cmd.cfg)
                    /\ ResolvedDb(config') = ResolvedDb(cmd.cfg)
  BY DEF Upgrading
<1> DEFINE c == cmd.cfg
           d == Migrated(c)
<1>1. c \in ConfigType /\ config' = d
  BY DEF WriteOld, At, ConfigInv, Underway
<1>2. /\ d.vault = None /\ d.vaultDb = None /\ d.database = ResolvedDb(c)
      /\ d.vaults = [NoVaults EXCEPT !["default"] = c.vault]
  BY <1>1, MigratedIs
<1> HIDE DEF d
<1>3. /\ d.vaults["default"] = c.vault /\ d.vaults["work"] = None
      /\ c.vaults["default"] = None /\ c.vaults["work"] = None
  BY <1>2 DEF NoVaults, Name
<1> DEFINE Found(x) == {<<"default", x.vault>>} \cup {<<n, x.vaults[n]>> : n \in Name}
<1>4. {v \in Found(d) : v[2] # None} = {v \in Found(c) : v[2] # None}
  BY <1>2, <1>3 DEF Name
<1>5. ResolvedVaults(d) = ResolvedVaults(c)
  BY <1>4 DEF ResolvedVaults
<1>6. ResolvedDb(d) = ResolvedDb(c)
  BY <1>2 DEF ResolvedDb
<1> QED
  BY <1>1, <1>5, <1>6

LEMMA RepairStep == ConfigInv => Repairing
<1> SUFFICES ASSUME ConfigInv, LoadOld \/ WriteOld \/ WriteFixed,
                    At({"doctor"}, cmd.stage), cmd' = None, cmd.yes, ~ disturbed
             PROVE  Loads(config') /\ ~ OldFormat(config')
  BY DEF Repairing
<1> USE ConfigAssumption
<1>0. cmd \in Underway /\ cmd.cfg \in ConfigType /\ StageInv(cmd)
  BY DEF At, ConfigInv, Underway
<1>1. CASE LoadOld
  <2>1. config \in ConfigType
    BY <1>1 DEF LoadOld, Loads, ConfigInv
  <2>2. ~ GotoWith("copyOld", config)
    BY <1>0, <2>1, Moves
  <2> QED
    BY <1>1, <2>2 DEF LoadOld, Files
<1>2. CASE WriteOld
  <2>1. config' = Migrated(cmd.cfg) /\ ~ cmd.cfg.unknown
    BY <1>0, <1>2 DEF WriteOld, At, StageInv
  <2>2. config' \in ConfigType /\ config'.vault = None /\ config'.vaultDb = None
        /\ ~ config'.unknown
    BY <1>0, <2>1, MigratedIs
  <2> QED
    BY <2>2 DEF Loads, OldFormat
<1>3. CASE WriteFixed
  BY <1>0, <1>3, Moves DEF WriteFixed
<1> QED
  BY <1>1, <1>2, <1>3

(* init, config-migrate, doctor, the wizard and chart's consent: a setting *)
(* that disappears from config.toml while no one else saves it is in a     *)
(* backup, wherever the command is killed.                                 *)
THEOREM DroppedSettingsAreBackedUp == ConfigSpec => DroppedIsBackedUp
<1>1. ConfigInit => ConfigInv
  BY InitConfigInv
<1>2. ConfigInv /\ [ConfigNext]_configVars => ConfigInv' /\ [Dropping]_configVars
  BY NextConfigInv
<1> QED
  BY <1>1, <1>2, PTL DEF ConfigSpec, DroppedIsBackedUp, Dropping

(* The file that config-migrate or doctor writes for an old one resolves   *)
(* to the same vaults and the same database.                               *)
THEOREM UpgradesKeepMeaning == ConfigSpec => UpgradeKeepsMeaning
<1>1. ConfigInit => ConfigInv
  BY InitConfigInv
<1>2. ConfigInv /\ [ConfigNext]_configVars => ConfigInv' /\ [Upgrading]_configVars
  BY NextConfigInv, UpgradeStep
<1> QED
  BY <1>1, <1>2, PTL DEF ConfigSpec, UpgradeKeepsMeaning, Upgrading

(* doctor with every prompt answered with yes, undisturbed, leaves a file  *)
(* that loads and has no old section.                                      *)
THEOREM DoctorsRepair == ConfigSpec => DoctorRepairs
<1>1. ConfigInit => ConfigInv
  BY InitConfigInv
<1>2. ConfigInv /\ [ConfigNext]_configVars => ConfigInv' /\ [Repairing]_configVars
  BY NextConfigInv, RepairStep
<1>3. ConfigInv => ConfigTypeOK
  BY DEF ConfigInv, ConfigTypeOK, Underway
<1> QED
  BY <1>1, <1>2, <1>3, PTL DEF ConfigSpec, DoctorRepairs, Repairing

-----------------------------------------------------------------------------
(***************************************************************************)
(* McpServer: a context is whole.  In the table every note has the rows of *)
(* one save, numbered without a gap, and a rowid is one row's; a request   *)
(* that has looked its chunk up while nothing was committed still finds it *)
(* where it was.                                                           *)
(***************************************************************************)
RowsRight(table) ==
  /\ table \in SUBSET ChunkRow
  /\ \E b \in Nat : \A r \in table : r.id <= b
  /\ \A r, s \in table : r.id = s.id => r = s
  /\ \A r, s \in table : r.note = s.note =>
       /\ r.save = s.save
       /\ \A i \in r.index .. s.index : \E q \in table : q.note = r.note /\ q.index = i

LookedUp(q) ==
  /\ q.stage = "index" => \E r \in rows : r.id = q.chunk /\ r.note = q.note
  /\ q.stage = "rows" =>
       \E r \in rows : r.id = q.chunk /\ r.note = q.note /\ r.index = q.index

Stretch(q) ==
  /\ \A r, s \in q.chunks : r.note = s.note /\ r.save = s.save
  /\ \A r, s \in q.chunks : \A i \in r.index .. s.index : \E x \in q.chunks : x.index = i
  /\ q.calm /\ q.chunks # {} =>
       \E r \in q.chunks :
         /\ r.id = q.chunk
         /\ q.chunks = {s \in rows : /\ s.note = r.note
                                     /\ s.index - r.index \in - q.window .. q.window}

RequestRight(q) ==
  /\ q \in Request
  /\ q.calm => LookedUp(q)
  /\ IF q.stage = "write" THEN Stretch(q) ELSE q.chunks = {}

TaskStage == {"start", "open", "tokenizer", "walk", "index", "done"}
RebuildTask ==
  [stage : TaskStage, token : Nat \cup {Nothing}, vault : Nat, todo : SUBSET Note,
   note : Note \cup {Nothing}, count : Nat]

ContextInv ==
  /\ commits \in Nat /\ RowsRight(rows)
  /\ received \in Seq([kind : LineKind, token : Nat \cup {Nothing}])
  /\ request \in Request \cup {Nothing}
  /\ request # Nothing => RequestRight(request)
  /\ rebuilds \in Seq(RebuildTask)
  /\ \A t \in 1 .. Len(rebuilds) : rebuilds[t].stage = "index" => rebuilds[t].note \in Note

(* The highest rowid of a table. *)
LEMMA TopIs ==
  ASSUME NEW table, RowsRight(table)
  PROVE  Top(table) \in Nat /\ \A r \in table : r.id <= Top(table)
<1>1. CASE table = {}
  BY <1>1 DEF Top
<1>2. CASE table # {}
  <2>1. PICK b \in Nat : \A r \in table : r.id <= b
    BY DEF RowsRight
  <2>2. \A r \in table : r.id \in Nat
    BY DEF RowsRight, ChunkRow
  <2> DEFINE T == {b - r.id : r \in table}
  <2>3. T \in SUBSET Nat /\ T # {}
    BY <1>2, <2>1, <2>2
  <2>4. PICK m \in T : \A k \in T : m <= k
    BY <2>3, LeastNumber
  <2>5. PICK top \in table : m = b - top.id
    BY <2>4
  <2>6. ASSUME NEW r \in table PROVE r.id <= top.id
    <3>1. b - r.id \in T /\ m \in Nat
      BY <2>3, <2>4
    <3>2. m <= b - r.id
      BY <2>4, <3>1
    <3>3. r.id \in Nat /\ top.id \in Nat
      BY <2>2
    <3> HIDE DEF T
    <3> QED
      BY <2>1, <2>5, <3>2, <3>3
  <2>7. top.id \in {r.id : r \in table}
    BY <2>5
  <2>8. PICK i : i = Top(table)
    OBVIOUS
  <2>9. i \in {r.id : r \in table} /\ \A r \in table : r.id <= i
    BY <1>2, <2>6, <2>7, <2>8 DEF Top
  <2> QED
    BY <2>2, <2>8, <2>9
<1> QED
  BY <1>1, <1>2

(* The rows of an indexed note. *)
LEMMA NumberedAre ==
  ASSUME NEW from, NEW note, NEW save, NEW n, NEW r
  PROVE  r \in RowsNumbered(from, note, save, n) <=>
           \E i \in 0 .. n - 1 :
             r = [id |-> from + i, note |-> note, save |-> save, index |-> i]
  BY DEF RowsNumbered, Row

(* What stays, when the rows of a note go, is right. *)
LEMMA KeptIsRight ==
  ASSUME NEW table, RowsRight(table), NEW note
  PROVE  RowsRight({r \in table : r.note # note})
  BY DEF RowsRight

LEMMA ReplacedIsRight ==
  ASSUME RowsRight(rows), commits \in Nat, NEW note \in Note, NEW n \in Nat
  PROVE  RowsRight(Replaced(note, n))
<1> DEFINE kept == {r \in rows : r.note # note}
           top == Top(kept)
           new == RowsNumbered(top + 1, note, commits + 1, n)
<1>1. RowsRight(kept)
  BY KeptIsRight
<1>2. kept \in SUBSET ChunkRow /\ \A r \in kept : r.note # note
  BY <1>1 DEF RowsRight
<1>3. top \in Nat /\ \A r \in kept : r.id <= top
  BY <1>1, TopIs
<1>4. Replaced(note, n) = kept \cup new
  BY DEF Replaced
<1> HIDE DEF kept, top
<1>5. \A r : r \in new <=>
        \E i \in 0 .. n - 1 :
          r = [id |-> top + 1 + i, note |-> note, save |-> commits + 1, index |-> i]
  BY NumberedAre
<1> HIDE DEF new
<1>6. \A r \in new : /\ r \in ChunkRow /\ r.note = note /\ r.save = commits + 1
                     /\ r.index \in 0 .. n - 1 /\ r.id = top + 1 + r.index
  BY <1>3, <1>5 DEF ChunkRow
<1>7. \A i \in 0 .. n - 1 : \E r \in new : r.note = note /\ r.index = i
  <2> SUFFICES ASSUME NEW i \in 0 .. n - 1
               PROVE  \E r \in new : r.note = note /\ r.index = i
    OBVIOUS
  <2>1. [id |-> top + 1 + i, note |-> note, save |-> commits + 1, index |-> i] \in new
    BY <1>5
  <2> QED
    BY <2>1
<1>8. kept \cup new \in SUBSET ChunkRow
  BY <1>2, <1>6
<1>9. \A r \in kept \cup new : r.id <= top + n
  BY <1>2, <1>3, <1>6 DEF ChunkRow
<1>10. ASSUME NEW r \in kept \cup new, NEW s \in kept \cup new, r.id = s.id
       PROVE  r = s
  <2>1. CASE r \in kept /\ s \in kept
    BY <1>1, <1>10, <2>1 DEF RowsRight
  <2>2. CASE r \in new /\ s \in new
    <3>1. r.index = s.index
      BY <1>3, <1>6, <1>10, <2>2
    <3>2. PICK i \in 0 .. n - 1 :
            r = [id |-> top + 1 + i, note |-> note, save |-> commits + 1, index |-> i]
      BY <1>5, <2>2
    <3>3. PICK j \in 0 .. n - 1 :
            s = [id |-> top + 1 + j, note |-> note, save |-> commits + 1, index |-> j]
      BY <1>5, <2>2
    <3> QED
      BY <3>1, <3>2, <3>3
  <2>3. CASE (r \in kept /\ s \in new) \/ (r \in new /\ s \in kept)
    BY <1>2, <1>3, <1>6, <1>10, <2>3 DEF ChunkRow
  <2> QED
    BY <2>1, <2>2, <2>3
<1>11. ASSUME NEW r \in kept \cup new, NEW s \in kept \cup new, r.note = s.note
       PROVE  /\ r.save = s.save
              /\ \A i \in r.index .. s.index :
                   \E q \in kept \cup new : q.note = r.note /\ q.index = i
  <2>1. CASE r \in kept /\ s \in kept
    BY <1>1, <1>11, <2>1 DEF RowsRight
  <2>2. CASE r \in new /\ s \in new
    <3>1. r.save = s.save /\ r.note = note
      BY <1>6, <2>2
    <3>2. \A i \in r.index .. s.index : i \in 0 .. n - 1
      BY <1>6, <2>2
    <3> QED
      BY <1>7, <3>1, <3>2
  <2>3. CASE (r \in kept /\ s \in new) \/ (r \in new /\ s \in kept)
    BY <1>2, <1>6, <1>11, <2>3
  <2> QED
    BY <2>1, <2>2, <2>3
<1>12. top + n \in Nat
  BY <1>3
<1> QED
  BY <1>4, <1>8, <1>9, <1>10, <1>11, <1>12 DEF RowsRight

(* A commit disturbs a request, and leaves what it has read alone.         *)
LEMMA DisturbedIsRight ==
  ASSUME NEW q \in Request, RequestRight(q)
  PROVE  /\ [q EXCEPT !.calm = FALSE] \in Request
         /\ RequestRight([q EXCEPT !.calm = FALSE])'
<1> DEFINE d == [q EXCEPT !.calm = FALSE]
<1>1. /\ d \in Request /\ d.stage = q.stage /\ d.chunks = q.chunks /\ d.calm = FALSE
  BY DEF Request
<1> HIDE DEF d
<1>2. RequestRight(d)'
  BY <1>1 DEF RequestRight, Stretch
<1> QED
  BY <1>1, <1>2 DEF d

LEMMA IndexIsRight ==
  ASSUME ContextInv, NEW note \in Note, NEW n \in Nat, Index(note, n)
  PROVE  /\ commits' \in Nat /\ RowsRight(rows)'
         /\ request' \in Request \cup {Nothing}
         /\ request' # Nothing => RequestRight(request)'
<1>1. RowsRight(rows')
  BY ReplacedIsRight DEF Index, ContextInv
<1>2. commits' \in Nat
  BY DEF Index, ContextInv
<1>3. CASE request = Nothing
  BY <1>1, <1>2, <1>3 DEF Index, RowsRight
<1>4. CASE request # Nothing
  <2>1. PICK q : q = request
    OBVIOUS
  <2>2. request' = [q EXCEPT !.calm = FALSE] /\ q \in Request /\ RequestRight(q)
    BY <1>4, <2>1 DEF Index, ContextInv
  <2>3. request' \in Request /\ RequestRight([q EXCEPT !.calm = FALSE])'
    BY <2>2, DisturbedIsRight
  <2>4. RequestRight(request)'
    BY <2>2, <2>3 DEF RequestRight, LookedUp, Stretch
  <2> QED
    BY <1>1, <1>2, <2>3, <2>4 DEF RowsRight
<1> QED
  BY <1>3, <1>4

LEMMA InitContextInv == McpInit => ContextInv
<1> SUFFICES ASSUME McpInit PROVE ContextInv
  OBVIOUS
<1> USE McpAssumption
<1>1. PICK size \in [Note -> 1 .. MaxChunks], first \in [Note -> 1 .. MaxChunks + 1] :
        /\ rows = UNION {RowsNumbered(first[n], n, 0, size[n]) : n \in Note}
        /\ \A r, s \in rows : r.id = s.id => r = s
  BY DEF McpInit
<1>2. \A r : r \in rows <=>
        \E n \in Note : \E i \in 0 .. size[n] - 1 :
          r = [id |-> first[n] + i, note |-> n, save |-> 0, index |-> i]
  <2>1. \A r : r \in rows <=> \E n \in Note : r \in RowsNumbered(first[n], n, 0, size[n])
    BY <1>1
  <2>2. \A n, r : r \in RowsNumbered(first[n], n, 0, size[n]) <=>
          \E i \in 0 .. size[n] - 1 :
            r = [id |-> first[n] + i, note |-> n, save |-> 0, index |-> i]
    BY NumberedAre
  <2> QED
    BY <2>1, <2>2
<1>3. \A n \in Note : size[n] \in 1 .. MaxChunks /\ first[n] \in 1 .. MaxChunks + 1
  BY <1>1
<1>4. \A r \in rows : /\ r \in ChunkRow /\ r.save = 0 /\ r.note \in Note
                      /\ r.index \in 0 .. size[r.note] - 1
                      /\ r.id <= 2 * MaxChunks
  <2> SUFFICES ASSUME NEW r \in rows
               PROVE  /\ r \in ChunkRow /\ r.save = 0 /\ r.note \in Note
                      /\ r.index \in 0 .. size[r.note] - 1
                      /\ r.id <= 2 * MaxChunks
    OBVIOUS
  <2>0. PICK n \in Note : \E i \in 0 .. size[n] - 1 :
          r = [id |-> first[n] + i, note |-> n, save |-> 0, index |-> i]
    BY <1>2
  <2>1. PICK i \in 0 .. size[n] - 1 :
          r = [id |-> first[n] + i, note |-> n, save |-> 0, index |-> i]
    BY <2>0
  <2>2. first[n] + i \in Nat /\ first[n] + i <= 2 * MaxChunks /\ i \in Nat
    BY <1>3, <2>1
  <2> QED
    BY <2>1, <2>2 DEF ChunkRow
<1>5. ASSUME NEW r \in rows, NEW s \in rows, r.note = s.note
      PROVE  \A i \in r.index .. s.index : \E q \in rows : q.note = r.note /\ q.index = i
  <2> SUFFICES ASSUME NEW i \in r.index .. s.index
               PROVE  \E q \in rows : q.note = r.note /\ q.index = i
    OBVIOUS
  <2>1. i \in 0 .. size[r.note] - 1 /\ r.note \in Note
    BY <1>3, <1>4, <1>5
  <2>2. [id |-> first[r.note] + i, note |-> r.note, save |-> 0, index |-> i] \in rows
    BY <1>2, <2>1
  <2> QED
    BY <2>2
<1>6. RowsRight(rows)
  <2>1. 2 * MaxChunks \in Nat
    OBVIOUS
  <2>2. \A r, s \in rows : r.id = s.id => r = s
    BY <1>1
  <2>3. \A r, s \in rows : r.note = s.note => r.save = s.save
    BY <1>4
  <2>4. rows \in SUBSET ChunkRow /\ \A r \in rows : r.id <= 2 * MaxChunks
    BY <1>4
  <2> QED
    BY <1>5, <2>1, <2>2, <2>3, <2>4 DEF RowsRight
<1>7. /\ received \in Seq([kind : LineKind, token : Nat \cup {Nothing}])
      /\ rebuilds \in Seq(RebuildTask) /\ Len(rebuilds) = 0
  BY EmptySeq DEF McpInit
<1> QED
  BY <1>6, <1>7 DEF McpInit, ContextInv

(* A request that gets on, or is refused, has read nothing yet.            *)
LEMMA GetsOn ==
  ASSUME NEW q \in Request, RequestRight(q), q.stage # "write",
         NEW to \in {"vault", "path", "write"}, NEW id \in Nat, NEW error \in Int,
         NEW r, r = [q EXCEPT !.stage = to, !.id = id, !.error = error]
  PROVE  r \in Request /\ RequestRight(r)
<1>1. r \in Request /\ r.stage = to /\ r.chunks = {}
  BY DEF Request, RequestRight
<1> QED
  BY <1>1 DEF RequestRight, LookedUp, Stretch

LEMMA RequestStep ==
  ASSUME ContextInv, UNCHANGED <<rows, commits, received, rebuilds>>,
         NEW r \in Request \cup {Nothing}, request' = r, r # Nothing => RequestRight(r)
  PROVE  ContextInv'
<1>1. r # Nothing => RequestRight(r)'
  BY DEF RequestRight, LookedUp, Stretch
<1>2. request' # Nothing => RequestRight(request)'
  BY <1>1 DEF RequestRight, LookedUp, Stretch
<1> QED
  BY <1>2 DEF ContextInv

(* The same with the next stage, the id and the error that Advance, Fail   *)
(* and Refuse write.                                                       *)
LEMMA GettingOnStep ==
  ASSUME ContextInv, UNCHANGED <<rows, commits, received, rebuilds>>,
         request # Nothing, request.stage # "write",
         \/ \E to \in {"vault", "path", "write"} :
              request' = [request EXCEPT !.stage = to]
         \/ \E code \in Int :
              request' = [request EXCEPT !.stage = "write", !.error = code]
         \/ \E code \in Int :
              request' = [request EXCEPT !.stage = "write", !.error = code, !.id = 0]
  PROVE  ContextInv'
<1>1. PICK q : q = request
  OBVIOUS
<1>2. q \in Request /\ RequestRight(q) /\ q.stage # "write" /\ q.id \in Nat /\ q.error \in Int
  BY <1>1 DEF ContextInv, Request
<1>3. PICK to \in {"vault", "path", "write"}, id \in Nat, error \in Int :
        request' = [q EXCEPT !.stage = to, !.id = id, !.error = error]
  <2>1. ASSUME NEW to \in {"vault", "path", "write"},
               request' = [request EXCEPT !.stage = to]
        PROVE  request' = [q EXCEPT !.stage = to, !.id = q.id, !.error = q.error]
    BY <1>1, <1>2, <2>1 DEF Request
  <2>2. ASSUME NEW code \in Int,
               request' = [request EXCEPT !.stage = "write", !.error = code]
        PROVE  request' = [q EXCEPT !.stage = "write", !.id = q.id, !.error = code]
    BY <1>1, <1>2, <2>2 DEF Request
  <2>3. ASSUME NEW code \in Int,
               request' = [request EXCEPT !.stage = "write", !.error = code, !.id = 0]
        PROVE  request' = [q EXCEPT !.stage = "write", !.id = 0, !.error = code]
    BY <1>1, <1>2, <2>3 DEF Request
  <2>4. CASE \E to \in {"vault", "path", "write"} :
               request' = [request EXCEPT !.stage = to]
    <3>1. PICK to \in {"vault", "path", "write"} :
            request' = [request EXCEPT !.stage = to]
      BY <2>4
    <3>2. request' = [q EXCEPT !.stage = to, !.id = q.id, !.error = q.error]
      BY <2>1, <3>1
    <3> QED
      BY <1>2, <3>2
  <2>5. CASE \E code \in Int :
               request' = [request EXCEPT !.stage = "write", !.error = code]
    <3>1. PICK code \in Int : request' = [request EXCEPT !.stage = "write", !.error = code]
      BY <2>5
    <3>2. request' = [q EXCEPT !.stage = "write", !.id = q.id, !.error = code]
      BY <2>2, <3>1
    <3> QED
      BY <1>2, <3>2
  <2>6. CASE \E code \in Int :
               request' = [request EXCEPT !.stage = "write", !.error = code, !.id = 0]
    <3>1. PICK code \in Int :
            request' = [request EXCEPT !.stage = "write", !.error = code, !.id = 0]
      BY <2>6
    <3>2. request' = [q EXCEPT !.stage = "write", !.id = 0, !.error = code]
      BY <2>3, <3>1
    <3> QED
      BY <3>2
  <2> QED
    BY <2>4, <2>5, <2>6
<1>4. PICK r : r = [q EXCEPT !.stage = to, !.id = id, !.error = error]
  OBVIOUS
<1>5. r \in Request /\ RequestRight(r)
  BY <1>2, <1>4, GetsOn
<1> QED
  BY <1>3, <1>4, <1>5, RequestStep

(* get_surrounding_context, statement by statement.                        *)
LEMMA ContextStepIsRight ==
  ASSUME ContextInv, ContextVault \/ ContextPath \/ ContextIndex \/ ContextRows
  PROVE  ContextInv'
<1> USE McpAssumption
<1>1. PICK q : q = request
  OBVIOUS
<1>2. /\ q \in Request /\ RequestRight(q) /\ q.stage \in {"vault", "path", "index", "rows"}
      /\ request # Nothing
      /\ UNCHANGED <<rows, commits, received, rebuilds>>
  <2>1. CASE ContextVault
    BY <1>1, <2>1 DEF ContextVault, Handling, OnlyRequest, ContextInv
  <2>2. CASE ContextPath
    <3>1. request # Nothing /\ request.stage = "path"
          /\ UNCHANGED <<rows, commits, received, rebuilds>>
      BY <2>2 DEF ContextPath, Handling, OnlyRequest
    <3> QED
      BY <1>1, <3>1 DEF ContextInv
  <2>3. CASE ContextIndex
    <3>1. request # Nothing /\ request.stage = "index"
          /\ UNCHANGED <<rows, commits, received, rebuilds>>
      BY <2>3 DEF ContextIndex, Handling, OnlyRequest
    <3> QED
      BY <1>1, <3>1 DEF ContextInv
  <2>4. CASE ContextRows
    BY <1>1, <2>4 DEF ContextRows, Handling, OnlyRequest, ContextInv
  <2> QED
    BY <2>1, <2>2, <2>3, <2>4
<1>3. ASSUME request' = [request EXCEPT !.stage = "write", !.error = ToolError]
      PROVE  ContextInv'
  <2>0. ToolError \in Int
    BY DEF ToolError
  <2>1. \E code \in Int : request' = [request EXCEPT !.stage = "write", !.error = code]
    BY <1>3, <2>0
  <2> QED
    BY <1>1, <1>2, <2>1, GettingOnStep
<1>4. \A r \in rows : r.note \in Note /\ r.index \in Nat
  BY DEF ContextInv, RowsRight, ChunkRow
<1>5. CASE ContextVault
  <2>1. CASE request' = [request EXCEPT !.stage = "path"]
    BY <1>1, <1>2, <2>1, GettingOnStep
  <2> QED
    BY <1>3, <1>5, <2>1 DEF ContextVault, Advance, Fail
<1>6. CASE ContextPath
  <2>1. CASE Fail(ToolError)
    BY <1>3, <2>1 DEF Fail
  <2>2. ASSUME NEW r \in Selected,
               request' = [request EXCEPT !.stage = "index", !.note = r.note]
        PROVE  ContextInv'
    <3>1. r \in rows /\ r.id = q.chunk /\ r.note \in Note
      BY <1>1, <1>4 DEF Selected
    <3>2. PICK x : x = [q EXCEPT !.stage = "index", !.note = r.note]
      OBVIOUS
    <3>3. /\ x \in Request /\ x.stage = "index" /\ x.note = r.note /\ x.chunk = q.chunk
          /\ x.chunks = q.chunks
      BY <1>2, <3>1, <3>2 DEF Request
    <3>4. RequestRight(x)
      BY <1>2, <3>1, <3>3 DEF RequestRight, LookedUp
    <3> QED
      BY <1>1, <1>2, <2>2, <3>2, <3>3, <3>4, RequestStep
  <2> QED
    BY <1>6, <2>1, <2>2 DEF ContextPath
<1>7. CASE ContextIndex
  <2>1. CASE Fail(ToolError)
    BY <1>3, <2>1 DEF Fail
  <2>2. ASSUME NEW r \in Selected,
               request' = [request EXCEPT !.stage = "rows", !.index = r.index]
        PROVE  ContextInv'
    <3>1. r \in rows /\ r.id = q.chunk /\ r.index \in Nat /\ q.stage = "index"
      BY <1>1, <1>4, <1>7 DEF Selected, ContextIndex, Handling
    <3>2. PICK x : x = [q EXCEPT !.stage = "rows", !.index = r.index]
      OBVIOUS
    <3>3. /\ x \in Request /\ x.stage = "rows" /\ x.note = q.note /\ x.chunk = q.chunk
          /\ x.chunks = q.chunks /\ x.index = r.index /\ x.calm = q.calm
      BY <1>2, <3>1, <3>2 DEF Request
    <3>4. q.calm => r.note = q.note
      BY <1>2, <3>1 DEF RequestRight, LookedUp, ContextInv, RowsRight
    <3>5. RequestRight(x)
      BY <1>2, <3>1, <3>3, <3>4 DEF RequestRight, LookedUp
    <3> QED
      BY <1>1, <1>2, <2>2, <3>2, <3>3, <3>5, RequestStep
  <2> QED
    BY <1>7, <2>1, <2>2 DEF ContextIndex
<1>8. CASE ContextRows
  <2>1. PICK w, i : w = q.window /\ i = q.index
    OBVIOUS
  <2>2. w \in 0 .. 1 /\ i \in Nat
    BY <1>2, <2>1 DEF Request
  <2>3. PICK C : C = {r \in rows : r.note = q.note /\ r.index \in i - w .. i + w}
    OBVIOUS
  <2>4. C \in SUBSET ChunkRow
    BY <2>3 DEF ContextInv, RowsRight
  <2>5. PICK x : x = [q EXCEPT !.stage = "write", !.chunks = C]
    OBVIOUS
  <2>6. request' = x /\ q.stage = "rows"
    BY <1>1, <1>8, <2>1, <2>3, <2>5 DEF ContextRows, Neighbours, Handling
  <2>7. /\ x \in Request /\ x.stage = "write" /\ x.chunks = C /\ x.chunk = q.chunk
        /\ x.calm = q.calm /\ x.window = w
    BY <1>2, <2>1, <2>4, <2>5 DEF Request
  <2>8. \A r, s \in C : r.note = s.note /\ r.save = s.save
    BY <2>3 DEF ContextInv, RowsRight
  <2>9. ASSUME NEW r \in C, NEW s \in C, NEW j \in r.index .. s.index
        PROVE  \E y \in C : y.index = j
    <3>1. PICK y \in rows : y.note = r.note /\ y.index = j
      BY <2>3, <2>8, <2>9 DEF ContextInv, RowsRight
    <3>2. r.index \in Nat /\ s.index \in Nat
      BY <1>4, <2>3
    <3>3. j \in i - w .. i + w
      BY <2>2, <2>3, <3>2
    <3> QED
      BY <2>3, <3>1, <3>3
  <2>10. ASSUME q.calm
         PROVE  \E r \in C :
                  /\ r.id = q.chunk
                  /\ C = {s \in rows : s.note = r.note /\ s.index - r.index \in - w .. w}
    <3>1. PICK r \in rows : r.id = q.chunk /\ r.note = q.note /\ r.index = i
      BY <1>2, <2>1, <2>6, <2>10 DEF RequestRight, LookedUp
    <3>2. r \in C
      BY <2>2, <2>3, <3>1
    <3>3. \A s \in rows : s.index \in i - w .. i + w <=> s.index - r.index \in - w .. w
      BY <1>4, <2>2, <3>1
    <3>4. C = {s \in rows : s.note = r.note /\ s.index - r.index \in - w .. w}
      BY <2>3, <3>1, <3>3
    <3> QED
      BY <3>1, <3>2, <3>4
  <2>11. Stretch(x)
    BY <2>7, <2>8, <2>9, <2>10 DEF Stretch
  <2>12. RequestRight(x)
    BY <2>7, <2>11 DEF RequestRight, LookedUp
  <2> QED
    BY <1>2, <2>6, <2>7, <2>12, RequestStep
<1> QED
  BY <1>5, <1>6, <1>7, <1>8

(* The steps of a background task. *)
LEMMA TaskStep ==
  ASSUME ContextInv, NEW t \in DOMAIN rebuilds, NEW task \in RebuildTask,
         Task(t, task), task.stage = "index" => task.note \in Note,
         received' = received, commits' \in Nat, RowsRight(rows)',
         request' \in Request \cup {Nothing},
         request' # Nothing => RequestRight(request)'
  PROVE  ContextInv'
<1>1. DOMAIN rebuilds = 1 .. Len(rebuilds) /\ Len(rebuilds) \in Nat
      /\ rebuilds \in [1 .. Len(rebuilds) -> RebuildTask]
  BY LenProperties DEF ContextInv
<1>2. rebuilds' \in [1 .. Len(rebuilds) -> RebuildTask]
      /\ \A u \in 1 .. Len(rebuilds) : rebuilds'[u] = IF u = t THEN task ELSE rebuilds[u]
  BY <1>1 DEF Task
<1>3. rebuilds' \in Seq(RebuildTask) /\ Len(rebuilds') = Len(rebuilds)
  BY <1>1, <1>2
<1> QED
  BY <1>1, <1>2, <1>3 DEF ContextInv

LEMMA TaskIsRight ==
  ASSUME ContextInv, NEW t \in DOMAIN rebuilds,
         \/ TaskStart(t) \/ TaskOpen(t) \/ TaskTokenizer(t)
         \/ TaskWalk(t) \/ TaskFile(t) \/ TaskIndex(t) \/ TaskEnd(t)
  PROVE  ContextInv'
<1> USE McpAssumption
<1>1. PICK o : o = rebuilds[t]
  OBVIOUS
<1>2. o \in RebuildTask
  BY <1>1, LenProperties DEF ContextInv
<1>3. CASE ~ TaskIndex(t)
  <2>1. received' = received /\ UNCHANGED <<rows, commits, request>>
    BY <1>3 DEF TaskStart, TaskOpen, TaskTokenizer, TaskWalk, TaskFile, TaskEnd, Quiet
  <2>2. /\ commits' \in Nat /\ RowsRight(rows)'
        /\ request' \in Request \cup {Nothing}
        /\ request' # Nothing => RequestRight(request)'
    <3>1. commits' \in Nat /\ request' \in Request \cup {Nothing}
      BY <2>1 DEF ContextInv
    <3>2. RowsRight(rows)'
      BY <2>1 DEF ContextInv, RowsRight
    <3>3. request' # Nothing => RequestRight(request)'
      BY <2>1 DEF ContextInv, RequestRight, LookedUp, Stretch
    <3> QED
      BY <3>1, <3>2, <3>3
  <2>3. PICK task \in RebuildTask :
          Task(t, task) /\ (task.stage = "index" => task.note \in Note)
    <3>1. ASSUME NEW to \in {"open", "tokenizer", "walk", "done"}
          PROVE  /\ [o EXCEPT !.stage = to] \in RebuildTask
                 /\ [o EXCEPT !.stage = to].stage = to
      BY <1>2 DEF RebuildTask, TaskStage
    <3>2. CASE TaskStart(t) \/ TaskOpen(t) \/ TaskTokenizer(t) \/ TaskEnd(t)
      <4>1. PICK to \in {"open", "tokenizer", "walk", "done"} :
              Task(t, [o EXCEPT !.stage = to])
        BY <1>1, <3>2 DEF TaskStart, TaskOpen, TaskTokenizer, TaskEnd
      <4> QED
        BY <3>1, <4>1
    <3>3. CASE TaskWalk(t)
      <4>1. PICK listed \in SUBSET Vaults[o.vault + 1] :
              Task(t, [o EXCEPT !.vault = @ + 1, !.todo = listed])
        BY <1>1, <3>3 DEF TaskWalk
      <4>2. o.vault + 1 \in 1 .. Len(Vaults) /\ o.vault \in Nat
        <5>1. o.vault \in Nat
          BY <1>2 DEF RebuildTask
        <5>2. o.vault < Len(Vaults)
          BY <1>1, <3>3 DEF TaskWalk
        <5>3. Len(Vaults) \in Nat
          BY LenProperties
        <5> QED
          BY <5>1, <5>2, <5>3
      <4>3. listed \in SUBSET Note
        BY <4>1, <4>2, ElementOfSeq
      <4>4. PICK n : n = o.vault + 1
        OBVIOUS
      <4>5. n \in Nat
        BY <4>2, <4>4
      <4>6. PICK d : d = [o EXCEPT !.vault = n, !.todo = listed]
        OBVIOUS
      <4>7. d \in RebuildTask /\ d.stage = o.stage
        BY <1>2, <4>3, <4>5, <4>6 DEF RebuildTask
      <4>8. o.stage = "walk"
        BY <1>1, <3>3 DEF TaskWalk
      <4>9. Task(t, d)
        BY <4>1, <4>4, <4>6
      <4> QED
        BY <4>7, <4>8, <4>9
    <3>4. CASE TaskFile(t)
      <4>1. PICK note \in o.todo :
              Task(t, [o EXCEPT !.todo = @ \ {note}, !.note = note,
                                !.count = @ + 1, !.stage = "index"])
        BY <1>1, <3>4 DEF TaskFile
      <4>2. note \in Note /\ o.count \in Nat /\ o.todo \in SUBSET Note
        BY <1>2, <4>1 DEF RebuildTask
      <4>3. PICK n, todo : n = o.count + 1 /\ todo = o.todo \ {note}
        OBVIOUS
      <4>4. n \in Nat /\ todo \in SUBSET Note
        BY <4>2, <4>3
      <4>5. PICK d : d = [o EXCEPT !.todo = todo, !.note = note, !.count = n,
                                   !.stage = "index"]
        OBVIOUS
      <4>6. d \in RebuildTask /\ d.note = note
        BY <1>2, <4>2, <4>4, <4>5 DEF RebuildTask, TaskStage
      <4>7. Task(t, d)
        BY <4>1, <4>3, <4>5
      <4> QED
        BY <4>2, <4>6, <4>7
    <3> QED
      BY <1>3, <3>2, <3>3, <3>4
  <2> QED
    BY <2>1, <2>2, <2>3, TaskStep
<1>4. CASE TaskIndex(t)
  <2>1. o.stage = "index" /\ o.note \in Note
    BY <1>1, <1>4, LenProperties DEF TaskIndex, ContextInv
  <2> DEFINE d == [o EXCEPT !.stage = "walk", !.note = Nothing]
  <2>2. d \in RebuildTask /\ d.stage = "walk"
    BY <1>2 DEF RebuildTask, TaskStage
  <2>3. Task(t, d) /\ received' = received
    BY <1>1, <1>4 DEF TaskIndex
  <2>4. /\ commits' \in Nat /\ RowsRight(rows)'
        /\ request' \in Request \cup {Nothing}
        /\ request' # Nothing => RequestRight(request)'
    <3>1. CASE \E n \in 1 .. MaxChunks : Index(o.note, n)
      BY <2>1, <3>1, IndexIsRight
    <3>2. CASE UNCHANGED <<rows, commits, request>>
      BY <3>2 DEF ContextInv, RowsRight, RequestRight, LookedUp, Stretch
    <3> QED
      BY <1>1, <1>4, <3>1, <3>2 DEF TaskIndex
  <2> HIDE DEF d
  <2> QED
    BY <2>2, <2>3, <2>4, TaskStep
<1> QED
  BY <1>3, <1>4

LEMMA NextContextInv == ContextInv /\ [McpNext]_mcpVars => ContextInv'
<1> SUFFICES ASSUME ContextInv, [McpNext]_mcpVars PROVE ContextInv'
  OBVIOUS
<1> USE McpAssumption
<1>0. ParseError \in Int /\ MethodNotFound \in Int /\ ToolError \in Int
  BY DEF ParseError, MethodNotFound, ToolError
<1>1. CASE ReadLine
  <2>1. PICK kind \in LineKind, chunk \in {r.id : r \in rows} \cup {0}, window \in 0 .. 1,
             token \in {Nothing, Len(received) + 1} :
          /\ received' = Append(received, [kind |-> kind, token |-> token])
          /\ request' = [kind |-> kind, stage |-> "start", id |-> Len(received) + 1,
                         token |-> token, chunk |-> chunk, window |-> window,
                         note |-> Nothing, index |-> 0, calm |-> TRUE,
                         chunks |-> {}, error |-> 0]
    BY <1>1 DEF ReadLine
  <2>2. Len(received) \in Nat
    BY LenProperties DEF ContextInv
  <2>3. chunk \in Nat
    BY DEF ContextInv, RowsRight, ChunkRow
  <2>4. [kind |-> kind, token |-> token] \in [kind : LineKind, token : Nat \cup {Nothing}]
    BY <2>2
  <2>5. received' \in Seq([kind : LineKind, token : Nat \cup {Nothing}])
    BY <2>1, <2>4, AppendProperties DEF ContextInv
  <2>6. /\ request' \in Request /\ request'.stage = "start" /\ request'.chunks = {}
    BY <2>1, <2>2, <2>3 DEF Request
  <2>7. RequestRight(request)'
    BY <2>6 DEF RequestRight, LookedUp
  <2>8. UNCHANGED <<rows, commits, rebuilds>>
    BY <1>1 DEF ReadLine
  <2>9. RowsRight(rows)' /\ commits' \in Nat
    BY <2>8 DEF ContextInv, RowsRight
  <2>10. /\ rebuilds' \in Seq(RebuildTask)
         /\ \A t \in 1 .. Len(rebuilds') :
              rebuilds'[t].stage = "index" => rebuilds'[t].note \in Note
    BY <2>8 DEF ContextInv
  <2> QED
    BY <2>5, <2>6, <2>7, <2>9, <2>10 DEF ContextInv
<1>2. CASE Refuse \/ Ping \/ CallTool
  <2>1. /\ request # Nothing /\ request.stage = "start"
        /\ UNCHANGED <<rows, commits, received, rebuilds>>
    BY <1>2 DEF Refuse, Ping, CallTool, Handling, OnlyRequest
  <2>2. \/ \E to \in {"vault", "path", "write"} :
             request' = [request EXCEPT !.stage = to]
        \/ \E code \in Int :
             request' = [request EXCEPT !.stage = "write", !.error = code]
        \/ \E code \in Int :
             request' = [request EXCEPT !.stage = "write", !.error = code, !.id = 0]
    <3>1. CASE Refuse
      BY <1>0, <3>1 DEF Refuse, Fail
    <3>2. CASE Ping
      BY <3>2 DEF Ping, Advance
    <3>3. CASE CallTool
      BY <1>0, <3>3 DEF CallTool, Advance, Fail
    <3> QED
      BY <1>2, <3>1, <3>2, <3>3
  <2> QED
    BY <2>1, <2>2, GettingOnStep
<1>3. CASE ContextVault \/ ContextPath \/ ContextIndex \/ ContextRows
  BY <1>3, ContextStepIsRight
<1>4. CASE Rebuild
  <2>1. PICK q : q = request
    OBVIOUS
  <2>2. q \in Request /\ RequestRight(q) /\ q.stage = "start" /\ request # Nothing
    BY <1>4, <2>1 DEF Rebuild, Handling, ContextInv
  <2>3. PICK r : r = [q EXCEPT !.stage = "write", !.id = q.id, !.error = q.error]
    OBVIOUS
  <2>4. q.id \in Nat /\ q.error \in Int
    BY <2>2 DEF Request
  <2>5. r \in Request /\ RequestRight(r)
    BY <2>2, <2>3, <2>4, GetsOn
  <2>6. request' = r
    BY <1>4, <2>1, <2>2, <2>3 DEF Rebuild, Advance, Request
  <2>7. UNCHANGED <<rows, commits, received>>
    BY <1>4 DEF Rebuild
  <2>8. RequestRight(request)'
    BY <2>5, <2>6, <2>7 DEF RequestRight, LookedUp, Stretch
  <2> DEFINE new == [stage |-> "start", token |-> q.token, vault |-> 0,
                     todo |-> {}, note |-> Nothing, count |-> 0]
  <2>9. rebuilds' = rebuilds \/ rebuilds' = Append(rebuilds, new)
    BY <1>4, <2>1 DEF Rebuild
  <2>10. new \in RebuildTask /\ new.stage = "start"
    BY <2>2 DEF RebuildTask, TaskStage, Request
  <2> HIDE DEF new
  <2>11. /\ rebuilds' \in Seq(RebuildTask)
         /\ \A t \in 1 .. Len(rebuilds') :
              rebuilds'[t].stage = "index" => rebuilds'[t].note \in Note
    <3>1. CASE rebuilds' = rebuilds
      BY <3>1 DEF ContextInv
    <3>2. CASE rebuilds' = Append(rebuilds, new)
      <4>1. /\ rebuilds' \in Seq(RebuildTask) /\ Len(rebuilds') = Len(rebuilds) + 1
            /\ \A t \in 1 .. Len(rebuilds) : rebuilds'[t] = rebuilds[t]
            /\ rebuilds'[Len(rebuilds) + 1] = new
            /\ Len(rebuilds) \in Nat
        BY <2>10, <3>2, AppendProperties, LenProperties DEF ContextInv
      <4> QED
        BY <2>10, <4>1 DEF ContextInv
    <3> QED
      BY <2>9, <3>1, <3>2
  <2>12. RowsRight(rows)'
    BY <2>7 DEF ContextInv, RowsRight
  <2>13. /\ commits' \in Nat
         /\ received' \in Seq([kind : LineKind, token : Nat \cup {Nothing}])
    BY <2>7 DEF ContextInv
  <2>14. request' \in Request \cup {Nothing}
    BY <2>5, <2>6
  <2> QED
    BY <2>8, <2>11, <2>12, <2>13, <2>14 DEF ContextInv
<1>5. CASE Write
  <2>1. request' = Nothing /\ UNCHANGED <<rows, commits, received, rebuilds>>
    BY <1>5 DEF Write
  <2>2. RowsRight(rows)'
    BY <2>1 DEF ContextInv, RowsRight
  <2> QED
    BY <2>1, <2>2 DEF ContextInv
<1>6. CASE Eof
  <2>1. PICK dropped \in SUBSET {t \in DOMAIN rebuilds : rebuilds[t].stage = "start"} :
          rebuilds' = [t \in DOMAIN rebuilds |->
            IF t \in dropped THEN [rebuilds[t] EXCEPT !.stage = "done"] ELSE rebuilds[t]]
    BY <1>6 DEF Eof
  <2>2. DOMAIN rebuilds = 1 .. Len(rebuilds) /\ Len(rebuilds) \in Nat
        /\ \A t \in 1 .. Len(rebuilds) : rebuilds[t] \in RebuildTask
    BY LenProperties DEF ContextInv
  <2>3. \A t \in 1 .. Len(rebuilds) :
          /\ [rebuilds[t] EXCEPT !.stage = "done"] \in RebuildTask
          /\ [rebuilds[t] EXCEPT !.stage = "done"].stage = "done"
    BY <2>2 DEF RebuildTask, TaskStage
  <2>4. \A t \in 1 .. Len(rebuilds) :
          rebuilds'[t] \in RebuildTask /\ (rebuilds'[t].stage = "index" => rebuilds'[t] = rebuilds[t])
    BY <2>1, <2>2, <2>3
  <2>5. rebuilds' \in [1 .. Len(rebuilds) -> RebuildTask]
    BY <2>1, <2>2, <2>4
  <2>6. rebuilds' \in Seq(RebuildTask) /\ Len(rebuilds') = Len(rebuilds)
    BY <2>2, <2>5
  <2>7. UNCHANGED <<rows, commits, received, request>>
    BY <1>6 DEF Eof
  <2>8. request' # Nothing => RequestRight(request)'
    BY <2>7 DEF ContextInv, RequestRight, LookedUp, Stretch
  <2>9. \A t \in 1 .. Len(rebuilds') :
          rebuilds'[t].stage = "index" => rebuilds'[t].note \in Note
    BY <2>4, <2>6 DEF ContextInv
  <2>10. RowsRight(rows)' /\ commits' \in Nat
         /\ received' \in Seq([kind : LineKind, token : Nat \cup {Nothing}])
         /\ request' \in Request \cup {Nothing}
    BY <2>7 DEF ContextInv, RowsRight
  <2> QED
    BY <2>6, <2>8, <2>9, <2>10 DEF ContextInv
<1>7. ASSUME NEW t \in DOMAIN rebuilds,
             \/ TaskStart(t) \/ TaskOpen(t) \/ TaskTokenizer(t)
             \/ TaskWalk(t) \/ TaskFile(t) \/ TaskIndex(t) \/ TaskEnd(t)
      PROVE  ContextInv'
  BY <1>7, TaskIsRight
<1>8. CASE OtherCommit
  <2>1. PICK note \in Note, n \in 0 .. MaxChunks : Index(note, n)
    BY <1>8 DEF OtherCommit
  <2>2. /\ commits' \in Nat /\ RowsRight(rows)'
        /\ request' \in Request \cup {Nothing}
        /\ request' # Nothing => RequestRight(request)'
    BY <2>1, IndexIsRight
  <2> QED
    BY <1>8, <2>2 DEF OtherCommit, ContextInv
<1>9. CASE UNCHANGED mcpVars
  BY <1>9 DEF mcpVars, ContextInv, RowsRight, RequestRight, LookedUp, Stretch
<1> QED
  BY <1>1, <1>2, <1>3, <1>4, <1>5, <1>6, <1>7, <1>8, <1>9 DEF McpNext

(* get_surrounding_context: a context is one stretch of one version of one *)
(* note although four statements put it together; if nothing was committed *)
(* meanwhile it is the selected chunk and all its neighbours in the window.*)
THEOREM ContextsAreWhole == McpSpec => []ContextIsWhole
<1>1. McpInit => ContextInv
  BY InitContextInv
<1>2. ContextInv /\ [McpNext]_mcpVars => ContextInv'
  BY NextContextInv
<1>3. ContextInv => ContextIsWhole
  BY DEF ContextInv, RequestRight, Stretch, ContextIsWhole, Handling
<1> QED
  BY <1>1, <1>2, <1>3, PTL DEF McpSpec

(***************************************************************************)
(* McpServer: answers in order.  The request being handled is the last     *)
(* line that was read, and no task has its progress token before it is     *)
(* spawned; a task that has reported the total is done, one that has not   *)
(* started has reported nothing, and its reports never exceed its count.   *)
(***************************************************************************)
Message ==
  [kind : {"initialized"}] \cup [kind : {"response"}, id : Nat, error : Int]
    \cup [kind : {"progress"}, token : Nat, at : Nat, total : BOOLEAN]

AnswersRight ==
  /\ Cardinality(Responses) = Len(received) - (IF request = Nothing THEN 0 ELSE 1)
  /\ \A k \in Responses :
       stdout[k].id = IF received[Place(k)].kind = "garbage" THEN 0 ELSE Place(k)

LastLine(q) ==
  /\ Len(received) >= 1 /\ q.kind = received[Len(received)].kind
  /\ q.id = IF q.kind = "garbage" /\ q.stage = "write" THEN 0 ELSE Len(received)
  /\ (q.stage = "start" /\ q.token # Nothing) =>
       /\ q.token = Len(received)
       /\ \A t \in 1 .. Len(rebuilds) : rebuilds[t].token # q.token

TokensRight ==
  /\ \A t \in 1 .. Len(rebuilds) :
       rebuilds[t].token # Nothing => rebuilds[t].token \in 1 .. Len(received)
  /\ \A t, u \in 1 .. Len(rebuilds) :
       rebuilds[t].token # Nothing /\ rebuilds[t].token = rebuilds[u].token => t = u

(* What the message m is to the task o with its token. *)
Reported(m, o) ==
  /\ o.stage # "start"
  /\ m.total => o.stage = "done"
  /\ ~ m.total => m.at <= o.count

ProgressRight ==
  /\ \A k \in 1 .. Len(stdout) : stdout[k].kind = "progress" =>
       \E t \in 1 .. Len(rebuilds) : rebuilds[t].token = stdout[k].token
  /\ \A k \in 1 .. Len(stdout), t \in 1 .. Len(rebuilds) :
       stdout[k].kind = "progress" /\ rebuilds[t].token = stdout[k].token =>
         Reported(stdout[k], rebuilds[t])
  /\ \A i, j \in 1 .. Len(stdout) :
       (/\ i < j
        /\ stdout[i].kind = "progress" /\ stdout[j].kind = "progress"
        /\ stdout[i].token = stdout[j].token)
       => /\ ~ stdout[i].total
          /\ stdout[i].at < stdout[j].at \/ stdout[j].total

AnswerInv ==
  /\ ContextInv
  /\ stdout \in Seq(Message)
  /\ AnswersRight
  /\ request # Nothing => LastLine(request)
  /\ TokensRight
  /\ ProgressRight

(* The place of a response is one of the places of the responses. *)
LEMMA PlaceIs ==
  ASSUME stdout \in Seq(Message), NEW k \in Responses
  PROVE  /\ k \in 1 .. Len(stdout)
         /\ IsFiniteSet(Responses) /\ Cardinality(Responses) \in Nat
         /\ Place(k) \in 1 .. Cardinality(Responses)
<1>1. Len(stdout) \in Nat /\ DOMAIN stdout = 1 .. Len(stdout)
  BY LenProperties
<1>2. Responses \in SUBSET (1 .. Len(stdout))
  BY <1>1 DEF Responses
<1>3. IsFiniteSet(Responses) /\ Cardinality(Responses) \in Nat
  <2>1. IsFiniteSet(1 .. Len(stdout))
    BY <1>1, FS_Interval
  <2>2. IsFiniteSet(Responses)
    BY <1>2, <2>1, FS_Subset
  <2> QED
    BY <2>2, FS_CardinalityType
<1> DEFINE upTo == {j \in Responses : j <= k}
<1>4. upTo \subseteq Responses /\ upTo # {}
  BY <1>2
<1>5. IsFiniteSet(upTo) /\ Cardinality(upTo) <= Cardinality(Responses)
  BY <1>3, <1>4, FS_Subset
<1>6. Cardinality(upTo) \in Nat /\ Cardinality(upTo) # 0
  BY <1>4, <1>5, FS_CardinalityType, FS_EmptySet
<1>7. Place(k) = Cardinality(upTo)
  BY DEF Place
<1> HIDE DEF upTo
<1> QED
  BY <1>2, <1>3, <1>5, <1>6, <1>7

(* A message that is no response leaves the responses where they are. *)
LEMMA NoAnswer ==
  ASSUME stdout \in Seq(Message), NEW m \in Message, stdout' = Append(stdout, m)
  PROVE  /\ stdout' \in Seq(Message) /\ Len(stdout') = Len(stdout) + 1
         /\ Len(stdout) \in Nat
         /\ \A k \in 1 .. Len(stdout) : stdout'[k] = stdout[k]
         /\ stdout'[Len(stdout) + 1] = m
         /\ m.kind # "response" => Responses' = Responses
         /\ m.kind = "response" => Responses' = Responses \cup {Len(stdout) + 1}
<1>1. /\ stdout' \in Seq(Message) /\ Len(stdout') = Len(stdout) + 1
      /\ Len(stdout) \in Nat
      /\ \A k \in 1 .. Len(stdout) : stdout'[k] = stdout[k]
      /\ stdout'[Len(stdout) + 1] = m
  BY AppendProperties, LenProperties
<1>2. DOMAIN stdout = 1 .. Len(stdout) /\ DOMAIN stdout' = 1 .. Len(stdout) + 1
  BY <1>1, LenProperties
<1>3. Responses' = {k \in 1 .. Len(stdout) + 1 : stdout'[k].kind = "response"}
  BY <1>2 DEF Responses
<1>4. Responses = {k \in 1 .. Len(stdout) : stdout[k].kind = "response"}
  BY <1>2 DEF Responses
<1>5. \A k \in 1 .. Len(stdout) + 1 : k \in 1 .. Len(stdout) \/ k = Len(stdout) + 1
  BY <1>1
<1> QED
  BY <1>1, <1>3, <1>4, <1>5

(* Everything but reading a line and writing its answer. *)
LEMMA AnswersStay ==
  ASSUME AnswerInv, received' = received, (request' = Nothing) <=> (request = Nothing),
         \/ stdout' = stdout
         \/ \E m \in Message : m.kind # "response" /\ stdout' = Append(stdout, m)
  PROVE  stdout' \in Seq(Message) /\ AnswersRight'
<1>1. stdout \in Seq(Message) /\ AnswersRight
  BY DEF AnswerInv
<1>2. CASE stdout' = stdout
  <2>1. Responses' = Responses /\ \A k : Place(k)' = Place(k)
    BY <1>2 DEF Responses, Place
  <2> QED
    BY <1>1, <1>2, <2>1 DEF AnswersRight
<1>3. CASE \E m \in Message : m.kind # "response" /\ stdout' = Append(stdout, m)
  <2>1. PICK m \in Message : m.kind # "response" /\ stdout' = Append(stdout, m)
    BY <1>3
  <2>2. /\ Responses' = Responses /\ stdout' \in Seq(Message)
        /\ \A k \in 1 .. Len(stdout) : stdout'[k] = stdout[k]
    BY <1>1, <2>1, NoAnswer
  <2>3. \A k : Place(k)' = Place(k)
    BY <2>2 DEF Place
  <2>4. \A k \in Responses : stdout'[k] = stdout[k]
    BY <1>1, <2>2, PlaceIs
  <2> QED
    BY <1>1, <2>2, <2>3, <2>4 DEF AnswersRight
<1> QED
  BY <1>2, <1>3

LEMMA AnswersAwaited ==
  ASSUME AnswerInv, ReadLine, request' # Nothing
  PROVE  AnswersRight'
<1>1. /\ stdout \in Seq(Message) /\ AnswersRight /\ request = Nothing
      /\ received \in Seq([kind : LineKind, token : Nat \cup {Nothing}])
  BY DEF AnswerInv, ContextInv, ReadLine
<1>2. stdout' = stdout
  BY DEF ReadLine
<1>3. PICK l \in [kind : LineKind, token : Nat \cup {Nothing}] : received' = Append(received, l)
  <2>1. Len(received) + 1 \in Nat
    BY <1>1, LenProperties
  <2>2. PICK kind \in LineKind, token \in {Nothing, Len(received) + 1} :
          received' = Append(received, [kind |-> kind, token |-> token])
    BY DEF ReadLine
  <2>3. [kind |-> kind, token |-> token] \in [kind : LineKind, token : Nat \cup {Nothing}]
    BY <2>1, <2>2
  <2> QED
    BY <2>2, <2>3
<1>4. /\ Len(received') = Len(received) + 1 /\ Len(received) \in Nat
      /\ \A k \in 1 .. Len(received) : received'[k] = received[k]
  BY <1>1, <1>3, AppendProperties, LenProperties
<1>5. Responses' = Responses /\ \A k : Place(k)' = Place(k)
  BY <1>2 DEF Responses, Place
<1>6. Cardinality(Responses) = Len(received)
  BY <1>1, <1>4 DEF AnswersRight
<1>7. \A k \in Responses : received'[Place(k)] = received[Place(k)]
  BY <1>1, <1>4, <1>6, PlaceIs
<1> QED
  BY <1>1, <1>2, <1>4, <1>5, <1>6, <1>7 DEF AnswersRight

LEMMA AnswersWritten ==
  ASSUME AnswerInv, Write
  PROVE  stdout' \in Seq(Message) /\ AnswersRight'
<1> USE McpAssumption
<1>1. /\ stdout \in Seq(Message) /\ AnswersRight /\ request # Nothing /\ request \in Request
      /\ LastLine(request) /\ request.stage = "write"
      /\ received \in Seq([kind : LineKind, token : Nat \cup {Nothing}])
  BY DEF AnswerInv, ContextInv, Write, Handling
<1>2. PICK m : m = [kind |-> "response", id |-> request.id, error |-> request.error]
  OBVIOUS
<1>3. m \in Message /\ m.kind = "response" /\ m.id = request.id
  BY <1>1, <1>2 DEF Message, Request
<1>4. stdout' = Append(stdout, m) /\ received' = received /\ request' = Nothing
  BY <1>2 DEF Write
<1>5. /\ stdout' \in Seq(Message) /\ Len(stdout) \in Nat
      /\ \A k \in 1 .. Len(stdout) : stdout'[k] = stdout[k]
      /\ stdout'[Len(stdout) + 1] = m
      /\ Responses' = Responses \cup {Len(stdout) + 1}
  BY <1>1, <1>3, <1>4, NoAnswer
<1>6. Len(received) \in Nat
  BY <1>1, LenProperties
<1>7. Cardinality(Responses) = Len(received) - 1
  BY <1>1, <1>6 DEF AnswersRight
<1>8. /\ Responses \in SUBSET (1 .. Len(stdout)) /\ IsFiniteSet(Responses)
  <2>1. DOMAIN stdout = 1 .. Len(stdout)
    BY <1>1, LenProperties
  <2>2. Responses \in SUBSET (1 .. Len(stdout))
    BY <2>1 DEF Responses
  <2>3. IsFiniteSet(1 .. Len(stdout))
    BY <1>5, FS_Interval
  <2> QED
    BY <2>2, <2>3, FS_Subset
<1>9. Cardinality(Responses') = Len(received)
  <2>1. Len(stdout) + 1 \notin Responses
    BY <1>5, <1>8
  <2>2. Cardinality(Responses \cup {Len(stdout) + 1}) = Cardinality(Responses) + 1
    BY <1>8, <2>1, FS_AddElement
  <2> QED
    BY <1>5, <1>6, <1>7, <2>2
<1>10. ASSUME NEW k \in Responses
       PROVE  stdout'[k].id = IF received[Place(k)'].kind = "garbage" THEN 0 ELSE Place(k)'
  <2>1. {j \in Responses' : j <= k} = {j \in Responses : j <= k}
    BY <1>5, <1>8
  <2>2. Place(k)' = Place(k)
    BY <2>1 DEF Place
  <2>3. stdout'[k] = stdout[k]
    BY <1>5, <1>8
  <2> QED
    BY <1>1, <2>2, <2>3 DEF AnswersRight
<1>11. ASSUME NEW k, k = Len(stdout) + 1
       PROVE  stdout'[k].id = IF received[Place(k)'].kind = "garbage" THEN 0 ELSE Place(k)'
  <2>1. {j \in Responses' : j <= k} = Responses'
    <3>1. \A j \in Responses' : j <= k
      BY <1>5, <1>8, <1>11
    <3> QED
      BY <3>1
  <2>2. Place(k)' = Len(received)
    BY <1>9, <2>1 DEF Place
  <2>3. stdout'[k].id = request.id
    BY <1>3, <1>5, <1>11
  <2> QED
    BY <1>1, <2>2, <2>3 DEF LastLine
<1>12. \A k \in Responses' :
         stdout'[k].id = IF received'[Place(k)'].kind = "garbage" THEN 0 ELSE Place(k)'
  BY <1>4, <1>5, <1>10, <1>11
<1>13. Cardinality(Responses') = Len(received') - (IF request' = Nothing THEN 0 ELSE 1)
  BY <1>4, <1>6, <1>9
<1> QED
  BY <1>5, <1>12, <1>13 DEF AnswersRight

(* The request: what its handler writes of it, and what a commit leaves.   *)
LEMMA HandlerKeeps ==
  ASSUME ContextInv,
         \/ Refuse \/ Ping \/ CallTool \/ Rebuild
         \/ ContextVault \/ ContextPath \/ ContextIndex \/ ContextRows
  PROVE  /\ request \in Request /\ request' \in Request
         /\ request'.kind = request.kind /\ request'.stage # "start"
         /\ request.stage # "write"
         /\ request.kind # "garbage" => request'.id = request.id
         /\ request.kind = "garbage" => request'.stage = "write" /\ request'.id = 0
         /\ UNCHANGED <<received, stdout>>
<1> USE McpAssumption
<1> DEFINE Kept(r) == /\ r \in Request /\ r.stage # "start" /\ r.kind = request.kind
                      /\ request.kind # "garbage" => r.id = request.id
                      /\ request.kind = "garbage" => r.stage = "write" /\ r.id = 0
<1>1. ASSUME request \in Request, request.kind # "garbage",
             NEW to \in {"vault", "path", "write"},
             request' = [request EXCEPT !.stage = to]
      PROVE  Kept(request')
  <2>1. PICK q, r : q = request /\ r = request'
    OBVIOUS
  <2>2. r \in Request /\ r.stage = to /\ r.kind = q.kind /\ r.id = q.id
    BY <1>1, <2>1 DEF Request
  <2> QED
    BY <1>1, <2>1, <2>2
<1>2. ASSUME request \in Request, request.kind # "garbage", NEW code \in Int,
             request' = [request EXCEPT !.stage = "write", !.error = code]
      PROVE  Kept(request')
  <2>1. PICK q, r : q = request /\ r = request'
    OBVIOUS
  <2>2. r \in Request /\ r.stage = "write" /\ r.kind = q.kind /\ r.id = q.id
    BY <1>2, <2>1 DEF Request
  <2> QED
    BY <1>2, <2>1, <2>2
<1> HIDE DEF Kept
<1>3. ParseError \in Int /\ MethodNotFound \in Int /\ ToolError \in Int
  BY DEF ParseError, MethodNotFound, ToolError
<1>4. ASSUME NEW q, q = request, q # Nothing
      PROVE  q \in Request
  BY <1>4 DEF ContextInv
<1>5. CASE Refuse
  <2>1. request # Nothing /\ request.stage = "start" /\ UNCHANGED <<received, stdout>>
    BY <1>5 DEF Refuse, Handling, OnlyRequest
  <2>2. CASE /\ request.kind = "garbage"
             /\ request' = [request EXCEPT !.stage = "write", !.error = ParseError, !.id = 0]
    <3>1. PICK q, r, code : q = request /\ r = request' /\ code = ParseError
      OBVIOUS
    <3>2. q \in Request /\ code \in Int
      BY <1>3, <1>4, <2>1, <3>1
    <3>3. r = [q EXCEPT !.stage = "write", !.error = code, !.id = 0]
      BY <2>2, <3>1
    <3>4. r \in Request /\ r.stage = "write" /\ r.kind = q.kind /\ r.id = 0
      BY <3>2, <3>3 DEF Request
    <3> QED
      BY <2>1, <2>2, <3>1, <3>2, <3>4
  <2>3. CASE /\ request.kind = "unknown method"
             /\ request' = [request EXCEPT !.stage = "write", !.error = MethodNotFound]
    BY <1>2, <1>3, <1>4, <2>1, <2>3 DEF Kept
  <2> QED
    BY <1>5, <2>2, <2>3 DEF Refuse, Handling, Fail
<1>6. CASE Ping
  <2>1. /\ request # Nothing /\ request.stage = "start" /\ UNCHANGED <<received, stdout>>
        /\ request.kind = "ping" /\ request' = [request EXCEPT !.stage = "write"]
    BY <1>6 DEF Ping, Handling, Advance, OnlyRequest
  <2> QED
    BY <1>1, <1>4, <2>1 DEF Kept
<1>7. CASE CallTool
  <2>1. /\ request # Nothing /\ request.stage = "start" /\ UNCHANGED <<received, stdout>>
        /\ request.kind \in {"status", "unknown tool", "context"}
    BY <1>7 DEF CallTool, Handling, OnlyRequest
  <2>2. \/ request' = [request EXCEPT !.stage = "write"]
        \/ request' = [request EXCEPT !.stage = "vault"]
        \/ request' = [request EXCEPT !.stage = "write", !.error = ToolError]
    BY <1>7 DEF CallTool, Advance, Fail
  <2>3. Kept(request')
    <3>1. request \in Request /\ request.kind # "garbage"
      BY <1>4, <2>1
    <3>2. CASE request' = [request EXCEPT !.stage = "write"]
      BY <1>1, <3>1, <3>2
    <3>3. CASE request' = [request EXCEPT !.stage = "vault"]
      BY <1>1, <3>1, <3>3
    <3>4. CASE request' = [request EXCEPT !.stage = "write", !.error = ToolError]
      BY <1>2, <1>3, <3>1, <3>4
    <3> QED
      BY <2>2, <3>2, <3>3, <3>4
  <2> QED
    BY <1>4, <2>1, <2>3 DEF Kept
<1>8. CASE Rebuild
  <2>1. /\ request # Nothing /\ request.stage = "start" /\ UNCHANGED <<received, stdout>>
        /\ request.kind = "rebuild" /\ request' = [request EXCEPT !.stage = "write"]
    BY <1>8 DEF Rebuild, Handling, Advance
  <2> QED
    BY <1>1, <1>4, <2>1 DEF Kept
<1>9. CASE ContextVault
  <2>1. /\ request # Nothing /\ request.stage = "vault" /\ UNCHANGED <<received, stdout>>
        /\ request.kind = "context"
    BY <1>9 DEF ContextVault, Handling, OnlyRequest
  <2>2. \/ request' = [request EXCEPT !.stage = "path"]
        \/ request' = [request EXCEPT !.stage = "write", !.error = ToolError]
    BY <1>9 DEF ContextVault, Advance, Fail
  <2>3. CASE request' = [request EXCEPT !.stage = "path"]
    BY <1>1, <1>4, <2>1, <2>3 DEF Kept
  <2>4. CASE request' = [request EXCEPT !.stage = "write", !.error = ToolError]
    BY <1>2, <1>3, <1>4, <2>1, <2>4 DEF Kept
  <2> QED
    BY <2>2, <2>3, <2>4
<1>10. ASSUME NEW r \in rows
       PROVE  r.note \in Note /\ r.index \in Nat
  BY DEF ContextInv, RowsRight, ChunkRow
<1>11. CASE ContextPath
  <2>1. /\ request # Nothing /\ request.stage = "path" /\ UNCHANGED <<received, stdout>>
        /\ request.kind = "context"
    BY <1>11 DEF ContextPath, Handling, OnlyRequest
  <2>2. CASE Fail(ToolError)
    BY <1>2, <1>3, <1>4, <2>1, <2>2 DEF Kept, Fail
  <2>3. ASSUME NEW x \in Selected,
               request' = [request EXCEPT !.stage = "index", !.note = x.note]
        PROVE  Kept(request')
    <3>1. PICK q, r, at : q = request /\ r = request' /\ at = x.note
      OBVIOUS
    <3>2. q \in Request /\ at \in Note
      BY <1>4, <1>10, <2>1, <3>1 DEF Selected
    <3>3. r = [q EXCEPT !.stage = "index", !.note = at]
      BY <2>3, <3>1
    <3>4. r \in Request /\ r.stage = "index" /\ r.kind = q.kind /\ r.id = q.id
      BY <3>2, <3>3 DEF Request
    <3> QED
      BY <2>1, <3>1, <3>4 DEF Kept
  <2>4. Kept(request') \/ Fail(ToolError)
    BY <1>11, <2>3 DEF ContextPath
  <2> QED
    BY <1>4, <2>1, <2>2, <2>4 DEF Kept
<1>12. CASE ContextIndex
  <2>1. /\ request # Nothing /\ request.stage = "index" /\ UNCHANGED <<received, stdout>>
        /\ request.kind = "context"
    BY <1>12 DEF ContextIndex, Handling, OnlyRequest
  <2>2. CASE Fail(ToolError)
    BY <1>2, <1>3, <1>4, <2>1, <2>2 DEF Kept, Fail
  <2>3. ASSUME NEW x \in Selected,
               request' = [request EXCEPT !.stage = "rows", !.index = x.index]
        PROVE  Kept(request')
    <3>1. PICK q, r, at : q = request /\ r = request' /\ at = x.index
      OBVIOUS
    <3>2. q \in Request /\ at \in Nat
      BY <1>4, <1>10, <2>1, <3>1 DEF Selected
    <3>3. r = [q EXCEPT !.stage = "rows", !.index = at]
      BY <2>3, <3>1
    <3>4. r \in Request /\ r.stage = "rows" /\ r.kind = q.kind /\ r.id = q.id
      BY <3>2, <3>3 DEF Request
    <3> QED
      BY <2>1, <3>1, <3>4 DEF Kept
  <2>4. Kept(request') \/ Fail(ToolError)
    BY <1>12, <2>3 DEF ContextIndex
  <2> QED
    BY <1>4, <2>1, <2>2, <2>4 DEF Kept
<1>13. CASE ContextRows
  <2>1. /\ request # Nothing /\ request.stage = "rows" /\ UNCHANGED <<received, stdout>>
        /\ request.kind = "context"
    BY <1>13 DEF ContextRows, Handling, OnlyRequest
  <2>2. PICK q, r, c : q = request /\ r = request' /\ c = Neighbours
    OBVIOUS
  <2>3. r = [q EXCEPT !.stage = "write", !.chunks = c]
    BY <1>13, <2>2 DEF ContextRows
  <2>4. c \in SUBSET ChunkRow
    BY <2>2 DEF Neighbours, ContextInv, RowsRight
  <2>5. q \in Request
    BY <1>4, <2>1, <2>2
  <2>6. r \in Request /\ r.stage = "write" /\ r.kind = q.kind /\ r.id = q.id
    BY <2>3, <2>4, <2>5 DEF Request
  <2> QED
    BY <2>1, <2>2, <2>5, <2>6
<1> QED
  BY <1>5, <1>6, <1>7, <1>8, <1>9, <1>11, <1>12, <1>13

(* A commit only marks the request; tasks keep their tokens. *)
RequestKept ==
  \/ request' = request
  \/ request # Nothing /\ request' = [request EXCEPT !.calm = FALSE]

LEMMA LastLineStays ==
  ASSUME ContextInv, request # Nothing => LastLine(request), RequestKept,
         received' = received,
         Len(rebuilds') = Len(rebuilds),
         \A t \in 1 .. Len(rebuilds) : rebuilds'[t].token = rebuilds[t].token
  PROVE  /\ (request' = Nothing) <=> (request = Nothing)
         /\ request' # Nothing => LastLine(request)'
<1> USE McpAssumption
<1>1. CASE request' = request
  BY <1>1 DEF LastLine
<1>2. CASE request # Nothing /\ request' = [request EXCEPT !.calm = FALSE]
  <2>1. PICK q, r : q = request /\ r = request'
    OBVIOUS
  <2>2. q \in Request
    BY <1>2, <2>1 DEF ContextInv
  <2>3. /\ r \in Request /\ r.kind = q.kind /\ r.id = q.id /\ r.stage = q.stage
        /\ r.token = q.token
    BY <1>2, <2>1, <2>2 DEF Request
  <2> QED
    BY <1>2, <2>1, <2>2, <2>3 DEF LastLine
<1> QED
  BY <1>1, <1>2 DEF RequestKept

(* The tasks and what they report. *)
LEMMA ReportsStay ==
  ASSUME AnswerInv,
         \/ stdout' = stdout
         \/ \E m \in Message : m.kind # "progress" /\ stdout' = Append(stdout, m),
         Len(received') >= Len(received), Len(received') \in Nat,
         Len(rebuilds') = Len(rebuilds),
         \A t \in 1 .. Len(rebuilds) :
           /\ rebuilds'[t].token = rebuilds[t].token
           /\ \/ rebuilds[t].token = Nothing
              \/ /\ rebuilds'[t].count = rebuilds[t].count
                 /\ \/ rebuilds'[t].stage = rebuilds[t].stage
                    \/ rebuilds[t].stage = "start" /\ rebuilds'[t].stage = "done"
                    \/ rebuilds[t].stage \notin {"start", "done"} /\ rebuilds'[t].stage # "start"
  PROVE  TokensRight' /\ ProgressRight'
<1>1. /\ stdout \in Seq(Message) /\ TokensRight /\ ProgressRight
      /\ Len(received) \in Nat
  BY LenProperties DEF AnswerInv, ContextInv
<1>2. TokensRight'
  BY <1>1 DEF TokensRight
<1>3. /\ Len(stdout) \in Nat
      /\ \A k \in 1 .. Len(stdout') : stdout'[k].kind = "progress" =>
           k \in 1 .. Len(stdout) /\ stdout'[k] = stdout[k]
  <2>1. CASE stdout' = stdout
    BY <1>1, <2>1, LenProperties
  <2>2. CASE \E m \in Message : m.kind # "progress" /\ stdout' = Append(stdout, m)
    <3>1. PICK m \in Message : m.kind # "progress" /\ stdout' = Append(stdout, m)
      BY <2>2
    <3>2. /\ Len(stdout') = Len(stdout) + 1 /\ Len(stdout) \in Nat
          /\ \A k \in 1 .. Len(stdout) : stdout'[k] = stdout[k]
          /\ stdout'[Len(stdout) + 1] = m
      BY <1>1, <3>1, NoAnswer
    <3>3. \A k \in 1 .. Len(stdout) + 1 : k \in 1 .. Len(stdout) \/ k = Len(stdout) + 1
      BY <3>2
    <3> QED
      BY <3>1, <3>2, <3>3
  <2> QED
    BY <2>1, <2>2
<1>4. \A k \in 1 .. Len(stdout') : stdout'[k].kind = "progress" =>
        \E t \in 1 .. Len(rebuilds') : rebuilds'[t].token = stdout'[k].token
  BY <1>1, <1>3 DEF ProgressRight
<1>5. \A k \in 1 .. Len(stdout'), t \in 1 .. Len(rebuilds') :
        stdout'[k].kind = "progress" /\ rebuilds'[t].token = stdout'[k].token =>
          Reported(stdout'[k], rebuilds'[t])
  <2>1. \A k \in 1 .. Len(stdout) : stdout[k].kind = "progress" => stdout[k].token # Nothing
    BY <1>1, McpAssumption, ElementOfSeq DEF Message
  <2> QED
    BY <1>1, <1>3, <2>1 DEF ProgressRight, Reported
<1>6. \A i, j \in 1 .. Len(stdout') :
        (/\ i < j
         /\ stdout'[i].kind = "progress" /\ stdout'[j].kind = "progress"
         /\ stdout'[i].token = stdout'[j].token)
        => /\ ~ stdout'[i].total
           /\ stdout'[i].at < stdout'[j].at \/ stdout'[j].total
  BY <1>1, <1>3 DEF ProgressRight
<1> QED
  BY <1>2, <1>4, <1>5, <1>6 DEF ProgressRight

(* A task reports at its count, or the total as the last it writes. *)
LEMMA ReportIsRight ==
  ASSUME AnswerInv, received' = received,
         NEW t \in 1 .. Len(rebuilds), NEW m \in Message, m.kind = "progress",
         stdout' = Append(stdout, m), m.token = rebuilds[t].token,
         Len(rebuilds') = Len(rebuilds),
         \A u \in 1 .. Len(rebuilds) : u # t => rebuilds'[u] = rebuilds[u],
         rebuilds'[t].token = rebuilds[t].token,
         rebuilds[t].stage # "done", rebuilds'[t].stage # "start",
         m.total => rebuilds'[t].stage = "done",
         ~ m.total => /\ m.at <= rebuilds'[t].count
                      /\ rebuilds[t].stage # "start" => rebuilds[t].count < m.at,
         rebuilds[t].count \in Nat, rebuilds'[t].count \in Nat,
         rebuilds[t].count <= rebuilds'[t].count
  PROVE  TokensRight' /\ ProgressRight'
<1> USE McpAssumption
<1>1. /\ stdout \in Seq(Message) /\ TokensRight /\ ProgressRight
      /\ Len(received) \in Nat
  BY LenProperties DEF AnswerInv, ContextInv
<1>2. /\ Len(stdout') = Len(stdout) + 1 /\ Len(stdout) \in Nat
      /\ \A k \in 1 .. Len(stdout) : stdout'[k] = stdout[k]
      /\ stdout'[Len(stdout) + 1] = m
  BY <1>1, NoAnswer
<1>3. \A k \in 1 .. Len(stdout) + 1 : k \in 1 .. Len(stdout) \/ k = Len(stdout) + 1
  BY <1>2
<1>4. \A u \in 1 .. Len(rebuilds) : rebuilds'[u].token = rebuilds[u].token
  OBVIOUS
<1>5. TokensRight'
  BY <1>1, <1>4 DEF TokensRight
<1>6. m.token \in Nat /\ m.token # Nothing
  BY DEF Message
<1>7. ASSUME NEW u \in 1 .. Len(rebuilds), rebuilds[u].token = m.token
      PROVE  u = t
  BY <1>1, <1>6, <1>7 DEF TokensRight
<1>8. \A k \in 1 .. Len(stdout) : stdout[k].kind = "progress" =>
        stdout[k].token \in Nat /\ stdout[k].at \in Nat /\ stdout[k].total \in BOOLEAN
  BY <1>1, ElementOfSeq DEF Message
<1>9. ASSUME NEW k \in 1 .. Len(stdout), stdout[k].kind = "progress", stdout[k].token = m.token
      PROVE  ~ stdout[k].total /\ stdout[k].at <= rebuilds[t].count /\ rebuilds[t].stage # "start"
  BY <1>1, <1>9 DEF ProgressRight, Reported
<1>10. \A k \in 1 .. Len(stdout') : stdout'[k].kind = "progress" =>
         \E u \in 1 .. Len(rebuilds') : rebuilds'[u].token = stdout'[k].token
  BY <1>1, <1>2, <1>3, <1>4 DEF ProgressRight
<1>11. ASSUME NEW k \in 1 .. Len(stdout'), NEW u \in 1 .. Len(rebuilds'),
              stdout'[k].kind = "progress", rebuilds'[u].token = stdout'[k].token
       PROVE  Reported(stdout'[k], rebuilds'[u])
  <2>1. CASE k = Len(stdout) + 1
    <3>1. u = t
      BY <1>2, <1>4, <1>7, <1>11, <2>1
    <3> QED
      BY <1>2, <2>1, <3>1 DEF Reported, Message
  <2>2. CASE k \in 1 .. Len(stdout) /\ u # t
    BY <1>1, <1>2, <1>4, <1>11, <2>2 DEF ProgressRight
  <2>3. CASE k \in 1 .. Len(stdout) /\ u = t
    BY <1>2, <1>8, <1>9, <1>11, <2>3 DEF Reported
  <2> QED
    BY <1>2, <1>3, <2>1, <2>2, <2>3
<1>12. ASSUME NEW i \in 1 .. Len(stdout'), NEW j \in 1 .. Len(stdout'), i < j,
              stdout'[i].kind = "progress", stdout'[j].kind = "progress",
              stdout'[i].token = stdout'[j].token
       PROVE  /\ ~ stdout'[i].total
              /\ stdout'[i].at < stdout'[j].at \/ stdout'[j].total
  <2>1. i \in 1 .. Len(stdout)
    BY <1>2, <1>12
  <2>2. CASE j \in 1 .. Len(stdout)
    BY <1>1, <1>2, <1>12, <2>1, <2>2 DEF ProgressRight
  <2>3. CASE j = Len(stdout) + 1
    <3>1. stdout[i].token = m.token /\ stdout[i].kind = "progress" /\ stdout'[i] = stdout[i]
      BY <1>2, <1>12, <2>1, <2>3
    <3>2. ~ stdout[i].total /\ stdout[i].at <= rebuilds[t].count /\ rebuilds[t].stage # "start"
      BY <1>9, <2>1, <3>1
    <3>3. stdout[i].at \in Nat /\ m.at \in Nat
      BY <1>8, <2>1, <3>1 DEF Message
    <3> QED
      BY <1>2, <2>3, <3>1, <3>2, <3>3
  <2> QED
    BY <1>2, <1>3, <2>2, <2>3
<1> QED
  BY <1>5, <1>10, <1>11, <1>12 DEF ProgressRight

(* A step of one task leaves the others. *)
TaskIs(t, d) ==
  /\ Len(rebuilds') = Len(rebuilds) /\ rebuilds'[t] = d
  /\ \A u \in 1 .. Len(rebuilds) : u # t => rebuilds'[u] = rebuilds[u]
  /\ d.token = rebuilds[t].token =>
       \A u \in 1 .. Len(rebuilds) : rebuilds'[u].token = rebuilds[u].token

LEMMA TaskSet ==
  ASSUME ContextInv, NEW t \in 1 .. Len(rebuilds), NEW d \in RebuildTask,
         rebuilds' = [rebuilds EXCEPT ![t] = d]
  PROVE  TaskIs(t, d)
<1>1. Len(rebuilds) \in Nat /\ rebuilds \in [1 .. Len(rebuilds) -> RebuildTask]
  BY LenProperties DEF ContextInv
<1>2. rebuilds' \in [1 .. Len(rebuilds) -> RebuildTask]
      /\ \A u \in 1 .. Len(rebuilds) : rebuilds'[u] = IF u = t THEN d ELSE rebuilds[u]
  BY <1>1
<1>3. Len(rebuilds') = Len(rebuilds)
  BY <1>1, <1>2
<1> QED
  BY <1>1, <1>2, <1>3 DEF TaskIs

(* One step of a task that writes nothing, and one that reports. *)
LEMMA TaskSilent ==
  ASSUME AnswerInv, ContextInv', NEW t \in 1 .. Len(rebuilds), NEW d \in RebuildTask,
         received' = received, RequestKept, stdout' = stdout,
         rebuilds' = [rebuilds EXCEPT ![t] = d], d.token = rebuilds[t].token,
         \/ d.token = Nothing
         \/ /\ d.count = rebuilds[t].count
            /\ rebuilds[t].stage \notin {"start", "done"} /\ d.stage # "start"
  PROVE  AnswerInv'
<1>1. /\ ContextInv /\ Len(rebuilds) \in Nat
      /\ rebuilds \in [1 .. Len(rebuilds) -> RebuildTask]
      /\ Len(received) \in Nat
  BY LenProperties DEF ContextInv, AnswerInv
<1>2. TaskIs(t, d)
  BY <1>1, TaskSet DEF AnswerInv
<1>3. /\ (request' = Nothing) <=> (request = Nothing)
      /\ request' # Nothing => LastLine(request)'
  BY <1>1, <1>2, LastLineStays DEF AnswerInv, TaskIs
<1>4. \A u \in 1 .. Len(rebuilds) :
        /\ rebuilds'[u].token = rebuilds[u].token
        /\ \/ rebuilds[u].token = Nothing
           \/ /\ rebuilds'[u].count = rebuilds[u].count
              /\ \/ rebuilds'[u].stage = rebuilds[u].stage
                 \/ rebuilds[u].stage = "start" /\ rebuilds'[u].stage = "done"
                 \/ rebuilds[u].stage \notin {"start", "done"} /\ rebuilds'[u].stage # "start"
  BY <1>2 DEF TaskIs
<1>5. Len(received') >= Len(received) /\ Len(received') \in Nat
  BY <1>1
<1>6. TokensRight' /\ ProgressRight'
  BY <1>2, <1>4, <1>5, ReportsStay DEF TaskIs
<1>7. stdout' \in Seq(Message) /\ AnswersRight'
  BY <1>3, AnswersStay
<1> QED
  BY <1>3, <1>6, <1>7 DEF AnswerInv

LEMMA TaskReports ==
  ASSUME AnswerInv, ContextInv', NEW t \in 1 .. Len(rebuilds), NEW d \in RebuildTask,
         NEW m, d.token # Nothing =>
                  m \in Message /\ m.kind = "progress" /\ m.token = d.token,
         received' = received, RequestKept,
         stdout' = IF rebuilds[t].token = Nothing THEN stdout ELSE Append(stdout, m),
         rebuilds' = [rebuilds EXCEPT ![t] = d], d.token = rebuilds[t].token,
         rebuilds[t].count <= d.count,
         rebuilds[t].stage # "done", d.stage # "start",
         m.total => d.stage = "done",
         ~ m.total => /\ m.at <= d.count
                      /\ rebuilds[t].stage # "start" => rebuilds[t].count < m.at
  PROVE  AnswerInv'
<1>1. /\ ContextInv /\ Len(rebuilds) \in Nat
      /\ rebuilds \in [1 .. Len(rebuilds) -> RebuildTask]
      /\ Len(received) \in Nat
  BY LenProperties DEF ContextInv, AnswerInv
<1>2. TaskIs(t, d)
  BY <1>1, TaskSet DEF AnswerInv
<1>3. /\ (request' = Nothing) <=> (request = Nothing)
      /\ request' # Nothing => LastLine(request)'
  BY <1>1, <1>2, LastLineStays DEF AnswerInv, TaskIs
<1>4. CASE rebuilds[t].token = Nothing
  BY <1>4, TaskSilent
<1>5. CASE rebuilds[t].token # Nothing
  <2>1. /\ rebuilds[t].token \in Nat /\ rebuilds[t].count \in Nat /\ d.count \in Nat
    BY <1>1, <1>5 DEF RebuildTask
  <2>3. m \in Message /\ m.kind = "progress" /\ m.token = rebuilds[t].token
    BY <1>5
  <2>4. stdout' = Append(stdout, m)
    BY <1>5
  <2>5. TokensRight' /\ ProgressRight'
    BY <1>2, <2>1, <2>3, <2>4, ReportIsRight DEF TaskIs
  <2>6. stdout' \in Seq(Message) /\ AnswersRight'
    BY <1>3, <2>3, <2>4, AnswersStay
  <2> QED
    BY <1>3, <2>5, <2>6 DEF AnswerInv
<1> QED
  BY <1>4, <1>5

LEMMA TaskAnswers ==
  ASSUME AnswerInv, NEW t \in DOMAIN rebuilds,
         \/ TaskStart(t) \/ TaskOpen(t) \/ TaskTokenizer(t)
         \/ TaskWalk(t) \/ TaskFile(t) \/ TaskIndex(t) \/ TaskEnd(t)
  PROVE  AnswerInv'
<1> USE McpAssumption
<1>1. ContextInv /\ ContextInv'
  BY TaskIsRight DEF AnswerInv
<1>2. /\ t \in 1 .. Len(rebuilds) /\ Len(rebuilds) \in Nat
      /\ DOMAIN rebuilds = 1 .. Len(rebuilds)
      /\ rebuilds \in [1 .. Len(rebuilds) -> RebuildTask]
      /\ received \in Seq([kind : LineKind, token : Nat \cup {Nothing}])
      /\ Len(received) \in Nat
  BY <1>1, LenProperties DEF ContextInv
<1>3. PICK o : o = rebuilds[t]
  OBVIOUS
<1>4. o \in RebuildTask /\ o.token \in Nat \cup {Nothing} /\ o.count \in Nat
  BY <1>2, <1>3 DEF RebuildTask
<1>5. received' = received
  BY DEF TaskStart, TaskOpen, TaskTokenizer, TaskWalk, TaskFile, TaskIndex, TaskEnd, Quiet
<1>6. RequestKept
  <2>1. CASE ~ TaskIndex(t)
    BY <2>1 DEF TaskStart, TaskOpen, TaskTokenizer, TaskWalk, TaskFile, TaskEnd, Quiet,
                RequestKept
  <2>2. CASE TaskIndex(t)
    <3>1. CASE UNCHANGED <<rows, commits, request>>
      BY <3>1 DEF RequestKept
    <3>2. CASE \E n \in 1 .. MaxChunks : Index(o.note, n)
      BY <3>2 DEF Index, RequestKept
    <3> QED
      BY <1>3, <2>2, <3>1, <3>2 DEF TaskIndex
  <2> QED
    BY <2>1, <2>2
<1>7. ASSUME NEW to \in {"open", "tokenizer", "walk", "done"}, NEW d,
             d = [o EXCEPT !.stage = to]
      PROVE  d \in RebuildTask /\ d.stage = to /\ d.token = o.token /\ d.count = o.count
  BY <1>4, <1>7 DEF RebuildTask, TaskStage
<1> DEFINE Progress(at, total) ==
             [kind |-> "progress", token |-> o.token, at |-> at, total |-> total]
<1>8. ASSUME NEW at \in Nat, NEW total \in BOOLEAN, NEW m, m = Progress(at, total)
       PROVE  /\ m.at = at /\ m.total = total
              /\ o.token # Nothing => m \in Message /\ m.kind = "progress" /\ m.token = o.token
  BY <1>4, <1>8 DEF Message
<1>9. CASE TaskStart(t)
  <2>0. PICK m : m = Progress(0, FALSE)
    OBVIOUS
  <2>1. PICK d : d = [o EXCEPT !.stage = "open"]
    OBVIOUS
  <2>2. d \in RebuildTask /\ d.stage = "open" /\ d.token = o.token /\ d.count = o.count
    BY <1>7, <2>1
  <2>3. /\ o.stage = "start" /\ rebuilds' = [rebuilds EXCEPT ![t] = d]
        /\ stdout' = IF rebuilds[t].token = Nothing THEN stdout ELSE Append(stdout, m)
    BY <1>3, <1>9, <2>0, <2>1 DEF TaskStart, Task, Report
  <2>4. /\ m.at = 0 /\ ~ m.total
        /\ d.token # Nothing => m \in Message /\ m.kind = "progress" /\ m.token = d.token
    BY <1>8, <2>0, <2>2
  <2>5. m.at <= d.count
    BY <1>4, <2>2, <2>4
  <2>6. o.count <= d.count
    BY <1>4, <2>2
  <2> QED
    BY <1>1, <1>2, <1>3, <1>5, <1>6, <2>2, <2>3, <2>4, <2>5, <2>6, TaskReports
<1>10. CASE TaskOpen(t)
  <2>1. PICK to \in {"tokenizer", "done"} :
          /\ rebuilds' = [rebuilds EXCEPT ![t] = [o EXCEPT !.stage = to]]
          /\ o.stage = "open" /\ stdout' = stdout
    BY <1>3, <1>10 DEF TaskOpen, Task
  <2>2. PICK d : d = [o EXCEPT !.stage = to]
    OBVIOUS
  <2>3. d \in RebuildTask /\ d.stage = to /\ d.token = o.token /\ d.count = o.count
    BY <1>7, <2>2
  <2> QED
    BY <1>1, <1>2, <1>3, <1>5, <1>6, <2>1, <2>2, <2>3, TaskSilent
<1>11. CASE TaskTokenizer(t)
  <2>1. o.stage = "tokenizer"
    BY <1>3, <1>11 DEF TaskTokenizer
  <2>2. CASE stdout' = stdout /\ Task(t, [o EXCEPT !.stage = "walk"])
    <3>1. PICK d : d = [o EXCEPT !.stage = "walk"]
      OBVIOUS
    <3>2. d \in RebuildTask /\ d.stage = "walk" /\ d.token = o.token /\ d.count = o.count
      BY <1>7, <3>1
    <3>3. rebuilds' = [rebuilds EXCEPT ![t] = d]
      BY <2>2, <3>1 DEF Task
    <3> QED
      BY <1>1, <1>2, <1>3, <1>5, <1>6, <2>1, <2>2, <3>2, <3>3, TaskSilent
  <2>3. CASE Report(t, 0, TRUE) /\ Task(t, [o EXCEPT !.stage = "done"])
    <3>0. PICK m : m = Progress(0, TRUE)
      OBVIOUS
    <3>1. PICK d : d = [o EXCEPT !.stage = "done"]
      OBVIOUS
    <3>2. d \in RebuildTask /\ d.stage = "done" /\ d.token = o.token /\ d.count = o.count
      BY <1>7, <3>1
    <3>3. /\ rebuilds' = [rebuilds EXCEPT ![t] = d]
          /\ stdout' = IF rebuilds[t].token = Nothing THEN stdout ELSE Append(stdout, m)
      BY <1>3, <2>3, <3>0, <3>1 DEF Task, Report
    <3>4. /\ m.total
          /\ d.token # Nothing => m \in Message /\ m.kind = "progress" /\ m.token = d.token
      BY <1>8, <3>0, <3>2
    <3>5. o.count <= d.count
      BY <1>4, <3>2
    <3> QED
      BY <1>1, <1>2, <1>3, <1>5, <1>6, <2>1, <3>2, <3>3, <3>4, <3>5, TaskReports
  <2> QED
    BY <1>3, <1>11, <2>2, <2>3 DEF TaskTokenizer
<1>12. CASE TaskWalk(t)
  <2>1. PICK listed \in SUBSET Vaults[o.vault + 1] :
          rebuilds' = [rebuilds EXCEPT ![t] = [o EXCEPT !.vault = @ + 1, !.todo = listed]]
    BY <1>3, <1>12 DEF TaskWalk, Task
  <2>2. o.vault \in Nat /\ o.vault < Len(Vaults) /\ Len(Vaults) \in Nat
    BY <1>3, <1>4, <1>12, LenProperties DEF TaskWalk, RebuildTask
  <2>3. PICK n : n = o.vault + 1
    OBVIOUS
  <2>4. n \in Nat /\ n \in 1 .. Len(Vaults)
    BY <2>2, <2>3
  <2>5. listed \in SUBSET Note
    BY <2>1, <2>3, <2>4, ElementOfSeq
  <2>6. PICK d : d = [o EXCEPT !.vault = n, !.todo = listed]
    OBVIOUS
  <2>7. d \in RebuildTask /\ d.stage = o.stage /\ d.token = o.token /\ d.count = o.count
    BY <1>4, <2>4, <2>5, <2>6 DEF RebuildTask
  <2>8. o.stage = "walk" /\ stdout' = stdout
    BY <1>3, <1>12 DEF TaskWalk
  <2>9. rebuilds' = [rebuilds EXCEPT ![t] = d]
    BY <2>1, <2>3, <2>6
  <2> QED
    BY <1>1, <1>2, <1>3, <1>5, <1>6, <2>7, <2>8, <2>9, TaskSilent
<1>13. CASE TaskFile(t)
  <2>1. PICK note \in o.todo :
          rebuilds' = [rebuilds EXCEPT ![t] =
            [o EXCEPT !.todo = @ \ {note}, !.note = note, !.count = @ + 1, !.stage = "index"]]
    BY <1>3, <1>13 DEF TaskFile, Task
  <2>2. note \in Note /\ o.todo \in SUBSET Note
    BY <1>4, <2>1 DEF RebuildTask
  <2>3. PICK n, todo : n = o.count + 1 /\ todo = o.todo \ {note}
    OBVIOUS
  <2>0. PICK m : m = Progress(n, FALSE)
    OBVIOUS
  <2>4. n \in Nat /\ todo \in SUBSET Note /\ o.count < n
    BY <1>4, <2>2, <2>3
  <2>5. PICK d : d = [o EXCEPT !.todo = todo, !.note = note, !.count = n, !.stage = "index"]
    OBVIOUS
  <2>6. d \in RebuildTask /\ d.stage = "index" /\ d.token = o.token /\ d.count = n
    BY <1>4, <2>2, <2>4, <2>5 DEF RebuildTask, TaskStage
  <2>7. rebuilds' = [rebuilds EXCEPT ![t] = d]
    BY <2>1, <2>3, <2>5
  <2>8. /\ o.stage = "walk"
        /\ stdout' = IF rebuilds[t].token = Nothing THEN stdout ELSE Append(stdout, m)
    BY <1>3, <1>13, <2>0, <2>3 DEF TaskFile, Report
  <2>9. /\ m.at = n /\ ~ m.total
        /\ d.token # Nothing => m \in Message /\ m.kind = "progress" /\ m.token = d.token
    BY <1>8, <2>0, <2>4, <2>6
  <2>10. o.count <= d.count /\ o.count < m.at /\ m.at <= d.count
    BY <1>4, <2>4, <2>6, <2>9
  <2> QED
    BY <1>1, <1>2, <1>3, <1>5, <1>6, <2>6, <2>7, <2>8, <2>9, <2>10, TaskReports
<1>14. CASE TaskIndex(t)
  <2>1. PICK d : d = [o EXCEPT !.stage = "walk", !.note = Nothing]
    OBVIOUS
  <2>2. d \in RebuildTask /\ d.stage = "walk" /\ d.token = o.token /\ d.count = o.count
    BY <1>4, <2>1 DEF RebuildTask, TaskStage
  <2>3. o.stage = "index" /\ stdout' = stdout /\ rebuilds' = [rebuilds EXCEPT ![t] = d]
    BY <1>3, <1>14, <2>1 DEF TaskIndex, Task
  <2> QED
    BY <1>1, <1>2, <1>3, <1>5, <1>6, <2>2, <2>3, TaskSilent
<1>15. CASE TaskEnd(t)
  <2>1. PICK d : d = [o EXCEPT !.stage = "done"]
    OBVIOUS
  <2>2. d \in RebuildTask /\ d.stage = "done" /\ d.token = o.token /\ d.count = o.count
    BY <1>7, <2>1
  <2>3. o.stage = "walk" /\ stdout' = stdout /\ rebuilds' = [rebuilds EXCEPT ![t] = d]
    BY <1>3, <1>15, <2>1 DEF TaskEnd, Task
  <2> QED
    BY <1>1, <1>2, <1>3, <1>5, <1>6, <2>2, <2>3, TaskSilent
<1> QED
  BY <1>9, <1>10, <1>11, <1>12, <1>13, <1>14, <1>15

LEMMA NextAnswerInv == AnswerInv /\ [McpNext]_mcpVars => AnswerInv'
<1> SUFFICES ASSUME AnswerInv, [McpNext]_mcpVars PROVE AnswerInv'
  OBVIOUS
<1> USE McpAssumption
<1>1. ContextInv /\ ContextInv'
  BY NextContextInv DEF AnswerInv
<1>2. /\ Len(received) \in Nat /\ Len(rebuilds) \in Nat
      /\ DOMAIN rebuilds = 1 .. Len(rebuilds)
      /\ received \in Seq([kind : LineKind, token : Nat \cup {Nothing}])
      /\ rebuilds \in [1 .. Len(rebuilds) -> RebuildTask]
      /\ stdout \in Seq(Message) /\ TokensRight /\ ProgressRight
  BY <1>1, LenProperties DEF ContextInv, AnswerInv
(* The tasks are left alone and nothing is reported. *)
<1>3. ASSUME rebuilds' = rebuilds,
             \/ stdout' = stdout
             \/ \E m \in Message : m.kind # "progress" /\ stdout' = Append(stdout, m),
             Len(received') >= Len(received), Len(received') \in Nat
      PROVE  TokensRight' /\ ProgressRight'
  BY <1>3, ReportsStay
<1>4. CASE ReadLine
  <2>1. PICK kind \in LineKind, token \in {Nothing, Len(received) + 1} :
          /\ received' = Append(received, [kind |-> kind, token |-> token])
          /\ \E chunk, window :
               request' = [kind |-> kind, stage |-> "start", id |-> Len(received) + 1,
                           token |-> token, chunk |-> chunk, window |-> window,
                           note |-> Nothing, index |-> 0, calm |-> TRUE,
                           chunks |-> {}, error |-> 0]
    BY <1>4 DEF ReadLine
  <2>2. PICK line : line = [kind |-> kind, token |-> token]
    OBVIOUS
  <2>3. line \in [kind : LineKind, token : Nat \cup {Nothing}] /\ line.kind = kind
    BY <1>2, <2>2
  <2>4. /\ Len(received') = Len(received) + 1
        /\ received'[Len(received) + 1] = line
    BY <1>2, <2>1, <2>2, <2>3, AppendProperties
  <2>5. /\ request'.kind = kind /\ request'.stage = "start"
        /\ request'.id = Len(received) + 1 /\ request'.token = token
    BY <2>1
  <2>6. request' # Nothing
    <3>1. PICK chunk \in {r.id : r \in rows} \cup {0}, window \in 0 .. 1, k \in LineKind,
               at \in {Nothing, Len(received) + 1} :
            request' = [kind |-> k, stage |-> "start", id |-> Len(received) + 1,
                        token |-> at, chunk |-> chunk, window |-> window,
                        note |-> Nothing, index |-> 0, calm |-> TRUE,
                        chunks |-> {}, error |-> 0]
      BY <1>4 DEF ReadLine
    <3>2. chunk \in Nat
      BY <1>1, <3>1 DEF ContextInv, RowsRight, ChunkRow
    <3>3. request' \in Request
      BY <1>2, <3>1, <3>2 DEF Request
    <3> QED
      BY <3>3
  <2>7. UNCHANGED <<rebuilds, stdout>>
    BY <1>4 DEF ReadLine
  <2>8. LastLine(request)'
    <3>1. Len(received') >= 1
      BY <1>2, <2>4
    <3>2. request'.kind = received'[Len(received')].kind
      BY <2>3, <2>4, <2>5
    <3>3. request'.id = IF request'.kind = "garbage" /\ request'.stage = "write"
                        THEN 0 ELSE Len(received')
      BY <2>4, <2>5
    <3>4. request'.token # Nothing =>
            /\ request'.token = Len(received')
            /\ \A t \in 1 .. Len(rebuilds') : rebuilds'[t].token # request'.token
      BY <1>2, <2>4, <2>5, <2>7 DEF TokensRight
    <3> QED
      BY <3>1, <3>2, <3>3, <3>4 DEF LastLine
  <2>9. TokensRight' /\ ProgressRight'
    BY <1>2, <1>3, <2>4, <2>7
  <2>10. AnswersRight'
    BY <1>4, <2>6, AnswersAwaited
  <2> QED
    BY <1>1, <1>2, <2>7, <2>8, <2>9, <2>10 DEF AnswerInv
<1>5. CASE \/ Refuse \/ Ping \/ CallTool \/ Rebuild
           \/ ContextVault \/ ContextPath \/ ContextIndex \/ ContextRows
  <2>1. /\ request \in Request /\ request' \in Request
        /\ request'.kind = request.kind /\ request'.stage # "start"
        /\ request.stage # "write"
        /\ request.kind # "garbage" => request'.id = request.id
        /\ request.kind = "garbage" => request'.stage = "write" /\ request'.id = 0
        /\ UNCHANGED <<received, stdout>>
    BY <1>1, <1>5, HandlerKeeps
  <2>2. request # Nothing /\ request' # Nothing
    BY <2>1
  <2>3. stdout' \in Seq(Message) /\ AnswersRight'
    BY <2>1, <2>2, AnswersStay
  <2>4. LastLine(request)'
    BY <2>1, <2>2 DEF AnswerInv, LastLine
  <2>5. TokensRight' /\ ProgressRight'
    <3>1. CASE rebuilds' = rebuilds
      BY <1>2, <1>3, <2>1, <3>1
    <3>2. CASE Rebuild /\ rebuilds' # rebuilds
      <4>1. PICK new : new = [stage |-> "start", token |-> request.token, vault |-> 0,
                              todo |-> {}, note |-> Nothing, count |-> 0]
        OBVIOUS
      <4>2. /\ rebuilds' = Append(rebuilds, new) /\ request.stage = "start"
        BY <3>2, <4>1 DEF Rebuild, Handling
      <4>3. new \in RebuildTask /\ new.stage = "start" /\ new.token = request.token
        BY <2>1, <4>1 DEF RebuildTask, TaskStage, Request
      <4>4. /\ Len(rebuilds') = Len(rebuilds) + 1
            /\ \A t \in 1 .. Len(rebuilds) : rebuilds'[t] = rebuilds[t]
            /\ rebuilds'[Len(rebuilds) + 1] = new
        <5>1. rebuilds \in Seq(RebuildTask)
          BY <1>1 DEF ContextInv
        <5> QED
          BY <4>2, <4>3, <5>1, AppendProperties
      <4>5. \A t \in 1 .. Len(rebuilds) + 1 : t \in 1 .. Len(rebuilds) \/ t = Len(rebuilds) + 1
        BY <1>2
      <4>6. new.token # Nothing =>
              /\ new.token = Len(received) /\ Len(received) >= 1
              /\ \A t \in 1 .. Len(rebuilds) : rebuilds[t].token # new.token
        BY <2>2, <4>2, <4>3 DEF AnswerInv, LastLine
      <4>7. TokensRight'
        <5>1. \A t \in 1 .. Len(rebuilds') : rebuilds'[t].token # Nothing =>
                rebuilds'[t].token \in 1 .. Len(received')
          BY <1>2, <2>1, <4>4, <4>5, <4>6 DEF TokensRight
        <5>2. ASSUME NEW t \in 1 .. Len(rebuilds'), NEW u \in 1 .. Len(rebuilds'),
                     rebuilds'[t].token # Nothing, rebuilds'[t].token = rebuilds'[u].token
              PROVE  t = u
          <6>1. CASE t \in 1 .. Len(rebuilds) /\ u \in 1 .. Len(rebuilds)
            BY <1>2, <4>4, <5>2, <6>1 DEF TokensRight
          <6>2. CASE t = Len(rebuilds) + 1 /\ u \in 1 .. Len(rebuilds)
            BY <4>4, <4>6, <5>2, <6>2
          <6>3. CASE t \in 1 .. Len(rebuilds) /\ u = Len(rebuilds) + 1
            BY <4>4, <4>6, <5>2, <6>3
          <6> QED
            BY <4>4, <4>5, <6>1, <6>2, <6>3
        <5> QED
          BY <5>1, <5>2 DEF TokensRight
      <4>8. \A k \in 1 .. Len(stdout) : stdout[k].kind = "progress" =>
              stdout[k].token # Nothing /\ stdout[k].token # new.token
        <5>1. \A k \in 1 .. Len(stdout) : stdout[k].kind = "progress" => stdout[k].token # Nothing
          BY <1>2, ElementOfSeq DEF Message
        <5> QED
          BY <1>2, <4>6, <5>1 DEF ProgressRight
      <4>9. \A k \in 1 .. Len(stdout), t \in 1 .. Len(rebuilds') :
              stdout[k].kind = "progress" /\ rebuilds'[t].token = stdout[k].token =>
                Reported(stdout[k], rebuilds'[t])
        BY <1>2, <4>4, <4>5, <4>8 DEF ProgressRight
      <4>10. \A k \in 1 .. Len(stdout) : stdout[k].kind = "progress" =>
               \E t \in 1 .. Len(rebuilds') : rebuilds'[t].token = stdout[k].token
        BY <1>2, <4>4 DEF ProgressRight
      <4> QED
        BY <1>2, <2>1, <4>7, <4>9, <4>10 DEF ProgressRight
    <3>3. Rebuild \/ rebuilds' = rebuilds
      BY <1>5 DEF Refuse, Ping, CallTool, ContextVault, ContextPath, ContextIndex,
                  ContextRows, OnlyRequest
    <3> QED
      BY <3>1, <3>2, <3>3
  <2> QED
    BY <1>1, <2>3, <2>4, <2>5 DEF AnswerInv
<1>6. CASE Write
  <2>1. stdout' \in Seq(Message) /\ AnswersRight'
    BY <1>6, AnswersWritten
  <2>2. /\ request' = Nothing /\ request # Nothing /\ rebuilds' = rebuilds
        /\ received' = received
    BY <1>6 DEF Write, Handling
  <2>3. PICK m : m = [kind |-> "response", id |-> request.id, error |-> request.error]
    OBVIOUS
  <2>4. m \in Message /\ m.kind # "progress"
    BY <1>1, <2>2, <2>3 DEF ContextInv, Request, Message
  <2>5. stdout' = Append(stdout, m)
    BY <1>6, <2>3 DEF Write
  <2>6. TokensRight' /\ ProgressRight'
    BY <1>2, <1>3, <2>2, <2>4, <2>5
  <2> QED
    BY <1>1, <2>1, <2>2, <2>6 DEF AnswerInv
<1>7. CASE Eof
  <2>1. PICK dropped \in SUBSET {t \in DOMAIN rebuilds : rebuilds[t].stage = "start"} :
          rebuilds' = [t \in DOMAIN rebuilds |->
            IF t \in dropped THEN [rebuilds[t] EXCEPT !.stage = "done"] ELSE rebuilds[t]]
    BY <1>7 DEF Eof
  <2>2. UNCHANGED <<received, stdout, request>> /\ request = Nothing
    BY <1>7 DEF Eof
  <2>3. \A t \in 1 .. Len(rebuilds) :
          \/ rebuilds'[t] = rebuilds[t]
          \/ /\ rebuilds[t].stage = "start" /\ rebuilds'[t].stage = "done"
             /\ rebuilds'[t].token = rebuilds[t].token
             /\ rebuilds'[t].count = rebuilds[t].count
    BY <1>2, <2>1 DEF RebuildTask
  <2>4. Len(rebuilds') = Len(rebuilds)
    BY <1>2, <2>1
  <2>5. TokensRight' /\ ProgressRight'
    BY <1>2, <2>2, <2>3, <2>4, ReportsStay
  <2>6. stdout' \in Seq(Message) /\ AnswersRight'
    BY <2>2, AnswersStay
  <2> QED
    BY <1>1, <2>2, <2>5, <2>6 DEF AnswerInv
<1>8. ASSUME NEW t \in DOMAIN rebuilds,
             \/ TaskStart(t) \/ TaskOpen(t) \/ TaskTokenizer(t)
             \/ TaskWalk(t) \/ TaskFile(t) \/ TaskIndex(t) \/ TaskEnd(t)
      PROVE  AnswerInv'
  BY <1>8, TaskAnswers
<1>9. CASE OtherCommit \/ UNCHANGED mcpVars
  <2>1. UNCHANGED <<received, stdout, rebuilds>>
    BY <1>9 DEF OtherCommit, mcpVars
  <2>2. RequestKept
    BY <1>9 DEF OtherCommit, mcpVars, Index, RequestKept
  <2>3. /\ (request' = Nothing) <=> (request = Nothing)
        /\ request' # Nothing => LastLine(request)'
    BY <1>1, <2>1, <2>2, LastLineStays DEF AnswerInv
  <2>4. TokensRight' /\ ProgressRight'
    BY <1>2, <1>3, <2>1
  <2>5. stdout' \in Seq(Message) /\ AnswersRight'
    BY <2>1, <2>3, AnswersStay
  <2> QED
    BY <1>1, <2>3, <2>4, <2>5 DEF AnswerInv
<1> QED
  BY <1>4, <1>5, <1>6, <1>7, <1>8, <1>9 DEF McpNext

LEMMA InitAnswerInv == McpInit => AnswerInv
<1> SUFFICES ASSUME McpInit PROVE AnswerInv
  OBVIOUS
<1>1. ContextInv
  BY InitContextInv
<1>2. /\ stdout = <<[kind |-> "initialized"]>> /\ received = <<>> /\ rebuilds = <<>>
      /\ request = Nothing
  BY DEF McpInit
<1>3. [kind |-> "initialized"] \in Message
  BY DEF Message
<1>4. /\ stdout \in Seq(Message) /\ Len(stdout) = 1 /\ DOMAIN stdout = 1 .. 1
      /\ stdout[1].kind = "initialized"
  BY <1>2, <1>3
<1>5. Responses = {}
  BY <1>4 DEF Responses
<1>6. AnswersRight
  BY <1>2, <1>5, FS_EmptySet DEF AnswersRight
<1>7. TokensRight /\ ProgressRight
  BY <1>2, <1>4 DEF TokensRight, ProgressRight
<1> QED
  BY <1>1, <1>2, <1>4, <1>6, <1>7 DEF AnswerInv

(* main's loop and emit_progress: every line has one response, in order    *)
(* and under its id, whatever the background tasks write in between; the   *)
(* progress of a rebuild only grows, and nothing follows its total.        *)
THEOREM AnswersAreInOrder == McpSpec => []AnswersInOrder
<1>1. McpInit => AnswerInv
  BY InitAnswerInv
<1>2. AnswerInv /\ [McpNext]_mcpVars => AnswerInv'
  BY NextAnswerInv
<1>3. AnswerInv => AnswersInOrder
  <2> SUFFICES ASSUME AnswerInv PROVE AnswersInOrder
    OBVIOUS
  <2>1. DOMAIN stdout = 1 .. Len(stdout)
    BY LenProperties DEF AnswerInv
  <2> QED
    BY <2>1 DEF AnswerInv, AnswersRight, ProgressRight, AnswersInOrder
<1> QED
  BY <1>1, <1>2, <1>3, PTL DEF McpSpec

-----------------------------------------------------------------------------
(***************************************************************************)
(* CommandLine: images need a consent, and the wizard resumes.  A consent  *)
(* in config.toml or in memory goes with a yes of the user, or with one    *)
(* that an init wrote back; and the menu that wrote config.toml in its     *)
(* onboarding, or was refused because of it, has seen that there is one    *)
(* before it is at the first step again.                                   *)
(***************************************************************************)
MenuStage ==
  {"menu", "over", "ask", "step 1", "select in step 1", "limit", "step 2", "step 3"}
Agreed == {"yes", "back"}

SoundSession(t, s) ==
  /\ s.stage \in MenuStage => s.menu
  /\ s.cfg.consent => s.wish \in Agreed /\ wish # "none"
  /\ s.stage = "index agreed" => s.wish \in Agreed
  /\ s.stage = "consent" => ~ s.cfg.consent
  /\ settings = Nil => ~ s.shown.config /\ ~ s.refused
  /\ s.refused => s.shown.config \/ (s.wizard /\ s.stage = "over")
  /\ s.stage = "step 1" => ~ s.shown.config
  /\ author = t => s.shown.config \/ (s.wizard /\ s.stage \notin {"menu", "step 1"})

BaseRight(b) ==
  /\ b \in [is : {"absent", "damaged", "open"}, notes : SUBSET NoteFile]
  /\ b.is # "open" => b.notes = {}

HomeInv ==
  /\ settings \in SettingsType \cup {Nil}
  /\ BaseRight(base)
  /\ disk \in SUBSET NoteFile /\ stale \in SUBSET disk
  /\ wish \in Answer /\ author \in Terminal \cup {Nil}
  /\ started \in 0 .. MaxStarted /\ changes \in 0 .. MaxChanges
  /\ settings = Nil => author = Nil
  /\ settings # Nil /\ settings.consent => wish \in Agreed

EffectRight == effect.images => effect.wish \in Agreed

CommandInv ==
  /\ HomeInv /\ EffectRight
  /\ session \in [Terminal -> SessionType \cup {Nil}]
  /\ \A t \in Terminal : session[t] # Nil => SoundSession(t, session[t])

LEMMA SilenceIsRight == NothingSent => EffectRight'
  BY DEF NothingSent, Silence, EffectRight

(* What a process sends is agreed to, if its configuration allows no more  *)
(* than that.                                                              *)
LEMMA SendsRight ==
  ASSUME NEW t, NEW c, NEW text, Sends(t, c, text),
         MaySend(c) => session[t].wish \in Agreed
  PROVE  EffectRight'
  BY DEF Sends, EffectRight

(* The index stays what it can be. *)
LEMMA PassIs ==
  ASSUME HomeInv, NEW t, NEW c, NEW walked, walked \subseteq disk,
         IndexPass(t, c, walked)
  PROVE  /\ BaseRight(base)' /\ stale' \in SUBSET disk
         /\ \E text : Sends(t, c, text)
<1>1. CASE session[t].orphan
  BY <1>1 DEF IndexPass, HomeInv, BaseRight
<1>2. CASE ~ session[t].orphan
  <2> DEFINE text == {n \in walked : n \notin base.notes \/ n \in stale}
  <2>1. /\ base' = [is |-> "open", notes |-> base.notes \cup walked]
        /\ stale' = stale \ text /\ Sends(t, c, text)
    BY <1>2 DEF IndexPass
  <2>2. base.notes \cup walked \in SUBSET NoteFile
    BY DEF HomeInv, BaseRight
  <2> QED
    BY <2>1, <2>2 DEF HomeInv, BaseRight
<1> QED
  BY <1>1, <1>2

LEMMA OpenedIs ==
  ASSUME HomeInv
  PROVE  BaseRight(Opened)
  BY DEF HomeInv, BaseRight, Opened

(* A process that only gets on, or is told of its orphaned database, stays *)
(* sound.                                                                  *)
LEMMA Restaged ==
  ASSUME NEW t, NEW s \in SessionType, SoundSession(t, s), s.stage # "over" \/ ~ s.refused,
         NEW to \in {"over", "chart", "index", "index without", "watching", "ask",
                        "select", "select in step 1", "limit", "step 2", "step 3"},
         to \in MenuStage => s.menu
  PROVE  /\ [s EXCEPT !.stage = to] \in SessionType
         /\ SoundSession(t, [s EXCEPT !.stage = to])
<1> DEFINE r == [s EXCEPT !.stage = to]
<1>1. r \in SessionType
  BY DEF SessionType
<1>2. /\ r.cfg = s.cfg /\ r.wish = s.wish /\ r.stage = to /\ r.refused = s.refused
      /\ r.shown = s.shown /\ r.wizard = s.wizard
      /\ r.command = s.command /\ r.menu = s.menu
  BY DEF SessionType
<1> HIDE DEF r
<1>3. SoundSession(t, r)
  BY <1>2 DEF SoundSession
<1> QED
  BY <1>1, <1>3 DEF r

LEMMA Orphaned ==
  ASSUME NEW t, NEW s \in SessionType, SoundSession(t, s), NEW b \in BOOLEAN
  PROVE  /\ [s EXCEPT !.orphan = b] \in SessionType
         /\ SoundSession(t, [s EXCEPT !.orphan = b])
<1> DEFINE r == [s EXCEPT !.orphan = b]
<1>1. r \in SessionType
  BY DEF SessionType
<1>2. /\ r.cfg = s.cfg /\ r.wish = s.wish /\ r.stage = s.stage /\ r.refused = s.refused
      /\ r.shown = s.shown /\ r.wizard = s.wizard
      /\ r.command = s.command /\ r.menu = s.menu
  BY DEF SessionType
<1> HIDE DEF r
<1>3. SoundSession(t, r)
  BY <1>2 DEF SoundSession
<1> QED
  BY <1>1, <1>3 DEF r

LEMMA EndedIs ==
  ASSUME NEW t, NEW s \in SessionType, SoundSession(t, s), s.stage # "over" \/ ~ s.refused
  PROVE  /\ Ended(s) \in SessionType \cup {Nil}
         /\ Ended(s) # Nil => SoundSession(t, Ended(s))
  BY Restaged DEF Ended

(* Nothing that another process does makes a process unsound. *)
LEMMA StillSound ==
  ASSUME NEW t, NEW s, SoundSession(t, s),
         settings' = Nil => settings = Nil, wish' = "none" => wish = "none",
         author' = t => author = t
  PROVE  SoundSession(t, s)'
  BY DEF SoundSession

LEMMA SessionStep ==
  ASSUME CommandInv, NEW t \in Terminal, NEW s \in SessionType \cup {Nil},
         session' = [session EXCEPT ![t] = s],
         s # Nil => SoundSession(t, s)',
         HomeInv', EffectRight',
         settings' = Nil => settings = Nil, wish' = "none" => wish = "none",
         author' \in {author, t, Nil}
  PROVE  CommandInv'
<1>1. session' \in [Terminal -> SessionType \cup {Nil}]
  BY DEF CommandInv
<1>2. ASSUME NEW u \in Terminal, session'[u] # Nil
      PROVE  SoundSession(u, session[u])'
  <2>1. CASE u = t
    <3>1. session'[u] = s
      BY <2>1 DEF CommandInv
    <3> QED
      BY <1>2, <2>1, <3>1 DEF SoundSession
  <2>2. CASE u # t
    <3>1. session'[u] = session[u] /\ SoundSession(u, session[u])
      BY <1>2, <2>2 DEF CommandInv
    <3>2. author' = u => author = u
      BY <2>2, CommandAssumption
    <3>3. PICK x : x = session[u]
      OBVIOUS
    <3>4. SoundSession(u, x)'
      BY <3>1, <3>2, <3>3, StillSound
    <3> QED
      BY <3>1, <3>3, <3>4 DEF SoundSession
  <2> QED
    BY <2>1, <2>2
<1> QED
  BY <1>1, <1>2 DEF CommandInv

LEMMA InitCommandInv == CommandInit => CommandInv
<1> SUFFICES ASSUME CommandInit PROVE CommandInv
  OBVIOUS
<1> USE CommandAssumption
<1>1. settings \in SettingsType \cup {Nil}
  BY DEF CommandInit
<1>2. BaseRight(base)
  BY DEF CommandInit, BaseRight
<1>3. wish \in Answer /\ (settings # Nil /\ settings.consent => wish \in Agreed)
  BY DEF CommandInit, Answer, Agreed
<1>4. 0 \in 0 .. MaxStarted /\ 0 \in 0 .. MaxChanges
  OBVIOUS
<1>5. HomeInv
  BY <1>1, <1>2, <1>3, <1>4 DEF CommandInit, HomeInv
<1>6. EffectRight
  BY DEF CommandInit, Silence, EffectRight
<1>7. /\ session \in [Terminal -> SessionType \cup {Nil}]
      /\ \A t \in Terminal : session[t] = Nil
  BY DEF CommandInit
<1> QED
  BY <1>5, <1>6, <1>7 DEF CommandInv

(* A process that begins, with what it loads. *)
LEMMA StartIsSound ==
  ASSUME CommandInv, NEW t \in Terminal, StartCommand(t)
  PROVE  CommandInv'
<1> USE CommandAssumption
<1> DEFINE c == LoadedSettings
<1>1. PICK command \in Command :
        Become(t,
            [command |-> command, cfg |-> c,
             stage |-> CASE command = "chart" -> "chart"
                         [] command = "welcome" -> "menu"
                         [] OTHER -> "run",
             menu |-> command = "welcome", wizard |-> FALSE, then |-> "ask",
             shown |-> Shown,
             indexed |-> FALSE, orphan |-> FALSE, wish |-> wish, refused |-> FALSE])
  BY DEF StartCommand
<1> DEFINE to == CASE command = "chart" -> "chart"
                      [] command = "welcome" -> "menu"
                      [] OTHER -> "run"
           s == [command |-> command, cfg |-> c, stage |-> to,
                 menu |-> command = "welcome", wizard |-> FALSE, then |-> "ask",
                 shown |-> Shown,
                 indexed |-> FALSE, orphan |-> FALSE, wish |-> wish, refused |-> FALSE]
<1>2. c \in SettingsType /\ (c.consent => wish \in Agreed) /\ wish \in Answer
  BY DEF LoadedSettings, DefaultSettings, SettingsType, CommandInv, HomeInv
<1>4. to \in {"menu", "run", "chart"}
  OBVIOUS
<1>5. Shown \in [config : BOOLEAN, base : BOOLEAN] /\ Shown.config = (settings # Nil)
  BY DEF Shown
<1> HIDE DEF c, to
<1>6. s \in SessionType
  BY <1>2, <1>4, <1>5 DEF SessionType
<1>7. SoundSession(t, s)
  <2>1. author = t => settings # Nil
    BY DEF CommandInv, HomeInv
  <2>2. to = "menu" => command = "welcome"
    BY DEF to
  <2> QED
    BY <1>2, <1>4, <1>5, <2>1, <2>2 DEF SoundSession, MenuStage, Agreed
<1>8. HomeInv'
  BY DEF StartCommand, homeVars, CommandInv, HomeInv, BaseRight
<1>9. UNCHANGED <<settings, wish, author>> /\ EffectRight'
  BY SilenceIsRight DEF StartCommand, homeVars
<1>10. session' = [session EXCEPT ![t] = s]
  BY <1>1 DEF Become, c, to
<1> HIDE DEF s
<1>11. PICK x : x = s
  OBVIOUS
<1>12. SoundSession(t, x)'
  BY <1>7, <1>9, <1>11, StillSound
<1> QED
  BY <1>6, <1>8, <1>9, <1>10, <1>11, <1>12, SessionStep

(* Back in the menu. *)
LEMMA OverIsSound ==
  ASSUME CommandInv, NEW t \in Terminal, Over(t)
  PROVE  CommandInv'
<1> USE CommandAssumption
<1> DEFINE s == [session[t] EXCEPT !.command = "welcome", !.then = "ask", !.indexed = FALSE]
           r == IF ~ s.wizard THEN [s EXCEPT !.stage = "menu"]
                ELSE [s EXCEPT !.stage = "menu", !.wizard = FALSE,
                        !.cfg = LoadedSettings, !.wish = wish, !.shown = Shown]
<1>1. session' = [session EXCEPT ![t] = r]
  BY DEF Over, Become
<1>2. session[t] \in SessionType /\ SoundSession(t, session[t]) /\ session[t].menu
  BY DEF Over, InStage, CommandInv, SoundSession, MenuStage
<1>3. LoadedSettings \in SettingsType /\ (LoadedSettings.consent => wish \in Agreed)
  BY DEF LoadedSettings, DefaultSettings, SettingsType, CommandInv, HomeInv
<1>4. Shown \in [config : BOOLEAN, base : BOOLEAN] /\ Shown.config = (settings # Nil)
  BY DEF Shown
<1>5. /\ s \in SessionType /\ s.cfg = session[t].cfg /\ s.wish = session[t].wish
      /\ s.refused = session[t].refused
      /\ s.shown = session[t].shown /\ s.wizard = session[t].wizard /\ s.command = "welcome"
      /\ s.menu
  BY <1>2 DEF SessionType, Command
<1> HIDE DEF s
<1>6. r \in SessionType /\ SoundSession(t, r)
  <2>1. CASE ~ s.wizard
    <3>1. /\ r \in SessionType /\ r.cfg = s.cfg /\ r.wish = s.wish
          /\ r.refused = s.refused /\ r.wizard = s.wizard
          /\ r.shown = s.shown /\ r.command = "welcome" /\ r.stage = "menu" /\ r.menu
      BY <1>5, <2>1 DEF SessionType
    <3> HIDE DEF r
    <3> QED
      BY <1>2, <1>5, <2>1, <3>1 DEF SoundSession
  <2>2. CASE s.wizard
    <3>0. wish \in Answer
      BY DEF CommandInv, HomeInv
    <3>1. /\ r \in SessionType /\ r.cfg = LoadedSettings /\ r.wish = wish
          /\ r.refused = s.refused /\ r.shown = Shown /\ r.command = "welcome" /\ r.stage = "menu" /\ r.menu
      <4>1. PICK cfg \in SettingsType, shown \in [config : BOOLEAN, base : BOOLEAN] :
              cfg = LoadedSettings /\ shown = Shown
        BY <1>3, <1>4
      <4>2. PICK w \in Answer : w = wish
        BY <3>0
      <4>3. PICK x, y : x = s /\ y = r
        OBVIOUS
      <4>4. y = [x EXCEPT !.stage = "menu", !.wizard = FALSE, !.cfg = cfg, !.wish = w,
                          !.shown = shown]
        BY <2>2, <4>1, <4>2, <4>3
      <4> HIDE DEF r
      <4>5. x \in SessionType
        BY <1>5, <4>3
      <4>6. /\ y \in SessionType /\ y.cfg = cfg /\ y.wish = w
            /\ y.refused = x.refused /\ y.shown = shown /\ y.stage = "menu"
            /\ y.command = x.command /\ y.menu = x.menu
        BY <4>4, <4>5 DEF SessionType
      <4> QED
        BY <1>5, <4>1, <4>2, <4>3, <4>6
    <3> HIDE DEF r
    <3>2. author = t => settings # Nil
      BY DEF CommandInv, HomeInv
    <3> QED
      BY <1>2, <1>3, <1>4, <1>5, <3>1, <3>2 DEF SoundSession, Agreed
  <2> QED
    BY <2>1, <2>2
<1> HIDE DEF r
<1>9. HomeInv' /\ UNCHANGED <<settings, wish, author>> /\ EffectRight'
  BY SilenceIsRight DEF Over, homeVars, Bounds, CommandInv, HomeInv, BaseRight
<1>10. PICK x : x = r
  OBVIOUS
<1>11. SoundSession(t, x)'
  BY <1>6, <1>9, <1>10, StillSound
<1> QED
  BY <1>1, <1>6, <1>9, <1>10, <1>11, SessionStep

(* A step of one process that leaves config.toml and the agreement alone.  *)
LEMMA QuietStep ==
  ASSUME CommandInv, NEW t \in Terminal, NEW s \in SessionType \cup {Nil},
         session' = [session EXCEPT ![t] = s], s # Nil => SoundSession(t, s),
         UNCHANGED <<settings, disk, wish, author>> /\ Bounds,
         BaseRight(base)', stale' \in SUBSET disk, EffectRight'
  PROVE  CommandInv'
<1>1. HomeInv'
  BY DEF CommandInv, HomeInv, Bounds
<1>2. s # Nil => SoundSession(t, s)'
  BY StillSound
<1> QED
  BY <1>1, <1>2, SessionStep

(* The same, of a process that only gets on to another stage, or ends.     *)
LEMMA GettingOn ==
  ASSUME CommandInv, NEW t \in Terminal, session[t] # Nil,
         session[t].stage # "over",
         \/ Finish(t)
         \/ \E to \in {"over", "chart", "index", "index without", "watching", "ask",
                          "select", "select in step 1", "limit", "step 2", "step 3"} :
              GoTo(t, to) /\ (to \in MenuStage => session[t].menu),
         UNCHANGED <<settings, disk, wish, author>> /\ Bounds,
         BaseRight(base)', stale' \in SUBSET disk, EffectRight'
  PROVE  CommandInv'
<1>1. session[t] \in SessionType /\ SoundSession(t, session[t])
  BY DEF CommandInv
<1>2. PICK s \in SessionType \cup {Nil} :
        /\ s # Nil => SoundSession(t, s)
        /\ session' = [session EXCEPT ![t] = s]
  BY <1>1, Restaged, EndedIs DEF Finish, GoTo, Become
<1> QED
  BY <1>2, QuietStep

LEMMA QuitIsSound ==
  ASSUME CommandInv, NEW t \in Terminal, Quit(t)
  PROVE  CommandInv'
<1>1. BaseRight(base)' /\ stale' \in SUBSET disk /\ EffectRight'
  BY SilenceIsRight DEF Quit, homeVars, CommandInv, HomeInv, BaseRight
<1> QED
  BY <1>1, QuietStep DEF Quit, Become, homeVars

LEMMA ChartStartIsSound ==
  ASSUME CommandInv, NEW t \in Terminal, ChartStart(t)
  PROVE  CommandInv'
<1> DEFINE asks == session[t].cfg.vlm /\ ~ session[t].cfg.consent
<1>1. /\ session[t] # Nil /\ session[t].stage = "chart" /\ base' = Opened /\ EffectRight'
      /\ UNCHANGED <<settings, disk, wish, author>> /\ Bounds /\ stale' = stale
  BY SilenceIsRight DEF ChartStart, InStage
<1>2. BaseRight(base)' /\ stale' \in SUBSET disk
  BY <1>1, OpenedIs DEF CommandInv, HomeInv, BaseRight
<1>3. CASE ~ (Openable /\ tokenizer)
  BY <1>1, <1>2, <1>3, GettingOn DEF ChartStart
<1>4. CASE Openable /\ tokenizer /\ asks /\ t \in Interactive
  <2>1. session[t] \in SessionType /\ SoundSession(t, session[t])
    BY <1>1 DEF CommandInv
  <2> DEFINE s == [session[t] EXCEPT !.stage = "consent"]
  <2>2. s \in SessionType
    BY <2>1 DEF SessionType
  <2>3. /\ s.cfg = session[t].cfg /\ s.wish = session[t].wish /\ s.stage = "consent"
        /\ s.refused = session[t].refused
        /\ s.shown = session[t].shown /\ s.wizard = session[t].wizard
    BY <2>1 DEF SessionType
  <2>4. session' = [session EXCEPT ![t] = s]
    BY <1>4 DEF ChartStart, GoTo, Become
  <2> HIDE DEF s
  <2>5. SoundSession(t, s)
    BY <1>1, <1>4, <2>1, <2>3 DEF SoundSession, MenuStage
  <2> QED
    BY <1>1, <1>2, <2>2, <2>4, <2>5, QuietStep
<1>5. CASE Openable /\ tokenizer /\ ~ (asks /\ t \in Interactive)
  <2>1. GoTo(t, IF asks THEN "index without" ELSE "index")
    BY <1>5 DEF ChartStart, GoTo
  <2>2. \E to \in {"index", "index without"} : GoTo(t, to)
    BY <2>1
  <2> QED
    BY <1>1, <1>2, <2>2, GettingOn DEF MenuStage
<1> QED
  BY <1>3, <1>4, <1>5

LEMMA ConsentYesIsSound ==
  ASSUME CommandInv, NEW t \in Terminal, ConsentYes(t)
  PROVE  CommandInv'
<1> USE CommandAssumption
<1> DEFINE s == [session[t] EXCEPT !.stage = "index agreed", !.wish = "yes"]
<1>1. session[t] \in SessionType /\ SoundSession(t, session[t])
  BY DEF ConsentYes, InStage, CommandInv
<1>2. /\ s \in SessionType
      /\ s.cfg = session[t].cfg /\ s.wish = "yes" /\ s.stage = "index agreed"
      /\ s.refused = session[t].refused
      /\ s.shown = session[t].shown /\ s.wizard = session[t].wizard
  BY <1>1 DEF SessionType, Answer
<1>3. session' = [session EXCEPT ![t] = s]
  BY DEF ConsentYes, Become
<1>4. session[t].stage = "consent"
  BY DEF ConsentYes, InStage
<1> HIDE DEF s
<1>5. SoundSession(t, s)
  BY <1>1, <1>2, <1>4 DEF SoundSession, MenuStage, Agreed
<1>6. settings' \in SettingsType \cup {Nil} /\ (settings' = Nil <=> settings = Nil)
  <2>1. /\ settings \in SettingsType \cup {Nil}
        /\ settings' = IF settings = Nil THEN Nil ELSE [settings EXCEPT !.consent = TRUE]
    BY DEF ConsentYes, CommandInv, HomeInv
  <2>2. PICK old, new : old = settings /\ new = settings'
    OBVIOUS
  <2>3. CASE old # Nil
    <3>1. old \in SettingsType /\ new = [old EXCEPT !.consent = TRUE]
      BY <2>1, <2>2, <2>3
    <3>2. new \in SettingsType
      BY <3>1 DEF SettingsType
    <3> QED
      BY <2>2, <2>3, <3>2
  <2> QED
    BY <2>1, <2>2, <2>3
<1>7. HomeInv' /\ EffectRight' /\ author' = author /\ wish' = "yes"
  BY <1>6, SilenceIsRight DEF ConsentYes, Bounds, CommandInv, HomeInv, BaseRight, Answer, Agreed
<1>8. PICK x : x = s
  OBVIOUS
<1>9. SoundSession(t, x)'
  BY <1>5, <1>6, <1>7, <1>8, StillSound
<1> QED
  BY <1>2, <1>3, <1>6, <1>7, <1>8, <1>9, SessionStep

LEMMA ConsentNoIsSound ==
  ASSUME CommandInv, NEW t \in Terminal, ConsentNo(t)
  PROVE  CommandInv'
<1> DEFINE s == [session[t] EXCEPT !.stage = "index without", !.wish = "no"]
<1>1. session[t] \in SessionType /\ SoundSession(t, session[t]) /\ session[t].stage = "consent"
  BY DEF ConsentNo, InStage, CommandInv
<1>2. /\ s \in SessionType
      /\ s.cfg = session[t].cfg /\ s.stage = "index without"
      /\ s.refused = session[t].refused
      /\ s.shown = session[t].shown /\ s.wizard = session[t].wizard
  BY <1>1 DEF SessionType, Answer
<1>3. session' = [session EXCEPT ![t] = s]
  BY DEF ConsentNo, Become
<1> HIDE DEF s
<1>4. SoundSession(t, s)
  BY <1>1, <1>2 DEF SoundSession, MenuStage
<1>5. /\ UNCHANGED <<settings, disk, wish, author>> /\ Bounds /\ EffectRight'
      /\ BaseRight(base)' /\ stale' \in SUBSET disk
  BY SilenceIsRight DEF ConsentNo, homeVars, CommandInv, HomeInv, BaseRight
<1> QED
  BY <1>2, <1>3, <1>4, <1>5, QuietStep

(* The configuration a chart goes on with. *)
LEMMA EffectiveIs ==
  ASSUME NEW t, NEW s \in SessionType, SoundSession(t, s)
  PROVE  MaySend(EffectiveSettings(s)) => s.wish \in Agreed
<1>1. s.cfg \in SettingsType
  BY DEF SessionType
<1>2. CASE s.stage = "index agreed"
  BY <1>2 DEF SoundSession
<1>3. CASE s.stage = "index without"
  <2>1. EffectiveSettings(s) = [s.cfg EXCEPT !.vlm = FALSE, !.consent = FALSE]
    BY <1>3 DEF EffectiveSettings
  <2>2. ~ EffectiveSettings(s).vlm
    BY <1>1, <2>1 DEF SettingsType
  <2> QED
    BY <2>2 DEF MaySend
<1>4. CASE s.stage \notin {"index agreed", "index without"}
  <2>1. EffectiveSettings(s) = s.cfg
    BY <1>4 DEF EffectiveSettings
  <2> QED
    BY <2>1 DEF SoundSession, MaySend
<1> QED
  BY <1>2, <1>3, <1>4

LEMMA ChartIndexIsSound ==
  ASSUME CommandInv, NEW t \in Terminal, ChartIndex(t)
  PROVE  CommandInv'
<1> DEFINE s == session[t]
           c == EffectiveSettings(s)
           walked == Walked(c, IF s.menu THEN Vault ELSE VaultsFor(c))
           r == [s EXCEPT !.stage = s.then, !.orphan = FALSE]
<1>1. s \in SessionType /\ SoundSession(t, s)
  BY DEF ChartIndex, CommandInv
<1>2. IndexPass(t, c, walked)
  BY DEF ChartIndex
<1>3. MaySend(c) => s.wish \in Agreed
  BY <1>1, EffectiveIs
<1>4. s.stage \in {"index", "index agreed", "index without"}
  BY DEF ChartIndex
<1>5. walked \subseteq disk
  BY DEF Walked
<1>6. Become(t, IF ~ s.menu THEN Nil ELSE r)
  BY DEF ChartIndex
<1> HIDE DEF c, walked
<1>7. /\ BaseRight(base)' /\ stale' \in SUBSET disk
      /\ \E text : Sends(t, c, text)
  BY <1>2, <1>5, PassIs DEF CommandInv
<1>8. EffectRight'
  BY <1>3, <1>7, SendsRight
<1>9. s.then \in {"ask", "step 3"}
  BY <1>1 DEF SessionType
<1>10. PICK q : q = [s EXCEPT !.stage = s.then]
  OBVIOUS
<1>11. s.menu => q \in SessionType /\ SoundSession(t, q)
  BY <1>1, <1>4, <1>9, <1>10, Restaged
<1>12. r = [q EXCEPT !.orphan = FALSE]
  BY <1>10
<1>13. s.menu => r \in SessionType /\ SoundSession(t, r)
  BY <1>11, <1>12, Orphaned
<1> HIDE DEF r
<1>14. UNCHANGED <<settings, disk, wish, author>> /\ Bounds
  BY DEF ChartIndex
<1>15. CASE s.menu
  <2>1. session' = [session EXCEPT ![t] = r]
    BY <1>6, <1>15 DEF Become
  <2> QED
    BY <1>7, <1>8, <1>13, <1>14, <1>15, <2>1, QuietStep
<1>16. CASE ~ s.menu
  <2>1. session' = [session EXCEPT ![t] = Nil]
    BY <1>6, <1>16 DEF Become
  <2> QED
    BY <1>7, <1>8, <1>14, <2>1, QuietStep
<1> QED
  BY <1>15, <1>16

LEMMA WatchIsSound ==
  ASSUME CommandInv, NEW t \in Terminal, Watch(t)
  PROVE  CommandInv'
<1>1. /\ session[t] # Nil /\ base' = Opened /\ stale' = stale /\ EffectRight'
      /\ UNCHANGED <<settings, disk, wish, author>> /\ Bounds
      /\ GoTo(t, "watching") \/ Finish(t)
      /\ session[t].stage = "run"
  BY SilenceIsRight DEF Watch, Running, InStage
<1>2. BaseRight(base)' /\ stale' \in SUBSET disk
  BY <1>1, OpenedIs DEF CommandInv, HomeInv, BaseRight
<1> QED
  BY <1>1, <1>2, GettingOn DEF MenuStage

LEMMA WatchedIsSound ==
  ASSUME CommandInv, NEW t \in Terminal, Watched(t)
  PROVE  CommandInv'
<1> DEFINE c == session[t].cfg
<1>1. PICK n \in stale \cap disk : IndexPass(t, c, {n})
  BY DEF Watched
<1>2. session[t] \in SessionType /\ SoundSession(t, session[t])
  BY DEF Watched, InStage, CommandInv
<1>3. /\ BaseRight(base)' /\ stale' \in SUBSET disk
      /\ \E text : Sends(t, c, text)
  BY <1>1, PassIs DEF CommandInv
<1>4. EffectRight'
  BY <1>2, <1>3, SendsRight DEF SoundSession, MaySend
<1>5. UNCHANGED <<settings, disk, wish, author>> /\ Bounds
  BY DEF Watched
<1>6. session' = [session EXCEPT ![t] = session[t]]
  BY DEF Watched, CommandInv
<1> QED
  BY <1>2, <1>3, <1>4, <1>5, <1>6, QuietStep

(* A database built anew: the other processes may hold the old one.        *)
LEMMA BuildAnewIsSound ==
  ASSUME CommandInv, NEW t \in Terminal, session[t] # Nil, session[t].stage = "run",
         NEW walked, walked \subseteq disk, BuildAnew(t, walked),
         UNCHANGED <<settings, disk, wish, author>> /\ Bounds
  PROVE  CommandInv'
<1>1. \A u \in Terminal : session[u] \in SessionType \cup {Nil}
  BY DEF CommandInv
<1>2. ASSUME NEW u \in Terminal
      PROVE  /\ session'[u] \in SessionType \cup {Nil}
             /\ session'[u] # Nil => SoundSession(u, session'[u])
  <2>1. session'[u] = IF u = t THEN Ended(session[t])
                      ELSE IF Holds(u) THEN [session[u] EXCEPT !.orphan = TRUE]
                      ELSE session[u]
    BY DEF BuildAnew
  <2>2. CASE u = t
    BY <2>1, <2>2, EndedIs DEF CommandInv
  <2>3. CASE u # t /\ Holds(u)
    <3>1. session[u] \in SessionType /\ SoundSession(u, session[u])
      BY <2>3 DEF CommandInv, Holds
    <3>2. /\ [session[u] EXCEPT !.orphan = TRUE] \in SessionType
          /\ SoundSession(u, [session[u] EXCEPT !.orphan = TRUE])
      BY <3>1, Orphaned
    <3> QED
      BY <2>1, <2>3, <3>2
  <2>4. CASE u # t /\ ~ Holds(u)
    BY <2>1, <2>4 DEF CommandInv
  <2> QED
    BY <2>2, <2>3, <2>4
<1>3. session' \in [Terminal -> SessionType \cup {Nil}]
  BY <1>2 DEF BuildAnew
<1>4. ASSUME NEW u \in Terminal, session'[u] # Nil
      PROVE  SoundSession(u, session[u])'
  <2>1. PICK x : x = session'[u]
    OBVIOUS
  <2>2. SoundSession(u, x)'
    BY <1>2, <1>4, <2>1, StillSound
  <2> QED
    BY <2>1, <2>2 DEF SoundSession
<1>5. EffectRight'
  <2>1. Sends(t, session[t].cfg, walked)
    BY DEF BuildAnew
  <2>2. MaySend(session[t].cfg) => session[t].wish \in Agreed
    BY DEF CommandInv, SoundSession, MaySend
  <2> QED
    BY <2>1, <2>2, SendsRight
<1>6. base' = [is |-> "open", notes |-> walked] /\ stale' = stale \ walked
  BY DEF BuildAnew
<1>7. HomeInv'
  BY <1>6 DEF CommandInv, HomeInv, BaseRight, Bounds
<1> QED
  BY <1>3, <1>4, <1>5, <1>7 DEF CommandInv

LEMMA BuildNothingIsSound ==
  ASSUME CommandInv, NEW t \in Terminal, session[t] # Nil, session[t].stage = "run",
         BuildNothing(t),
         UNCHANGED <<settings, disk, wish, author>> /\ Bounds
  PROVE  CommandInv'
<1>1. BaseRight(base)' /\ stale' \in SUBSET disk /\ EffectRight'
  BY SilenceIsRight DEF BuildNothing, CommandInv, HomeInv, BaseRight
<1> QED
  BY <1>1, GettingOn DEF BuildNothing

LEMMA BuildersAreSound ==
  ASSUME CommandInv, NEW t \in Terminal, Doctor(t) \/ Clean(t) \/ Purge(t)
  PROVE  CommandInv'
<1>1. UNCHANGED <<settings, disk, wish, author>> /\ Bounds /\ session[t] # Nil
      /\ session[t].stage = "run"
  BY DEF Doctor, Clean, Purge, Running, InStage
<1>2. \A c, vaults : Walked(c, vaults) \subseteq disk
  BY DEF Walked
<1>3. ASSUME NEW walked, walked \subseteq disk, BuildAnew(t, walked)
      PROVE  CommandInv'
  BY <1>1, <1>3, BuildAnewIsSound
<1>4. ASSUME BuildNothing(t) PROVE CommandInv'
  BY <1>1, <1>4, BuildNothingIsSound
<1>5. CASE Doctor(t)
  BY <1>2, <1>3, <1>4, <1>5 DEF Doctor
<1>6. CASE Clean(t)
  BY <1>2, <1>3, <1>4, <1>6 DEF Clean
<1>7. CASE Purge(t)
  <2>1. CASE ~ (t \in Interactive /\ base.is = "open")
    BY <1>4, <1>7, <2>1 DEF Purge
  <2>2. CASE t \in Interactive /\ base.is = "open" /\ tokenizer
    BY <1>2, <1>3, <1>7, <2>2 DEF Purge
  <2>3. CASE t \in Interactive /\ base.is = "open" /\ ~ tokenizer
    <3>1. base' = [is |-> "open", notes |-> {}] /\ Finish(t) /\ NothingSent /\ stale' = stale
      BY <1>7, <2>3 DEF Purge
    <3>2. BaseRight(base)' /\ stale' \in SUBSET disk /\ EffectRight'
      BY <3>1, SilenceIsRight DEF CommandInv, HomeInv, BaseRight
    <3> QED
      BY <1>1, <3>1, <3>2, GettingOn
  <2> QED
    BY <2>1, <2>2, <2>3
<1> QED
  BY <1>5, <1>6, <1>7

(* Commands of one step, which are no process here.                        *)
LEMMA OneShotIsSound ==
  ASSUME CommandInv, Dredge \/ DeleteNote \/ Read
  PROVE  CommandInv'
<1>1. OneShot
  BY DEF Dredge, DeleteNote, Read
<1>2. BaseRight(Opened)
  BY OpenedIs DEF CommandInv
<1>3. BaseRight(base)'
  <2>1. CASE Dredge
    <3>1. PICK kept \in {base.notes \cap disk} \cup SUBSET base.notes :
            base' = [base EXCEPT !.notes = kept]
      BY <2>1 DEF Dredge
    <3> QED
      BY <2>1, <3>1 DEF Dredge, BaseRight, CommandInv, HomeInv
  <2>2. CASE DeleteNote
    <3>1. PICK n \in NoteFile, first \in BOOLEAN :
            base' = [Opened EXCEPT !.notes = IF first THEN @ \ {n} ELSE @]
      BY <2>2 DEF DeleteNote
    <3>2. base' = [Opened EXCEPT !.notes = IF first THEN Opened.notes \ {n} ELSE Opened.notes]
      BY <3>1
    <3>3. (IF first THEN Opened.notes \ {n} ELSE Opened.notes) \in SUBSET Opened.notes
      OBVIOUS
    <3> QED
      BY <1>2, <3>2, <3>3 DEF BaseRight
  <2>3. CASE Read
    BY <1>2, <2>3 DEF Read, BaseRight, CommandInv, HomeInv
  <2> QED
    BY <2>1, <2>2, <2>3
<1>4. HomeInv' /\ EffectRight'
  <2>1. started' \in 0 .. MaxStarted
    BY <1>1, CommandAssumption DEF OneShot, CommandInv, HomeInv
  <2>2. UNCHANGED <<settings, disk, stale, wish, author, changes>> /\ NothingSent
    BY <1>1 DEF OneShot
  <2> QED
    BY <1>3, <2>1, <2>2, SilenceIsRight DEF CommandInv, HomeInv
<1>5. UNCHANGED <<settings, session, wish, author>>
  BY <1>1 DEF OneShot
<1> QED
  BY <1>4, <1>5 DEF CommandInv, SoundSession

(* The menu. *)
LEMMA MenuIsSound ==
  ASSUME CommandInv, NEW t \in Terminal, ChooseOnboarding(t) \/ Choose(t) \/ AskOnboarding(t)
  PROVE  CommandInv'
<1> USE CommandAssumption
<1>1. session[t] # Nil
  BY DEF ChooseOnboarding, Choose, AskOnboarding, InStage
<1> DEFINE s == session[t]
<1>2. s \in SessionType /\ SoundSession(t, s)
  BY <1>1 DEF CommandInv
<1>3. /\ UNCHANGED <<settings, disk, wish, author>> /\ Bounds /\ EffectRight'
      /\ BaseRight(base)' /\ stale' \in SUBSET disk
  BY SilenceIsRight DEF ChooseOnboarding, Choose, AskOnboarding, homeVars, CommandInv,
                        HomeInv, BaseRight
<1>4. settings = Nil => ~ s.shown.config /\ ~ s.refused /\ author # t
  BY <1>1, <1>2 DEF SoundSession, CommandInv, HomeInv
<1>5. s.shown.config \in BOOLEAN /\ s.shown.base \in BOOLEAN
  BY <1>2 DEF SessionType
<1>6. ASSUME NEW r, r \in SessionType, Become(t, r), SoundSession(t, r)
      PROVE  CommandInv'
  BY <1>3, <1>6, QuietStep DEF Become
<1>7. CASE ChooseOnboarding(t)
  <2> DEFINE to == IF s.shown.config THEN "step 2" ELSE "step 1"
             r == [s EXCEPT !.wizard = TRUE, !.then = "step 3",
                            !.indexed = s.shown.base, !.stage = to]
  <2>1. Become(t, r) /\ s.stage = "menu"
    BY <1>7 DEF ChooseOnboarding, InStage
  <2>2. to \in {"step 1", "step 2"} /\ (to = "step 1" => ~ s.shown.config)
    OBVIOUS
  <2> HIDE DEF to
  <2>3. /\ r \in SessionType
        /\ r.cfg = s.cfg /\ r.wish = s.wish /\ r.stage = to /\ r.refused = s.refused
        /\ r.shown = s.shown /\ r.wizard /\ r.menu = s.menu
    BY <1>2, <1>5, <2>2 DEF SessionType
  <2> HIDE DEF r
  <2>4. SoundSession(t, r)
    BY <1>2, <2>1, <2>2, <2>3 DEF SoundSession, MenuStage
  <2> QED
    BY <1>6, <2>1, <2>3, <2>4
<1>8. CASE Choose(t)
  <2>1. s.stage = "menu"
    BY <1>8 DEF Choose, InStage
  <2>2. \/ \E command \in {"init", "doctor"} :
              Become(t, [s EXCEPT !.stage = "run", !.command = command,
                                  !.indexed = FALSE])
        \/ Become(t, [s EXCEPT !.stage = "chart", !.then = "ask",
                               !.indexed = TRUE])
        \/ Become(t, [s EXCEPT !.indexed = FALSE, !.then = "step 3",
                           !.stage = IF settings # Nil THEN "step 2" ELSE "step 1"])
    BY <1>8 DEF Choose
  <2>3. ASSUME NEW command \in {"init", "doctor"},
               Become(t, [s EXCEPT !.stage = "run", !.command = command, !.indexed = FALSE])
        PROVE  CommandInv'
    <3> DEFINE r == [s EXCEPT !.stage = "run", !.command = command, !.indexed = FALSE]
    <3>1. /\ r \in SessionType
          /\ r.cfg = s.cfg /\ r.wish = s.wish /\ r.stage = "run" /\ r.refused = s.refused
          /\ r.shown = s.shown /\ r.wizard = s.wizard
          /\ r.menu = s.menu
      BY <1>2 DEF SessionType, Command
    <3>2. Become(t, r)
      BY <2>3
    <3> HIDE DEF r
    <3>3. s.menu
      BY <1>2, <2>1 DEF SoundSession, MenuStage
    <3>4. SoundSession(t, r)
      BY <1>2, <2>1, <3>1, <3>3 DEF SoundSession, MenuStage
    <3> QED
      BY <1>6, <3>1, <3>2, <3>4
  <2>4. ASSUME Become(t, [s EXCEPT !.stage = "chart", !.then = "ask", !.indexed = TRUE])
        PROVE  CommandInv'
    <3> DEFINE r == [s EXCEPT !.stage = "chart", !.then = "ask", !.indexed = TRUE]
    <3>1. /\ r \in SessionType
          /\ r.cfg = s.cfg /\ r.wish = s.wish /\ r.stage = "chart" /\ r.refused = s.refused
          /\ r.shown = s.shown /\ r.wizard = s.wizard
          /\ r.menu = s.menu
      BY <1>2 DEF SessionType
    <3>2. Become(t, r)
      BY <2>4
    <3> HIDE DEF r
    <3>3. SoundSession(t, r)
      BY <1>2, <2>1, <3>1 DEF SoundSession, MenuStage
    <3> QED
      BY <1>6, <3>1, <3>2, <3>3
  <2>5. ASSUME Become(t, [s EXCEPT !.indexed = FALSE, !.then = "step 3",
                           !.stage = IF settings # Nil THEN "step 2" ELSE "step 1"])
        PROVE  CommandInv'
    <3> DEFINE to == IF settings # Nil THEN "step 2" ELSE "step 1"
               r == [s EXCEPT !.indexed = FALSE, !.then = "step 3", !.stage = to]
    <3>1. Become(t, r) /\ to \in {"step 1", "step 2"} /\ (to = "step 1" => settings = Nil)
      BY <2>5
    <3> HIDE DEF to
    <3>2. /\ r \in SessionType
          /\ r.cfg = s.cfg /\ r.wish = s.wish /\ r.stage = to /\ r.refused = s.refused
          /\ r.shown = s.shown /\ r.wizard = s.wizard
          /\ r.menu = s.menu
      BY <1>2, <3>1 DEF SessionType
    <3> HIDE DEF r
    <3>3. SoundSession(t, r)
      BY <1>2, <1>4, <2>1, <3>1, <3>2 DEF SoundSession, MenuStage
    <3> QED
      BY <1>6, <3>1, <3>2, <3>3
  <2> QED
    BY <2>2, <2>3, <2>4, <2>5
<1>9. CASE AskOnboarding(t)
  <2>1. CASE Finish(t)
    BY <1>1, <1>3, <1>9, <2>1, GettingOn DEF AskOnboarding, InStage
  <2>2. CASE Become(t, [s EXCEPT !.stage = "step 2", !.then = "step 3"])
    <3> DEFINE r == [s EXCEPT !.stage = "step 2", !.then = "step 3"]
    <3>1. /\ r \in SessionType
          /\ r.cfg = s.cfg /\ r.wish = s.wish /\ r.stage = "step 2" /\ r.refused = s.refused
          /\ r.shown = s.shown /\ r.wizard = s.wizard
          /\ r.menu = s.menu
      BY <1>2 DEF SessionType
    <3>2. Become(t, r)
      BY <2>2
    <3>3. s.stage = "ask"
      BY <1>9 DEF AskOnboarding, InStage
    <3> HIDE DEF r
    <3>4. SoundSession(t, r)
      BY <1>2, <3>1, <3>3 DEF SoundSession, MenuStage
    <3> QED
      BY <1>6, <3>1, <3>2, <3>4
  <2> QED
    BY <1>9, <2>1, <2>2 DEF AskOnboarding
<1> QED
  BY <1>7, <1>8, <1>9

(* init writes what it has in memory, with some directories excluded.      *)
LEMMA InitWritesIs ==
  ASSUME CommandInv, NEW t \in Terminal, session[t] # Nil, InitWrites(t)
  PROVE  /\ HomeInv' /\ EffectRight' /\ settings' # Nil
         /\ author' \in {t, Nil} /\ (author' = t => session[t].wizard)
         /\ wish' = "none" => wish = "none"
<1> USE CommandAssumption
<1>1. session[t] \in SessionType /\ SoundSession(t, session[t])
  BY DEF CommandInv
<1>2. session[t].cfg \in SettingsType
  BY <1>1 DEF SessionType
<1>3. PICK chosen \in Selections(t) :
        settings' = [session[t].cfg EXCEPT !.exclude = @ \cup chosen]
  BY DEF InitWrites
<1>4. chosen \in SUBSET NoiseDir
  BY DEF Selections
<1>5. settings' \in SettingsType /\ settings'.consent = session[t].cfg.consent
  BY <1>2, <1>3, <1>4 DEF SettingsType
<1>6. /\ wish \in Answer
      /\ wish' = IF session[t].cfg.consent /\ wish = "no" THEN "back" ELSE wish
  BY DEF InitWrites, CommandInv, HomeInv
<1>7. /\ wish' \in Answer /\ (wish' = "none" => wish = "none")
      /\ settings'.consent => wish' \in Agreed
  BY <1>1, <1>5, <1>6 DEF SoundSession, Answer, Agreed
<1>8. author' \in {t, Nil} /\ (author' = t => session[t].wizard)
  BY DEF InitWrites
<1>9. settings' # Nil /\ UNCHANGED <<base, disk, stale, started, changes>>
  BY <1>5 DEF InitWrites, Bounds
<1>10. HomeInv'
  BY <1>5, <1>7, <1>8, <1>9 DEF CommandInv, HomeInv, BaseRight
<1> QED
  BY <1>7, <1>8, <1>9, <1>10, SilenceIsRight DEF InitWrites

(* A process that has written config.toml gets on to a later stage.        *)
LEMMA WriterGetsOn ==
  ASSUME CommandInv, NEW t \in Terminal, session[t] # Nil, session[t].stage # "over",
         InitWrites(t),
         \/ Finish(t) /\ ~ session[t].menu
         \/ \E to \in {"ask", "limit"} : GoTo(t, to) /\ session[t].menu
  PROVE  CommandInv'
<1> USE CommandAssumption
<1>1. session[t] \in SessionType /\ SoundSession(t, session[t])
  BY DEF CommandInv
<1>2. /\ HomeInv' /\ EffectRight' /\ settings' # Nil
      /\ author' \in {t, Nil} /\ (author' = t => session[t].wizard)
      /\ wish' = "none" => wish = "none"
  BY InitWritesIs
<1>3. CASE Finish(t) /\ ~ session[t].menu
  <2>1. session' = [session EXCEPT ![t] = Nil]
    BY <1>3 DEF Finish, Become, Ended
  <2> QED
    BY <1>2, <2>1, SessionStep
<1>4. ASSUME NEW to \in {"ask", "limit"}, GoTo(t, to), session[t].menu
      PROVE  CommandInv'
  <2>1. PICK r : r = [session[t] EXCEPT !.stage = to]
    OBVIOUS
  <2>2. r \in SessionType /\ SoundSession(t, r)
    BY <1>1, <1>4, <2>1, Restaged
  <2>3. r.stage = to /\ r.wizard = session[t].wizard
    BY <1>1, <2>1 DEF SessionType
  <2>4. session' = [session EXCEPT ![t] = r]
    BY <1>4, <2>1 DEF GoTo, Become
  <2>5. SoundSession(t, r)'
    BY <1>2, <2>2, <2>3 DEF SoundSession
  <2> QED
    BY <1>2, <2>2, <2>4, <2>5, SessionStep
<1> QED
  BY <1>3, <1>4

(* A command that is about to initialise, or leaves it.                    *)
LEMMA InitialiseIsSound ==
  ASSUME CommandInv, NEW t \in Terminal, Initialise(t) \/ Select(t)
  PROVE  CommandInv'
<1>1. session[t] # Nil /\ session[t].stage \in {"run", "select"}
  BY DEF Initialise, Select, Running, InStage
<1>2. CASE Select(t) /\ InitWrites(t)
           /\ IF session[t].menu THEN GoTo(t, "ask") ELSE Finish(t)
  <2>1. CASE session[t].menu
    BY <1>1, <1>2, <2>1, WriterGetsOn
  <2>2. CASE ~ session[t].menu
    BY <1>1, <1>2, <2>2, WriterGetsOn
  <2> QED
    BY <2>1, <2>2
<1>3. CASE /\ GoTo(t, "select") \/ Finish(t)
           /\ NothingSent /\ UNCHANGED <<homeVars, wish, author>> /\ Bounds
  <2>1. BaseRight(base)' /\ stale' \in SUBSET disk /\ EffectRight'
    BY <1>3, SilenceIsRight DEF homeVars, CommandInv, HomeInv, BaseRight
  <2>2. "select" \notin MenuStage
    BY DEF MenuStage
  <2> QED
    BY <1>1, <1>3, <2>1, <2>2, GettingOn DEF homeVars
<1> QED
  BY <1>2, <1>3 DEF Initialise, Select

(* The steps of the onboarding. *)
LEMMA StepOneIsSound ==
  ASSUME CommandInv, NEW t \in Terminal, StepOne(t) \/ StepOneSelect(t)
  PROVE  CommandInv'
<1>1. /\ session[t] # Nil /\ session[t].menu
      /\ session[t].stage \in {"step 1", "select in step 1"}
  BY DEF StepOne, StepOneSelect, InStage, CommandInv, SoundSession, MenuStage
<1>2. CASE InitWrites(t) /\ GoTo(t, "limit")
  BY <1>1, <1>2, WriterGetsOn
<1>3. CASE /\ GoTo(t, "select in step 1") \/ Finish(t)
           /\ NothingSent /\ UNCHANGED <<homeVars, wish, author>> /\ Bounds
  <2>1. BaseRight(base)' /\ stale' \in SUBSET disk /\ EffectRight'
    BY <1>3, SilenceIsRight DEF homeVars, CommandInv, HomeInv, BaseRight
  <2> QED
    BY <1>1, <1>3, <2>1, GettingOn DEF homeVars
<1> QED
  BY <1>2, <1>3 DEF StepOne, StepOneSelect

LEMMA RefusedIsSound ==
  ASSUME CommandInv, NEW t \in Terminal, StepOneRefused(t)
  PROVE  CommandInv'
<1> USE CommandAssumption
<1> DEFINE s == session[t]
           q == [s EXCEPT !.refused = @ \/ s.wizard]
           r == [q EXCEPT !.stage = "over"]
<1>1. /\ s # Nil /\ s.stage = "step 1" /\ s.menu
      /\ s \in SessionType /\ SoundSession(t, s)
  BY DEF StepOneRefused, InStage, CommandInv, SoundSession, MenuStage
<1>2. settings # Nil /\ UNCHANGED <<settings, base, disk, stale, wish, author>> /\ Bounds
      /\ EffectRight'
  BY SilenceIsRight DEF StepOneRefused, homeVars
<1>3. ~ s.shown.config /\ ~ s.refused
  BY <1>1 DEF SoundSession
<1>4. q \in SessionType /\ q.menu = s.menu
  BY <1>1 DEF SessionType
<1>5. session' = [session EXCEPT ![t] = r]
  BY <1>1, <1>4 DEF StepOneRefused, Become, Ended
<1>6. /\ r \in SessionType /\ r.stage = "over" /\ r.cfg = s.cfg /\ r.wish = s.wish
      /\ r.shown = s.shown /\ r.wizard = s.wizard /\ r.menu = s.menu
      /\ r.refused => s.wizard
  BY <1>1, <1>3 DEF SessionType
<1> HIDE DEF q, r
<1>7. SoundSession(t, r)
  BY <1>1, <1>2, <1>6 DEF SoundSession
<1>8. BaseRight(base)' /\ stale' \in SUBSET disk
  BY <1>2 DEF CommandInv, HomeInv, BaseRight
<1> QED
  BY <1>2, <1>5, <1>6, <1>7, <1>8, QuietStep

LEMMA StepLimitIsSound ==
  ASSUME CommandInv, NEW t \in Terminal, StepLimit(t)
  PROVE  CommandInv'
<1>1. session[t] # Nil /\ session[t].stage = "limit" /\ session[t].menu
  BY DEF StepLimit, InStage, CommandInv, SoundSession, MenuStage
<1>2. BaseRight(base)' /\ stale' \in SUBSET disk /\ EffectRight'
  BY SilenceIsRight DEF StepLimit, homeVars, CommandInv, HomeInv, BaseRight
<1> QED
  BY <1>1, <1>2, GettingOn DEF StepLimit, homeVars

LEMMA LaterStepsAreSound ==
  ASSUME CommandInv, NEW t \in Terminal, StepTwo(t) \/ StepThree(t)
  PROVE  CommandInv'
<1>1. /\ session[t] # Nil /\ session[t].menu /\ session[t].stage # "over"
  BY DEF StepTwo, StepThree, InStage, CommandInv, SoundSession, MenuStage
<1>2. /\ UNCHANGED <<settings, disk, stale, wish, author>> /\ Bounds /\ EffectRight'
      /\ base' \in {Opened, base}
  BY SilenceIsRight DEF StepTwo, StepThree, homeVars
<1>3. BaseRight(base)' /\ stale' \in SUBSET disk
  BY <1>2, OpenedIs DEF CommandInv, HomeInv, BaseRight
<1>4. Finish(t) \/ \E to \in {"chart", "step 3", "over"} : GoTo(t, to)
  BY DEF StepTwo, StepThree
<1> QED
  BY <1>1, <1>2, <1>3, <1>4, GettingOn

LEMMA UserIsSound ==
  ASSUME CommandInv, User
  PROVE  CommandInv'
<1> USE CommandAssumption
<1>1. /\ changes' \in 0 .. MaxChanges /\ started' = started /\ session' = session
      /\ EffectRight'
  BY SilenceIsRight DEF User, CommandInv, HomeInv
<1>2. CASE EditSettings
  <2>1. PICK agreed \in BOOLEAN :
          /\ settings' = [LoadedSettings EXCEPT !.vlm = TRUE, !.consent = agreed]
          /\ wish' = IF agreed THEN "yes" ELSE IF wish = "none" THEN "none" ELSE "no"
    BY <1>2 DEF EditSettings
  <2>2. LoadedSettings \in SettingsType
    BY DEF LoadedSettings, DefaultSettings, SettingsType, CommandInv, HomeInv
  <2>3. settings' \in SettingsType /\ settings'.consent = agreed
    BY <2>1, <2>2 DEF SettingsType
  <2>4. /\ settings' # Nil /\ wish' \in Answer /\ (wish' = "none" => wish = "none")
        /\ settings'.consent => wish' \in Agreed
    BY <2>1, <2>3 DEF Answer, Agreed
  <2>5. UNCHANGED <<base, disk, stale, tokenizer, author>>
    BY <1>2 DEF EditSettings
  <2>6. HomeInv'
    BY <1>1, <2>3, <2>4, <2>5 DEF CommandInv, HomeInv, BaseRight
  <2>7. ASSUME NEW t \in Terminal, session[t] # Nil
        PROVE  SoundSession(t, session[t])'
    BY <1>1, <2>4, <2>5, <2>7 DEF CommandInv, SoundSession
  <2> QED
    BY <1>1, <2>6, <2>7 DEF CommandInv
<1>3. CASE EditNotes \/ InstallTokenizer
  <2>1. UNCHANGED <<settings, base, wish, author>>
    BY <1>3 DEF EditNotes, InstallTokenizer
  <2>2. disk' \in SUBSET NoteFile /\ stale' \in SUBSET disk'
    BY <1>3 DEF EditNotes, InstallTokenizer, CommandInv, HomeInv
  <2>3. HomeInv'
    BY <1>1, <2>1, <2>2 DEF CommandInv, HomeInv, BaseRight
  <2> QED
    BY <1>1, <2>1, <2>3 DEF CommandInv, SoundSession
<1> QED
  BY <1>2, <1>3 DEF User

LEMMA NextCommandInv == CommandInv /\ [CommandNext]_commandVars => CommandInv'
<1> SUFFICES ASSUME CommandInv, [CommandNext]_commandVars PROVE CommandInv'
  OBVIOUS
<1>1. CASE User
  BY <1>1, UserIsSound
<1>2. CASE Dredge \/ DeleteNote \/ Read
  BY <1>2, OneShotIsSound
<1>3. ASSUME NEW t \in Terminal,
             \/ StartCommand(t) \/ Over(t) \/ Quit(t)
             \/ ChartStart(t) \/ ConsentYes(t) \/ ConsentNo(t) \/ ChartIndex(t)
             \/ Watch(t) \/ Watched(t)
      PROVE  CommandInv'
  BY <1>3, StartIsSound, OverIsSound, QuitIsSound, ChartStartIsSound,
     ConsentYesIsSound, ConsentNoIsSound, ChartIndexIsSound, WatchIsSound,
     WatchedIsSound
<1>4. ASSUME NEW t \in Terminal,
             \/ Doctor(t) \/ Clean(t) \/ Purge(t)
             \/ Initialise(t) \/ Select(t)
             \/ ChooseOnboarding(t) \/ Choose(t) \/ AskOnboarding(t)
             \/ StepOne(t) \/ StepOneRefused(t) \/ StepOneSelect(t)
             \/ StepLimit(t) \/ StepTwo(t) \/ StepThree(t)
      PROVE  CommandInv'
  BY <1>4, BuildersAreSound, InitialiseIsSound, MenuIsSound, StepOneIsSound,
     RefusedIsSound, StepLimitIsSound, LaterStepsAreSound
<1>5. CASE UNCHANGED commandVars
  BY <1>5 DEF commandVars, homeVars, CommandInv, HomeInv, BaseRight, EffectRight,
              SoundSession
<1> QED
  BY <1>1, <1>2, <1>3, <1>4, <1>5 DEF CommandNext

LEMMA CommandInvHolds == CommandSpec => []CommandInv
<1>1. CommandInit => CommandInv
  BY InitCommandInv
<1>2. CommandInv /\ [CommandNext]_commandVars => CommandInv'
  BY NextCommandInv
<1> QED
  BY <1>1, <1>2, PTL DEF CommandSpec

(* Page images are sent to the VLM only by a process whose user agreed, in *)
(* its own prompt or in config.toml when it read that, or after an init    *)
(* has written the consent of its start over a no (run_chart, run_scan,    *)
(* index_file_with_embedder, run_init).                                    *)
THEOREM ImagesAreAgreedTo == CommandSpec => []ImagesNeedConsent
<1>1. CommandInv => ImagesNeedConsent
  <2> SUFFICES ASSUME CommandInv PROVE ImagesNeedConsent
    OBVIOUS
  <2>1. CommandTypeOK
    BY DEF CommandInv, HomeInv, BaseRight, SessionType, CommandTypeOK
  <2> QED
    BY <2>1 DEF CommandInv, EffectRight, ImagesNeedConsent, Agreed
<1> QED
  BY <1>1, CommandInvHolds, PTL

(* The menu's Onboarding never refuses the config.toml that it wrote       *)
(* itself, and one of another origin only once (run_welcome,               *)
(* run_onboarding, run_init).                                              *)
THEOREM WizardsResume == CommandSpec => WizardResumes
<1>1. CommandInv =>
        [\A t \in Terminal :
           StepOneRefused(t) => author # t /\ ~ session[t].refused]_commandVars
  BY DEF CommandInv, SoundSession, StepOneRefused, InStage
<1> QED
  BY <1>1, CommandInvHolds, PTL DEF WizardResumes

-----------------------------------------------------------------------------
(***************************************************************************)
(* The list of files.  Every file has a position in the list of all files: *)
(* the sizes of the vaults before its own, and its place in its own.  What *)
(* the client has got, and the page, are the files of a range of positions.*)
(***************************************************************************)
LEMMA SumsAre ==
  ASSUME NEW s \in Seq(Nat)
  PROVE  /\ Sums(s) \in [0 .. Len(s) -> Nat]
         /\ Sums(s)[0] = 0
         /\ \A k \in 1 .. Len(s) : Sums(s)[k] = Sums(s)[k - 1] + s[k]
<1> DEFINE AddsUp(g, n) == /\ g \in [0 .. n -> Nat] /\ g[0] = 0
                         /\ \A k \in 1 .. n : g[k] = g[k - 1] + s[k]
           Without == {n \in 0 .. Len(s) : ~ \E g : AddsUp(g, n)}
<1>1. Len(s) \in Nat /\ \A k \in 1 .. Len(s) : s[k] \in Nat
  BY LenProperties, ElementOfSeq
<1>2. Without = {}
  <2> SUFFICES ASSUME Without # {} PROVE FALSE
    OBVIOUS
  <2>1. Without \in SUBSET Nat
    BY <1>1
  <2>2. PICK n \in Without : \A k \in Without : n <= k
    BY <2>1, LeastNumber
  <2>3. n \in 0 .. Len(s) /\ ~ \E g : AddsUp(g, n)
    BY <2>2
  <2>4. CASE n = 0
    <3>1. AddsUp([k \in 0 .. 0 |-> 0], 0)
      OBVIOUS
    <3> QED
      BY <2>3, <2>4, <3>1
  <2>5. CASE n # 0
    <3> DEFINE m == n - 1
    <3>0. m \in 0 .. Len(s) /\ m < n /\ n \in Nat
      BY <1>1, <2>3, <2>5
    <3>1. m \notin Without
      <4> HIDE DEF m, Without
      <4> QED
        BY <2>2, <3>0
    <3>2. PICK g : AddsUp(g, n - 1)
      BY <3>0, <3>1
    <3> DEFINE h == [k \in 0 .. n |-> IF k = n THEN g[n - 1] + s[n] ELSE g[k]]
    <3>3. h \in [0 .. n -> Nat] /\ h[0] = 0
      BY <1>1, <2>3, <2>5, <3>2
    <3>4. ASSUME NEW k \in 1 .. n PROVE h[k] = h[k - 1] + s[k]
      BY <1>1, <2>3, <2>5, <3>2
    <3> QED
      BY <2>3, <3>3, <3>4
  <2> QED
    BY <2>4, <2>5
<1>3. PICK g : AddsUp(g, Len(s))
  <2>1. Len(s) \in 0 .. Len(s)
    BY <1>1
  <2>2. Len(s) \notin Without
    BY <1>2
  <2> HIDE DEF AddsUp
  <2> QED
    BY <2>1, <2>2
<1> DEFINE F(x) == [k \in 0 .. Len(s) |-> IF k = 0 THEN 0 ELSE x[k - 1] + s[k]]
<1>4. g = F(g)
  <2>1. \A k \in 0 .. Len(s) : g[k] = IF k = 0 THEN 0 ELSE g[k - 1] + s[k]
    BY <1>1, <1>3
  <2>2. g = [k \in 0 .. Len(s) |-> g[k]]
    BY <1>3
  <2> QED
    BY <2>1, <2>2
<1>5. Sums(s) = CHOOSE x : x = F(x)
  BY DEF Sums
<1>6. Sums(s) = F(Sums(s))
  BY <1>4, <1>5
<1>7. \A k \in 0 .. Len(s) : Sums(s)[k] = IF k = 0 THEN 0 ELSE Sums(s)[k - 1] + s[k]
  BY <1>6
<1>8. DOMAIN Sums(s) = 0 .. Len(s) /\ Sums(s) = [k \in 0 .. Len(s) |-> Sums(s)[k]]
  BY <1>6
<1> DEFINE T == Sums(s)
<1>9. \A k \in 0 .. Len(s) : T[k] = g[k]
  <2> DEFINE Differ == {k \in 0 .. Len(s) : T[k] # g[k]}
  <2> SUFFICES ASSUME Differ # {} PROVE FALSE
    OBVIOUS
  <2>1. Differ \in SUBSET Nat
    BY <1>1
  <2>2. PICK n \in Differ : \A k \in Differ : n <= k
    BY <2>1, LeastNumber
  <2>3. n \in 0 .. Len(s) /\ T[n] # g[n]
    BY <2>2
  <2>4. n # 0 => T[n - 1] = g[n - 1]
    BY <1>1, <2>2, <2>3
  <2> HIDE DEF T
  <2> QED
    BY <1>1, <1>3, <1>7, <2>3, <2>4 DEF T
<1> HIDE DEF T
<1>10. T \in [0 .. Len(s) -> Nat]
  BY <1>3, <1>8, <1>9 DEF T
<1> QED
  BY <1>1, <1>7, <1>10 DEF T

LEMMA SumsGrow ==
  ASSUME NEW s \in Seq(Nat), NEW m \in 0 .. Len(s), NEW n \in 0 .. Len(s), m <= n
  PROVE  Sums(s)[m] <= Sums(s)[n]
<1> DEFINE T == Sums(s)
           Less == {k \in 0 .. Len(s) : m <= k /\ ~ (T[m] <= T[k])}
<1>1. /\ T \in [0 .. Len(s) -> Nat] /\ Len(s) \in Nat
      /\ \A k \in 1 .. Len(s) : T[k] = T[k - 1] + s[k] /\ s[k] \in Nat
  BY SumsAre, LenProperties, ElementOfSeq
<1> HIDE DEF T
<1>0. \A k \in 0 .. Len(s) : T[k] \in Nat
  BY <1>1
<1>2. Less = {}
  <2> SUFFICES ASSUME Less # {} PROVE FALSE
    OBVIOUS
  <2>1. Less \in SUBSET Nat
    BY <1>1
  <2>2. PICK k \in Less : \A j \in Less : k <= j
    BY <2>1, LeastNumber
  <2>3. k \in 0 .. Len(s) /\ m <= k /\ ~ (T[m] <= T[k])
    BY <2>2
  <2>4. k # m
    <3>1. T[m] \in Nat
      BY <1>0
    <3>2. T[m] <= T[m]
      BY <3>1
    <3> QED
      BY <2>3, <3>2
  <2>5. k \in 1 .. Len(s) /\ k - 1 \in 0 .. Len(s) /\ m <= k - 1 /\ k - 1 \notin Less
    BY <1>1, <2>2, <2>3, <2>4
  <2>6. T[m] <= T[k - 1]
    BY <2>5
  <2>7. T[m] \in Nat /\ T[k - 1] \in Nat /\ T[k] = T[k - 1] + s[k] /\ s[k] \in Nat
    BY <1>0, <1>1, <2>5
  <2> QED
    BY <2>3, <2>6, <2>7
<1> QED
  BY <1>2 DEF T

(* The paths of a vault have the places 0 .. their number - 1. *)
LEMMA PathPlace ==
  ASSUME NEW S \in SUBSET Nat, IsFiniteSet(S), NEW f \in S
  PROVE  /\ PathsBefore(S, f) \in 0 .. Cardinality(S) - 1
         /\ \A g \in S : g < f => PathsBefore(S, g) < PathsBefore(S, f)
<1> DEFINE Under(x) == {g \in S : g < x}
<1>1. ASSUME NEW x \in S
      PROVE  /\ IsFiniteSet(Under(x)) /\ Cardinality(Under(x)) \in Nat
             /\ PathsBefore(S, x) = Cardinality(Under(x))
  <2>1. Under(x) \in SUBSET S
    OBVIOUS
  <2>2. IsFiniteSet(Under(x))
    BY <2>1, FS_Subset
  <2> QED
    BY <2>2, FS_CardinalityType DEF PathsBefore
<1>2. Cardinality(Under(f)) < Cardinality(S)
  <2>1. Under(f) \in SUBSET S /\ f \notin Under(f)
    OBVIOUS
  <2>2. /\ Cardinality(Under(f)) <= Cardinality(S)
        /\ Cardinality(S) = Cardinality(Under(f)) => S = Under(f)
    BY <2>1, FS_Subset
  <2>3. Cardinality(S) \in Nat
    BY FS_CardinalityType
  <2> HIDE DEF Under
  <2> QED
    BY <1>1, <2>1, <2>2, <2>3
<1>3. ASSUME NEW g \in S, g < f
      PROVE  Cardinality(Under(g)) < Cardinality(Under(f))
  <2>1. Under(g) \in SUBSET Under(f) /\ g \in Under(f) /\ g \notin Under(g)
    <3>1. \A x \in S : x < g => x < f
      BY <1>3
    <3>2. ~ (g < g)
      OBVIOUS
    <3> QED
      BY <1>3, <3>1, <3>2
  <2>2. IsFiniteSet(Under(f)) /\ Cardinality(Under(f)) \in Nat /\ Cardinality(Under(g)) \in Nat
    BY <1>1
  <2> HIDE DEF Under
  <2>3. /\ Cardinality(Under(g)) <= Cardinality(Under(f))
        /\ Cardinality(Under(f)) = Cardinality(Under(g)) => Under(f) = Under(g)
    BY <2>1, <2>2, FS_Subset
  <2> QED
    BY <2>1, <2>2, <2>3
<1>4. Cardinality(S) \in Nat
  BY FS_CardinalityType
<1> HIDE DEF Under
<1> QED
  BY <1>1, <1>2, <1>3, <1>4

LEMMA NthIs ==
  ASSUME NEW S \in SUBSET Nat, IsFiniteSet(S), NEW k \in 0 .. Cardinality(S) - 1
  PROVE  Nth(S, k) \in S /\ PathsBefore(S, Nth(S, k)) = k
<1> DEFINE place == [f \in S |-> PathsBefore(S, f)]
           T == 0 .. Cardinality(S) - 1
<1>1. Cardinality(S) \in Nat
  BY FS_CardinalityType
<1>2. \A f \in S : PathsBefore(S, f) \in T
  BY PathPlace
<1>3. ASSUME NEW f \in S, NEW g \in S, PathsBefore(S, f) = PathsBefore(S, g)
      PROVE  f = g
  <2>1. PathsBefore(S, f) \in Nat /\ PathsBefore(S, g) \in Nat
    BY <1>1, <1>2
  <2>2. f < g => PathsBefore(S, f) < PathsBefore(S, g)
    BY PathPlace
  <2>3. g < f => PathsBefore(S, g) < PathsBefore(S, f)
    BY PathPlace
  <2>4. ~ (f < g) /\ ~ (g < f)
    BY <1>3, <2>1, <2>2, <2>3
  <2> QED
    BY <2>4
<1>4. place \in Injection(S, T)
  <2>1. place \in [S -> T]
    BY <1>2
  <2>2. ASSUME NEW f \in S, NEW g \in S, place[f] = place[g] PROVE f = g
    <3>1. PathsBefore(S, f) = PathsBefore(S, g)
      BY <2>2
    <3> QED
      BY <1>3, <3>1
  <2> QED
    BY <2>1, <2>2 DEF Injection, IsInjective
<1>5. IsFiniteSet(T) /\ Cardinality(T) = Cardinality(S)
  <2>0. 0 \in Int /\ Cardinality(S) - 1 \in Int
    BY <1>1
  <2>1. /\ IsFiniteSet(T)
        /\ Cardinality(T) = IF 0 > Cardinality(S) - 1 THEN 0 ELSE (Cardinality(S) - 1) - 0 + 1
    BY <2>0, FS_Interval
  <2> QED
    BY <1>1, <2>1
<1>6. k \in T
  OBVIOUS
<1> HIDE DEF place, T
<1>7. place \in Surjection(S, T)
  BY <1>4, <1>5, FS_Injection
<1>8. \E f \in S : place[f] = k
  BY <1>6, <1>7 DEF Surjection
<1>9. \E f \in S : PathsBefore(S, f) = k
  BY <1>8 DEF place
<1> QED
  BY <1>9 DEF Nth

Item == VaultNo \X Nat
Shelf == [VaultNo -> SUBSET (1 .. MaxFiles)]
Listed(s, x) == \E i \in 1 .. Len(s) : s[i] = x

LEMMA NumbersFinite ==
  IsFiniteSet(1 .. MaxFiles)
<1>1. 1 \in Int /\ MaxFiles \in Int
  BY ListAssumption
<1> QED
  BY <1>1, FS_Interval

LEMMA PathsFinite ==
  ASSUME files \in Shelf, NEW v \in VaultNo
  PROVE  /\ files[v] \in SUBSET Nat /\ IsFiniteSet(files[v])
         /\ Cardinality(files[v]) \in Nat
<1>1. files[v] \in SUBSET (1 .. MaxFiles)
  BY DEF Shelf
<1>2. IsFiniteSet(1 .. MaxFiles)
  BY NumbersFinite
<1>3. IsFiniteSet(files[v])
  BY <1>1, <1>2, FS_Subset
<1> QED
  BY <1>1, <1>2, <1>3, FS_CardinalityType

(* A slice is the files of a vault in a range of places. *)
LEMMA SliceIs ==
  ASSUME files \in Shelf, NEW v \in VaultNo, NEW skip \in Nat, NEW take \in Nat
  PROVE  LET s == Slice(v, skip, take)
         IN  /\ s \in Seq(Item) /\ Len(s) <= take /\ InOrder(s)
             /\ \A i \in 1 .. Len(s) : s[i][1] = v /\ s[i][2] \in files[v]
             /\ \A f \in files[v] :
                  Listed(s, <<v, f>>) <=>
                    /\ skip <= PathsBefore(files[v], f)
                    /\ PathsBefore(files[v], f) < skip + take
<1> DEFINE S == files[v]
           size == Cardinality(S)
           n == LowerOf(take, Minus(size, skip))
           s == Slice(v, skip, take)
<1>1. S \in SUBSET Nat /\ IsFiniteSet(S) /\ size \in Nat
  BY PathsFinite
<1>2. s = [i \in 1 .. n |-> <<v, Nth(S, skip + i - 1)>>]
  BY DEF Slice
<1> HIDE DEF S, s
<1>3. n \in Nat /\ n <= take /\ (n = 0 \/ skip + n <= size)
      /\ (n = take \/ skip + n >= size)
  BY <1>1 DEF LowerOf, Minus
<1> HIDE DEF n, size
<1>4. ASSUME NEW i \in 1 .. n
      PROVE  /\ Nth(S, skip + i - 1) \in S /\ Nth(S, skip + i - 1) \in Nat
             /\ PathsBefore(S, Nth(S, skip + i - 1)) = skip + i - 1
             /\ s[i] = <<v, Nth(S, skip + i - 1)>>
  <2>1. skip + i - 1 \in 0 .. size - 1
    BY <1>1, <1>3
  <2> QED
    BY <1>1, <1>2, <2>1, NthIs DEF size
<1>5. s \in Seq(Item) /\ Len(s) = n
  <2>1. \A i \in 1 .. n : <<v, Nth(S, skip + i - 1)>> \in Item
    BY <1>4 DEF Item
  <2>2. s \in [1 .. n -> Item]
    BY <1>2, <2>1
  <2> QED
    BY <1>3, <2>2, LenProperties, SeqDef
<1>6. InOrder(s)
  <2> SUFFICES ASSUME NEW i \in 1 .. n, NEW j \in 1 .. n, i < j
               PROVE  Earlier(s[i], s[j])
    BY <1>5 DEF InOrder
  <2> DEFINE a == Nth(S, skip + i - 1)
             b == Nth(S, skip + j - 1)
  <2>1. /\ a \in S /\ b \in S /\ s[i] = <<v, a>> /\ s[j] = <<v, b>>
        /\ PathsBefore(S, a) = skip + i - 1 /\ PathsBefore(S, b) = skip + j - 1
    BY <1>4
  <2> HIDE DEF a, b
  <2>2. b < a => PathsBefore(S, b) < PathsBefore(S, a)
    BY <1>1, <2>1, PathPlace
  <2>3. ~ (b < a) /\ a # b
    BY <1>3, <2>1, <2>2
  <2>4. a < b
    BY <1>1, <2>1, <2>3
  <2> QED
    BY <2>1, <2>4 DEF Earlier
<1>7. \A i \in 1 .. n : s[i][1] = v /\ s[i][2] \in S
  BY <1>4
<1>8. ASSUME NEW f \in S
      PROVE  Listed(s, <<v, f>>) <=>
               skip <= PathsBefore(S, f) /\ PathsBefore(S, f) < skip + take
  <2>1. ASSUME Listed(s, <<v, f>>)
        PROVE  skip <= PathsBefore(S, f) /\ PathsBefore(S, f) < skip + take
    <3>1. PICK i \in 1 .. n : s[i] = <<v, f>>
      BY <1>5, <2>1 DEF Listed
    <3>2. f = Nth(S, skip + i - 1)
      BY <1>4, <3>1
    <3>3. PathsBefore(S, f) = skip + i - 1
      BY <1>4, <3>2
    <3> QED
      BY <1>3, <3>3
  <2>2. ASSUME skip <= PathsBefore(S, f), PathsBefore(S, f) < skip + take
        PROVE  Listed(s, <<v, f>>)
    <3> DEFINE i == PathsBefore(S, f) - skip + 1
    <3>1. PathsBefore(S, f) \in 0 .. size - 1
      BY <1>1, PathPlace DEF size
    <3>2. i \in 1 .. n /\ skip + i - 1 = PathsBefore(S, f)
      BY <1>1, <1>3, <2>2, <3>1
    <3> HIDE DEF i
    <3> DEFINE g == Nth(S, skip + i - 1)
    <3>3. g \in S /\ PathsBefore(S, g) = PathsBefore(S, f) /\ s[i] = <<v, g>>
      BY <1>4, <3>2
    <3> HIDE DEF g
    <3>4. (f < g => PathsBefore(S, f) < PathsBefore(S, g))
          /\ (g < f => PathsBefore(S, g) < PathsBefore(S, f))
      BY <1>1, <3>3, PathPlace
    <3>5. ~ (f < g) /\ ~ (g < f)
      BY <1>1, <3>1, <3>3, <3>4
    <3>6. f = g
      BY <1>1, <3>3, <3>5
    <3> QED
      BY <1>5, <3>2, <3>3, <3>6 DEF Listed
  <2> QED
    BY <2>1, <2>2
<1> QED
  BY <1>3, <1>5, <1>6, <1>7, <1>8 DEF S, s

(* What is in a sequence after another. *)
LEMMA JoinIs ==
  ASSUME NEW s \in Seq(Item), NEW t \in Seq(Item)
  PROVE  /\ s \o t \in Seq(Item) /\ Len(s \o t) = Len(s) + Len(t)
         /\ Len(s) \in Nat /\ Len(t) \in Nat
         /\ \A x : Listed(s \o t, x) <=> Listed(s, x) \/ Listed(t, x)
         /\ (/\ InOrder(s) /\ InOrder(t)
             /\ \A i \in 1 .. Len(s), j \in 1 .. Len(t) : Earlier(s[i], t[j]))
              => InOrder(s \o t)
<1> DEFINE r == s \o t
<1>1. Len(s) \in Nat /\ Len(t) \in Nat
  BY LenProperties
<1>2. /\ r \in Seq(Item) /\ Len(r) = Len(s) + Len(t)
      /\ \A i \in 1 .. Len(s) + Len(t) : r[i] = IF i <= Len(s) THEN s[i] ELSE t[i - Len(s)]
  BY ConcatProperties
<1> HIDE DEF r
<1>3. \A i \in 1 .. Len(s) : i \in 1 .. Len(r) /\ r[i] = s[i]
  BY <1>1, <1>2
<1>4. \A j \in 1 .. Len(t) : Len(s) + j \in 1 .. Len(r) /\ r[Len(s) + j] = t[j]
  <2> SUFFICES ASSUME NEW j \in 1 .. Len(t)
               PROVE  Len(s) + j \in 1 .. Len(r) /\ r[Len(s) + j] = t[j]
    OBVIOUS
  <2>1. Len(s) + j \in 1 .. Len(s) + Len(t) /\ ~ (Len(s) + j <= Len(s))
        /\ (Len(s) + j) - Len(s) = j
    BY <1>1
  <2>2. r[Len(s) + j] = t[(Len(s) + j) - Len(s)]
    BY <1>2, <2>1
  <2> QED
    BY <1>2, <2>1, <2>2
<1>5. ASSUME NEW k \in 1 .. Len(r)
      PROVE  \/ k \in 1 .. Len(s) /\ r[k] = s[k]
             \/ \E j \in 1 .. Len(t) : k = Len(s) + j /\ r[k] = t[j]
  <2>1. CASE k <= Len(s)
    BY <1>1, <1>2, <2>1
  <2>2. CASE ~ (k <= Len(s))
    <3>1. k - Len(s) \in 1 .. Len(t) /\ k = Len(s) + (k - Len(s))
      BY <1>1, <1>2, <2>2
    <3>2. r[k] = t[k - Len(s)]
      BY <1>2, <2>2
    <3> QED
      BY <3>1, <3>2
  <2> QED
    BY <2>1, <2>2
<1>6. \A x : Listed(r, x) <=> Listed(s, x) \/ Listed(t, x)
  <2>1. ASSUME NEW x, Listed(r, x) PROVE Listed(s, x) \/ Listed(t, x)
    BY <1>5, <2>1 DEF Listed
  <2>2. ASSUME NEW x, Listed(s, x) PROVE Listed(r, x)
    BY <1>3, <2>2 DEF Listed
  <2>3. ASSUME NEW x, Listed(t, x) PROVE Listed(r, x)
    <3>1. PICK j \in 1 .. Len(t) : t[j] = x
      BY <2>3 DEF Listed
    <3> QED
      BY <1>4, <3>1 DEF Listed
  <2> QED
    BY <2>1, <2>2, <2>3
<1>7. ASSUME InOrder(s), InOrder(t),
             \A i \in 1 .. Len(s), j \in 1 .. Len(t) : Earlier(s[i], t[j])
      PROVE  InOrder(r)
  <2> SUFFICES ASSUME NEW a \in 1 .. Len(r), NEW b \in 1 .. Len(r), a < b
               PROVE  Earlier(r[a], r[b])
    BY DEF InOrder
  <2>1. CASE a \in 1 .. Len(s) /\ b \in 1 .. Len(s)
    BY <1>3, <1>7, <2>1 DEF InOrder
  <2>2. CASE a \in 1 .. Len(s) /\ b \notin 1 .. Len(s)
    BY <1>3, <1>5, <1>7, <2>2
  <2>3. CASE a \notin 1 .. Len(s)
    <3>1. PICK i \in 1 .. Len(t) : a = Len(s) + i /\ r[a] = t[i]
      BY <1>5, <2>3
    <3>2. b \notin 1 .. Len(s)
      BY <1>1, <3>1
    <3>3. PICK j \in 1 .. Len(t) : b = Len(s) + j /\ r[b] = t[j]
      BY <1>5, <3>2
    <3>4. i < j
      BY <1>1, <3>1, <3>3
    <3> QED
      BY <1>7, <3>1, <3>3, <3>4 DEF InOrder
  <2> QED
    BY <2>1, <2>2, <2>3
<1> QED
  BY <1>1, <1>2, <1>6, <1>7 DEF r

SizesOf(fs) == [v \in VaultNo |-> Cardinality(fs[v])]
FilesUpTo(fs, v) == Sums(SizesOf(fs))[v]
Position(fs, v, f) == FilesUpTo(fs, v - 1) + PathsBefore(fs[v], f)

LEMMA FilesUpToIs ==
  ASSUME NEW fs \in Shelf
  PROVE  /\ SizesOf(fs) \in Seq(Nat) /\ Len(SizesOf(fs)) = VaultCount
         /\ \A v \in 0 .. VaultCount : FilesUpTo(fs, v) \in Nat
         /\ FilesUpTo(fs, 0) = 0
         /\ \A v \in VaultNo : /\ Cardinality(fs[v]) \in Nat
                               /\ FilesUpTo(fs, v) = FilesUpTo(fs, v - 1) + Cardinality(fs[v])
         /\ \A u, v \in 0 .. VaultCount : u <= v => FilesUpTo(fs, u) <= FilesUpTo(fs, v)
<1>0. VaultCount \in Nat /\ VaultNo = 1 .. VaultCount
  BY ListAssumption DEF VaultNo
<1>1. ASSUME NEW v \in VaultNo PROVE Cardinality(fs[v]) \in Nat
  <2>1. fs[v] \in SUBSET (1 .. MaxFiles)
    BY DEF Shelf
  <2>3. IsFiniteSet(1 .. MaxFiles)
    BY NumbersFinite
  <2>4. IsFiniteSet(fs[v])
    BY <2>1, <2>3, FS_Subset
  <2> QED
    BY <2>4, FS_CardinalityType
<1>2. SizesOf(fs) \in [1 .. VaultCount -> Nat]
  BY <1>0, <1>1 DEF SizesOf
<1>3. SizesOf(fs) \in Seq(Nat) /\ Len(SizesOf(fs)) = VaultCount
  BY <1>0, <1>2, LenProperties, SeqDef
<1>4. \A v \in VaultNo : SizesOf(fs)[v] = Cardinality(fs[v])
  BY DEF SizesOf
<1>5. /\ Sums(SizesOf(fs)) \in [0 .. VaultCount -> Nat] /\ Sums(SizesOf(fs))[0] = 0
      /\ \A v \in 1 .. VaultCount :
           Sums(SizesOf(fs))[v] = Sums(SizesOf(fs))[v - 1] + SizesOf(fs)[v]
  BY <1>3, SumsAre
<1>6. \A u, v \in 0 .. VaultCount :
        u <= v => Sums(SizesOf(fs))[u] <= Sums(SizesOf(fs))[v]
  BY <1>3, SumsGrow
<1> QED
  BY <1>0, <1>1, <1>3, <1>4, <1>5, <1>6 DEF FilesUpTo

LEMMA PositionIs ==
  ASSUME NEW fs \in Shelf, NEW v \in VaultNo, NEW f \in fs[v]
  PROVE  /\ Position(fs, v, f) \in Nat
         /\ FilesUpTo(fs, v - 1) <= Position(fs, v, f)
         /\ Position(fs, v, f) < FilesUpTo(fs, v)
         /\ FilesUpTo(fs, v) <= FilesUpTo(fs, VaultCount)
         /\ PathsBefore(fs[v], f) \in Nat
<1>0. VaultCount \in Nat /\ v \in 1 .. VaultCount /\ v - 1 \in 0 .. VaultCount
      /\ v \in 0 .. VaultCount /\ VaultCount \in 0 .. VaultCount /\ v <= VaultCount
  BY ListAssumption DEF VaultNo
<1>1. fs[v] \in SUBSET (1 .. MaxFiles) /\ MaxFiles \in Nat
  BY ListAssumption DEF Shelf
<1>2. fs[v] \in SUBSET Nat /\ IsFiniteSet(fs[v])
  <2>1. IsFiniteSet(1 .. MaxFiles)
    BY NumbersFinite
  <2>2. IsFiniteSet(fs[v])
    BY <1>1, <2>1, FS_Subset
  <2> QED
    BY <1>1, <2>2
<1>3. PathsBefore(fs[v], f) \in 0 .. Cardinality(fs[v]) - 1
  BY <1>2, PathPlace
<1>4. /\ FilesUpTo(fs, v - 1) \in Nat /\ FilesUpTo(fs, v) \in Nat /\ Cardinality(fs[v]) \in Nat
      /\ FilesUpTo(fs, v) = FilesUpTo(fs, v - 1) + Cardinality(fs[v])
      /\ FilesUpTo(fs, v) <= FilesUpTo(fs, VaultCount)
  BY <1>0, FilesUpToIs
<1> QED
  BY <1>3, <1>4 DEF Position

(* Positions are in the order of the list. *)
LEMMA PositionsOrder ==
  ASSUME NEW fs \in Shelf, NEW v \in VaultNo, NEW f \in fs[v],
         NEW w \in VaultNo, NEW g \in fs[w], Position(fs, v, f) < Position(fs, w, g)
  PROVE  Earlier(<<v, f>>, <<w, g>>)
<1>0. VaultCount \in Nat /\ VaultNo = 1 .. VaultCount
  BY ListAssumption DEF VaultNo
<1>1. /\ Position(fs, v, f) \in Nat /\ Position(fs, w, g) \in Nat
      /\ FilesUpTo(fs, v - 1) <= Position(fs, v, f) /\ Position(fs, w, g) < FilesUpTo(fs, w)
  BY PositionIs
<1>2. CASE v < w
  BY <1>2 DEF Earlier
<1>3. CASE w < v
  <2>1. w \in 0 .. VaultCount /\ v - 1 \in 0 .. VaultCount /\ w <= v - 1
    BY <1>0, <1>3
  <2>2. FilesUpTo(fs, w) <= FilesUpTo(fs, v - 1) /\ FilesUpTo(fs, w) \in Nat /\ FilesUpTo(fs, v - 1) \in Nat
    BY <2>1, FilesUpToIs
  <2> QED
    BY <1>1, <2>2
<1>4. CASE v = w
  <2>1. fs[v] \in SUBSET (1 .. MaxFiles) /\ MaxFiles \in Nat
    BY ListAssumption DEF Shelf
  <2>2. IsFiniteSet(1 .. MaxFiles)
    BY NumbersFinite
  <2>3. fs[v] \in SUBSET Nat /\ IsFiniteSet(fs[v]) /\ f \in Nat /\ g \in Nat
    BY <1>4, <2>1, <2>2, FS_Subset
  <2>4. v - 1 \in 0 .. VaultCount
    BY <1>0
  <2>5. /\ FilesUpTo(fs, v - 1) \in Nat
        /\ PathsBefore(fs[v], f) \in Nat /\ PathsBefore(fs[v], g) \in Nat
    BY <1>4, <2>4, FilesUpToIs, PositionIs
  <2>6. PathsBefore(fs[v], f) < PathsBefore(fs[v], g)
    BY <1>4, <2>5 DEF Position
  <2>7. ~ (g < f) /\ g # f
    <3>1. g < f => PathsBefore(fs[v], g) < PathsBefore(fs[v], f)
      BY <1>4, <2>3, PathPlace
    <3> QED
      BY <2>5, <2>6, <3>1
  <2> QED
    BY <1>4, <2>3, <2>7 DEF Earlier
<1> QED
  BY <1>0, <1>2, <1>3, <1>4

(* A sequence holds the files of a range of positions. *)
HasRange(fs, s, m, n) ==
  /\ \A i \in 1 .. Len(s) : s[i][2] \in fs[s[i][1]]
  /\ \A v \in VaultNo : \A f \in fs[v] :
       Listed(s, <<v, f>>) <=> m <= Position(fs, v, f) /\ Position(fs, v, f) < n

LEMMA HoldsNone ==
  ASSUME NEW fs \in Shelf, NEW m \in Nat
  PROVE  HasRange(fs, <<>>, m, m)
<1>1. Len(<<>>) = 0
  BY EmptySeq
<1>2. ASSUME NEW v \in VaultNo, NEW f \in fs[v]
      PROVE  ~ (m <= Position(fs, v, f) /\ Position(fs, v, f) < m)
  BY PositionIs
<1> QED
  BY <1>1, <1>2 DEF HasRange, Listed

LEMMA HoldsBoth ==
  ASSUME NEW fs \in Shelf, NEW s \in Seq(Item), NEW t \in Seq(Item),
         NEW m \in Nat, NEW n \in Nat, NEW k \in Nat, m <= n, n <= k,
         HasRange(fs, s, m, n), HasRange(fs, t, n, k), InOrder(s), InOrder(t)
  PROVE  HasRange(fs, s \o t, m, k) /\ InOrder(s \o t)
<1>1. /\ Len(s \o t) = Len(s) + Len(t) /\ Len(s) \in Nat /\ Len(t) \in Nat
      /\ s \o t \in Seq(Item)
      /\ \A x : Listed(s \o t, x) <=> Listed(s, x) \/ Listed(t, x)
  BY JoinIs
<1>2. ASSUME NEW v \in VaultNo, NEW f \in fs[v]
      PROVE  Listed(s \o t, <<v, f>>) <=>
               m <= Position(fs, v, f) /\ Position(fs, v, f) < k
  <2>1. Listed(s, <<v, f>>) <=> m <= Position(fs, v, f) /\ Position(fs, v, f) < n
    BY DEF HasRange
  <2>2. Listed(t, <<v, f>>) <=> n <= Position(fs, v, f) /\ Position(fs, v, f) < k
    BY DEF HasRange
  <2>3. Position(fs, v, f) \in Nat
    BY PositionIs
  <2> QED
    BY <1>1, <2>1, <2>2, <2>3
<1>3. ASSUME NEW i \in 1 .. Len(s \o t)
      PROVE  (s \o t)[i][2] \in fs[(s \o t)[i][1]]
  <2>1. Listed(s, (s \o t)[i]) \/ Listed(t, (s \o t)[i])
    BY <1>1 DEF Listed
  <2> QED
    BY <2>1 DEF Listed, HasRange
<1>4. ASSUME NEW i \in 1 .. Len(s), NEW j \in 1 .. Len(t)
      PROVE  Earlier(s[i], t[j])
  <2>1. s[i] \in Item /\ t[j] \in Item
    BY ElementOfSeq
  <2>2. /\ s[i][1] \in VaultNo /\ s[i] = <<s[i][1], s[i][2]>>
        /\ t[j][1] \in VaultNo /\ t[j] = <<t[j][1], t[j][2]>>
    <3>1. \A x \in Item : x[1] \in VaultNo /\ x = <<x[1], x[2]>>
      BY DEF Item
    <3> QED
      BY <2>1, <3>1
  <2>3. s[i][2] \in fs[s[i][1]] /\ t[j][2] \in fs[t[j][1]]
    BY DEF HasRange
  <2>4. Listed(s, <<s[i][1], s[i][2]>>) /\ Listed(t, <<t[j][1], t[j][2]>>)
    BY <2>2 DEF Listed
  <2>5. Position(fs, s[i][1], s[i][2]) < n /\ n <= Position(fs, t[j][1], t[j][2])
    BY <2>2, <2>3, <2>4 DEF HasRange
  <2>6. Position(fs, s[i][1], s[i][2]) \in Nat /\ Position(fs, t[j][1], t[j][2]) \in Nat
    BY <2>2, <2>3, PositionIs
  <2>7. Position(fs, s[i][1], s[i][2]) < Position(fs, t[j][1], t[j][2])
    BY <2>5, <2>6
  <2>8. Earlier(<<s[i][1], s[i][2]>>, <<t[j][1], t[j][2]>>)
    BY <2>2, <2>3, <2>7, PositionsOrder
  <2> QED
    BY <2>2, <2>8
<1> QED
  BY <1>2, <1>3, <1>4, JoinIs DEF HasRange

ListTypes ==
  /\ files \in Shelf /\ changed \in Nat
  /\ client \in [limit : Nat \ {0}, offset : Nat, got : Seq(Item), more : BOOLEAN]
  /\ counts \in Seq(Nat) /\ Len(counts) <= VaultCount
  /\ page \in Seq(Item) /\ toSkip \in Nat /\ toTake \in Nat
  /\ vaultNo \in 0 .. VaultCount + 1

PageInv ==
  /\ vaultNo = 0 => page = <<>> /\ toTake = 0
  /\ vaultNo # 0 => Len(counts) = VaultCount
  /\ Len(page) + toTake <= PageLimit
  /\ InOrder(page)
  /\ \A i \in 1 .. Len(page) : page[i][1] < vaultNo

(* Without a change: what the client has got are the files up to offset,   *)
(* and the page those from there up to its end.                            *)
PageEnd(asked, taken) == asked.offset + LowerOf(asked.limit, MaxLimit) - taken

CountsRight ==
  \A k \in 1 .. Len(counts) : counts[k] = Cardinality(files[k])
GotRight ==
  /\ InOrder(client.got) /\ HasRange(files, client.got, 0, client.offset)
  /\ ~ client.more => FilesUpTo(files, VaultCount) <= client.offset
PageRight ==
  vaultNo # 0 =>
    /\ HasRange(files, page, client.offset, PageEnd(client, toTake))
    /\ toTake > 0 => FilesUpTo(files, vaultNo - 1) + toSkip = PageEnd(client, toTake)

ListInv ==
  /\ ListTypes /\ PageInv
  /\ changed = 0 => CountsRight /\ GotRight /\ PageRight

LEMMA ListNumbers ==
  ASSUME ListTypes
  PROVE  /\ PageLimit \in Nat \ {0} /\ client.offset \in Nat
         /\ PageLimit = LowerOf(client.limit, MaxLimit)
         /\ client.got \in Seq(Item) /\ client.more \in BOOLEAN
         /\ client.limit \in Nat \ {0}
         /\ VaultCount \in Nat /\ VaultNo = 1 .. VaultCount
         /\ Len(page) \in Nat /\ Len(counts) \in Nat
         /\ PageEnd(client, toTake) = client.offset + PageLimit - toTake
<1>1. /\ client.limit \in Nat \ {0} /\ client.offset \in Nat
      /\ client.got \in Seq(Item) /\ client.more \in BOOLEAN
  BY DEF ListTypes
<1>2. MaxLimit \in Nat \ {0} /\ VaultCount \in Nat
  BY ListAssumption
<1>3. LowerOf(client.limit, MaxLimit) \in Nat \ {0}
  BY <1>1, <1>2 DEF LowerOf
<1>4. Len(page) \in Nat /\ Len(counts) \in Nat
  BY LenProperties DEF ListTypes
<1> QED
  BY <1>1, <1>2, <1>3, <1>4 DEF PageLimit, PageEnd, VaultNo

LEMMA InitListInv == ListInit => ListInv
<1> SUFFICES ASSUME ListInit PROVE ListInv
  OBVIOUS
<1>1. /\ <<>> \in Seq(Nat) /\ <<>> \in Seq(Item) /\ Len(<<>>) = 0
  BY EmptySeq
<1>2. /\ files \in Shelf /\ changed = 0 /\ counts = <<>> /\ page = <<>>
      /\ toSkip = 0 /\ toTake = 0 /\ vaultNo = 0
  BY DEF ListInit, Shelf
<1>3. PICK limit \in Asked :
        client = [limit |-> limit, offset |-> 0, got |-> <<>>, more |-> TRUE]
  BY DEF ListInit
<1>4. VaultCount \in Nat /\ Asked \subseteq Nat \ {0}
  BY ListAssumption
<1>5. ListTypes
  BY <1>1, <1>2, <1>3, <1>4 DEF ListTypes
<1>6. InOrder(<<>>)
  BY <1>1 DEF InOrder
<1>7. PageInv
  <2>1. PageLimit \in Nat
    BY <1>5, ListNumbers
  <2> QED
    BY <1>1, <1>2, <1>6, <2>1 DEF PageInv
<1>8. GotRight
  <2>1. HasRange(files, <<>>, 0, 0)
    BY <1>2, HoldsNone
  <2> QED
    BY <1>3, <1>6, <2>1 DEF GotRight
<1> QED
  BY <1>1, <1>2, <1>5, <1>7, <1>8 DEF ListInv, CountsRight, PageRight

LEMMA CountKeeps ==
  ASSUME ListInv, CountVault
  PROVE  ListInv'
<1>1. ListTypes /\ PageInv
  BY DEF ListInv
<1>2. /\ Len(counts) < VaultCount /\ UNCHANGED <<files, page, client>>
      /\ client.more
  BY DEF CountVault
<1>3. /\ PageLimit \in Nat \ {0} /\ client.offset \in Nat /\ VaultCount \in Nat
      /\ VaultNo = 1 .. VaultCount /\ Len(counts) \in Nat
      /\ PageEnd(client, PageLimit) = client.offset + PageLimit - PageLimit
      /\ files \in Shelf
  BY <1>1, ListNumbers DEF PageEnd, ListTypes
<1>4. vaultNo = 0 /\ page = <<>> /\ toTake = 0
  BY <1>1, <1>2, <1>3 DEF PageInv
<1>5. PICK n \in Nat : /\ counts' = Append(counts, n)
                       /\ \/ n = Cardinality(files[Len(counts) + 1]) /\ changed' = changed
                          \/ changed' = changed + 1
  <2>1. Len(counts) + 1 \in VaultNo
    BY <1>2, <1>3
  <2>2. Cardinality(files[Len(counts) + 1]) \in Nat
    BY <1>3, <2>1, PathsFinite
  <2> QED
    BY <2>2 DEF CountVault, Disturbed
<1>6. /\ counts' \in Seq(Nat) /\ Len(counts') = Len(counts) + 1
      /\ \A k \in 1 .. Len(counts) : counts'[k] = counts[k]
      /\ counts'[Len(counts) + 1] = n
  BY <1>1, <1>5, AppendProperties DEF ListTypes
<1>7. \/ /\ Len(counts') = VaultCount
         /\ toSkip' = client.offset /\ toTake' = PageLimit /\ vaultNo' = 1
      \/ /\ Len(counts') # VaultCount
         /\ UNCHANGED <<toSkip, toTake, vaultNo>>
  BY DEF CountVault
<1>8. ListTypes'
  <2>1. changed' \in Nat
    BY <1>1, <1>5 DEF ListTypes
  <2>2. toSkip' \in Nat /\ toTake' \in Nat /\ vaultNo' \in 0 .. VaultCount + 1
    BY <1>1, <1>3, <1>7 DEF ListTypes
  <2>3. Len(counts') <= VaultCount
    BY <1>2, <1>3, <1>6
  <2> QED
    BY <1>1, <1>2, <1>6, <2>1, <2>2, <2>3 DEF ListTypes
<1>9. PageInv'
  <2>1. Len(page) = 0 /\ InOrder(page)
    BY <1>1, <1>4, EmptySeq DEF PageInv
  <2>2. PageLimit' = PageLimit
    BY <1>2 DEF PageLimit
  <2>3. Len(page') + toTake' <= PageLimit'
    BY <1>2, <1>3, <1>4, <1>7, <2>1, <2>2
  <2>4. vaultNo' = 0 => page' = <<>> /\ toTake' = 0
    BY <1>2, <1>4, <1>7
  <2>5. vaultNo' # 0 => Len(counts') = VaultCount
    BY <1>4, <1>7
  <2> QED
    BY <1>2, <2>1, <2>3, <2>4, <2>5 DEF PageInv, InOrder
<1>10. ASSUME changed' = 0
       PROVE  CountsRight' /\ GotRight' /\ PageRight'
  <2>1. /\ changed = 0 /\ n = Cardinality(files[Len(counts) + 1])
    BY <1>1, <1>5, <1>10 DEF ListTypes
  <2>2. CountsRight /\ GotRight
    BY <2>1 DEF ListInv
  <2>3. CountsRight'
    <3> SUFFICES ASSUME NEW k \in 1 .. Len(counts')
                 PROVE  counts'[k] = Cardinality(files'[k])
      BY DEF CountsRight
    <3>1. k \in 1 .. Len(counts) \/ k = Len(counts) + 1
      BY <1>3, <1>6
    <3> QED
      BY <1>2, <1>6, <2>1, <2>2, <3>1 DEF CountsRight
  <2>4. GotRight'
    BY <1>2, <2>2 DEF GotRight, InOrder, HasRange, Listed, Position, FilesUpTo, SizesOf
  <2>5. ASSUME vaultNo' # 0 PROVE PageRight'
    <3>1. toSkip' = client.offset /\ toTake' = PageLimit /\ vaultNo' = 1
      BY <1>4, <1>7, <2>5
    <3>2. PageEnd(client', toTake') = client.offset
      BY <1>2, <1>3, <3>1
    <3>3. HasRange(files', page', client'.offset, PageEnd(client', toTake'))
      BY <1>2, <1>3, <1>4, <3>2, HoldsNone
    <3>4. FilesUpTo(files', vaultNo' - 1) + toSkip' = PageEnd(client', toTake')
      <4>1. vaultNo' - 1 = 0
        BY <3>1
      <4>2. FilesUpTo(files, 0) = 0
        BY <1>3, FilesUpToIs
      <4> QED
        BY <1>2, <1>3, <3>1, <3>2, <4>1, <4>2
    <3> QED
      BY <3>3, <3>4 DEF PageRight
  <2>6. PageRight'
    BY <2>5 DEF PageRight
  <2> QED
    BY <2>3, <2>4, <2>6
<1> QED
  BY <1>8, <1>9, <1>10 DEF ListInv

LEMMA PassKeeps ==
  ASSUME ListInv, PassVault
  PROVE  ListInv'
<1>1. ListTypes /\ PageInv
  BY DEF ListInv
<1>2. /\ vaultNo \in VaultNo /\ toTake > 0 /\ Passed
      /\ toSkip' = Minus(toSkip, counts[vaultNo]) /\ vaultNo' = vaultNo + 1
      /\ UNCHANGED <<files, changed, counts, page, toTake, client>>
  BY DEF PassVault, AtVault
<1>3. /\ VaultCount \in Nat /\ VaultNo = 1 .. VaultCount /\ vaultNo \in Nat /\ vaultNo # 0
      /\ Len(counts) = VaultCount
  BY <1>1, <1>2, ListNumbers DEF PageInv
<1>4. counts[vaultNo] \in Nat /\ toSkip \in Nat
  BY <1>1, <1>2, <1>3, ElementOfSeq DEF ListTypes
<1>5. toSkip' \in Nat /\ toSkip' + counts[vaultNo] = toSkip
  BY <1>2, <1>4 DEF Passed, Minus
<1>6. ListTypes'
  BY <1>1, <1>2, <1>3, <1>5 DEF ListTypes
<1>7. PageInv'
  <2>1. \A i \in 1 .. Len(page) : page[i][1] < vaultNo + 1
    <3> SUFFICES ASSUME NEW i \in 1 .. Len(page) PROVE page[i][1] < vaultNo + 1
      OBVIOUS
    <3>1. page[i] \in Item
      BY <1>1, ElementOfSeq DEF ListTypes
    <3>2. page[i][1] \in Nat
      BY <1>3, <3>1 DEF Item
    <3>3. page[i][1] < vaultNo
      BY <1>1 DEF PageInv
    <3> QED
      BY <1>3, <3>2, <3>3
  <2> QED
    BY <1>1, <1>2, <1>3, <2>1 DEF PageInv, InOrder, PageLimit
<1>8. ASSUME changed' = 0 PROVE CountsRight' /\ GotRight' /\ PageRight'
  <2>1. CountsRight /\ GotRight /\ PageRight
    BY <1>2, <1>8 DEF ListInv
  <2>2. CountsRight' /\ GotRight'
    BY <1>2, <2>1
       DEF CountsRight, GotRight, InOrder, HasRange, Listed, Position, FilesUpTo, SizesOf
  <2>3. /\ HasRange(files, page, client.offset, PageEnd(client, toTake))
        /\ FilesUpTo(files, vaultNo - 1) + toSkip = PageEnd(client, toTake)
    BY <1>2, <1>3, <2>1 DEF PageRight
  <2>4. FilesUpTo(files, vaultNo) + toSkip' = PageEnd(client, toTake)
    <3>1. counts[vaultNo] = Cardinality(files[vaultNo])
      BY <1>2, <1>3, <2>1 DEF CountsRight
    <3>2. files \in Shelf /\ vaultNo - 1 \in 0 .. VaultCount
      BY <1>1, <1>2, <1>3 DEF ListTypes
    <3>3. /\ FilesUpTo(files, vaultNo) = FilesUpTo(files, vaultNo - 1) + counts[vaultNo]
          /\ FilesUpTo(files, vaultNo - 1) \in Nat
      BY <1>2, <3>1, <3>2, FilesUpToIs
    <3> QED
      BY <1>4, <1>5, <2>3, <3>3
  <2>5. /\ HasRange(files', page', client'.offset, PageEnd(client', toTake'))
        /\ FilesUpTo(files', vaultNo' - 1) + toSkip' = PageEnd(client', toTake')
    <3>1. vaultNo' - 1 = vaultNo
      BY <1>2, <1>3
    <3> QED
      BY <1>2, <2>3, <2>4, <3>1
  <2>6. PageRight'
    BY <2>5 DEF PageRight
  <2> QED
    BY <2>2, <2>6
<1> QED
  BY <1>6, <1>7, <1>8 DEF ListInv

(* What is listed of a vault without a change: a range of positions. *)
LEMMA SliceHolds ==
  ASSUME files \in Shelf, NEW v \in VaultNo, NEW skip \in Nat, NEW take \in Nat,
         NEW e \in Nat, FilesUpTo(files, v - 1) + skip = e,
         skip + take <= Cardinality(files[v])
  PROVE  HasRange(files, Slice(v, skip, take), e, e + take)
<1> DEFINE s == Slice(v, skip, take)
<1>0. VaultCount \in Nat /\ VaultNo = 1 .. VaultCount
  BY ListAssumption DEF VaultNo
<1>1. /\ \A i \in 1 .. Len(s) : s[i][1] = v /\ s[i][2] \in files[v]
      /\ \A f \in files[v] :
           Listed(s, <<v, f>>) <=> /\ skip <= PathsBefore(files[v], f)
                                   /\ PathsBefore(files[v], f) < skip + take
  BY SliceIs
<1> HIDE DEF s
<1>2. v - 1 \in 0 .. VaultCount /\ v \in 0 .. VaultCount
  BY <1>0
<1>3. /\ FilesUpTo(files, v - 1) \in Nat /\ FilesUpTo(files, v) \in Nat
      /\ Cardinality(files[v]) \in Nat
      /\ FilesUpTo(files, v) = FilesUpTo(files, v - 1) + Cardinality(files[v])
  BY <1>2, FilesUpToIs
<1>4. ASSUME NEW w \in VaultNo, NEW f \in files[w]
      PROVE  Listed(s, <<w, f>>) <=>
               e <= Position(files, w, f) /\ Position(files, w, f) < e + take
  <2>1. /\ Position(files, w, f) \in Nat
        /\ FilesUpTo(files, w - 1) <= Position(files, w, f)
        /\ Position(files, w, f) < FilesUpTo(files, w)
        /\ PathsBefore(files[w], f) \in Nat
    BY PositionIs
  <2>2. CASE w = v
    <3>1. Position(files, w, f) = FilesUpTo(files, v - 1) + PathsBefore(files[v], f)
      BY <2>2 DEF Position
    <3> QED
      BY <1>1, <1>3, <2>1, <2>2, <3>1
  <2>3. ASSUME w # v PROVE ~ Listed(s, <<w, f>>)
    BY <1>1, <2>3 DEF Listed
  <2>4. CASE w < v
    <3>1. w \in 0 .. VaultCount /\ w <= v - 1
      BY <1>0, <2>4
    <3>2. FilesUpTo(files, w) <= FilesUpTo(files, v - 1) /\ FilesUpTo(files, w) \in Nat
      BY <1>2, <3>1, FilesUpToIs
    <3>3. ~ (e <= Position(files, w, f))
      BY <1>3, <2>1, <3>2
    <3> QED
      BY <1>0, <2>3, <2>4, <3>3
  <2>5. CASE v < w
    <3>1. w - 1 \in 0 .. VaultCount /\ v <= w - 1
      BY <1>0, <2>5
    <3>2. FilesUpTo(files, v) <= FilesUpTo(files, w - 1) /\ FilesUpTo(files, w - 1) \in Nat
      BY <1>2, <3>1, FilesUpToIs
    <3>3. ~ (Position(files, w, f) < e + take)
      BY <1>3, <2>1, <3>2
    <3> QED
      BY <1>0, <2>3, <2>5, <3>3
  <2> QED
    BY <1>0, <2>2, <2>4, <2>5
<1> QED
  BY <1>1, <1>4 DEF HasRange, s

LEMMA TakeKeeps ==
  ASSUME ListInv, TakeSlice
  PROVE  ListInv'
<1>1. ListTypes /\ PageInv /\ files \in Shelf
  BY DEF ListInv, ListTypes
<1>2. vaultNo \in VaultNo /\ toTake > 0 /\ ~ Passed
  BY DEF TakeSlice, AtVault
<1>3. /\ VaultCount \in Nat /\ VaultNo = 1 .. VaultCount /\ vaultNo \in Nat /\ vaultNo # 0
      /\ Len(counts) = VaultCount /\ PageLimit \in Nat \ {0}
      /\ Len(page) \in Nat /\ client.offset \in Nat /\ toTake \in Nat /\ changed \in Nat
      /\ PageLimit = LowerOf(client.limit, MaxLimit)
  BY <1>1, <1>2, ListNumbers DEF PageInv, ListTypes
<1>4. counts[vaultNo] \in Nat /\ toSkip \in Nat
  BY <1>1, <1>2, <1>3, ElementOfSeq DEF ListTypes
<1> DEFINE skip == LowerOf(toSkip, counts[vaultNo] - 1)
           take == LowerOf(toTake, counts[vaultNo] - skip)
           s == Slice(vaultNo, skip, take)
<1>5. /\ skip = toSkip /\ skip \in Nat /\ take \in Nat /\ take <= toTake
      /\ skip + take <= counts[vaultNo]
      /\ take < toTake => skip + take = counts[vaultNo]
  BY <1>2, <1>3, <1>4 DEF Passed, LowerOf
<1>6. /\ \/ page' = page \o s /\ changed' = changed
         \/ page' = page /\ changed' = changed + 1
      /\ toTake' = Minus(toTake, take)
      /\ toSkip' = 0 /\ vaultNo' = vaultNo + 1
      /\ UNCHANGED <<files, counts, client>>
  BY DEF TakeSlice, Disturbed
<1> HIDE DEF skip, take, s
<1>7. toTake' = toTake - take /\ toTake' \in Nat
  BY <1>3, <1>5, <1>6 DEF Minus
<1>8. /\ s \in Seq(Item) /\ Len(s) <= take /\ InOrder(s)
      /\ \A i \in 1 .. Len(s) : s[i][1] = vaultNo /\ s[i][2] \in files[vaultNo]
  BY <1>1, <1>2, <1>5, SliceIs DEF s
<1>9. page \in Seq(Item) /\ InOrder(page) /\ Len(page) + toTake <= PageLimit
      /\ \A i \in 1 .. Len(page) : page[i][1] < vaultNo /\ page[i][1] \in Nat
  <2>1. ASSUME NEW i \in 1 .. Len(page) PROVE page[i][1] \in Nat
    <3>1. page \in Seq(Item)
      BY <1>1 DEF ListTypes
    <3>2. page[i] \in Item
      BY <3>1, ElementOfSeq
    <3> QED
      BY <1>3, <3>2 DEF Item
  <2> QED
    BY <1>1, <2>1 DEF ListTypes, PageInv
<1>10. /\ page \o s \in Seq(Item) /\ Len(page \o s) = Len(page) + Len(s)
       /\ Len(s) \in Nat
       /\ \A x : Listed(page \o s, x) <=> Listed(page, x) \/ Listed(s, x)
       /\ InOrder(page \o s)
  <2>1. \A i \in 1 .. Len(page), j \in 1 .. Len(s) : Earlier(page[i], s[j])
    BY <1>8, <1>9 DEF Earlier
  <2> QED
    BY <1>8, <1>9, <2>1, JoinIs
<1>11. ListTypes'
  <2>1. page' \in Seq(Item)
    BY <1>6, <1>9, <1>10
  <2>2. changed' \in Nat
    BY <1>3, <1>6
  <2>3. vaultNo' \in 0 .. VaultCount + 1
    BY <1>2, <1>3, <1>6
  <2> QED
    BY <1>1, <1>6, <1>7, <2>1, <2>2, <2>3 DEF ListTypes
<1>12. PageInv'
  <2>1. InOrder(page')
    BY <1>6, <1>9, <1>10
  <2>2. Len(page') + toTake' <= PageLimit
    BY <1>3, <1>5, <1>6, <1>7, <1>8, <1>9, <1>10
  <2>3. PageLimit' = PageLimit
    BY <1>6 DEF PageLimit
  <2>4. ASSUME NEW i \in 1 .. Len(page') PROVE page'[i][1] < vaultNo'
    <3>1. CASE page' = page
      BY <1>3, <1>6, <1>9, <2>4, <3>1
    <3>2. CASE page' = page \o s
      <4>1. Listed(page \o s, page'[i])
        BY <2>4, <3>2 DEF Listed
      <4>2. Listed(page, page'[i]) \/ Listed(s, page'[i])
        BY <1>10, <4>1
      <4>3. \/ \E j \in 1 .. Len(page) : page[j] = page'[i]
            \/ \E j \in 1 .. Len(s) : s[j] = page'[i]
        BY <4>2 DEF Listed
      <4>4. page'[i][1] \in Nat /\ page'[i][1] <= vaultNo
        <5>1. ASSUME NEW j \in 1 .. Len(page), page[j] = page'[i]
              PROVE  page'[i][1] \in Nat /\ page'[i][1] <= vaultNo
          <6>1. page[j][1] \in Nat /\ page[j][1] < vaultNo
            BY <1>9
          <6> QED
            BY <1>3, <5>1, <6>1
        <5>2. ASSUME NEW j \in 1 .. Len(s), s[j] = page'[i]
              PROVE  page'[i][1] \in Nat /\ page'[i][1] <= vaultNo
          <6>1. s[j][1] = vaultNo
            BY <1>8
          <6> QED
            BY <1>3, <5>2, <6>1
        <5> QED
          BY <4>3, <5>1, <5>2
      <4> QED
        BY <1>3, <1>6, <4>4
    <3> QED
      BY <1>6, <3>1, <3>2
  <2>5. vaultNo' # 0
    BY <1>3, <1>6
  <2> QED
    BY <1>3, <1>6, <2>1, <2>2, <2>3, <2>4, <2>5 DEF PageInv, InOrder
<1>13. ASSUME changed' = 0 PROVE CountsRight' /\ GotRight' /\ PageRight'
  <2>1. changed = 0 /\ page' = page \o s
    BY <1>3, <1>6, <1>13
  <2>2. CountsRight /\ GotRight /\ PageRight
    BY <2>1 DEF ListInv
  <2>3. CountsRight' /\ GotRight'
    BY <1>6, <2>2
       DEF CountsRight, GotRight, InOrder, HasRange, Listed, Position, FilesUpTo, SizesOf
  <2> DEFINE e == PageEnd(client, toTake)
  <2>4. /\ HasRange(files, page, client.offset, e)
        /\ FilesUpTo(files, vaultNo - 1) + toSkip = e
    BY <1>2, <1>3, <2>2 DEF PageRight
  <2>5. e \in Nat /\ client.offset <= e /\ PageEnd(client, toTake') = e + take
    <3>1. toTake <= PageLimit
      BY <1>3, <1>9
    <3>2. e = client.offset + PageLimit - toTake
      BY <1>3 DEF PageEnd
    <3>3. PageEnd(client, toTake') = client.offset + PageLimit - toTake'
      BY <1>3 DEF PageEnd
    <3>4. PICK o, l, t, k : o = client.offset /\ l = PageLimit /\ t = toTake /\ k = take
      OBVIOUS
    <3>5. o \in Nat /\ l \in Nat /\ t \in Nat /\ k \in Nat /\ t <= l /\ k <= t
      BY <1>3, <1>5, <3>1, <3>4
    <3>6. e = o + l - t /\ PageEnd(client, toTake') = o + l - (t - k)
      BY <1>7, <3>2, <3>3, <3>4
    <3>7. o + l - t \in Nat /\ o <= o + l - t /\ o + l - (t - k) = o + l - t + k
      BY <3>5
    <3> HIDE DEF e
    <3> QED
      BY <3>4, <3>6, <3>7
  <2> HIDE DEF e
  <2>6. counts[vaultNo] = Cardinality(files[vaultNo])
    BY <1>2, <1>3, <2>2 DEF CountsRight
  <2>7. HasRange(files, s, e, e + take)
    BY <1>1, <1>2, <1>5, <2>4, <2>5, <2>6, SliceHolds DEF s
  <2>8. e + take \in Nat /\ e <= e + take
    BY <1>5, <2>5
  <2>9. HasRange(files, page \o s, client.offset, e + take)
    BY <1>1, <1>3, <1>8, <1>9, <2>4, <2>5, <2>7, <2>8, HoldsBoth
  <2>10. toTake' > 0 => FilesUpTo(files, vaultNo) + 0 = e + take
    <3> SUFFICES ASSUME toTake' > 0 PROVE FilesUpTo(files, vaultNo) + 0 = e + take
      OBVIOUS
    <3>1. take < toTake
      BY <1>3, <1>5, <1>7
    <3>2. vaultNo - 1 \in 0 .. VaultCount
      BY <1>2, <1>3
    <3>3. /\ FilesUpTo(files, vaultNo) = FilesUpTo(files, vaultNo - 1) + counts[vaultNo]
          /\ FilesUpTo(files, vaultNo - 1) \in Nat
      BY <1>1, <1>2, <2>6, <3>2, FilesUpToIs
    <3> QED
      BY <1>4, <1>5, <2>4, <3>1, <3>3
  <2>11. vaultNo' - 1 = vaultNo
    BY <1>3, <1>6
  <2>12. /\ HasRange(files', page', client'.offset, PageEnd(client', toTake'))
         /\ toTake' > 0 => FilesUpTo(files', vaultNo' - 1) + toSkip' = PageEnd(client', toTake')
    BY <1>6, <2>1, <2>5, <2>9, <2>10, <2>11
  <2>13. PageRight'
    BY <2>12 DEF PageRight
  <2> QED
    BY <2>3, <2>13
<1> QED
  BY <1>11, <1>12, <1>13 DEF ListInv

LEMMA RespondKeeps ==
  ASSUME ListInv, Respond
  PROVE  ListInv'
<1>1. ListTypes /\ PageInv /\ files \in Shelf
  BY DEF ListInv, ListTypes
<1>2. /\ vaultNo # 0 /\ ~ (vaultNo \in VaultNo /\ toTake > 0)
      /\ counts' = <<>> /\ page' = <<>> /\ toSkip' = 0 /\ toTake' = 0 /\ vaultNo' = 0
      /\ UNCHANGED <<files, changed>>
      /\ client' = [client EXCEPT !.got = @ \o page, !.offset = @ + PageLimit,
                                  !.more = client.offset + PageLimit < Total(counts)]
  BY DEF Respond, AtVault
<1>3. /\ VaultCount \in Nat /\ VaultNo = 1 .. VaultCount /\ vaultNo \in 0 .. VaultCount + 1
      /\ Len(counts) = VaultCount /\ PageLimit \in Nat \ {0}
      /\ Len(page) \in Nat /\ client.offset \in Nat /\ toTake \in Nat /\ changed \in Nat
      /\ PageLimit = LowerOf(client.limit, MaxLimit) /\ client.got \in Seq(Item)
      /\ page \in Seq(Item) /\ InOrder(page) /\ Len(page) + toTake <= PageLimit
      /\ counts \in Seq(Nat) /\ client.limit \in Nat \ {0} /\ toSkip \in Nat
  BY <1>1, <1>2, ListNumbers DEF PageInv, ListTypes
<1>4. client \in [limit : Nat \ {0}, offset : Nat, got : Seq(Item), more : BOOLEAN]
  BY <1>1 DEF ListTypes
<1>5. client.got \o page \in Seq(Item) /\ client.offset + PageLimit \in Nat
  BY <1>3, JoinIs
<1>6. /\ client'.limit = client.limit /\ client'.got = client.got \o page
      /\ client'.offset = client.offset + PageLimit
      /\ client'.more <=> client.offset + PageLimit < Total(counts)
      /\ client' \in [limit : Nat \ {0}, offset : Nat, got : Seq(Item), more : BOOLEAN]
  <2>1. PICK b \in BOOLEAN : b <=> client.offset + PageLimit < Total(counts)
    <3>1. CASE client.offset + PageLimit < Total(counts)
      BY <3>1
    <3>2. CASE ~ (client.offset + PageLimit < Total(counts))
      BY <3>2
    <3> QED
      BY <3>1, <3>2
  <2>2. b = (client.offset + PageLimit < Total(counts))
    BY <2>1
  <2>3. PICK g, o : g = client.got \o page /\ o = client.offset + PageLimit
    OBVIOUS
  <2>4. client' = [client EXCEPT !.got = g, !.offset = o, !.more = b]
    BY <1>2, <2>2, <2>3
  <2>5. /\ client'.limit = client.limit /\ client'.got = g /\ client'.offset = o
        /\ client'.more = b
        /\ client' \in [limit : Nat \ {0}, offset : Nat, got : Seq(Item), more : BOOLEAN]
    BY <1>4, <1>5, <2>1, <2>3, <2>4
  <2> QED
    BY <2>1, <2>3, <2>5
<1>7. <<>> \in Seq(Nat) /\ <<>> \in Seq(Item) /\ Len(<<>>) = 0
  BY EmptySeq
<1>8. ListTypes'
  BY <1>1, <1>2, <1>3, <1>6, <1>7 DEF ListTypes
<1>9. PageInv'
  <2>1. PageLimit' = PageLimit
    BY <1>6 DEF PageLimit
  <2> QED
    BY <1>2, <1>3, <1>7, <2>1 DEF PageInv, InOrder
<1>10. ASSUME changed' = 0 PROVE CountsRight' /\ GotRight' /\ PageRight'
  <2>1. CountsRight /\ GotRight /\ PageRight
    BY <1>2, <1>10 DEF ListInv
  <2> DEFINE e == PageEnd(client, toTake)
             all == FilesUpTo(files, VaultCount)
  <2>2. HasRange(files, page, client.offset, e)
        /\ (toTake > 0 => FilesUpTo(files, vaultNo - 1) + toSkip = e)
    BY <1>2, <2>1 DEF PageRight
  <2>3. e \in Nat /\ client.offset <= e /\ e <= client.offset + PageLimit
        /\ (toTake = 0 => e = client.offset + PageLimit)
    <3>1. e = client.offset + PageLimit - toTake
      BY <1>3 DEF PageEnd
    <3> HIDE DEF e
    <3> QED
      BY <1>3, <3>1
  <2>4. all \in Nat /\ \A v \in VaultNo : \A f \in files[v] : Position(files, v, f) < all
                                                          /\ Position(files, v, f) \in Nat
    <3>1. VaultCount \in 0 .. VaultCount
      BY <1>3
    <3>2. all \in Nat
      BY <1>1, <3>1, FilesUpToIs
    <3>3. ASSUME NEW v \in VaultNo, NEW f \in files[v]
          PROVE  Position(files, v, f) < all /\ Position(files, v, f) \in Nat
      <4>1. /\ Position(files, v, f) \in Nat /\ Position(files, v, f) < FilesUpTo(files, v)
            /\ FilesUpTo(files, v) <= all
        BY <1>1, PositionIs
      <4>2. v \in 0 .. VaultCount
        BY <1>3
      <4>3. FilesUpTo(files, v) \in Nat
        BY <1>1, <4>2, FilesUpToIs
      <4> HIDE DEF all
      <4> QED
        BY <3>2, <4>1, <4>3
    <3> QED
      BY <3>2, <3>3
  <2> HIDE DEF e, all
  <2>5. e = client.offset + PageLimit \/ all <= e
    <3>1. CASE toTake = 0
      BY <2>3, <3>1
    <3>2. CASE toTake # 0
      <4>1. vaultNo = VaultCount + 1 /\ toTake > 0
        BY <1>2, <1>3, <3>2
      <4>2. vaultNo - 1 = VaultCount
        BY <1>3, <4>1
      <4>3. all + toSkip = e
        BY <2>2, <4>1, <4>2 DEF all
      <4> QED
        BY <1>3, <2>3, <2>4, <4>3
    <3> QED
      BY <3>1, <3>2
  <2>6. InOrder(client.got) /\ HasRange(files, client.got, 0, client.offset)
    BY <2>1 DEF GotRight
  <2>7. HasRange(files, client.got \o page, 0, e) /\ InOrder(client.got \o page)
    <3>1. 0 \in Nat /\ 0 <= client.offset
      BY <1>3
    <3> QED
      BY <1>1, <1>3, <2>2, <2>3, <2>6, <3>1, HoldsBoth
  <2>8. HasRange(files, client.got \o page, 0, client.offset + PageLimit)
    <3>1. ASSUME NEW v \in VaultNo, NEW f \in files[v]
          PROVE  Position(files, v, f) < e <=> Position(files, v, f) < client.offset + PageLimit
      BY <1>3, <2>3, <2>4, <2>5
    <3> QED
      BY <2>7, <3>1 DEF HasRange
  <2>9. Total(counts) = all
    <3>1. SizesOf(files) \in Seq(Nat) /\ Len(SizesOf(files)) = VaultCount
      BY <1>1, FilesUpToIs
    <3>2. ASSUME NEW k \in 1 .. VaultCount PROVE counts[k] = SizesOf(files)[k]
      BY <1>3, <2>1, <3>2 DEF CountsRight, SizesOf
    <3>3. counts = SizesOf(files)
      <4>1. counts = [k \in 1 .. VaultCount |-> counts[k]]
        BY <1>3, LenProperties
      <4>2. SizesOf(files) = [k \in 1 .. VaultCount |-> SizesOf(files)[k]]
        BY <3>1, LenProperties
      <4> QED
        BY <3>2, <4>1, <4>2
    <3> QED
      BY <1>3, <3>3 DEF Total, FilesUpTo, all
  <2>10. ~ client'.more => all <= client.offset + PageLimit
    BY <1>5, <1>6, <2>4, <2>9
  <2>11. GotRight'
    BY <1>2, <1>6, <2>7, <2>8, <2>10 DEF GotRight, all
  <2>12. CountsRight' /\ PageRight'
    BY <1>2, <1>7 DEF CountsRight, PageRight
  <2> QED
    BY <2>11, <2>12
<1> QED
  BY <1>8, <1>9, <1>10 DEF ListInv

LEMMA NextListInv == ListInv /\ [ListNext]_listVars => ListInv'
<1> SUFFICES ASSUME ListInv, [ListNext]_listVars PROVE ListInv'
  OBVIOUS
<1>1. CASE Replace
  <2>1. PICK v \in VaultNo, f \in 1 .. MaxFiles :
          files' = [files EXCEPT ![v] = IF f \in @ THEN @ \ {f} ELSE @ \cup {f}]
    BY <1>1 DEF Replace
  <2>2. files' \in Shelf
    BY <2>1 DEF ListInv, ListTypes, Shelf
  <2>3. /\ changed' = changed + 1 /\ client' = client
        /\ UNCHANGED <<counts, page, toSkip, toTake, vaultNo>>
    BY <1>1 DEF Replace, Disturbed, requestVars
  <2>4. changed' \in Nat /\ changed' # 0
    BY <2>3 DEF ListInv, ListTypes
  <2> QED
    BY <2>2, <2>3, <2>4 DEF ListInv, ListTypes, PageInv, InOrder, PageLimit
<1>2. CASE UNCHANGED listVars
  <2>1. UNCHANGED <<files, changed, counts, page, toSkip, toTake, vaultNo, client>>
    BY <1>2 DEF listVars
  <2> QED
    BY <2>1 DEF ListInv, ListTypes, PageInv, InOrder, PageLimit, CountsRight, GotRight,
                PageRight, HasRange, Listed, Position, FilesUpTo, SizesOf, PageEnd
<1> QED
  BY <1>1, <1>2, CountKeeps, PassKeeps, TakeKeeps, RespondKeeps DEF ListNext

(* handle_list: a client that pages by offset until the total gets every   *)
(* file of every vault once and in order if the index rests meanwhile; and *)
(* whatever changes between the counts and the slices, no page is longer   *)
(* than asked for, out of order or holds a file twice.                     *)
THEOREM ListsAreWhole == ListSpec => []ListIsWhole
<1>1. ListInit => ListInv
  BY InitListInv
<1>2. ListInv /\ [ListNext]_listVars => ListInv'
  BY NextListInv
<1>3. ListInv => ListIsWhole
  <2> SUFFICES ASSUME ListInv PROVE ListIsWhole
    OBVIOUS
  <2>1. ListTypes /\ PageInv /\ files \in Shelf
    BY DEF ListInv, ListTypes
  <2>2. Len(page) <= PageLimit /\ InOrder(page)
    <3>1. Len(page) \in Nat /\ toTake \in Nat /\ PageLimit \in Nat
      BY <2>1, ListNumbers DEF ListTypes
    <3> QED
      BY <2>1, <3>1 DEF PageInv
  <2>3. ASSUME changed = 0, ~ client.more
        PROVE  /\ InOrder(client.got)
               /\ {client.got[i] : i \in 1 .. Len(client.got)} =
                    UNION {{v} \X files[v] : v \in VaultNo}
    <3> DEFINE got == client.got
    <3>1. /\ InOrder(got) /\ HasRange(files, got, 0, client.offset)
          /\ FilesUpTo(files, VaultCount) <= client.offset
      BY <2>3 DEF ListInv, GotRight
    <3>2. /\ got \in Seq(Item) /\ client.offset \in Nat /\ VaultCount \in Nat
      BY <2>1, ListNumbers
    <3> HIDE DEF got
    <3>3. ASSUME NEW i \in 1 .. Len(got)
          PROVE  /\ got[i] = <<got[i][1], got[i][2]>> /\ got[i][1] \in VaultNo
                 /\ got[i][2] \in files[got[i][1]]
      <4>1. got[i] \in Item
        BY <3>2, ElementOfSeq
      <4> QED
        BY <3>1, <4>1 DEF Item, HasRange
    <3>4. ASSUME NEW v \in VaultNo, NEW f \in files[v]
          PROVE  \E i \in 1 .. Len(got) : got[i] = <<v, f>>
      <4>1. /\ Position(files, v, f) \in Nat /\ Position(files, v, f) < FilesUpTo(files, v)
            /\ FilesUpTo(files, v) <= FilesUpTo(files, VaultCount)
        BY <2>1, PositionIs
      <4>2. v \in 0 .. VaultCount /\ VaultCount \in 0 .. VaultCount
        BY <3>2 DEF VaultNo
      <4>3. FilesUpTo(files, v) \in Nat /\ FilesUpTo(files, VaultCount) \in Nat
        BY <2>1, <4>2, FilesUpToIs
      <4>4. Position(files, v, f) < client.offset /\ 0 <= Position(files, v, f)
        BY <3>1, <3>2, <4>1, <4>3
      <4>5. Listed(got, <<v, f>>)
        BY <3>1, <4>4 DEF HasRange
      <4> QED
        BY <4>5 DEF Listed
    <3>5. {got[i] : i \in 1 .. Len(got)} = UNION {{v} \X files[v] : v \in VaultNo}
      <4>1. ASSUME NEW i \in 1 .. Len(got)
            PROVE  got[i] \in UNION {{v} \X files[v] : v \in VaultNo}
        <5>1. PICK v, f : v = got[i][1] /\ f = got[i][2]
          OBVIOUS
        <5>2. got[i] = <<v, f>> /\ v \in VaultNo /\ f \in files[v]
          BY <3>3, <5>1
        <5>3. <<v, f>> \in {v} \X files[v]
          BY <5>2
        <5> QED
          BY <5>2, <5>3
      <4>2. ASSUME NEW x \in UNION {{v} \X files[v] : v \in VaultNo}
            PROVE  \E i \in 1 .. Len(got) : got[i] = x
        <5>1. PICK v \in VaultNo : x \in {v} \X files[v]
          OBVIOUS
        <5>2. PICK f \in files[v] : x = <<v, f>>
          BY <5>1
        <5> QED
          BY <3>4, <5>2
      <4> QED
        BY <4>1, <4>2
    <3> QED
      BY <3>1, <3>5 DEF got
  <2> QED
    BY <2>2, <2>3 DEF ListIsWhole
<1> QED
  BY <1>1, <1>2, <1>3, PTL DEF ListSpec
=============================================================================
