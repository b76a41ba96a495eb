---------------------------- MODULE SearchProofs ----------------------------
(***************************************************************************)
(* What is searched for, and what is found.  First TextTokens: the loops   *)
(* over a text and its tokens, of any length.  Then Ranking, StableSorting *)
(* and SearchDoors, for every index, query, setup of the boosts and        *)
(* request: the lists the two searches make, how they are fused, boosted,  *)
(* re-ranked and cut into pages.  Both end with what MCAlgorithms' runs    *)
(* check of them, for inputs of any length.                                *)
(***************************************************************************)
EXTENDS AlgorithmsProofs

-----------------------------------------------------------------------------
(***************************************************************************)
(* Scans.  A recursive function that goes on from s to succ[s], which is   *)
(* nearer to the end, has a value; whatever holds of s if it holds of      *)
(* succ[s] holds of all.                                                   *)
(***************************************************************************)
IsScan(S, N, left, go, succ) ==
  /\ N \in Nat /\ left \in [S -> 0 .. N] /\ go \in SUBSET S
  /\ \A s \in go : succ[s] \in S /\ left[succ[s]] < left[s]

LEMMA ScanInduction ==
  ASSUME NEW S, NEW N, NEW left, NEW go, NEW succ, IsScan(S, N, left, go, succ),
         NEW T, \A s \in S : (s \in go => succ[s] \in T) => s \in T
  PROVE  \A s \in S : s \in T
<1> DEFINE U == {m \in 0 .. N + 1 : \A s \in S : left[s] < m => s \in T}
<1>1. N \in Nat /\ N + 1 \in Nat /\ \A s \in S : left[s] \in 0 .. N
  BY DEF IsScan
<1>2. 0 \in U
  BY <1>1
<1>3. ASSUME NEW m \in 1 .. N + 1, m - 1 \in U PROVE m \in U
  <2>1. ASSUME NEW s \in S, left[s] < m PROVE s \in T
    <3>1. ASSUME s \in go PROVE succ[s] \in T
      <4>1. succ[s] \in S /\ left[succ[s]] < left[s]
        BY <3>1 DEF IsScan
      <4>2. left[succ[s]] < m - 1
        BY <1>1, <2>1, <4>1
      <4> QED
        BY <1>3, <4>1, <4>2
    <3> QED
      BY <3>1
  <2> QED
    BY <1>1, <2>1
<1>4. N + 1 \in U
  <2>1. N + 1 \in 0 .. N + 1
    BY <1>1
  <2> HIDE DEF U
  <2> QED
    BY <1>1, <1>2, <1>3, <2>1, StepByStep
<1>5. \A s \in S : left[s] < N + 1
  BY <1>1
<1> QED
  BY <1>4, <1>5

(* What is put before the results of the scan from succ[s] on, if s is in  *)
(* cut.                                                                    *)
Scanned(f, S, go, succ, cut, head, base) ==
  f = [s \in S |-> IF s \in go
                   THEN IF s \in cut THEN head[s] \o f[succ[s]] ELSE f[succ[s]]
                   ELSE base[s]]

LEMMA ScanExists ==
  ASSUME NEW S, NEW N, NEW left, NEW go, NEW succ, IsScan(S, N, left, go, succ),
         NEW cut, NEW head, NEW base
  PROVE  \E f : Scanned(f, S, go, succ, cut, head, base)
<1> DEFINE Value(f, s) == IF s \in go
                          THEN IF s \in cut THEN head[s] \o f[succ[s]] ELSE f[succ[s]]
                          ELSE base[s]
           Solves(f, m) == \A s \in S : left[s] < m => f[s] = Value(f, s)
           U == {m \in 0 .. N + 1 : \E f : Solves(f, m)}
<1>1. N \in Nat /\ N + 1 \in Nat /\ \A s \in S : left[s] \in 0 .. N
  BY DEF IsScan
<1>2. \A f, g, s : f[succ[s]] = g[succ[s]] => Value(f, s) = Value(g, s)
  OBVIOUS
<1>3. \A f, g, s : s \notin go => Value(f, s) = Value(g, s)
  OBVIOUS
<1> HIDE DEF Value
<1>4. 0 \in U
  <2>1. Solves(<<>>, 0)
    BY <1>1
  <2> QED
    BY <1>1, <2>1
<1>5. ASSUME NEW m \in 1 .. N + 1, m - 1 \in U PROVE m \in U
  <2>1. PICK f : Solves(f, m - 1)
    BY <1>5
  <2> DEFINE g == [s \in S |-> IF left[s] < m - 1 THEN f[s] ELSE Value(f, s)]
  <2>2. ASSUME NEW s \in S, left[s] < m PROVE g[s] = Value(g, s)
    <3>1. g[s] = Value(f, s)
      BY <2>1
    <3>2. ASSUME s \in go PROVE g[succ[s]] = f[succ[s]]
      <4>1. succ[s] \in S /\ left[succ[s]] < left[s]
        BY <3>2 DEF IsScan
      <4>2. left[succ[s]] < m - 1
        BY <1>1, <2>2, <4>1
      <4> QED
        BY <4>1, <4>2
    <3> HIDE DEF g
    <3> QED
      BY <1>2, <1>3, <3>1, <3>2
  <2> HIDE DEF g
  <2>3. Solves(g, m)
    BY <2>2
  <2> QED
    BY <1>1, <2>3
<1>6. PICK f : Solves(f, N + 1)
  <2>1. N + 1 \in U
    <3>1. N + 1 \in 0 .. N + 1
      BY <1>1
    <3> HIDE DEF U
    <3> QED
      BY <1>1, <1>4, <1>5, <3>1, StepByStep
  <2> QED
    BY <2>1
<1> DEFINE g == [s \in S |-> f[s]]
<1>7. \A s \in S : g[s] = f[s] /\ f[s] = Value(f, s)
  BY <1>1, <1>6
<1>8. \A s \in S : s \in go => succ[s] \in S
  BY DEF IsScan
<1>9. DOMAIN g = S /\ g = [s \in S |-> g[s]]
  OBVIOUS
<1> HIDE DEF g
<1>10. \A s \in S : g[s] = Value(g, s)
  <2>1. TAKE s \in S
  <2>2. s \in go => g[succ[s]] = f[succ[s]]
    BY <1>7, <1>8
  <2> QED
    BY <1>2, <1>3, <1>7, <2>2
<1>11. g = [s \in S |-> Value(g, s)]
  BY <1>9, <1>10
<1> QED
  BY <1>11 DEF Scanned, Value

-----------------------------------------------------------------------------
(***************************************************************************)
(* Ranges of positions, one behind the other.                              *)
(***************************************************************************)
AreRanges(R, a, b) ==
  /\ Len(R) \in Nat /\ DOMAIN R = 1 .. Len(R)
  /\ \A k \in 1 .. Len(R) : /\ R[k].from \in Int /\ R[k].to \in Int
                            /\ a <= R[k].from /\ R[k].from <= R[k].to /\ R[k].to <= b
  /\ \A j, k \in 1 .. Len(R) : j < k => R[j].to < R[k].from

LEMMA NoRange ==
  ASSUME NEW a, NEW b
  PROVE  AreRanges(<<>>, a, b) /\ Covered(<<>>) = {}
  BY DEF AreRanges, Covered

LEMMA OneRange ==
  ASSUME NEW T, NEW r \in T, r.from \in Int, r.to \in Int, r.from <= r.to,
         NEW a \in Int, NEW b \in Int, a <= r.from, r.to <= b
  PROVE  /\ <<r>> \in Seq(T) /\ AreRanges(<<r>>, a, b) /\ Covered(<<r>>) = r.from .. r.to
<1>1. <<r>> \in Seq(T) /\ Len(<<r>>) = 1 /\ DOMAIN <<r>> = 1 .. 1 /\ <<r>>[1] = r
  OBVIOUS
<1> DEFINE R == <<r>>
<1> HIDE DEF R
<1>2. AreRanges(R, a, b)
  <2>1. Len(R) = 1 /\ DOMAIN R = 1 .. 1 /\ R[1] = r
    BY <1>1 DEF R
  <2>2. \A k \in 1 .. Len(R) : k = 1
    BY <2>1
  <2> QED
    BY <2>1, <2>2 DEF AreRanges
<1>3. Covered(R) = r.from .. r.to
  <2>1. DOMAIN R = {1} /\ R[1] = r
    BY <1>1 DEF R
  <2> QED
    BY <2>1 DEF Covered
<1> QED
  BY <1>1, <1>2, <1>3 DEF R

LEMMA RangesJoin ==
  ASSUME NEW T, NEW P \in Seq(T), NEW Q \in Seq(T),
         NEW a \in Int, NEW b \in Int, NEW c \in Int, a <= b + 1, b <= c,
         AreRanges(P, a, b), AreRanges(Q, b + 1, c)
  PROVE  /\ P \o Q \in Seq(T) /\ AreRanges(P \o Q, a, c)
         /\ Covered(P \o Q) = Covered(P) \cup Covered(Q)
<1> DEFINE R == P \o Q
           p == Len(P)
           q == Len(Q)
<1>1. /\ R \in Seq(T) /\ Len(R) = p + q /\ p \in Nat /\ q \in Nat
      /\ \A k \in 1 .. p + q : R[k] = IF k <= p THEN P[k] ELSE Q[k - p]
  BY ConcatProperties
<1>2. DOMAIN R = 1 .. p + q /\ DOMAIN P = 1 .. p /\ DOMAIN Q = 1 .. q
  BY <1>1
<1> HIDE DEF R, p, q
<1>3. /\ \A k \in 1 .. p : /\ P[k].from \in Int /\ P[k].to \in Int
                           /\ a <= P[k].from /\ P[k].from <= P[k].to /\ P[k].to <= b
      /\ \A j, k \in 1 .. p : j < k => P[j].to < P[k].from
  BY DEF AreRanges, p
<1>4. /\ \A k \in 1 .. q : /\ Q[k].from \in Int /\ Q[k].to \in Int
                           /\ b + 1 <= Q[k].from /\ Q[k].from <= Q[k].to /\ Q[k].to <= c
      /\ \A j, k \in 1 .. q : j < k => Q[j].to < Q[k].from
  BY DEF AreRanges, q
<1>5. \A k \in 1 .. p : k \in 1 .. p + q /\ R[k] = P[k]
  BY <1>1
<1>6. \A k \in 1 .. p + q : k > p => k - p \in 1 .. q /\ R[k] = Q[k - p]
  BY <1>1
<1>7. \A k \in 1 .. q : k + p \in 1 .. p + q /\ R[k + p] = Q[k]
  <2>1. TAKE k \in 1 .. q
  <2>2. k + p \in 1 .. p + q /\ ~ (k + p <= p) /\ k + p - p = k
    BY <1>1
  <2> QED
    BY <1>1, <2>2
<1>8. AreRanges(R, a, c)
  <2>1. ASSUME NEW k \in 1 .. p + q
        PROVE  /\ R[k].from \in Int /\ R[k].to \in Int
               /\ a <= R[k].from /\ R[k].from <= R[k].to /\ R[k].to <= c
    <3>1. CASE k <= p
      <4>1. R[k] = P[k] /\ k \in 1 .. p
        BY <1>1, <3>1
      <4> QED
        BY <1>3, <4>1
    <3>2. CASE k > p
      <4>1. k - p \in 1 .. q /\ R[k] = Q[k - p]
        BY <1>6, <3>2
      <4> QED
        BY <1>4, <4>1
    <3> QED
      BY <1>1, <3>1, <3>2
  <2>2. ASSUME NEW j \in 1 .. p + q, NEW k \in 1 .. p + q, j < k
        PROVE  R[j].to < R[k].from
    <3>1. CASE k <= p
      <4>1. R[k] = P[k] /\ k \in 1 .. p /\ R[j] = P[j] /\ j \in 1 .. p
        BY <1>1, <2>2, <3>1
      <4> QED
        BY <1>3, <2>2, <4>1
    <3>2. CASE j <= p /\ k > p
      <4>1. k - p \in 1 .. q /\ R[k] = Q[k - p] /\ R[j] = P[j] /\ j \in 1 .. p
        BY <1>1, <1>6, <3>2
      <4>2. P[j].to \in Int /\ P[j].to <= b /\ Q[k - p].from \in Int /\ b + 1 <= Q[k - p].from
        BY <1>3, <1>4, <4>1
      <4> QED
        BY <4>1, <4>2
    <3>3. CASE j > p
      <4>1. k > p
        BY <1>1, <2>2, <3>3
      <4>2. k - p \in 1 .. q /\ R[k] = Q[k - p] /\ j - p \in 1 .. q /\ R[j] = Q[j - p]
        BY <1>6, <3>3, <4>1
      <4>3. j - p < k - p
        BY <1>1, <2>2
      <4> QED
        BY <1>4, <4>2, <4>3
    <3> QED
      BY <1>1, <3>1, <3>2, <3>3
  <2> QED
    BY <1>1, <1>2, <2>1, <2>2 DEF AreRanges
<1>9. Covered(R) = Covered(P) \cup Covered(Q)
  <2>1. \A x : x \in Covered(R) <=> \E k \in 1 .. p + q : x \in R[k].from .. R[k].to
    BY <1>2 DEF Covered
  <2>2. \A x : x \in Covered(P) <=> \E k \in 1 .. p : x \in P[k].from .. P[k].to
    BY <1>2 DEF Covered
  <2>3. \A x : x \in Covered(Q) <=> \E k \in 1 .. q : x \in Q[k].from .. Q[k].to
    BY <1>2 DEF Covered
  <2>4. ASSUME NEW x, x \in Covered(R) PROVE x \in Covered(P) \cup Covered(Q)
    <3>1. PICK k \in 1 .. p + q : x \in R[k].from .. R[k].to
      BY <2>1, <2>4
    <3>2. CASE k <= p
      <4>1. R[k] = P[k] /\ k \in 1 .. p
        BY <1>1, <3>2
      <4> QED
        BY <2>2, <3>1, <4>1
    <3>3. CASE k > p
      BY <1>6, <2>3, <3>1, <3>3
    <3> QED
      BY <1>1, <3>2, <3>3
  <2>5. ASSUME NEW x, x \in Covered(P) PROVE x \in Covered(R)
    BY <1>5, <2>1, <2>2, <2>5
  <2>6. ASSUME NEW x, x \in Covered(Q) PROVE x \in Covered(R)
    BY <1>7, <2>1, <2>3, <2>6
  <2> QED
    BY <2>4, <2>5, <2>6
<1> QED
  BY <1>1, <1>8, <1>9 DEF R

(* What holds of all ranges holds in particular of the next.               *)
LEMMA RangesInOrder ==
  ASSUME NEW R, NEW a, NEW b, AreRanges(R, a, b)
  PROVE  InOrder(R)
<1>1. Len(R) \in Nat /\ \A j, k \in 1 .. Len(R) : j < k => R[j].to < R[k].from
  BY DEF AreRanges
<1>2. \A k \in 1 .. Len(R) - 1 : k \in 1 .. Len(R) /\ k + 1 \in 1 .. Len(R) /\ k < k + 1
  BY <1>1
<1> QED
  BY <1>1, <1>2 DEF InOrder

(* A range in front of others.                                             *)
LEMMA RangeBefore ==
  ASSUME NEW T, NEW r \in T, r.from \in Int, r.to \in Int, r.from <= r.to,
         NEW R \in Seq(T), NEW c \in Int, r.to <= c, AreRanges(R, r.to + 1, c)
  PROVE  /\ <<r>> \o R \in Seq(T) /\ AreRanges(<<r>> \o R, r.from, c)
         /\ Covered(<<r>> \o R) = (r.from .. r.to) \cup Covered(R)
<1> DEFINE P == <<r>>
           a == r.from
           b == r.to
<1>1. P \in Seq(T) /\ AreRanges(P, a, b) /\ Covered(P) = a .. b
  BY OneRange
<1>2. a <= b + 1 /\ a \in Int /\ b \in Int /\ b <= c /\ AreRanges(R, b + 1, c)
  OBVIOUS
<1> HIDE DEF P, a, b
<1>3. P \o R \in Seq(T) /\ AreRanges(P \o R, a, c) /\ Covered(P \o R) = Covered(P) \cup Covered(R)
  BY <1>1, <1>2, RangesJoin, ZenonT(60)
<1> QED
  BY <1>1, <1>3 DEF P, a, b

(* Ranges are also ranges of what begins before.                           *)
LEMMA RangesFrom ==
  ASSUME NEW R, NEW a \in Int, NEW b \in Int, NEW c \in Int, a <= b, AreRanges(R, b, c)
  PROVE  AreRanges(R, a, c)
  BY SMTT(40) DEF AreRanges

-----------------------------------------------------------------------------
(***************************************************************************)
(* The user dictionary.                                                    *)
(***************************************************************************)
LEMMA SpanIs ==
  ASSUME NEW tokens, Len(tokens) \in Nat, NEW i \in 1 .. Len(tokens), NEW dict
  PROVE  LET j == LongestSpan(tokens, i, dict) IN
         /\ j \in i .. Len(tokens)
         /\ i # j => IsEntry(dict, SubSeq(tokens, i, j))
         /\ \A k \in j + 1 .. Len(tokens) : ~ IsEntry(dict, SubSeq(tokens, i, k))
<1> DEFINE j == LongestSpan(tokens, i, dict)
           S == Spans(tokens, i, dict)
<1>1. \A k : k \in S <=> k \in i .. Len(tokens) /\ IsEntry(dict, SubSeq(tokens, i, k))
  BY DEF Spans
<1>2. j = IF S = {} THEN i ELSE Max(S)
  BY DEF LongestSpan
<1>3. S \in SUBSET (1 .. Len(tokens))
  BY <1>1
<1> HIDE DEF S, j
<1>4. S # {} => Max(S) \in S /\ \A k \in S : k <= Max(S)
  BY <1>3, MaxIsMost
<1> DEFINE Goal == /\ j \in i .. Len(tokens)
                   /\ i # j => IsEntry(dict, SubSeq(tokens, i, j))
                   /\ \A k \in j + 1 .. Len(tokens) : ~ IsEntry(dict, SubSeq(tokens, i, k))
<1>5. ASSUME S = {} PROVE Goal
  BY <1>1, <1>2, <1>5
<1>6. ASSUME S # {} PROVE Goal
  <2>1. j \in S /\ \A k \in S : k <= j
    BY <1>2, <1>4, <1>6
  <2> QED
    BY <1>1, <2>1
<1> QED
  BY <1>5, <1>6 DEF j

(* However the tokens of a text and the entries of a user dictionary       *)
(* overlap (apply_user_dictionary of core/src/tokenizer.rs), every token   *)
(* is in one of the merged ones, in its order, and a merged one is the     *)
(* longest entry that starts where it does.                                *)
THEOREM LongestEntriesWin ==
  ASSUME NEW Token, NEW tokens \in Seq(Token), NEW dict
  PROVE  LongestEntryWins(tokens, dict)
<1> DEFINE n == Len(tokens)
           S == 1 .. n + 1
           go == 1 .. n
           span == [i \in go |-> LongestSpan(tokens, i, dict)]
           succ == [i \in go |-> span[i] + 1]
           left == [i \in S |-> n + 1 - i]
           range == [i \in go |-> [from |-> i, to |-> span[i]]]
           T == {r \in [from : Int, to : Int] :
                   /\ r.from # r.to => IsEntry(dict, SubSeq(tokens, r.from, r.to))
                   /\ \A j \in r.to + 1 .. n : ~ IsEntry(dict, SubSeq(tokens, r.from, j))}
           base == [i \in S |-> <<>>]
           head == [i \in go |-> <<range[i]>>]
           Body(f, i) == IF i > n THEN <<>>
                         ELSE LET j == LongestSpan(tokens, i, dict) IN
                              <<[from |-> i, to |-> j]>> \o f[j + 1]
           Merges(f) == f = [i \in S |-> Body(f, i)]
           merge == CHOOSE f : Merges(f)
<1>1. n \in Nat /\ DOMAIN tokens = 1 .. n
  OBVIOUS
<1>2. \A i \in go : /\ span[i] \in i .. n
                    /\ i # span[i] => IsEntry(dict, SubSeq(tokens, i, span[i]))
                    /\ \A j \in span[i] + 1 .. n : ~ IsEntry(dict, SubSeq(tokens, i, j))
  BY <1>1, SpanIs
<1>3. ApplyUserDictionary(tokens, dict) = merge[1]
  BY DEF ApplyUserDictionary
<1>4. \A i \in go : span[i] = LongestSpan(tokens, i, dict)
  OBVIOUS
<1> HIDE DEF span
<1>5. \A i \in go : span[i] \in Int /\ i <= span[i] /\ span[i] <= n
  BY <1>1, <1>2
<1>6. \A i \in go : /\ range[i] \in T /\ range[i].from = i /\ range[i].to = span[i]
                    /\ succ[i] = span[i] + 1 /\ succ[i] \in S
  BY <1>1, <1>2, <1>5
<1>7. IsScan(S, n, left, go, succ)
  <2>1. left \in [S -> 0 .. n]
    BY <1>1
  <2>2. \A i \in go : i \in S /\ left[succ[i]] < left[i]
    <3>1. TAKE i \in go
    <3> HIDE DEF succ, range
    <3>2. i \in S /\ left[i] = n + 1 - i /\ left[succ[i]] = n + 1 - succ[i]
      BY <1>1, <1>6
    <3>3. succ[i] = span[i] + 1 /\ span[i] \in Int /\ i <= span[i]
      BY <1>5, <1>6
    <3> QED
      BY <1>1, <3>2, <3>3
  <2> HIDE DEF S, left, go, succ
  <2>3. \A i \in go : succ[i] \in S
    BY <1>6
  <2> QED
    BY <1>1, <2>1, <2>2, <2>3 DEF IsScan
<1>8. \A i \in go : head[i] = <<range[i]>>
  OBVIOUS
<1>9. \A i \in S : i \in go <=> ~ (i > n)
  BY <1>1
<1>10. \A i \in S : base[i] = <<>>
  OBVIOUS
<1>11. \A i \in go : range[i] = [from |-> i, to |-> LongestSpan(tokens, i, dict)]
  BY <1>4
<1> HIDE DEF T, range, succ, left, head, base
<1>12. PICK g : Scanned(g, S, go, succ, go, head, base)
  <2> HIDE DEF S, go
  <2> QED
    BY <1>7, ScanExists
<1>13. ASSUME NEW f, NEW i \in S
       PROVE  Body(f, i) = IF i \in go THEN IF i \in go THEN head[i] \o f[succ[i]] ELSE f[succ[i]]
                           ELSE base[i]
  <2>1. i \in go => succ[i] = LongestSpan(tokens, i, dict) + 1
    BY <1>4, <1>6
  <2> QED
    BY <1>8, <1>9, <1>10, <1>11, <2>1
<1>14. Merges(merge)
  <2>1. Merges(g)
    <3> HIDE DEF Body, S, go
    <3> QED
      BY <1>12, <1>13 DEF Scanned
  <2> HIDE DEF Merges
  <2> QED
    BY <2>1
<1> HIDE DEF merge
<1>15. \A i \in S : merge[i] = IF i \in go THEN <<range[i]>> \o merge[succ[i]] ELSE <<>>
  <2> HIDE DEF Body, S, go
  <2>1. \A i \in S : merge[i] = Body(merge, i)
    BY <1>14
  <2> QED
    BY <1>8, <1>10, <1>13, <2>1
<1> DEFINE Good == {i \in S : /\ merge[i] \in Seq(T) /\ AreRanges(merge[i], i, n)
                              /\ Covered(merge[i]) = i .. n}
<1>16. \A i \in S : i \in Good
  <2>1. ASSUME NEW i \in S, i \in go => succ[i] \in Good PROVE i \in Good
    <3>1. CASE i \notin go
      <4>1. merge[i] = <<>> /\ i > n
        BY <1>9, <1>15, <3>1
      <4>3. i .. n = {}
        BY <1>1, <4>1
      <4>2. AreRanges(<<>>, i, n) /\ Covered(<<>>) = {} /\ <<>> \in Seq(T)
        BY NoRange
      <4> QED
        BY <4>1, <4>2, <4>3
    <3>2. CASE i \in go
      <4> DEFINE R == merge[succ[i]]
                 r == range[i]
      <4>1. R \in Seq(T) /\ AreRanges(R, succ[i], n) /\ Covered(R) = succ[i] .. n
        BY <2>1, <3>2
      <4>2. /\ r \in T /\ r.from = i /\ r.to = span[i] /\ succ[i] = span[i] + 1
            /\ span[i] \in Int /\ i <= span[i] /\ span[i] <= n
        BY <1>5, <1>6, <3>2
      <4>3. merge[i] = <<r>> \o R
        BY <1>15, <3>2
      <4> HIDE DEF R, r
      <4>4. /\ <<r>> \o R \in Seq(T) /\ AreRanges(<<r>> \o R, i, n)
            /\ Covered(<<r>> \o R) = (i .. span[i]) \cup Covered(R)
        BY <1>1, <4>1, <4>2, RangeBefore
      <4>5. (i .. span[i]) \cup (span[i] + 1 .. n) = i .. n
        BY <1>1, <4>2
      <4> QED
        BY <4>1, <4>2, <4>3, <4>4, <4>5
    <3> QED
      BY <3>1, <3>2
  <2> HIDE DEF S, go, Good
  <2> QED
    BY <1>7, <2>1, ScanInduction
<1> DEFINE R == merge[1]
<1>17. R \in Seq(T) /\ AreRanges(R, 1, n) /\ Covered(R) = 1 .. n
  BY <1>1, <1>16
<1> HIDE DEF R
<1>18. \A k \in DOMAIN R : R[k] \in T
  BY <1>17
<1>19. InOrder(R)
  BY <1>17, RangesInOrder
<1>20. \A k \in DOMAIN R :
         /\ R[k].from # R[k].to => IsEntry(dict, SubSeq(tokens, R[k].from, R[k].to))
         /\ \A j \in R[k].to + 1 .. n : ~ IsEntry(dict, SubSeq(tokens, R[k].from, j))
  BY <1>18 DEF T
<1>21. ApplyUserDictionary(tokens, dict) = R
  BY <1>3 DEF R
<1> QED
  BY <1>1, <1>17, <1>19, <1>20, <1>21 DEF LongestEntryWins

-----------------------------------------------------------------------------
(***************************************************************************)
(* Links and emphasis.                                                     *)
(***************************************************************************)
LEMMA HasAt ==
  ASSUME NEW Char, NEW text \in Seq(Char), NEW word \in Seq(Char), NEW i \in Nat \ {0},
         Has(text, i, word), word # <<>>
  PROVE  /\ i + Len(word) - 1 <= Len(text)
         /\ \A k \in 1 .. Len(word) : text[i + k - 1] = word[k]
<1> DEFINE b == i + Len(word) - 1
<1>1. b <= Len(text) /\ SubSeq(text, i, b) = word /\ Len(word) \in Nat \ {0}
  BY EmptySeq, LenProperties DEF Has
<1>2. i \in Int /\ b \in Int /\ 1 <= i /\ i <= b + 1 /\ b + 1 - i = Len(word)
  BY <1>1
<1> HIDE DEF b
<1>3. \A k \in 1 .. b + 1 - i : SubSeq(text, i, b)[k] = text[i + k - 1]
  BY <1>1, <1>2, NamesBetween
<1> QED
  BY <1>1, <1>2, <1>3 DEF b

IsFound(text, i, bound, word, f) ==
  /\ f \in Nat
  /\ f # 0 => /\ f \in i .. bound /\ Has(text, f, word) /\ f + Len(word) - 1 <= bound
              /\ \A j \in i .. f - 1 : ~ Has(text, j, word)
  /\ f = 0 => \A j \in i .. bound : Has(text, j, word) => j + Len(word) - 1 > bound

LEMMA FindIs ==
  ASSUME NEW text, NEW i \in Nat \ {0}, NEW bound \in Nat, NEW word, Len(word) \in Nat
  PROVE  IsFound(text, i, bound, word, Find(text, i, bound, word))
<1> DEFINE f == Find(text, i, bound, word)
           S == {j \in i .. bound : Has(text, j, word) /\ j + Len(word) - 1 <= bound}
<1>1. f = IF S = {} THEN 0 ELSE Min(S)
  BY DEF Find
<1>2. \A j : j \in S <=> j \in i .. bound /\ Has(text, j, word) /\ j + Len(word) - 1 <= bound
  OBVIOUS
<1>3. S \in SUBSET Nat /\ \A j \in S : j # 0
  OBVIOUS
<1> HIDE DEF S, f
<1>4. CASE S = {}
  <2>1. f = 0
    BY <1>1, <1>4
  <2>2. \A j \in i .. bound : Has(text, j, word) => j + Len(word) - 1 > bound
    BY <1>2, <1>4
  <2> QED
    BY <2>1, <2>2 DEF f, IsFound
<1>5. CASE S # {}
  <2>1. f \in S /\ \A j \in S : f <= j
    BY <1>1, <1>3, <1>5, MinIsLeast
  <2>2. f \in Nat /\ f # 0
    BY <1>3, <2>1
  <2>3. f \in i .. bound /\ Has(text, f, word) /\ f + Len(word) - 1 <= bound
    BY <1>2, <2>1
  <2>4. \A j \in i .. f - 1 : ~ Has(text, j, word)
    <3>1. ASSUME NEW j \in i .. f - 1, Has(text, j, word) PROVE FALSE
      <4>1. j \in i .. bound /\ j + Len(word) - 1 <= bound /\ j < f
        BY <2>2, <2>3
      <4>2. j \in S
        BY <1>2, <3>1, <4>1
      <4> QED
        BY <2>1, <2>2, <4>1, <4>2
    <3> QED
      BY <3>1
  <2> QED
    BY <2>2, <2>3, <2>4 DEF f, IsFound
<1> QED
  BY <1>4, <1>5

(* A mark is known by its first character, which is also its second.       *)
LEMMA MarkIs ==
  ASSUME NEW Char, NEW text \in Seq(Char), NEW i \in Nat \ {0},
         NEW marks \in {LinkMarks, EmphasisMarks}, NEW m \in MarkAt(text, i, marks)
  PROVE  /\ i + 1 <= Len(text) /\ text[i] = text[i + 1]
         /\ m = <<text[i], text[i]>> /\ Len(Closing(m)) = 2
<1>1. m \in marks /\ Has(text, i, m)
  BY DEF MarkAt
<1>2. PICK c : m = <<c, c>>
  BY <1>1 DEF LinkMarks, EmphasisMarks
<1>3. SubSeq(text, i, i + 1) = m /\ i + 1 <= Len(text)
  <2>1. Len(m) = 2
    BY <1>2
  <2>2. i + Len(m) - 1 = i + 1
    BY <2>1
  <2> QED
    BY <1>1, <2>2 DEF Has
<1>4. SubSeq(text, i, i + 1)[1] = text[i] /\ SubSeq(text, i, i + 1)[2] = text[i + 1]
  <2>1. 1 <= i /\ i <= i + 1 + 1 /\ i \in Int /\ i + 1 \in Int /\ 1 \in 1 .. i + 1 + 1 - i
        /\ 2 \in 1 .. i + 1 + 1 - i /\ i + 1 - 1 = i /\ i + 2 - 1 = i + 1
    OBVIOUS
  <2>2. \A k \in 1 .. i + 1 + 1 - i : SubSeq(text, i, i + 1)[k] = text[i + k - 1]
    BY <1>3, <2>1, NamesBetween
  <2> QED
    BY <2>1, <2>2
<1>5. m[1] = c /\ m[2] = c
  BY <1>2
<1>6. Len(Closing(m)) = 2
  BY <1>2 DEF Closing
<1> QED
  BY <1>2, <1>3, <1>4, <1>5, <1>6

LEMMA CutAtIs ==
  ASSUME NEW Char, NEW s \in Seq(Char), NEW c
  PROVE  CutAt(s, c) \in Seq(Char) /\ ToSet(CutAt(s, c)) \subseteq ToSet(s) \ {c}
<1> DEFINE at == {i \in DOMAIN s : s[i] = c}
           b == IF at = {} THEN Len(s) ELSE Min(at) - 1
<1>1. DOMAIN s = 1 .. Len(s) /\ Len(s) \in Nat
  OBVIOUS
<1>2. \A i : i \in at <=> i \in 1 .. Len(s) /\ s[i] = c
  BY <1>1
<1>3. CutAt(s, c) = IF at = {} THEN s ELSE SubSeq(s, 1, Min(at) - 1)
  BY DEF CutAt
<1> HIDE DEF at
<1>4. CASE at = {}
  <2>1. CutAt(s, c) = s /\ \A i \in 1 .. Len(s) : s[i] # c
    BY <1>2, <1>3, <1>4
  <2> QED
    BY <1>1, <2>1 DEF ToSet
<1>5. CASE at # {}
  <2> DEFINE m == Min(at)
  <2>1. m \in at /\ \A i \in at : m <= i
    <3>1. at \in SUBSET Nat
      BY <1>1, <1>2
    <3> QED
      BY <1>5, <3>1, MinIsLeast
  <2>2. m \in 1 .. Len(s) /\ CutAt(s, c) = SubSeq(s, 1, m - 1)
    BY <1>2, <1>3, <1>5, <2>1
  <2> HIDE DEF m
  <2> DEFINE e == m - 1
             u == SubSeq(s, 1, e)
  <2>3. 1 \in Int /\ e \in Int /\ 1 <= 1 /\ 1 <= e + 1 /\ e <= Len(s) /\ e + 1 - 1 = e
    BY <1>1, <2>2
  <2> HIDE DEF e
  <2>4. u \in Seq(Char) /\ Len(u) = e /\ \A k \in 1 .. e : u[k] = s[1 + k - 1]
    BY <2>3, NamesBetween
  <2> HIDE DEF u
  <2>5. ASSUME NEW x \in ToSet(u) PROVE x \in ToSet(s) \ {c}
    <3>1. PICK k \in 1 .. e : x = u[k]
      BY <2>4, <2>5 DEF ToSet
    <3>2. k \in 1 .. Len(s) /\ x = s[k] /\ k < m
      BY <1>1, <2>2, <2>3, <2>4, <3>1 DEF e
    <3>3. k \notin at
      BY <2>1, <2>2, <3>2
    <3> QED
      BY <1>1, <1>2, <3>2, <3>3 DEF ToSet
  <2> QED
    BY <2>2, <2>4, <2>5 DEF u, e
<1> QED
  BY <1>4, <1>5

LEMMA TrimIs ==
  ASSUME NEW Char, NEW s \in Seq(Char)
  PROVE  Trim(s) \in Seq(Char) /\ ToSet(Trim(s)) \subseteq ToSet(s)
<1> DEFINE full == {i \in DOMAIN s : s[i] \notin {"space", "nl"}}
           a == Min(full)
           b == Max(full)
           u == SubSeq(s, a, b)
<1>1. DOMAIN s = 1 .. Len(s) /\ Len(s) \in Nat
  OBVIOUS
<1>2. full \subseteq 1 .. Len(s)
  BY <1>1
<1>3. Trim(s) = IF full = {} THEN <<>> ELSE u
  BY DEF Trim
<1> HIDE DEF full
<1>4. CASE full = {}
  <2>1. <<>> \in Seq(Char) /\ ToSet(<<>>) = {}
    BY DEF ToSet
  <2> QED
    BY <1>3, <1>4, <2>1
<1>5. CASE full # {}
  <2>1. a \in full /\ \A i \in full : a <= i
    <3>1. full \in SUBSET Nat
      BY <1>1, <1>2
    <3> QED
      BY <1>5, <3>1, MinIsLeast
  <2>2. b \in full /\ \A i \in full : i <= b
    BY <1>1, <1>2, <1>5, MaxIsMost
  <2> HIDE DEF a, b
  <2>3. a \in Int /\ b \in Int /\ 1 <= a /\ a <= b + 1 /\ b <= Len(s) /\ a <= b
    BY <1>1, <1>2, <2>1, <2>2
  <2>4. u \in Seq(Char) /\ Len(u) = b + 1 - a /\ \A k \in 1 .. b + 1 - a : u[k] = s[a + k - 1]
    BY <2>3, NamesBetween
  <2> HIDE DEF u
  <2>5. ASSUME NEW x \in ToSet(u) PROVE x \in ToSet(s)
    <3>1. PICK k \in 1 .. b + 1 - a : x = u[k]
      BY <2>3, <2>4, <2>5 DEF ToSet
    <3>2. a + k - 1 \in 1 .. Len(s) /\ x = s[a + k - 1]
      BY <1>1, <2>3, <2>4, <3>1
    <3> QED
      BY <1>1, <3>2 DEF ToSet
  <2> QED
    BY <1>3, <1>5, <2>4, <2>5
<1> QED
  BY <1>4, <1>5

(* The name of a link holds no mark that ends it.                          *)
LEMMA LinkNameIs ==
  ASSUME NEW Char, NEW text \in Seq(Char), NEW r, r.from \in Int, r.to \in Int,
         1 <= r.from, r.from + 3 <= r.to, r.to <= Len(text)
  PROVE  /\ ToSet(LinkName(text, r)) \cap {"|", "#"} = {}
         /\ "^" \in ToSet(LinkName(text, r)) => "#" \in ToSet(Inner(text, r))
<1> DEFINE inner == Inner(text, r)
           part == CutAt(inner, "|")
           target == Trim(part)
           anchor == IF "#" \in ToSet(target) THEN "#" ELSE "^"
           cut == CutAt(target, anchor)
           name == Trim(cut)
<1>1. name = LinkName(text, r)
  BY DEF LinkName
<1>2. inner \in Seq(Char)
  <2>1. /\ r.from + 2 \in Int /\ r.to - 2 \in Int /\ 1 <= r.from + 2
        /\ r.from + 2 <= r.to - 2 + 1 /\ r.to - 2 <= Len(text)
    OBVIOUS
  <2> QED
    BY <2>1, NamesBetween DEF Inner
<1> HIDE DEF inner
<1>3. part \in Seq(Char) /\ ToSet(part) \subseteq ToSet(inner) \ {"|"}
  BY <1>2, CutAtIs
<1> HIDE DEF part
<1>4. target \in Seq(Char) /\ ToSet(target) \subseteq ToSet(part)
  BY <1>3, TrimIs
<1> HIDE DEF target
<1>5. cut \in Seq(Char) /\ ToSet(cut) \subseteq ToSet(target) \ {anchor}
  BY <1>4, CutAtIs
<1>6. anchor = IF "#" \in ToSet(target) THEN "#" ELSE "^"
  OBVIOUS
<1> HIDE DEF cut, anchor
<1>7. ToSet(name) \subseteq ToSet(cut)
  BY <1>5, TrimIs
<1> HIDE DEF name
<1>8. ToSet(name) \cap {"|", "#"} = {}
  <2>1. CASE "#" \in ToSet(target)
    <3>1. anchor = "#"
      BY <1>6, <2>1
    <3> QED
      BY <1>3, <1>4, <1>5, <1>7, <3>1
  <2>2. CASE "#" \notin ToSet(target)
    BY <1>3, <1>4, <1>5, <1>7, <2>2
  <2> QED
    BY <2>1, <2>2
<1>9. "^" \in ToSet(name) => "#" \in ToSet(inner)
  <2>1. CASE "#" \in ToSet(target)
    BY <1>3, <1>4, <2>1
  <2>2. CASE "#" \notin ToSet(target)
    <3>1. anchor = "^"
      BY <1>6, <2>2
    <3> QED
      BY <1>5, <1>7, <3>1
  <2> QED
    BY <2>1, <2>2
<1> QED
  BY <1>1, <1>8, <1>9 DEF inner

(* From p on no mark is missed by these ranges.                            *)
MeetMarks(text, marks, ranges, i) ==
  \A p \in i .. Len(text) : \A m \in MarkAt(text, p, marks) :
    LET j == Find(text, p + 2, Len(text), Closing(m)) IN
    j # 0 => p .. j + 1 \cap Covered(ranges) # {}

LEMMA MarkClosed ==
  ASSUME NEW Char, NEW text \in Seq(Char), NEW i \in 1 .. Len(text),
         NEW marks \in {LinkMarks, EmphasisMarks},
         NEW m \in MarkAt(text, i, marks)
  PROVE  LET j == Find(text, i + 2, Len(text), Closing(m)) IN
         /\ j = 0 \/ (j \in i + 2 .. Len(text) /\ j + 1 <= Len(text))
         /\ i + 1 <= Len(text)
<1> DEFINE j == Find(text, i + 2, Len(text), Closing(m))
<1>1. i + 1 <= Len(text) /\ Len(Closing(m)) = 2
  BY MarkIs
<1>2. i + 2 \in Nat \ {0} /\ Len(text) \in Nat /\ Len(Closing(m)) \in Nat
  BY <1>1
<1>3. j # 0 => j \in i + 2 .. Len(text) /\ j + Len(Closing(m)) - 1 <= Len(text)
  BY <1>2, FindIs DEF IsFound
<1> HIDE DEF j
<1> QED
  BY <1>1, <1>3 DEF j

(* Behind a mark that is not closed the same mark is not closed either.    *)
LEMMA MeetNone ==
  ASSUME NEW Char, NEW text \in Seq(Char), NEW i \in 1 .. Len(text),
         NEW marks \in {LinkMarks, EmphasisMarks},
         NEW m \in MarkAt(text, i, marks), Find(text, i + 2, Len(text), Closing(m)) = 0,
         NEW ranges, MeetMarks(text, marks, ranges, i + 2)
  PROVE  MeetMarks(text, marks, ranges, i)
<1>1. m = <<text[i], text[i]>> /\ Len(Closing(m)) = 2 /\ text[i] = text[i + 1]
  BY MarkIs
<1>2. \A j \in i + 2 .. Len(text) : Has(text, j, Closing(m)) => j + 2 - 1 > Len(text)
  <2>1. i + 2 \in Nat \ {0} /\ Len(text) \in Nat /\ Len(Closing(m)) \in Nat
    BY <1>1
  <2>2. IsFound(text, i + 2, Len(text), Closing(m), 0)
    BY <2>1, FindIs
  <2> QED
    BY <1>1, <2>2 DEF IsFound
<1>3. ASSUME NEW p \in i .. Len(text), NEW m2 \in MarkAt(text, p, marks), p \in {i, i + 1}
      PROVE  Find(text, p + 2, Len(text), Closing(m2)) = 0
  <2>1. m2 = <<text[p], text[p]>>
    BY <1>3, MarkIs
  <2>2. m2 = m
    BY <1>1, <1>3, <2>1
  <2> DEFINE j == Find(text, p + 2, Len(text), Closing(m))
  <2>3. p + 2 \in Nat \ {0} /\ Len(text) \in Nat /\ Len(Closing(m)) = 2
    BY <1>1
  <2>4. j # 0 => j \in p + 2 .. Len(text) /\ Has(text, j, Closing(m)) /\ j + Len(Closing(m)) - 1 <= Len(text)
    <3>1. IsFound(text, p + 2, Len(text), Closing(m), j)
      BY <2>3, FindIs
    <3> HIDE DEF j
    <3> QED
      BY <3>1 DEF IsFound
  <2> HIDE DEF j
  <2>5. j # 0 => FALSE
    <3>1. HAVE j # 0
    <3>2. j \in i + 2 .. Len(text) /\ Has(text, j, Closing(m)) /\ j + 2 - 1 <= Len(text)
      BY <1>3, <2>3, <2>4, <3>1
    <3> QED
      BY <1>2, <3>2
  <2> QED
    BY <2>2, <2>5 DEF j
<1>4. \A p \in i .. Len(text) : p \in {i, i + 1} \/ p \in i + 2 .. Len(text)
  OBVIOUS
<1> QED
  BY <1>3, <1>4 DEF MeetMarks

LEMMA MeetFirst ==
  ASSUME NEW Char, NEW text \in Seq(Char), NEW i \in 1 .. Len(text),
         NEW marks \in {LinkMarks, EmphasisMarks},
         NEW j \in i + 2 .. Len(text), j + 1 <= Len(text),
         NEW ranges, NEW all, MeetMarks(text, marks, ranges, j + 2),
         Covered(all) = (i .. j + 1) \cup Covered(ranges)
  PROVE  MeetMarks(text, marks, all, i)
<1>1. SUFFICES ASSUME NEW p \in i .. Len(text), NEW m \in MarkAt(text, p, marks),
                      Find(text, p + 2, Len(text), Closing(m)) # 0
               PROVE  p .. Find(text, p + 2, Len(text), Closing(m)) + 1 \cap Covered(all) # {}
  BY DEF MeetMarks
<1> DEFINE f == Find(text, p + 2, Len(text), Closing(m))
<1>2. f \in p + 2 .. Len(text)
  <2>1. p \in 1 .. Len(text)
    OBVIOUS
  <2>2. f = 0 \/ (f \in p + 2 .. Len(text) /\ f + 1 <= Len(text))
    BY <2>1, MarkClosed
  <2> QED
    BY <1>1, <2>2
<1> HIDE DEF f
<1>3. CASE p <= j + 1
  <2>1. p \in i .. j + 1 /\ p \in p .. f + 1
    BY <1>2, <1>3
  <2> QED
    BY <2>1 DEF f
<1>4. CASE p > j + 1
  <2>1. p \in j + 2 .. Len(text)
    BY <1>4
  <2>2. p .. f + 1 \cap Covered(ranges) # {}
    BY <1>1, <2>1 DEF MeetMarks, f
  <2> QED
    BY <2>2 DEF f
<1> QED
  BY <1>3, <1>4

LEMMA MeetNext ==
  ASSUME NEW Char, NEW text \in Seq(Char), NEW i \in 1 .. Len(text),
         NEW marks \in {LinkMarks, EmphasisMarks},
         MarkAt(text, i, marks) = {}, NEW ranges, MeetMarks(text, marks, ranges, i + 1)
  PROVE  MeetMarks(text, marks, ranges, i)
<1>1. \A p \in i .. Len(text) : p = i \/ p \in i + 1 .. Len(text)
  OBVIOUS
<1> QED
  BY <1>1 DEF MeetMarks

(* What one of the two scans finds.                                        *)
LEMMA ScanOfMarks ==
  ASSUME NEW Char, NEW text \in Seq(Char), NEW marks \in {LinkMarks, EmphasisMarks}
  PROVE  LET R == Marked(text, marks) IN
         /\ InOrder(R) /\ MeetMarks(text, marks, R, 1)
         /\ \A k \in DOMAIN R : /\ R[k].from \in Int /\ R[k].to \in Int
                                /\ 1 <= R[k].from /\ R[k].from + 3 <= R[k].to
                                /\ R[k].to <= Len(text)
<1> DEFINE n == Len(text)
           S == 1 .. n + 2
           go == 1 .. n
           mark == [i \in go |-> CHOOSE m \in MarkAt(text, i, marks) : TRUE]
           close == [i \in go |-> Find(text, i + 2, n, Closing(mark[i]))]
           succ == [i \in go |-> IF MarkAt(text, i, marks) = {} THEN i + 1
                                 ELSE IF close[i] = 0 THEN i + 2 ELSE close[i] + 2]
           left == [i \in S |-> n + 2 - i]
           range == [i \in go |-> [from |-> i, to |-> close[i] + 1]]
           T == {r \in [from : Int, to : Int] : 1 <= r.from /\ r.from + 3 <= r.to /\ r.to <= n}
           IsMarked(i) == MarkAt(text, i, marks) # {} /\ close[i] # 0
           base == [i \in S |-> <<>>]
           cut == {i \in go : IsMarked(i)}
           head == [i \in go |-> <<range[i]>>]
           Body(f, i) == IF i > n THEN <<>>
                         ELSE IF MarkAt(text, i, marks) = {} THEN f[i + 1]
                         ELSE LET m == CHOOSE m \in MarkAt(text, i, marks) : TRUE
                                  j == Find(text, i + 2, n, Closing(m)) IN
                              IF j = 0 THEN f[i + 2]
                              ELSE <<[from |-> i, to |-> j + 1]>> \o f[j + 2]
           Value(f, i) == IF i \in go
                          THEN IF i \in cut THEN head[i] \o f[succ[i]] ELSE f[succ[i]]
                          ELSE base[i]
           Scans(f) == f = [i \in S |-> Body(f, i)]
           scan == CHOOSE f : Scans(f)
<1>1. n \in Nat /\ DOMAIN text = 1 .. n
  OBVIOUS
<1>2. \A i \in go : MarkAt(text, i, marks) # {} =>
        /\ mark[i] \in MarkAt(text, i, marks) /\ i + 1 <= n
        /\ close[i] # 0 => close[i] \in i + 2 .. n /\ close[i] + 1 <= n
  <2>1. ASSUME NEW i \in go, MarkAt(text, i, marks) # {} PROVE mark[i] \in MarkAt(text, i, marks)
    BY <2>1
  <2>2. \A i \in go : close[i] = Find(text, i + 2, n, Closing(mark[i]))
    OBVIOUS
  <2> HIDE DEF mark, close
  <2> QED
    BY <1>1, <2>1, <2>2, MarkClosed
<1>3. Marked(text, marks) = scan[1]
  BY DEF Marked
<1>4. \A i \in go : /\ mark[i] = CHOOSE m \in MarkAt(text, i, marks) : TRUE
                    /\ close[i] = Find(text, i + 2, n, Closing(mark[i]))
                    /\ range[i] = [from |-> i, to |-> close[i] + 1]
                    /\ succ[i] = IF MarkAt(text, i, marks) = {} THEN i + 1
                                 ELSE IF close[i] = 0 THEN i + 2 ELSE close[i] + 2
  OBVIOUS
<1> HIDE DEF mark, close, succ, range
<1>5. \A i \in go : succ[i] \in S /\ i < succ[i]
  <2>1. TAKE i \in go
  <2>2. succ[i] = IF MarkAt(text, i, marks) = {} THEN i + 1
                  ELSE IF close[i] = 0 THEN i + 2 ELSE close[i] + 2
    BY <1>4
  <2>3. MarkAt(text, i, marks) # {} /\ close[i] # 0 => close[i] \in i + 2 .. n /\ close[i] + 1 <= n
    BY <1>2
  <2>4. i \in Nat /\ 1 <= i /\ i <= n /\ n \in Nat
    BY <1>1
  <2>5. CASE MarkAt(text, i, marks) = {}
    BY <2>2, <2>4, <2>5
  <2>6. CASE MarkAt(text, i, marks) # {} /\ close[i] = 0
    BY <2>2, <2>4, <2>6
  <2>7. CASE MarkAt(text, i, marks) # {} /\ close[i] # 0
    BY <2>2, <2>3, <2>4, <2>7
  <2> QED
    BY <2>5, <2>6, <2>7
<1>6. \A i \in go : IsMarked(i) => /\ range[i] \in T /\ range[i].from = i
                                   /\ range[i].to = close[i] + 1 /\ succ[i] = close[i] + 2
  <2>1. ASSUME NEW i \in go, IsMarked(i)
        PROVE  /\ range[i] \in T /\ range[i].from = i
               /\ range[i].to = close[i] + 1 /\ succ[i] = close[i] + 2
    <3>1. close[i] \in i + 2 .. n /\ close[i] + 1 <= n
      BY <1>2, <2>1
    <3>2. range[i] = [from |-> i, to |-> close[i] + 1] /\ succ[i] = close[i] + 2
      BY <1>4, <2>1
    <3> QED
      BY <1>1, <3>1, <3>2
  <2> QED
    BY <2>1
<1>7. IsScan(S, n + 1, left, go, succ)
  <2>1. left \in [S -> 0 .. n + 1] /\ n + 1 \in Nat
    BY <1>1
  <2>2. \A i \in go : i \in S /\ left[i] = n + 2 - i /\ left[succ[i]] = n + 2 - succ[i]
    BY <1>1, <1>5
  <2>3. \A i \in go : left[succ[i]] < left[i] /\ succ[i] \in S
    BY <1>1, <1>5, <2>2
  <2> HIDE DEF S, left, go
  <2> QED
    BY <2>1, <2>2, <2>3 DEF IsScan
<1>8. /\ \A i \in go : head[i] = <<range[i]>> /\ (i \in cut <=> IsMarked(i))
      /\ \A i \in S : base[i] = <<>>
  OBVIOUS
<1>9. \A i \in S : i \in go <=> ~ (i > n)
  BY <1>1
<1> HIDE DEF T, left, head, base, cut
<1>10. PICK g : Scanned(g, S, go, succ, cut, head, base)
  <2> HIDE DEF S, go
  <2> QED
    BY <1>7, ScanExists
<1>12. ASSUME NEW f, NEW i \in S PROVE Body(f, i) = Value(f, i)
  <2>1. CASE i > n
    BY <1>8, <1>9, <2>1
  <2>2. CASE i \in go /\ MarkAt(text, i, marks) = {}
    BY <1>4, <1>8, <1>9, <2>2
  <2>3. CASE i \in go /\ MarkAt(text, i, marks) # {}
    <3>1. Body(f, i) = IF close[i] = 0 THEN f[i + 2] ELSE <<range[i]>> \o f[close[i] + 2]
      <4>1. ~ (i > n) /\ i \in go
        BY <1>9, <2>3
      <4>2. Body(f, i) = LET j == Find(text, i + 2, n, Closing(mark[i])) IN
                         IF j = 0 THEN f[i + 2]
                         ELSE <<[from |-> i, to |-> j + 1]>> \o f[j + 2]
        <5> DEFINE c == CHOOSE m \in MarkAt(text, i, marks) : TRUE
        <5>1. Body(f, i) = LET j == Find(text, i + 2, n, Closing(c)) IN
                           IF j = 0 THEN f[i + 2]
                           ELSE <<[from |-> i, to |-> j + 1]>> \o f[j + 2]
          BY <2>3, <4>1
        <5>2. mark[i] = c
          BY <1>4, <4>1
        <5> HIDE DEF c, Body
        <5> QED
          BY <5>1, <5>2
      <4>3. close[i] = Find(text, i + 2, n, Closing(mark[i])) /\ range[i] = [from |-> i, to |-> close[i] + 1]
        BY <1>4, <4>1
      <4> HIDE DEF Body
      <4> QED
        BY <4>2, <4>3
    <3> QED
      BY <1>4, <1>8, <2>3, <3>1
  <2> QED
    BY <1>9, <2>1, <2>2, <2>3
<1>14. Scans(scan)
  <2>1. Scans(g)
    <3> HIDE DEF Body, S, go
    <3> QED
      BY <1>10, <1>12 DEF Scanned
  <2> HIDE DEF Scans
  <2> QED
    BY <2>1
<1> HIDE DEF scan
<1>15. \A i \in S : scan[i] = IF i \in go
                              THEN IF IsMarked(i) THEN <<range[i]>> \o scan[succ[i]]
                                   ELSE scan[succ[i]]
                              ELSE <<>>
  <2> HIDE DEF Body, S, go
  <2>1. \A i \in S : scan[i] = Body(scan, i)
    BY <1>14
  <2> QED
    BY <1>8, <1>12, <2>1
<1> DEFINE Good == {i \in S : /\ scan[i] \in Seq(T) /\ AreRanges(scan[i], i, n)
                              /\ MeetMarks(text, marks, scan[i], i)}
<1>16. \A i \in S : i \in Good
  <2>1. ASSUME NEW i \in S, i \in go => succ[i] \in Good PROVE i \in Good
    <3>1. CASE i \notin go
      <4>1. scan[i] = <<>> /\ i > n
        BY <1>9, <1>15, <3>1
      <4>2. AreRanges(<<>>, i, n) /\ <<>> \in Seq(T)
        BY NoRange
      <4>3. MeetMarks(text, marks, <<>>, i)
        BY <1>1, <4>1 DEF MeetMarks
      <4> QED
        BY <4>1, <4>2, <4>3
    <3>2. ASSUME i \in go PROVE i \in Good
      <4> DEFINE R == scan[succ[i]]
                 r == range[i]
      <4>1. R \in Seq(T) /\ AreRanges(R, succ[i], n) /\ MeetMarks(text, marks, R, succ[i])
        BY <2>1, <3>2
      <4>2. scan[i] = IF IsMarked(i) THEN <<r>> \o R ELSE R
        BY <1>15, <3>2
      <4>3. i \in 1 .. Len(text) /\ n = Len(text) /\ succ[i] \in Int /\ i < succ[i]
        BY <1>1, <1>5, <3>2
      <4>4. IsMarked(i) => /\ r \in T /\ r.from = i /\ r.to = close[i] + 1
                           /\ succ[i] = close[i] + 2
        BY <1>6, <3>2
      <4> HIDE DEF R, r
      <4>5. CASE IsMarked(i)
        <5>1. close[i] \in i + 2 .. Len(text) /\ close[i] + 1 <= Len(text)
          BY <1>2, <3>2, <4>5
        <5>2. /\ r.from \in Int /\ r.to \in Int /\ r.from <= r.to /\ r.to <= n
              /\ succ[i] = r.to + 1 /\ n \in Int
          BY <1>1, <4>3, <4>4, <4>5, <5>1
        <5>3. /\ <<r>> \o R \in Seq(T) /\ AreRanges(<<r>> \o R, i, n)
              /\ Covered(<<r>> \o R) = (i .. close[i] + 1) \cup Covered(R)
          <6>1. AreRanges(R, r.to + 1, n) /\ R \in Seq(T) /\ r \in T
            BY <4>1, <4>4, <4>5, <5>2
          <6> HIDE DEF n
          <6>2. /\ <<r>> \o R \in Seq(T) /\ AreRanges(<<r>> \o R, r.from, n)
                /\ Covered(<<r>> \o R) = (r.from .. r.to) \cup Covered(R)
            BY <5>2, <6>1, RangeBefore
          <6> QED
            BY <4>4, <4>5, <6>2
        <5> DEFINE all == <<r>> \o R
        <5> HIDE DEF all
        <5>4. MeetMarks(text, marks, R, close[i] + 2) /\ Covered(all) = (i .. close[i] + 1) \cup Covered(R)
          BY <4>1, <4>4, <4>5, <5>3 DEF all
        <5>5. MeetMarks(text, marks, all, i)
          BY <4>3, <5>1, <5>4, MeetFirst
        <5> QED
          BY <4>2, <4>5, <5>3, <5>5 DEF all
      <4>6. CASE ~ IsMarked(i)
        <5>1. AreRanges(R, i, n)
          BY <1>1, <4>1, <4>3, RangesFrom
        <5>2. CASE MarkAt(text, i, marks) = {}
          <6>1. succ[i] = i + 1
            BY <1>4, <3>2, <5>2
          <6>2. MeetMarks(text, marks, R, i)
            BY <4>1, <4>3, <5>2, <6>1, MeetNext
          <6> QED
            BY <4>1, <4>2, <4>6, <5>1, <6>2
        <5>3. CASE MarkAt(text, i, marks) # {}
          <6>1. /\ succ[i] = i + 2 /\ mark[i] \in MarkAt(text, i, marks)
                /\ Find(text, i + 2, Len(text), Closing(mark[i])) = 0
            BY <1>2, <1>4, <3>2, <4>6, <5>3
          <6>2. MeetMarks(text, marks, R, i)
            BY <4>1, <4>3, <6>1, MeetNone
          <6> QED
            BY <4>1, <4>2, <4>6, <5>1, <6>2
        <5> QED
          BY <5>2, <5>3
      <4> QED
        BY <4>5, <4>6
    <3> QED
      BY <3>1, <3>2
  <2> HIDE DEF S, go, Good
  <2> QED
    BY <1>7, <2>1, ScanInduction
<1> DEFINE R == scan[1]
<1>17. R \in Seq(T) /\ AreRanges(R, 1, n) /\ MeetMarks(text, marks, R, 1)
  BY <1>1, <1>16
<1>18. Marked(text, marks) = R
  BY <1>3
<1> HIDE DEF R
<1>19. \A k \in DOMAIN R : R[k] \in T
  BY <1>17
<1>20. InOrder(R)
  BY <1>17, RangesInOrder
<1>21. \A k \in DOMAIN R : /\ R[k].from \in Int /\ R[k].to \in Int
                          /\ 1 <= R[k].from /\ R[k].from + 3 <= R[k].to
                          /\ R[k].to <= Len(text)
  BY <1>19 DEF T
<1> QED
  BY <1>17, <1>18, <1>20, <1>21

(* However the marks of links and emphasis are mixed in a text             *)
(* (extract_wikilinks and extract_emphasized of core/src/indexer.rs), the  *)
(* ranges that each of the two finds do not overlap, every mark that is    *)
(* closed meets one, and no name of a link goes beyond | or #, nor beyond  *)
(* ^ where the link has no #.                                              *)
THEOREM MarksAreFound ==
  ASSUME NEW Char, NEW text \in Seq(Char)
  PROVE  NoMarkMissed(text)
<1>1. ASSUME NEW marks \in {LinkMarks, EmphasisMarks}, NEW ranges \in {Marked(text, marks)}
      PROVE  /\ InOrder(ranges)
             /\ \A i \in DOMAIN text : \A m \in MarkAt(text, i, marks) :
                  LET j == Find(text, i + 2, Len(text), Closing(m)) IN
                  j # 0 => i .. j + 1 \cap Covered(ranges) # {}
  <2>1. ranges = Marked(text, marks) /\ DOMAIN text = 1 .. Len(text)
    OBVIOUS
  <2>2. InOrder(ranges) /\ MeetMarks(text, marks, ranges, 1)
    BY <2>1, ScanOfMarks
  <2> QED
    BY <2>1, <2>2 DEF MeetMarks
<1>2. ASSUME NEW links \in {Marked(text, LinkMarks)}, NEW k \in DOMAIN links,
             NEW name \in {ToSet(LinkName(text, links[k]))}
      PROVE  /\ name \cap {"|", "#"} = {}
             /\ "^" \in name => "#" \in ToSet(Inner(text, links[k]))
  <2> DEFINE r == links[k]
  <2>1. /\ r.from \in Int /\ r.to \in Int /\ 1 <= r.from /\ r.from + 3 <= r.to
        /\ r.to <= Len(text)
    BY ScanOfMarks
  <2> HIDE DEF r
  <2>2. /\ ToSet(LinkName(text, r)) \cap {"|", "#"} = {}
        /\ "^" \in ToSet(LinkName(text, r)) => "#" \in ToSet(Inner(text, r))
    BY <2>1, LinkNameIs
  <2> QED
    BY <2>2 DEF r
<1> QED
  BY <1>1, <1>2 DEF NoMarkMissed

-----------------------------------------------------------------------------
(***************************************************************************)
(* Code and math.                                                          *)
(***************************************************************************)
SegmentRange == [from : Int, to : Int, code : BOOLEAN]
Coded(R) == UNION {R[k].from .. R[k].to : k \in {j \in DOMAIN R : R[j].code}}

LEMMA CodedJoins ==
  ASSUME NEW P \in Seq(SegmentRange), NEW Q \in Seq(SegmentRange)
  PROVE  /\ Coded(P) \subseteq Coded(P \o Q) /\ Coded(Q) \subseteq Coded(P \o Q)
<1> DEFINE R == P \o Q
           p == Len(P)
           q == Len(Q)
<1>1. /\ R \in Seq(SegmentRange) /\ Len(R) = p + q /\ p \in Nat /\ q \in Nat
      /\ \A k \in 1 .. p + q : R[k] = IF k <= p THEN P[k] ELSE Q[k - p]
  BY ConcatProperties
<1>2. DOMAIN R = 1 .. p + q /\ DOMAIN P = 1 .. p /\ DOMAIN Q = 1 .. q
  BY <1>1
<1> HIDE DEF R, p, q
<1>3. \A k \in 1 .. p : k \in 1 .. p + q /\ R[k] = P[k]
  BY <1>1
<1>4. \A k \in 1 .. q : k + p \in 1 .. p + q /\ R[k + p] = Q[k]
  <2>1. TAKE k \in 1 .. q
  <2>2. k + p \in 1 .. p + q /\ ~ (k + p <= p) /\ k + p - p = k
    BY <1>1
  <2> QED
    BY <1>1, <2>2
<1>5. \A x : x \in Coded(R) <=> \E k \in 1 .. p + q : R[k].code /\ x \in R[k].from .. R[k].to
  BY <1>2 DEF Coded
<1>6. \A x : x \in Coded(P) <=> \E k \in 1 .. p : P[k].code /\ x \in P[k].from .. P[k].to
  BY <1>2 DEF Coded
<1>7. \A x : x \in Coded(Q) <=> \E k \in 1 .. q : Q[k].code /\ x \in Q[k].from .. Q[k].to
  BY <1>2 DEF Coded
<1>8. \A x : x \in Coded(P) => x \in Coded(R)
  BY <1>3, <1>5, <1>6
<1>9. \A x : x \in Coded(Q) => x \in Coded(R)
  BY <1>4, <1>5, <1>7
<1> QED
  BY <1>8, <1>9 DEF R

LEMMA SegmentIs ==
  ASSUME NEW i \in Int, NEW j \in Int, NEW code \in BOOLEAN, i <= j + 1
  PROVE  /\ Segment(i, j, code) \in Seq(SegmentRange) /\ AreRanges(Segment(i, j, code), i, j)
         /\ Covered(Segment(i, j, code)) = i .. j
         /\ code => Coded(Segment(i, j, code)) = i .. j
<1>1. CASE i > j
  <2>1. Segment(i, j, code) = <<>> /\ i .. j = {}
    BY <1>1 DEF Segment
  <2>2. /\ <<>> \in Seq(SegmentRange) /\ AreRanges(<<>>, i, j) /\ Covered(<<>>) = {}
        /\ Coded(<<>>) = {}
    BY NoRange DEF Coded
  <2> QED
    BY <2>1, <2>2
<1>2. CASE ~ (i > j)
  <2> DEFINE r == [from |-> i, to |-> j, code |-> code]
  <2>1. Segment(i, j, code) = <<r>>
    BY <1>2 DEF Segment
  <2>2. /\ r \in SegmentRange /\ r.from \in Int /\ r.to \in Int /\ r.from <= r.to
        /\ r.from = i /\ r.to = j /\ r.code = code
    BY <1>2 DEF SegmentRange
  <2> HIDE DEF r
  <2>3. <<r>> \in Seq(SegmentRange) /\ AreRanges(<<r>>, i, j) /\ Covered(<<r>>) = i .. j
    <3>1. i <= r.from /\ r.to <= j
      BY <2>2
    <3>2. <<r>> \in Seq(SegmentRange) /\ AreRanges(<<r>>, i, j) /\ Covered(<<r>>) = r.from .. r.to
      BY <2>2, <3>1, OneRange
    <3> QED
      BY <2>2, <3>2
  <2>4. code => Coded(<<r>>) = i .. j
    <3>1. HAVE code
    <3> DEFINE R == <<r>>
    <3>2. DOMAIN R = 1 .. 1 /\ R[1] = r
      OBVIOUS
    <3> HIDE DEF R
    <3>3. \A x : x \in Coded(R) <=> \E k \in DOMAIN R : R[k].code /\ x \in R[k].from .. R[k].to
      BY DEF Coded
    <3>4. \A k : k \in DOMAIN R <=> k = 1
      BY <3>2
    <3>5. \A x : x \in Coded(R) <=> x \in i .. j
      BY <2>2, <3>1, <3>2, <3>3, <3>4
    <3>6. Coded(R) = i .. j
      BY <3>5
    <3> QED
      BY <3>6 DEF R
  <2> QED
    BY <2>1, <2>3, <2>4
<1> QED
  BY <1>1, <1>2

LEMMA SegmentType ==
  ASSUME NEW i \in Int, NEW j \in Int, NEW code \in BOOLEAN
  PROVE  Segment(i, j, code) \in Seq(SegmentRange)
<1> DEFINE r == [from |-> i, to |-> j, code |-> code]
<1>1. r \in SegmentRange
  BY DEF SegmentRange
<1>2. Segment(i, j, code) \in {<<>>, <<r>>}
  BY DEF Segment
<1> HIDE DEF r
<1>3. <<>> \in Seq(SegmentRange) /\ <<r>> \in Seq(SegmentRange)
  BY <1>1
<1> QED
  BY <1>2, <1>3

LEMMA ClosesAtIs ==
  ASSUME NEW text, NEW i \in Nat, NEW last \in Nat, ClosesAt(text, i, last) # 0
  PROVE  ClosesAt(text, i, last) \in i + 1 .. last
<1> DEFINE j == Find(text, i + 1, last, <<text[i]>>)
<1>1. ClosesAt(text, i, last) \in {0, j}
  BY DEF ClosesAt
<1>2. i + 1 \in Nat \ {0} /\ Len(<<text[i]>>) \in Nat
  OBVIOUS
<1>3. IsFound(text, i + 1, last, <<text[i]>>, j)
  BY <1>2, FindIs
<1> HIDE DEF j
<1> QED
  BY <1>1, <1>3 DEF IsFound

(* Inline code and math and what is between them is the whole text.        *)
LEMMA InlineIs ==
  ASSUME NEW text, NEW first \in Nat \ {0}, NEW last \in Nat, first <= last + 2
  PROVE  LET R == InlineSegments(text, first, last) IN
         /\ R \in Seq(SegmentRange)
         /\ first <= last + 1 =>
              AreRanges(R, first, last) /\ Covered(R) = first .. last
         /\ first = last + 2 => R = <<>>
<1> DEFINE I == first .. last + 2
           S == I \X I
           go == {s \in S : s[2] <= last}
           close == [s \in S |-> ClosesAt(text, s[2], last)]
           Found(s) == Opens(text, s[2], last) /\ close[s] # 0
           succ == [s \in S |-> IF Found(s) THEN <<close[s] + 1, close[s] + 1>>
                                ELSE <<s[1], s[2] + 1>>]
           left == [s \in S |-> last + 2 - s[2]]
           head == [s \in S |-> IF Found(s)
                                THEN Segment(s[1], s[2] - 1, FALSE) \o Segment(s[2], close[s], TRUE)
                                ELSE <<>>]
           base == [s \in S |-> Segment(s[1], last, FALSE)]
           Q == Seq(SegmentRange)
           cut == {s \in S : Found(s)}
           Body(f, at) ==
             LET start == at[1]
                 i     == at[2] IN
             IF i > last THEN Segment(start, last, FALSE)
             ELSE IF Opens(text, i, last) /\ ClosesAt(text, i, last) # 0
             THEN LET j == ClosesAt(text, i, last) IN
                  Segment(start, i - 1, FALSE) \o Segment(i, j, TRUE) \o f[<<j + 1, j + 1>>]
             ELSE f[<<start, i + 1>>]
           Splits(f) == f = [at \in S |-> Body(f, at)]
           split == CHOOSE f : Splits(f)
<1>1. first \in Int /\ last \in Int /\ last + 2 \in Int
  OBVIOUS
<1>2. InlineSegments(text, first, last) = split[<<first, first>>]
  BY DEF InlineSegments
<1>3. \A s \in S : s = <<s[1], s[2]>> /\ s[1] \in I /\ s[2] \in I
  OBVIOUS
<1>4. \A x \in I : x \in Nat /\ first <= x /\ x <= last + 2
  OBVIOUS
<1>5. \A s \in S : close[s] = ClosesAt(text, s[2], last)
  OBVIOUS
<1>19. \A s \in S : /\ Found(s) => succ[s] = <<close[s] + 1, close[s] + 1>>
                    /\ ~ Found(s) => succ[s] = <<s[1], s[2] + 1>>
  OBVIOUS
<1>20. \A s \in S : left[s] = last + 2 - s[2]
  OBVIOUS
<1>21. \A s \in S : base[s] = Segment(s[1], last, FALSE)
  OBVIOUS
<1>22. \A s \in S : /\ Found(s) => head[s] = Segment(s[1], s[2] - 1, FALSE) \o Segment(s[2], close[s], TRUE)
                    /\ ~ Found(s) => head[s] = <<>>
  OBVIOUS
<1>23. \A s \in S : s \in cut <=> Found(s)
  OBVIOUS
<1>6. left \in [S -> 0 .. last + 2]
  <2>1. \A s \in S : last + 2 - s[2] \in 0 .. last + 2
    BY <1>3, <1>4
  <2> HIDE DEF S
  <2> QED
    BY <2>1
<1>7. \A s : s \in go <=> s \in S /\ s[2] <= last
  OBVIOUS
<1> HIDE DEF I, close, succ, left, head, base, cut
<1>8. ASSUME NEW s \in go
      PROVE  /\ Found(s) => close[s] \in s[2] + 1 .. last
             /\ succ[s] \in S /\ left[succ[s]] < left[s] /\ s[2] < succ[s][2]
  <2>1. s \in S /\ s[2] \in Nat /\ first <= s[2] /\ s[2] <= last /\ s[1] \in I /\ s[2] \in I
    BY <1>3, <1>4, <1>7
  <2>2. Found(s) => close[s] \in s[2] + 1 .. last
    <3>1. ClosesAt(text, s[2], last) # 0 => ClosesAt(text, s[2], last) \in s[2] + 1 .. last
      BY <2>1, ClosesAtIs
    <3> QED
      BY <1>5, <2>1, <3>1
  <2> DEFINE t == succ[s]
             c == IF Found(s) THEN close[s] + 1 ELSE s[2] + 1
  <2>3. t[2] = c /\ t \in {<<c, c>>, <<s[1], c>>}
    BY <1>19, <2>1
  <2>4. c \in I /\ s[2] < c /\ c \in Int
    BY <1>1, <2>1, <2>2 DEF I
  <2> HIDE DEF t, c, Found
  <2>5. t \in S
    BY <2>1, <2>3, <2>4
  <2>6. left[t] = last + 2 - t[2] /\ left[s] = last + 2 - s[2]
    BY <1>20, <2>1, <2>5
  <2> HIDE DEF S
  <2>7. left[t] < left[s] /\ s[2] < t[2]
    BY <2>1, <2>3, <2>4, <2>6
  <2> QED
    BY <2>2, <2>5, <2>7 DEF t
<1> HIDE DEF go, S, Found
<1>9. IsScan(S, last + 2, left, go, succ)
  <2>1. go \in SUBSET S /\ last + 2 \in Nat
    BY <1>7
  <2> QED
    BY <1>6, <1>8, <2>1 DEF IsScan
<1>10. \A s \in S : base[s] \in Q /\ head[s] \in Q
  <2>1. TAKE s \in S
  <2>2. s[1] \in Int /\ s[2] \in Int /\ s[2] - 1 \in Int
    BY <1>3, <1>4
  <2>3. base[s] \in Q
    <3>1. Segment(s[1], last, FALSE) \in Q
      BY <1>1, <2>2, SegmentType
    <3> QED
      BY <1>21, <3>1
  <2>4. CASE Found(s)
    <3>1. close[s] \in Int
      <4>1. s[2] \in Nat /\ ClosesAt(text, s[2], last) # 0
        BY <1>3, <1>4, <1>5, <2>4 DEF Found
      <4>2. ClosesAt(text, s[2], last) \in s[2] + 1 .. last
        BY <4>1, ClosesAtIs
      <4> QED
        BY <1>5, <2>2, <4>2
    <3>2. Segment(s[1], s[2] - 1, FALSE) \in Q /\ Segment(s[2], close[s], TRUE) \in Q
      BY <2>2, <3>1, SegmentType
    <3>3. Segment(s[1], s[2] - 1, FALSE) \o Segment(s[2], close[s], TRUE) \in Q
      BY <3>2, ConcatProperties
    <3> QED
      BY <1>22, <2>3, <2>4, <3>3
  <2>5. CASE ~ Found(s)
    <3>1. <<>> \in Q
      OBVIOUS
    <3> QED
      BY <1>22, <2>3, <2>5, <3>1
  <2> QED
    BY <2>4, <2>5
<1>11. PICK g : Scanned(g, S, go, succ, cut, head, base)
  BY <1>9, ScanExists
<1> DEFINE Then(f, s) == IF s \in go
                         THEN IF s \in cut THEN head[s] \o f[succ[s]] ELSE f[succ[s]]
                         ELSE base[s]
<1>12. ASSUME NEW f, NEW s \in S PROVE Body(f, s) = Then(f, s)
  <2>1. s[2] \in Nat /\ last \in Nat
    BY <1>3, <1>4
  <2>2. CASE s \notin go
    <3>1. s[2] > last
      BY <1>7, <2>1, <2>2
    <3> QED
      BY <1>21, <2>2, <3>1
  <2>3. CASE s \in go
    <3>1. ~ (s[2] > last)
      BY <1>7, <2>1, <2>3
    <3>2. Found(s) <=> Opens(text, s[2], last) /\ ClosesAt(text, s[2], last) # 0
      BY <1>5 DEF Found
    <3>3. CASE Found(s)
      <4>1. Body(f, s) = Segment(s[1], s[2] - 1, FALSE) \o Segment(s[2], close[s], TRUE)
                                    \o f[<<close[s] + 1, close[s] + 1>>]
        BY <1>5, <3>1, <3>2, <3>3
      <4> QED
        BY <1>19, <1>22, <1>23, <2>3, <3>3, <4>1
    <3>4. CASE ~ Found(s)
      BY <1>19, <1>23, <2>3, <3>1, <3>2, <3>4
    <3> QED
      BY <3>3, <3>4
  <2> QED
    BY <2>2, <2>3
<1>14. Splits(split)
  <2>1. Splits(g)
    <3> HIDE DEF Body
    <3> QED
      BY <1>11, <1>12 DEF Scanned
  <2> HIDE DEF Splits
  <2> QED
    BY <2>1
<1> HIDE DEF split
<1>15. \A s \in S : split[s] = IF s \in go
                               THEN IF Found(s) THEN head[s] \o split[succ[s]]
                                    ELSE split[succ[s]]
                               ELSE base[s]
  <2> HIDE DEF Body
  <2>1. \A s \in S : split[s] = Body(split, s)
    BY <1>14
  <2> QED
    BY <1>12, <1>23, <2>1
<1> DEFINE Good == {s \in S : /\ split[s] \in Q
                              /\ (s[1] <= s[2] /\ s[1] <= last + 1) =>
                                   /\ AreRanges(split[s], s[1], last)
                                   /\ Covered(split[s]) = s[1] .. last
                              /\ s[1] = last + 2 /\ s[2] = last + 2 => split[s] = <<>>}
<1>16. \A s \in S : s \in Good
  <2>1. ASSUME NEW s \in S, s \in go => succ[s] \in Good PROVE s \in Good
    <3>0. s[1] \in Int /\ s[2] \in Int /\ s[1] <= last + 2 /\ s[2] <= last + 2
      BY <1>3, <1>4
    <3>1. ASSUME s \notin go PROVE s \in Good
      <4>1. split[s] = Segment(s[1], last, FALSE) /\ split[s] \in Q
        BY <1>10, <1>15, <1>21, <3>1
      <4>2. s[1] <= last + 1 => /\ AreRanges(split[s], s[1], last)
                                /\ Covered(split[s]) = s[1] .. last
        BY <1>1, <3>0, <4>1, SegmentIs
      <4>3. s[1] = last + 2 => split[s] = <<>>
        BY <1>1, <4>1 DEF Segment
      <4> QED
        BY <4>1, <4>2, <4>3
    <3>2. ASSUME s \in go PROVE s \in Good
      <4> DEFINE R == split[succ[s]]
                 t == succ[s]
      <4>1. /\ R \in Q
            /\ (t[1] <= t[2] /\ t[1] <= last + 1) =>
                 AreRanges(R, t[1], last) /\ Covered(R) = t[1] .. last
        BY <2>1, <3>2
      <4>2. split[s] = IF Found(s) THEN head[s] \o R ELSE R
        BY <1>15, <3>2
      <4>3. s[2] <= last
        BY <1>7, <3>2
      <4>7. t = IF Found(s) THEN <<close[s] + 1, close[s] + 1>> ELSE <<s[1], s[2] + 1>>
        BY <1>19
      <4> HIDE DEF R, t
      <4>4. CASE Found(s)
        <5> DEFINE c == close[s]
        <5>1. c \in s[2] + 1 .. last
          BY <1>8, <3>2, <4>4
        <5>2. /\ t[1] = c + 1 /\ t[2] = c + 1
              /\ head[s] = Segment(s[1], s[2] - 1, FALSE) \o Segment(s[2], c, TRUE)
          BY <1>22, <4>4, <4>7
        <5> HIDE DEF c
        <5>3. head[s] \o R \in Q
          BY <1>10, <4>1, ConcatProperties
        <5>4. ASSUME s[1] <= s[2]
              PROVE  AreRanges(head[s] \o R, s[1], last) /\ Covered(head[s] \o R) = s[1] .. last
          <6> DEFINE A1 == Segment(s[1], s[2] - 1, FALSE)
                     B1 == Segment(s[2], c, TRUE)
          <6>1. /\ s[2] - 1 \in Int /\ c \in Int /\ s[1] <= s[2] - 1 + 1 /\ s[2] <= c + 1
                /\ s[2] - 1 + 1 = s[2] /\ s[2] - 1 <= c /\ s[1] <= c + 1 /\ c <= last
            BY <3>0, <5>1, <5>4
          <6>2. A1 \in Q /\ AreRanges(A1, s[1], s[2] - 1) /\ Covered(A1) = s[1] .. s[2] - 1
            BY <3>0, <6>1, SegmentIs
          <6>3. B1 \in Q /\ AreRanges(B1, s[2] - 1 + 1, c) /\ Covered(B1) = s[2] .. c
            BY <3>0, <6>1, SegmentIs
          <6> HIDE DEF A1, B1
          <6>4. A1 \o B1 \in Q /\ AreRanges(A1 \o B1, s[1], c) /\ Covered(A1 \o B1) = Covered(A1) \cup Covered(B1)
            BY <3>0, <6>1, <6>2, <6>3, RangesJoin, ZenonT(60)
          <6>5. AreRanges(R, c + 1, last) /\ Covered(R) = c + 1 .. last /\ R \in Q
            BY <1>1, <4>1, <5>2, <6>1
          <6> DEFINE P == A1 \o B1
          <6> HIDE DEF P
          <6>6. P \o R \in Q /\ AreRanges(P \o R, s[1], last) /\ Covered(P \o R) = Covered(P) \cup Covered(R)
            <7>1. P \in Q /\ AreRanges(P, s[1], c)
              BY <6>4 DEF P
            <7> QED
              BY <1>1, <3>0, <6>1, <6>5, <7>1, RangesJoin, ZenonT(60)
          <6>7. head[s] = P
            BY <5>2 DEF P, A1, B1
          <6>8. ((s[1] .. s[2] - 1) \cup (s[2] .. c)) \cup (c + 1 .. last) = s[1] .. last
            BY <1>1, <3>0, <5>4, <6>1
          <6>9. Covered(P \o R) = s[1] .. last
            BY <6>2, <6>3, <6>4, <6>5, <6>6, <6>8 DEF P
          <6> QED
            BY <6>6, <6>7, <6>9
        <5>6. split[s] = head[s] \o R /\ ~ (s[2] = last + 2)
          BY <1>1, <3>0, <4>2, <4>3, <4>4
        <5> DEFINE L == head[s] \o R
        <5> HIDE DEF L
        <5>7. split[s] = L /\ L \in Q /\ (s[1] <= s[2] => AreRanges(L, s[1], last) /\ Covered(L) = s[1] .. last)
          BY <5>3, <5>4, <5>6 DEF L
        <5> QED
          BY <5>6, <5>7
      <4>5. CASE ~ Found(s)
        <5>1. t[1] = s[1] /\ t[2] = s[2] + 1 /\ split[s] = R
          BY <4>2, <4>5, <4>7
        <5> QED
          BY <1>1, <3>0, <4>1, <4>3, <5>1
      <4> QED
        BY <4>4, <4>5
    <3> QED
      BY <3>1, <3>2
  <2> HIDE DEF Good
  <2> QED
    BY <1>9, <2>1, ScanInduction
<1>17. <<first, first>> \in S
  BY DEF S, I
<1>18. /\ split[<<first, first>>] \in Q
       /\ first <= last + 1 => /\ AreRanges(split[<<first, first>>], first, last)
                               /\ Covered(split[<<first, first>>]) = first .. last
       /\ first = last + 2 => split[<<first, first>>] = <<>>
  <2> DEFINE s == <<first, first>>
  <2>1. s \in Good /\ s[1] = first /\ s[2] = first
    BY <1>16, <1>17
  <2> HIDE DEF s
  <2> QED
    BY <1>1, <2>1 DEF s
<1> QED
  BY <1>2, <1>18

LEMMA HasOne ==
  ASSUME NEW Char, NEW text \in Seq(Char), NEW i \in Nat \ {0}, NEW c
  PROVE  Has(text, i, <<c>>) <=> i <= Len(text) /\ text[i] = c
<1>1. Len(<<c>>) = 1 /\ i + 1 - 1 = i
  OBVIOUS
<1>2. Has(text, i, <<c>>) <=> i <= Len(text) /\ SubSeq(text, i, i) = <<c>>
  BY <1>1 DEF Has
<1>3. ASSUME i <= Len(text) PROVE SubSeq(text, i, i) = <<c>> <=> text[i] = c
  <2> DEFINE s == SubSeq(text, i, i)
  <2>1. /\ i \in Int /\ 1 <= i /\ i <= i + 1 /\ i + 1 - i = 1 /\ 1 \in 1 .. 1 /\ i + 1 - 1 = i
    OBVIOUS
  <2>2. /\ s \in Seq(Char) /\ Len(s) = i + 1 - i
        /\ \A k \in 1 .. i + 1 - i : s[k] = text[i + k - 1]
    BY <1>3, <2>1, NamesBetween
  <2> HIDE DEF s
  <2>3. s = <<c>> <=> Len(s) = 1 /\ s[1] = c
    BY <2>2, OneName
  <2>4. Len(s) = 1 /\ s[1] = text[i]
    BY <2>1, <2>2
  <2> QED
    BY <2>3, <2>4 DEF s
<1> QED
  BY <1>2, <1>3

LEMMA LineEndIs ==
  ASSUME NEW Char, NEW text \in Seq(Char), NEW i \in Nat \ {0}, i <= Len(text) + 1
  PROVE  /\ LineEnd(text, i) \in i .. Len(text) + 1
         /\ \A p \in i .. LineEnd(text, i) - 1 : text[p] # "nl"
         /\ LineEnd(text, i) <= Len(text) => text[LineEnd(text, i)] = "nl"
<1> DEFINE n == Len(text)
           f == Find(text, i, n, <<"nl">>)
           e == LineEnd(text, i)
<1>1. n \in Nat
  OBVIOUS
<1>2. Len(<<"nl">>) = 1
  OBVIOUS
<1>3. IsFound(text, i, n, <<"nl">>, f)
  BY <1>1, <1>2, FindIs
<1>4. e = IF f = 0 THEN n + 1 ELSE f
  BY DEF LineEnd
<1>5. \A p \in i .. n : Has(text, p, <<"nl">>) <=> text[p] = "nl"
  BY <1>1, HasOne
<1> HIDE DEF f, e
<1>6. CASE f = 0
  <2>1. \A p \in i .. n : ~ Has(text, p, <<"nl">>)
    BY <1>1, <1>2, <1>3, <1>6 DEF IsFound
  <2>2. e = n + 1 /\ i \in Int
    BY <1>4, <1>6
  <2>3. \A p \in i .. e - 1 : p \in i .. n
    BY <1>1, <2>2
  <2> QED
    BY <1>1, <1>5, <2>1, <2>2, <2>3 DEF e
<1>7. CASE f # 0
  <2>1. f \in i .. n /\ Has(text, f, <<"nl">>) /\ \A p \in i .. f - 1 : ~ Has(text, p, <<"nl">>)
    BY <1>3, <1>7 DEF IsFound
  <2>2. e = f
    BY <1>4, <1>7
  <2>3. \A p \in i .. e - 1 : p \in i .. n
    BY <1>1, <2>1, <2>2
  <2>4. \A p \in i .. e - 1 : text[p] # "nl"
    BY <1>5, <2>1, <2>2, <2>3
  <2>5. text[e] = "nl" /\ e \in i .. n + 1
    BY <1>1, <1>5, <2>1, <2>2
  <2> QED
    BY <2>4, <2>5 DEF e
<1> QED
  BY <1>6, <1>7

(* No line begins within a line.                                           *)
LEMMA NoneWithin ==
  ASSUME NEW Char, NEW text \in Seq(Char), NEW i \in Nat \ {0}, i <= Len(text) + 1,
         NEW p \in Nat, i < p, p <= LineEnd(text, i)
  PROVE  ~ LineStart(text, p)
<1>1. p - 1 \in i .. LineEnd(text, i) - 1 /\ p # 1
  <2>1. LineEnd(text, i) \in Int
    BY LineEndIs
  <2> QED
    BY <2>1
<1>2. text[p - 1] # "nl"
  BY <1>1, LineEndIs
<1> QED
  BY <1>1, <1>2 DEF LineStart

(* Three times the same character at i: the first is that character.       *)
LEMMA ThreeIs ==
  ASSUME NEW Char, NEW text \in Seq(Char), NEW i \in Nat \ {0}, NEW c
  PROVE  Has(text, i, <<c, c, c>>) =>
           i + 2 <= Len(text) /\ text[i] = c /\ text[i + 1] = c /\ text[i + 2] = c
<1> DEFINE word == <<c, c, c>>
<1>1. HAVE Has(text, i, word)
<1>2. Len(word) = 3 /\ word[1] = c /\ word[2] = c /\ word[3] = c
  OBVIOUS
<1> HIDE DEF word
<1>3. i + Len(word) - 1 = i + 2 /\ i + 2 <= Len(text) /\ SubSeq(text, i, i + 2) = word
  <2>1. i + Len(word) - 1 = i + 2
    BY <1>2
  <2> QED
    BY <1>1, <2>1 DEF Has
<1>4. \A k \in 1 .. i + 2 + 1 - i : SubSeq(text, i, i + 2)[k] = text[i + k - 1]
  <2>1. i \in Int /\ i + 2 \in Int /\ 1 <= i /\ i <= i + 2 + 1
    OBVIOUS
  <2> QED
    BY <1>3, <2>1, NamesBetween
<1>5. /\ i + 2 + 1 - i = 3 /\ i + 1 - 1 = i /\ i + 2 - 1 = i + 1 /\ i + 3 - 1 = i + 2
      /\ 1 \in 1 .. 3 /\ 2 \in 1 .. 3 /\ 3 \in 1 .. 3
  OBVIOUS
<1>6. \A k \in 1 .. 3 : word[k] = text[i + k - 1]
  BY <1>3, <1>4, <1>5
<1>7. word[1] = text[i] /\ word[2] = text[i + 1] /\ word[3] = text[i + 2]
  BY <1>5, <1>6
<1> QED
  BY <1>2, <1>3, <1>7

LEMMA FenceIs ==
  ASSUME NEW Char, NEW text \in Seq(Char), NEW i \in Nat \ {0}, FenceAt(text, i)
  PROVE  /\ i + 2 <= Len(text)
         /\ LineEnd(text, i + 3) = LineEnd(text, i)
         /\ i + 3 <= LineEnd(text, i)
<1>1. /\ i + 2 <= Len(text) /\ text[i] # "nl" /\ text[i + 1] # "nl" /\ text[i + 2] # "nl"
  <2> DEFINE c == text[i]
  <2>1. c \in FenceMark /\ Has(text, i, <<c, c, c>>)
    BY DEF FenceAt, IsFence
  <2>2. c # "nl"
    BY <2>1 DEF FenceMark
  <2> HIDE DEF c
  <2>3. i + 2 <= Len(text) /\ text[i] = c /\ text[i + 1] = c /\ text[i + 2] = c
    BY <2>1, ThreeIs
  <2> QED
    BY <2>2, <2>3
<1> DEFINE n == Len(text)
           e == LineEnd(text, i)
           d == LineEnd(text, i + 3)
<1>2. n \in Nat /\ i <= n + 1 /\ i + 3 \in Nat \ {0} /\ i + 3 <= n + 1
  BY <1>1
<1>3. /\ e \in i .. n + 1 /\ \A p \in i .. e - 1 : text[p] # "nl"
      /\ e <= n => text[e] = "nl"
  BY <1>2, LineEndIs
<1>4. /\ d \in i + 3 .. n + 1 /\ \A p \in i + 3 .. d - 1 : text[p] # "nl"
      /\ d <= n => text[d] = "nl"
  BY <1>2, LineEndIs
<1> HIDE DEF e, d
<1>5. e \notin {i, i + 1, i + 2}
  BY <1>1, <1>2, <1>3
<1>6. e >= i + 3
  BY <1>2, <1>3, <1>5
<1>7. ~ (e < d)
  <2>1. SUFFICES ASSUME e < d PROVE FALSE
    OBVIOUS
  <2>2. e \in i + 3 .. d - 1 /\ e <= n
    BY <1>2, <1>3, <1>4, <1>6, <2>1
  <2> QED
    BY <1>3, <1>4, <2>2
<1>8. ~ (d < e)
  <2>1. SUFFICES ASSUME d < e PROVE FALSE
    OBVIOUS
  <2>2. d \in i .. e - 1 /\ d <= n
    BY <1>2, <1>3, <1>4, <2>1
  <2> QED
    BY <1>3, <1>4, <2>2
<1>9. e = d
  BY <1>2, <1>3, <1>4, <1>7, <1>8
<1> QED
  BY <1>1, <1>6, <1>9 DEF e, d

(* Where fences are plain, the chunker and the segmenter see the same.     *)
LEMMA PlainFence ==
  ASSUME NEW Char, NEW text \in Seq(Char), PlainFences(text), NEW i \in 1 .. Len(text)
  PROVE  FenceLine(text, i) <=> FenceAt(text, i)
<1>1. i \in DOMAIN text /\ i \in 1 .. i /\ \A k \in i .. i - 1 : FALSE
  OBVIOUS
<1>2. FenceLine(text, i) => FenceAt(text, i)
  BY <1>1 DEF PlainFences, FenceLine, FenceAt
<1>3. FenceAt(text, i) => FenceLine(text, i)
  <2>1. HAVE FenceAt(text, i)
  <2>2. IsFence(text, i) /\ LineStart(text, i)
    BY <2>1 DEF FenceAt
  <2>3. \A k \in i .. i - 1 : text[k] = "space"
    BY <1>1
  <2> QED
    BY <1>1, <2>2, <2>3 DEF FenceLine
<1> QED
  BY <1>2, <1>3

FencesIn(text, a, b) == {p \in a .. b : FenceAt(text, p)}

LEMMA ClosingFenceIs ==
  ASSUME NEW Char, NEW text \in Seq(Char), NEW i \in 1 .. Len(text), FenceAt(text, i)
  PROVE  LET j == ClosingFence(text, i) IN
         /\ j # 0 => /\ j \in LineEnd(text, i) + 1 .. Len(text) /\ FenceAt(text, j)
                     /\ PlainFences(text) => FencesIn(text, i + 1, j - 1) = {}
         /\ j = 0 \/ j \in Nat
<1> DEFINE n == Len(text)
           e == LineEnd(text, i)
           j == ClosingFence(text, i)
           c == text[i]
           at == {p \in e + 1 .. n : Has(text, p, <<c, c, c>>) /\ LineStart(text, p)}
<1>1. n \in Nat /\ i \in Nat \ {0} /\ i <= n + 1
  OBVIOUS
<1>2. e \in i .. n + 1
  BY <1>1, LineEndIs
<1>3. j = IF at = {} THEN 0 ELSE Min(at)
  BY DEF ClosingFence
<1>4. \A p : p \in at <=> p \in e + 1 .. n /\ Has(text, p, <<c, c, c>>) /\ LineStart(text, p)
  OBVIOUS
<1>5. \A p \in i + 1 .. e : ~ FenceAt(text, p)
  <2>1. TAKE p \in i + 1 .. e
  <2>2. p \in Nat /\ i < p /\ p <= LineEnd(text, i)
    BY <1>1, <1>2
  <2> QED
    BY <1>1, <2>2, NoneWithin DEF FenceAt
<1>6. at \in SUBSET Nat /\ \A p \in at : p # 0
  BY <1>1, <1>2
<1>7. c \in FenceMark
  BY DEF FenceAt, IsFence
<1>8. \A p \in at : p \in e + 1 .. n /\ FenceAt(text, p)
  <2>1. TAKE p \in at
  <2>2. p \in e + 1 .. n /\ Has(text, p, <<c, c, c>>) /\ LineStart(text, p) /\ p \in Nat \ {0}
    BY <1>4, <1>6
  <2> HIDE DEF c, at, e
  <2>3. text[p] = c
    BY <2>2, ThreeIs
  <2> QED
    BY <1>7, <2>2, <2>3 DEF FenceAt, IsFence
<1>9. ASSUME PlainFences(text), NEW p \in e + 1 .. n, FenceAt(text, p) PROVE p \in at
  <2>1. p \in 1 .. Len(text) /\ DOMAIN text = 1 .. Len(text)
    BY <1>1, <1>2
  <2>2. FenceLine(text, p) /\ FenceLine(text, i)
    BY <1>9, <2>1, PlainFence
  <2>3. text[p] = text[i]
    BY <1>9, <2>1, <2>2 DEF PlainFences
  <2>4. Has(text, p, <<text[p], text[p], text[p]>>) /\ LineStart(text, p)
    BY <1>9 DEF FenceAt, IsFence
  <2>5. Has(text, p, <<c, c, c>>)
    BY <2>3, <2>4
  <2> HIDE DEF at, c
  <2> QED
    BY <1>4, <1>9, <2>4, <2>5
<1> HIDE DEF e, j, at, c
<1>10. CASE at = {}
  BY <1>3, <1>10 DEF j
<1>11. CASE at # {}
  <2>1. j \in at /\ \A p \in at : j <= p
    BY <1>3, <1>6, <1>11, MinIsLeast
  <2>2. j \in e + 1 .. n /\ FenceAt(text, j) /\ j \in Nat
    BY <1>6, <1>8, <2>1
  <2>3. ASSUME PlainFences(text), NEW p \in i + 1 .. j - 1, FenceAt(text, p) PROVE FALSE
    <3>1. p \in e + 1 .. n
      BY <1>1, <1>2, <1>5, <2>2, <2>3
    <3>2. p \in at /\ p < j
      BY <1>1, <1>9, <2>2, <2>3, <3>1
    <3> QED
      BY <1>6, <2>1, <2>2, <3>2
  <2> QED
    BY <2>2, <2>3 DEF j, e, FencesIn
<1> QED
  BY <1>10, <1>11

(* Position i is not behind a fence that is still open, nor on its line.   *)
Outside(text, i) ==
  /\ Cardinality(FencesIn(text, 1, i - 1)) % 2 = 0
  /\ \A p \in 1 .. i - 1 : FenceAt(text, p) => LineEnd(text, p) < i

LEMMA FencesAre ==
  ASSUME NEW text, NEW a \in Int, NEW b \in Int
  PROVE  IsFiniteSet(FencesIn(text, a, b)) /\ Cardinality(FencesIn(text, a, b)) \in Nat
<1>1. FencesIn(text, a, b) \subseteq a .. b /\ IsFiniteSet(a .. b)
  BY FS_Interval DEF FencesIn
<1> QED
  BY <1>1, FS_Subset, FS_CardinalityType

LEMMA OutsideFirst ==
  ASSUME NEW text
  PROVE  Outside(text, 1)
<1>1. 1 .. 0 = {} /\ 1 - 1 = 0
  OBVIOUS
<1>2. FencesIn(text, 1, 0) = {}
  BY <1>1 DEF FencesIn
<1>3. Cardinality(FencesIn(text, 1, 0)) = 0
  BY <1>2, FS_EmptySet
<1> QED
  BY <1>1, <1>3 DEF Outside

LEMMA OutsideStep ==
  ASSUME NEW Char, NEW text \in Seq(Char), NEW i \in 1 .. Len(text),
         PlainFences(text), Outside(text, i), ~ FenceAt(text, i)
  PROVE  Outside(text, i + 1) /\ ~ FencedByLines(text, i)
<1>1. i \in Int /\ i + 1 - 1 = i
  OBVIOUS
<1>2. FencesIn(text, 1, i) = FencesIn(text, 1, i - 1)
  <2>1. \A p \in 1 .. i : p = i \/ p \in 1 .. i - 1
    OBVIOUS
  <2>2. \A p \in 1 .. i - 1 : p \in 1 .. i
    OBVIOUS
  <2> QED
    BY <2>1, <2>2 DEF FencesIn
<1>3. Cardinality(FencesIn(text, 1, i)) % 2 = 0
  BY <1>2 DEF Outside
<1>4. \A p \in 1 .. i : FenceAt(text, p) => LineEnd(text, p) < i
  <2>1. \A p \in 1 .. i : p = i \/ p \in 1 .. i - 1
    OBVIOUS
  <2> QED
    BY <2>1 DEF Outside
<1>5. \A p \in 1 .. i : FenceAt(text, p) => LineEnd(text, p) \in Int
  <2>1. TAKE p \in 1 .. i
  <2>2. p \in Nat \ {0} /\ p <= Len(text) + 1
    OBVIOUS
  <2> QED
    BY <2>2, LineEndIs
<1>6. Outside(text, i + 1)
  BY <1>1, <1>3, <1>4, <1>5 DEF Outside
<1>7. ~ FencedByLines(text, i)
  <2>0. \A p \in 1 .. i : FenceLine(text, p) <=> FenceAt(text, p)
    <3>1. \A p \in 1 .. i : p \in 1 .. Len(text)
      OBVIOUS
    <3> QED
      BY <3>1, PlainFence
  <2>1. {p \in 1 .. i : FenceLine(text, p)} = FencesIn(text, 1, i)
    BY <2>0 DEF FencesIn
  <2>2. ~ \E p \in 1 .. i : FenceLine(text, p) /\ i < LineEnd(text, p)
    BY <1>4, <1>5, <2>0
  <2>3. Cardinality({p \in 1 .. i : FenceLine(text, p)}) % 2 # 1
    <3> DEFINE F == {p \in 1 .. i : FenceLine(text, p)}
    <3>1. F = FencesIn(text, 1, i)
      BY <2>1
    <3> HIDE DEF F
    <3>2. Cardinality(F) % 2 = 0
      BY <1>3, <3>1
    <3>3. Cardinality(F) \in Nat
      BY <1>1, <3>1, FencesAre
    <3>4. Cardinality(F) % 2 # 1
      BY <3>2, <3>3
    <3> QED
      BY <3>4 DEF F
  <2> QED
    BY <2>2, <2>3 DEF FencedByLines
<1> QED
  BY <1>6, <1>7

LEMMA OutsideBehind ==
  ASSUME NEW Char, NEW text \in Seq(Char), NEW i \in 1 .. Len(text),
         PlainFences(text), Outside(text, i), FenceAt(text, i), ClosingFence(text, i) # 0
  PROVE  Outside(text, LineEnd(text, ClosingFence(text, i)) + 1)
<1> DEFINE n == Len(text)
           j == ClosingFence(text, i)
           k == LineEnd(text, j)
           e == LineEnd(text, i)
<1>1. n \in Nat /\ i \in Nat \ {0} /\ i <= n + 1
  OBVIOUS
<1>2. e \in i .. n + 1
  BY <1>1, LineEndIs
<1>3. j \in e + 1 .. n /\ FenceAt(text, j) /\ FencesIn(text, i + 1, j - 1) = {}
  BY ClosingFenceIs
<1>4. j \in Nat \ {0} /\ j <= n + 1
  BY <1>1, <1>2, <1>3
<1>5. k \in j .. n + 1
  BY <1>4, LineEndIs
<1>6. \A p \in j + 1 .. k : ~ FenceAt(text, p)
  <2>1. TAKE p \in j + 1 .. k
  <2>2. p \in Nat /\ j < p /\ p <= LineEnd(text, j)
    BY <1>4, <1>5
  <2> QED
    BY <1>4, <2>2, NoneWithin DEF FenceAt
<1> HIDE DEF j, k, e
<1>7. i < j /\ j <= k
  BY <1>1, <1>2, <1>3, <1>4, <1>5
<1>8. FencesIn(text, 1, k) = (FencesIn(text, 1, i - 1) \cup {i}) \cup {j}
  <2>1. \A p \in 1 .. k : FenceAt(text, p) => p \in 1 .. i - 1 \/ p = i \/ p = j
    <3>1. ASSUME NEW p \in 1 .. k, FenceAt(text, p), p > i, p # j PROVE FALSE
      <4>1. CASE p < j
        <5>1. p \in i + 1 .. j - 1
          BY <1>1, <1>4, <3>1, <4>1
        <5> QED
          BY <1>3, <3>1, <5>1 DEF FencesIn
      <4>2. CASE p > j
        <5>1. p \in j + 1 .. k
          BY <1>4, <1>5, <3>1, <4>2
        <5> QED
          BY <1>6, <3>1, <5>1
      <4> QED
        BY <1>4, <3>1, <4>1, <4>2
    <3> QED
      BY <1>1, <1>5, <3>1
  <2>2. i \in 1 .. k /\ j \in 1 .. k /\ 1 .. i - 1 \subseteq 1 .. k
    BY <1>1, <1>4, <1>5, <1>7
  <2> QED
    BY <1>3, <2>1, <2>2 DEF FencesIn
<1> DEFINE F == FencesIn(text, 1, i - 1)
<1>9. IsFiniteSet(F) /\ Cardinality(F) \in Nat
  BY <1>1, FencesAre
<1>10. i \notin F /\ j \notin F \cup {i}
  BY <1>1, <1>4, <1>7 DEF FencesIn
<1> HIDE DEF F
<1>11. IsFiniteSet(F \cup {i}) /\ Cardinality(F \cup {i}) = Cardinality(F) + 1
  BY <1>9, <1>10, FS_AddElement
<1>12. Cardinality((F \cup {i}) \cup {j}) = Cardinality(F) + 1 + 1
  BY <1>10, <1>11, FS_AddElement
<1>13. Cardinality(F) % 2 = 0
  BY DEF Outside, F
<1>14. Cardinality(FencesIn(text, 1, k)) % 2 = 0
  <2>1. Cardinality(FencesIn(text, 1, k)) = Cardinality(F) + 2
    <3>1. FencesIn(text, 1, k) = (F \cup {i}) \cup {j}
      BY <1>8 DEF F
    <3>2. Cardinality(FencesIn(text, 1, k)) = Cardinality((F \cup {i}) \cup {j})
      BY <3>1
    <3> HIDE DEF FencesIn
    <3> QED
      BY <1>9, <1>12, <3>2
  <2> QED
    BY <1>9, <1>13, <2>1
<1>15. \A p \in 1 .. k : FenceAt(text, p) => LineEnd(text, p) < k + 1
  <2>1. ASSUME NEW p \in 1 .. i - 1, FenceAt(text, p) PROVE LineEnd(text, p) < k + 1
    <3>1. LineEnd(text, p) < i
      BY <2>1 DEF Outside
    <3>2. LineEnd(text, p) \in Int
      <4>1. p \in Nat \ {0} /\ p <= n + 1
        BY <1>1
      <4> QED
        BY <4>1, LineEndIs
    <3> QED
      BY <1>1, <1>4, <1>5, <1>7, <3>1, <3>2
  <2>2. LineEnd(text, i) < k + 1
    BY <1>2, <1>3, <1>4, <1>5 DEF e
  <2>3. LineEnd(text, j) < k + 1
    BY <1>5, <1>4 DEF k
  <2>4. \A p \in 1 .. k : FenceAt(text, p) => p \in 1 .. i - 1 \/ p = i \/ p = j
    BY <1>8 DEF FencesIn
  <2> QED
    BY <2>1, <2>2, <2>3, <2>4
<1>16. k + 1 - 1 = k
  BY <1>4, <1>5
<1>17. Outside(text, k + 1)
  <2> DEFINE m == k + 1
  <2>1. m - 1 = k
    BY <1>1, <1>4, <1>5
  <2> HIDE DEF m
  <2>2. Cardinality(FencesIn(text, 1, m - 1)) % 2 = 0
    BY <1>14, <2>1
  <2>3. \A p \in 1 .. m - 1 : FenceAt(text, p) => LineEnd(text, p) < m
    BY <1>15, <2>1 DEF m
  <2>4. Outside(text, m)
    BY <2>2, <2>3 DEF Outside
  <2> QED
    BY <2>4 DEF m
<1> QED
  BY <1>17 DEF k, j

PlainCode(text) == PlainFences(text) /\ \A i \in DOMAIN text : ~ Has(text, i, Math)
(* What is fenced from i on is code.                                       *)
FencedIsCode(text, R, i) ==
  \A q \in i .. Len(text) : FencedByLines(text, q) /\ text[q] # "nl" => q \in Coded(R)

(* Ranges from a on hold all characters but newlines.                      *)
HoldsFrom(text, R, a) ==
  /\ AreRanges(R, a, Len(text))
  /\ \A q \in a .. Len(text) : q \in Covered(R) \/ text[q] = "nl"

LEMMA MathFound ==
  ASSUME NEW text, Len(text) \in Nat, NEW i \in 1 .. Len(text)
  PROVE  LET j == Find(text, i + 2, Len(text), Math) IN
         j = 0 \/ (j \in i + 2 .. Len(text) /\ j + 1 <= Len(text))
<1> DEFINE j == Find(text, i + 2, Len(text), Math)
<1>1. i + 2 \in Nat \ {0} /\ Len(Math) = 2
  BY DEF Math
<1>2. IsFound(text, i + 2, Len(text), Math, j)
  BY <1>1, FindIs
<1> HIDE DEF j
<1>3. j # 0 => j \in i + 2 .. Len(text) /\ j + 2 - 1 <= Len(text)
  BY <1>1, <1>2 DEF IsFound
<1> QED
  BY <1>3 DEF j

(* What comes before a segment, the segment, and what follows after a gap  *)
(* that holds at most a newline.                                           *)
LEMMA PartsHold ==
  ASSUME NEW text, Len(text) \in Nat, NEW P \in Seq(SegmentRange), NEW R \in Seq(SegmentRange),
         NEW a \in Int, NEW i \in Int, NEW last \in Int, NEW b \in Int,
         a <= i, i <= last + 1, last < b, last <= Len(text), b <= Len(text) + 2,
         AreRanges(P, a, i - 1), Covered(P) = a .. i - 1,
         HoldsFrom(text, R, b),
         \A q \in last + 1 .. b - 1 : q <= Len(text) => text[q] = "nl"
  PROVE  LET all == P \o Segment(i, last, TRUE) \o R IN
         /\ all \in Seq(SegmentRange) /\ HoldsFrom(text, all, a)
         /\ i .. last \subseteq Coded(all) /\ Coded(R) \subseteq Coded(all)
<1> DEFINE n == Len(text)
           s == Segment(i, last, TRUE)
           L == P \o s
           all == L \o R
<1>1. /\ s \in Seq(SegmentRange) /\ AreRanges(s, i, last) /\ Covered(s) = i .. last
      /\ Coded(s) = i .. last
  BY SegmentIs
<1> HIDE DEF s
<1>2. i - 1 + 1 = i /\ i - 1 \in Int /\ i - 1 <= last /\ last + 1 \in Int /\ last + 1 <= b
  OBVIOUS
<1>3. L \in Seq(SegmentRange) /\ AreRanges(L, a, last) /\ Covered(L) = Covered(P) \cup Covered(s)
  BY <1>1, <1>2, RangesJoin, ZenonT(60)
<1>4. Coded(s) \subseteq Coded(L)
  BY <1>1, CodedJoins
<1> HIDE DEF L
<1>5. AreRanges(R, last + 1, n)
  <2>1. AreRanges(R, b, n) /\ n \in Int
    BY DEF HoldsFrom
  <2> HIDE DEF n
  <2> QED
    BY <1>2, <2>1, RangesFrom
<1>6. all \in Seq(SegmentRange) /\ AreRanges(all, a, n) /\ Covered(all) = Covered(L) \cup Covered(R)
  <2>1. n \in Int /\ last <= n /\ a <= last + 1 /\ AreRanges(L, a, last) /\ L \in Seq(SegmentRange)
    BY <1>3
  <2> HIDE DEF n
  <2> QED
    BY <1>5, <2>1, RangesJoin, ZenonT(60)
<1>7. Coded(L) \subseteq Coded(all) /\ Coded(R) \subseteq Coded(all)
  BY <1>3, CodedJoins
<1> HIDE DEF all
<1>8. \A q \in a .. n : q \in Covered(all) \/ text[q] = "nl"
  <2>1. TAKE q \in a .. n
  <2>2. CASE q <= i - 1
    BY <1>3, <1>6, <2>2
  <2>3. CASE q >= i /\ q <= last
    <3>1. q \in i .. last
      BY <2>3
    <3> QED
      BY <1>1, <1>3, <1>6, <3>1
  <2>4. CASE q >= last + 1 /\ q <= b - 1
    <3>1. q \in last + 1 .. b - 1 /\ q <= Len(text)
      BY <2>4
    <3> QED
      BY <3>1
  <2>5. CASE q >= b
    <3>1. q \in b .. Len(text)
      BY <2>5
    <3> QED
      BY <1>6, <3>1 DEF HoldsFrom
  <2> QED
    BY <2>2, <2>3, <2>4, <2>5
<1>9. HoldsFrom(text, all, a)
  BY <1>6, <1>8 DEF HoldsFrom
<1>10. i .. last \subseteq Coded(all)
  BY <1>1, <1>4, <1>7
<1> QED
  BY <1>6, <1>7, <1>9, <1>10 DEF all, L, s

(* The last segment is code to the end of the text.                        *)
LEMMA LastPartHolds ==
  ASSUME NEW text, Len(text) \in Nat, NEW P \in Seq(SegmentRange),
         NEW a \in Int, NEW i \in Int, a <= i, i <= Len(text) + 1,
         AreRanges(P, a, i - 1), Covered(P) = a .. i - 1
  PROVE  LET all == P \o Segment(i, Len(text), TRUE) IN
         /\ all \in Seq(SegmentRange) /\ HoldsFrom(text, all, a)
         /\ i .. Len(text) \subseteq Coded(all)
<1> DEFINE n == Len(text)
           s == Segment(i, n, TRUE)
           all == P \o s
<1>0. n \in Int /\ i <= n + 1
  OBVIOUS
<1> HIDE DEF n
<1>1. /\ s \in Seq(SegmentRange) /\ AreRanges(s, i, n) /\ Covered(s) = i .. n
      /\ Coded(s) = i .. n
  BY <1>0, SegmentIs
<1> HIDE DEF s
<1>2. i - 1 + 1 = i /\ i - 1 \in Int /\ i - 1 <= n /\ a <= i - 1 + 1
  BY <1>0
<1>3. all \in Seq(SegmentRange) /\ AreRanges(all, a, n) /\ Covered(all) = Covered(P) \cup Covered(s)
  BY <1>0, <1>1, <1>2, RangesJoin, ZenonT(60)
<1>4. Coded(s) \subseteq Coded(all)
  BY <1>1, CodedJoins
<1> HIDE DEF all
<1>5. \A q \in a .. n : q \in Covered(all)
  <2>1. \A q \in a .. n : q \in a .. i - 1 \/ q \in i .. n
    BY <1>0
  <2> QED
    BY <1>1, <1>3, <2>1
<1>6. HoldsFrom(text, all, a) /\ i .. n \subseteq Coded(all)
  BY <1>1, <1>3, <1>4, <1>5 DEF HoldsFrom, n
<1> QED
  BY <1>3, <1>6 DEF all, s, n

(* However code fences, display math, inline code and math are mixed in a  *)
(* text (split_code_math_segments of core/src/chunker.rs) it does not      *)
(* panic at, every character but a newline is in exactly one segment, in   *)
(* order; and in a text without display math whose fences have one mark    *)
(* and no indentation, whatever a fence encloses is in a segment of code.  *)
THEOREM SegmentsHoldText ==
  ASSUME NEW Char, NEW text \in Seq(Char)
  PROVE  SegmentsAreExact(text)
<1> DEFINE n == Len(text)
           I == 1 .. n + 2
           S == I \X I
           Q == Seq(SegmentRange)
           Fenced(i) == FenceAt(text, i)
           MathAt(i) == ~ Fenced(i) /\ Has(text, i, Math)
           j == [i \in I |-> IF Fenced(i) THEN ClosingFence(text, i)
                             ELSE Find(text, i + 2, n, Math)]
           last == [i \in I |-> IF Fenced(i) THEN LineEnd(text, j[i] + 3) - 1 ELSE j[i] + 1]
           after == [i \in I |-> IF Fenced(i) THEN LineEnd(text, j[i] + 3) + 1 ELSE j[i] + 2]
           go == {s \in S : s[2] <= n /\ (Fenced(s[2]) \/ MathAt(s[2]) => j[s[2]] # 0)}
           cut == {s \in S : Fenced(s[2]) \/ MathAt(s[2])}
           succ == [s \in S |-> IF s \in cut THEN <<after[s[2]], after[s[2]]>>
                                ELSE <<s[1], s[2] + 1>>]
           left == [s \in S |-> n + 2 - s[2]]
           before == [s \in S |-> InlineSegments(text, s[1], s[2] - 1)]
           head == [s \in S |-> before[s] \o Segment(s[2], last[s[2]], TRUE)]
           base == [s \in S |-> IF s[2] > n THEN InlineSegments(text, s[1], n)
                                ELSE before[s] \o Segment(s[2], n, TRUE)]
           Body(f, at) ==
             LET start == at[1]
                 i     == at[2] IN
             IF i > n THEN InlineSegments(text, start, n)
             ELSE IF FenceAt(text, i)
             THEN LET c == ClosingFence(text, i)
                      k == LineEnd(text, c + 3)
                      b == InlineSegments(text, start, i - 1) IN
                  IF c = 0 THEN b \o Segment(i, n, TRUE)
                  ELSE b \o Segment(i, k - 1, TRUE) \o f[<<k + 1, k + 1>>]
             ELSE IF Has(text, i, Math)
             THEN LET c == Find(text, i + 2, n, Math)
                      b == InlineSegments(text, start, i - 1) IN
                  IF c = 0 THEN b \o Segment(i, n, TRUE)
                  ELSE b \o Segment(i, c + 1, TRUE) \o f[<<c + 2, c + 2>>]
             ELSE f[<<start, i + 1>>]
           Value(f, s) == IF s \in go
                          THEN IF s \in cut THEN head[s] \o f[succ[s]] ELSE f[succ[s]]
                          ELSE base[s]
           Splits(f) == f = [at \in S |-> Body(f, at)]
           split == CHOOSE f : Splits(f)
<1>1. n \in Nat /\ DOMAIN text = 1 .. n
  OBVIOUS
<1>2. Segments(text) = split[<<1, 1>>]
  BY DEF Segments
<1>3. \A s \in S : s[1] \in I /\ s[2] \in I /\ s[1] \in Nat \ {0} /\ s[2] \in Nat \ {0} /\ s = <<s[1], s[2]>>
  BY <1>1
<1>4. /\ \A s \in S : s \in go <=> s[2] <= n /\ (Fenced(s[2]) \/ MathAt(s[2]) => j[s[2]] # 0)
      /\ \A s \in S : s \in cut <=> Fenced(s[2]) \/ MathAt(s[2])
      /\ go \in SUBSET S
  OBVIOUS
<1>5. \A i \in I : /\ Fenced(i) => /\ j[i] = ClosingFence(text, i)
                                   /\ last[i] = LineEnd(text, j[i] + 3) - 1
                                   /\ after[i] = LineEnd(text, j[i] + 3) + 1
                   /\ ~ Fenced(i) => /\ j[i] = Find(text, i + 2, n, Math)
                                     /\ last[i] = j[i] + 1 /\ after[i] = j[i] + 2
  OBVIOUS
<1>6. \A s \in S : /\ s \in cut => succ[s] = <<after[s[2]], after[s[2]]>>
                   /\ s \notin cut => succ[s] = <<s[1], s[2] + 1>>
                   /\ left[s] = n + 2 - s[2]
  OBVIOUS
<1>7. \A s \in S : /\ before[s] = InlineSegments(text, s[1], s[2] - 1)
                   /\ head[s] = before[s] \o Segment(s[2], last[s[2]], TRUE)
                   /\ base[s] = IF s[2] > n THEN InlineSegments(text, s[1], n)
                                ELSE before[s] \o Segment(s[2], n, TRUE)
  OBVIOUS
<1>8. left \in [S -> 0 .. n + 2]
  <2>1. \A s \in S : n + 2 - s[2] \in 0 .. n + 2
    BY <1>1, <1>3
  <2> HIDE DEF S
  <2> QED
    BY <2>1
<1>9. \A i \in I : Fenced(i) <=> FenceAt(text, i)
  OBVIOUS
<1>10. I \subseteq Int /\ \A i \in I : i >= 1 /\ i <= n + 2
  BY <1>1
<1> HIDE DEF j, last, after, cut, succ, left, before, head, base, go, Fenced
<1>11. ASSUME NEW i \in 1 .. n, Fenced(i), j[i] # 0
       PROVE  /\ last[i] \in Int /\ i <= last[i] + 1 /\ last[i] + 2 = after[i]
              /\ i < after[i] /\ after[i] <= n + 2 /\ last[i] <= n
              /\ \A q \in last[i] + 1 .. after[i] - 1 : q <= n => text[q] = "nl"
              /\ after[i] = LineEnd(text, ClosingFence(text, i)) + 1
  <2>1. i \in I /\ i \in Nat \ {0} /\ i <= n + 1
    BY <1>1
  <2> DEFINE k == LineEnd(text, j[i] + 3)
             e == LineEnd(text, i)
  <2>2. j[i] = ClosingFence(text, i) /\ last[i] = k - 1 /\ after[i] = k + 1 /\ FenceAt(text, i)
    BY <1>5, <1>9, <1>11, <2>1
  <2>3. j[i] \in e + 1 .. n /\ FenceAt(text, j[i])
    BY <1>11, <2>2, ClosingFenceIs
  <2>4. e \in i .. n + 1
    BY <2>1, LineEndIs
  <2>5. j[i] \in Nat \ {0} /\ i < j[i] /\ j[i] <= n
    BY <1>1, <2>1, <2>3, <2>4
  <2>6. j[i] + 2 <= n /\ k = LineEnd(text, j[i])
    BY <2>3, <2>5, FenceIs DEF FenceAt
  <2>7. k \in j[i] .. n + 1 /\ (k <= n => text[k] = "nl")
    <3>1. j[i] <= n + 1
      BY <1>1, <2>5
    <3>2. LineEnd(text, j[i]) \in j[i] .. n + 1 /\ (LineEnd(text, j[i]) <= n => text[LineEnd(text, j[i])] = "nl")
      BY <2>5, <3>1, LineEndIs
    <3> QED
      BY <2>6, <3>2
  <2>8. after[i] = LineEnd(text, ClosingFence(text, i)) + 1
    BY <2>2, <2>6
  <2> HIDE DEF k, e
  <2>9. k \in Int /\ i < k /\ k <= n + 1
    BY <1>1, <2>5, <2>7
  <2>10. \A q \in last[i] + 1 .. after[i] - 1 : q = k
    BY <2>2, <2>9
  <2> QED
    BY <1>1, <2>2, <2>7, <2>8, <2>9, <2>10
<1>12. ASSUME NEW i \in 1 .. n, MathAt(i), j[i] # 0
       PROVE  /\ last[i] \in Int /\ i <= last[i] + 1 /\ last[i] + 1 = after[i]
              /\ i < after[i] /\ after[i] <= n + 2 /\ last[i] <= n
  <2>1. i \in I
    BY <1>1
  <2>2. j[i] = Find(text, i + 2, Len(text), Math) /\ last[i] = j[i] + 1 /\ after[i] = j[i] + 2
    BY <1>5, <1>12, <2>1
  <2>3. j[i] = 0 \/ (j[i] \in i + 2 .. Len(text) /\ j[i] + 1 <= Len(text))
    BY <1>1, <2>2, MathFound
  <2> QED
    BY <1>1, <1>12, <2>2, <2>3
<1>13. ASSUME NEW s \in go
       PROVE  /\ s \in S /\ s[2] \in 1 .. n /\ succ[s] \in S /\ s[2] < succ[s][2]
              /\ left[succ[s]] < left[s]
  <2>1. s \in S /\ s[1] \in I /\ s[2] \in I /\ s[2] \in 1 .. n /\ s[2] \in Int
    BY <1>1, <1>3, <1>4
  <2>2. CASE s \in cut
    <3> DEFINE a == after[s[2]]
    <3>1. a \in Int /\ s[2] < a /\ a <= n + 2
      <4>1. CASE Fenced(s[2])
        BY <1>4, <1>11, <2>1, <2>2, <4>1
      <4>2. CASE MathAt(s[2])
        BY <1>4, <1>12, <2>1, <2>2, <4>2
      <4> QED
        BY <1>4, <2>1, <2>2, <4>1, <4>2
    <3>2. succ[s] = <<a, a>>
      BY <1>6, <2>1, <2>2
    <3> HIDE DEF a
    <3>3. a \in I
      BY <1>1, <2>1, <3>1
    <3>4. succ[s] \in S /\ succ[s][2] = a
      BY <3>2, <3>3
    <3>5. left[succ[s]] = n + 2 - a /\ left[s] = n + 2 - s[2]
      BY <1>6, <2>1, <3>4
    <3> QED
      BY <1>1, <2>1, <3>1, <3>4, <3>5
  <2>3. CASE s \notin cut
    <3>1. succ[s] = <<s[1], s[2] + 1>> /\ s[2] + 1 \in I
      BY <1>1, <1>6, <2>1, <2>3
    <3>2. succ[s] \in S /\ succ[s][2] = s[2] + 1
      BY <2>1, <3>1
    <3>3. left[succ[s]] = n + 2 - (s[2] + 1) /\ left[s] = n + 2 - s[2]
      BY <1>6, <2>1, <3>2
    <3> QED
      BY <1>1, <2>1, <3>2, <3>3
  <2> QED
    BY <2>2, <2>3
<1> HIDE DEF S
<1>14. IsScan(S, n + 2, left, go, succ)
  <2>1. n + 2 \in Nat
    BY <1>1
  <2> QED
    BY <1>4, <1>8, <1>13, <2>1 DEF IsScan
<1>15. PICK g : Scanned(g, S, go, succ, cut, head, base)
  BY <1>14, ScanExists
<1>16. ASSUME NEW f, NEW s \in S PROVE Body(f, s) = Value(f, s)
  <2> DEFINE i == s[2]
             b == before[s]
  <2>1. i \in I /\ i \in Nat \ {0} /\ b = InlineSegments(text, s[1], i - 1)
    BY <1>3, <1>7
  <2>2. i > n \/ i \in 1 .. n
    BY <1>1, <2>1
  <2>3. CASE i > n
    <3>1. s \notin go /\ base[s] = InlineSegments(text, s[1], n)
      <4>1. ~ (i <= n)
        BY <1>1, <2>1, <2>3
      <4> QED
        BY <1>4, <1>7, <2>3, <4>1
    <3>2. Body(f, s) = InlineSegments(text, s[1], n)
      BY <2>3
    <3> QED
      BY <3>1, <3>2
  <2>4. CASE i \in 1 .. n /\ Fenced(i)
    <3>1. ~ (i > n) /\ FenceAt(text, i)
      BY <1>1, <2>4 DEF Fenced
    <3>2. j[i] = ClosingFence(text, i) /\ s \in cut /\ (s \in go <=> j[i] # 0)
      BY <1>1, <1>4, <1>5, <2>1, <2>4
    <3>3. last[i] = LineEnd(text, j[i] + 3) - 1 /\ after[i] = LineEnd(text, j[i] + 3) + 1
      BY <1>5, <2>1, <2>4
    <3>4. Body(f, s) = IF j[i] = 0 THEN b \o Segment(i, n, TRUE)
                       ELSE b \o Segment(i, last[i], TRUE) \o f[<<after[i], after[i]>>]
      BY <2>1, <3>1, <3>2, <3>3
    <3>5. head[s] = b \o Segment(i, last[i], TRUE) /\ base[s] = b \o Segment(i, n, TRUE)
      BY <1>7, <3>1
    <3>6. succ[s] = <<after[i], after[i]>>
      BY <1>6, <3>2
    <3> HIDE DEF Body, b, i
    <3> QED
      BY <3>2, <3>4, <3>5, <3>6
  <2>5. CASE i \in 1 .. n /\ MathAt(i)
    <3>1. ~ (i > n) /\ ~ FenceAt(text, i) /\ Has(text, i, Math)
      BY <1>1, <2>5 DEF Fenced
    <3>2. j[i] = Find(text, i + 2, n, Math) /\ s \in cut /\ (s \in go <=> j[i] # 0)
      BY <1>1, <1>4, <1>5, <2>1, <2>5
    <3>3. last[i] = j[i] + 1 /\ after[i] = j[i] + 2
      BY <1>5, <2>1, <2>5
    <3>4. Body(f, s) = IF j[i] = 0 THEN b \o Segment(i, n, TRUE)
                       ELSE b \o Segment(i, last[i], TRUE) \o f[<<after[i], after[i]>>]
      BY <2>1, <3>1, <3>2, <3>3
    <3>5. head[s] = b \o Segment(i, last[i], TRUE) /\ base[s] = b \o Segment(i, n, TRUE)
      BY <1>7, <3>1
    <3>6. succ[s] = <<after[i], after[i]>>
      BY <1>6, <3>2
    <3> HIDE DEF Body, b, i
    <3> QED
      BY <3>2, <3>4, <3>5, <3>6
  <2>6. CASE i \in 1 .. n /\ ~ Fenced(i) /\ ~ MathAt(i)
    <3>1. ~ (i > n) /\ ~ FenceAt(text, i) /\ ~ Has(text, i, Math)
      BY <1>1, <2>6 DEF Fenced
    <3>2. s \notin cut /\ s \in go /\ succ[s] = <<s[1], i + 1>>
      BY <1>1, <1>4, <1>6, <2>6
    <3>3. Body(f, s) = f[<<s[1], i + 1>>]
      BY <3>1
    <3> QED
      BY <3>2, <3>3
  <2> QED
    BY <2>2, <2>3, <2>4, <2>5, <2>6
<1>17. Splits(split)
  <2>1. Splits(g)
    <3> HIDE DEF Body
    <3> QED
      BY <1>15, <1>16 DEF Scanned
  <2> HIDE DEF Splits
  <2> QED
    BY <2>1
<1> HIDE DEF split
<1>18. \A s \in S : split[s] = Value(split, s)
  <2> HIDE DEF Body, Value
  <2>1. \A s \in S : split[s] = Body(split, s)
    BY <1>17
  <2> QED
    BY <1>16, <2>1
<1> HIDE DEF Body
<1> DEFINE Good == {s \in S : s[1] <= s[2] =>
                      /\ split[s] \in Q /\ HoldsFrom(text, split[s], s[1])
                      /\ PlainCode(text) /\ (s[2] <= n => Outside(text, s[2])) =>
                           FencedIsCode(text, split[s], s[2])}
<1>19. \A s \in S : s \in Good
  <2>1. ASSUME NEW s \in S, s \in go => succ[s] \in Good, s[1] <= s[2]
        PROVE  /\ split[s] \in Q /\ HoldsFrom(text, split[s], s[1])
               /\ PlainCode(text) /\ (s[2] <= n => Outside(text, s[2])) =>
                    FencedIsCode(text, split[s], s[2])
    <3> DEFINE i == s[2]
               a == s[1]
               P == before[s]
               R == split[succ[s]]
               t == succ[s]
    <3>1. /\ a \in Nat \ {0} /\ i \in Nat \ {0} /\ a <= i /\ i <= n + 2 /\ a \in Int /\ i \in Int
          /\ i \in I
      BY <1>3, <1>10, <2>1
    <3>2. split[s] = Value(split, s)
      BY <1>18
    <3>3. i <= n => P \in Q /\ AreRanges(P, a, i - 1) /\ Covered(P) = a .. i - 1
      <4>1. HAVE i <= n
      <4>2. a \in Nat \ {0} /\ i - 1 \in Nat /\ a <= i - 1 + 2 /\ a <= i - 1 + 1
        BY <3>1
      <4> DEFINE l == i - 1
      <4> HIDE DEF l
      <4>3. /\ InlineSegments(text, a, l) \in Q
            /\ AreRanges(InlineSegments(text, a, l), a, l)
            /\ Covered(InlineSegments(text, a, l)) = a .. l
        BY <4>2, InlineIs DEF l
      <4> QED
        BY <1>7, <4>3 DEF l
    <3>4. s \in go => /\ t \in S /\ i \in 1 .. n
                      /\ t[1] <= t[2] =>
                           /\ R \in Q /\ HoldsFrom(text, R, t[1])
                           /\ PlainCode(text) /\ (t[2] <= n => Outside(text, t[2])) =>
                                FencedIsCode(text, R, t[2])
      BY <1>13, <2>1
    <3>5. CASE i > n
      <4>1. s \notin go
        BY <1>1, <1>4, <3>1, <3>5
      <4>2. split[s] = InlineSegments(text, a, n)
        BY <1>7, <3>2, <3>5, <4>1
      <4> DEFINE W == InlineSegments(text, a, n)
      <4>3. /\ W \in Q
            /\ a <= n + 1 => AreRanges(W, a, n) /\ Covered(W) = a .. n
            /\ a = n + 2 => W = <<>>
        <5>1. a <= n + 2 /\ n \in Nat
          BY <1>1, <3>1
        <5> HIDE DEF a, n
        <5> QED
          BY <3>1, <5>1, InlineIs
      <4> HIDE DEF W
      <4>4. HoldsFrom(text, W, a)
        <5>1. CASE a <= n + 1
          BY <4>3, <5>1 DEF HoldsFrom
        <5>2. CASE a = n + 2
          <6>1. AreRanges(<<>>, a, n)
            BY NoRange
          <6>2. \A q \in a .. n : FALSE
            BY <1>1, <5>2
          <6> QED
            BY <4>3, <5>2, <6>1, <6>2 DEF HoldsFrom
        <5> QED
          BY <1>1, <3>1, <5>1, <5>2
      <4>5. FencedIsCode(text, W, i)
        <5>1. \A q \in i .. n : FALSE
          BY <1>1, <3>1, <3>5
        <5> QED
          BY <5>1 DEF FencedIsCode
      <4> QED
        BY <4>2, <4>3, <4>4, <4>5 DEF W
    <3>6. CASE i <= n /\ s \notin go
      <4>1. (Fenced(i) \/ MathAt(i)) /\ j[i] = 0
        BY <1>4, <3>6
      <4>2. split[s] = P \o Segment(i, n, TRUE)
        <5>1. ~ (i > n)
          BY <1>1, <3>1, <3>6
        <5> QED
          BY <1>7, <3>2, <3>6, <5>1
      <4> DEFINE W == P \o Segment(i, n, TRUE)
      <4>3. W \in Q /\ HoldsFrom(text, W, a) /\ i .. n \subseteq Coded(W)
        <5>1. P \in Q /\ AreRanges(P, a, i - 1) /\ Covered(P) = a .. i - 1
          BY <3>3, <3>6
        <5>2. Len(text) \in Nat /\ i <= Len(text) + 1
          BY <1>1, <3>1, <3>6
        <5> HIDE DEF P, a, i
        <5> QED
          BY <3>1, <5>1, <5>2, LastPartHolds
      <4> HIDE DEF W
      <4>4. FencedIsCode(text, W, i)
        BY <4>3 DEF FencedIsCode
      <4> QED
        BY <4>2, <4>3, <4>4 DEF W
    <3>7. CASE s \in go /\ s \in cut
      <4>1. /\ i \in 1 .. n /\ (Fenced(i) \/ MathAt(i)) /\ j[i] # 0
            /\ t = <<after[i], after[i]>>
        BY <1>4, <1>6, <3>4, <3>7
      <4>2. split[s] = P \o Segment(i, last[i], TRUE) \o R
        BY <1>7, <3>2, <3>7
      <4> DEFINE b == after[i]
                 l == last[i]
                 W == P \o Segment(i, l, TRUE) \o R
      <4>3. /\ l \in Int /\ i <= l + 1 /\ l < b /\ b <= n + 2 /\ b \in Int /\ i < b
            /\ l <= n /\ \A q \in l + 1 .. b - 1 : q <= n => text[q] = "nl"
        <5>1. CASE Fenced(i)
          BY <1>11, <4>1, <5>1
        <5>2. CASE MathAt(i)
          BY <1>12, <4>1, <5>2
        <5> QED
          BY <4>1, <5>1, <5>2
      <4>4. t[1] = b /\ t[2] = b
        BY <4>1
      <4>5. /\ R \in Q /\ HoldsFrom(text, R, b)
            /\ PlainCode(text) /\ (b <= n => Outside(text, b)) => FencedIsCode(text, R, b)
        BY <3>4, <3>7, <4>3, <4>4
      <4>6. /\ W \in Q /\ HoldsFrom(text, W, a) /\ i .. l \subseteq Coded(W)
            /\ Coded(R) \subseteq Coded(W)
        <5>1. P \in Q /\ AreRanges(P, a, i - 1) /\ Covered(P) = a .. i - 1
          BY <1>1, <3>3, <4>1
        <5>2. Len(text) \in Nat
          OBVIOUS
        <5> HIDE DEF P, R, a, i, b, l
        <5> QED
          BY <3>1, <4>3, <4>5, <5>1, <5>2, PartsHold
      <4> HIDE DEF W
      <4>7. PlainCode(text) /\ Outside(text, i) => FencedIsCode(text, W, i)
        <5>1. HAVE PlainCode(text) /\ Outside(text, i)
        <5>2. Fenced(i)
          BY <1>1, <4>1, <5>1 DEF PlainCode
        <5>3. Outside(text, b)
          <6>1. FenceAt(text, i) /\ ClosingFence(text, i) # 0 /\ i \in 1 .. Len(text)
            BY <1>5, <1>9, <3>1, <4>1, <5>2
          <6>2. b = LineEnd(text, ClosingFence(text, i)) + 1
            BY <1>11, <4>1, <5>2
          <6> HIDE DEF b, i
          <6>3. PlainFences(text)
            BY <5>1 DEF PlainCode
          <6> QED
            BY <5>1, <6>1, <6>2, <6>3, OutsideBehind
        <5>4. FencedIsCode(text, R, b)
          BY <4>5, <5>1, <5>3
        <5>5. ASSUME NEW q \in i .. n, FencedByLines(text, q), text[q] # "nl" PROVE q \in Coded(W)
          <6>1. CASE q <= l
            <7>1. q \in i .. l
              BY <3>1, <4>3, <5>5, <6>1
            <7> QED
              BY <4>6, <7>1
          <6>2. CASE q > l /\ q < b
            <7>1. q \in l + 1 .. b - 1 /\ q <= n
              BY <1>1, <3>1, <4>3, <5>5, <6>2
            <7> QED
              BY <4>3, <5>5, <7>1
          <6>3. CASE q >= b
            <7>1. q \in b .. n
              BY <1>1, <4>3, <5>5, <6>3
            <7> QED
              BY <4>6, <5>4, <5>5, <7>1 DEF FencedIsCode
          <6> QED
            BY <3>1, <4>3, <5>5, <6>1, <6>2, <6>3
        <5> QED
          BY <5>5 DEF FencedIsCode
      <4>8. i <= n
        BY <1>1, <4>1
      <4> QED
        BY <4>2, <4>6, <4>7, <4>8 DEF W
    <3>8. CASE s \in go /\ s \notin cut
      <4>1. /\ i \in 1 .. n /\ ~ Fenced(i) /\ ~ MathAt(i) /\ t = <<a, i + 1>>
        BY <1>4, <1>6, <3>4, <3>8
      <4>2. split[s] = R
        BY <3>2, <3>8
      <4>3. t[1] = a /\ t[2] = i + 1 /\ a <= i + 1
        BY <3>1, <4>1
      <4>4. /\ R \in Q /\ HoldsFrom(text, R, a)
            /\ PlainCode(text) /\ (i + 1 <= n => Outside(text, i + 1)) => FencedIsCode(text, R, i + 1)
        BY <3>4, <3>8, <4>3
      <4>5. PlainCode(text) /\ Outside(text, i) => FencedIsCode(text, R, i)
        <5>1. HAVE PlainCode(text) /\ Outside(text, i)
        <5>2. ~ FenceAt(text, i) /\ i \in 1 .. Len(text)
          BY <1>9, <3>1, <4>1
        <5>3. Outside(text, i + 1) /\ ~ FencedByLines(text, i)
          BY <5>1, <5>2, OutsideStep DEF PlainCode
        <5>4. FencedIsCode(text, R, i + 1)
          BY <4>4, <5>1, <5>3
        <5>5. \A q \in i .. n : q = i \/ q \in i + 1 .. n
          BY <1>1, <3>1
        <5> QED
          BY <5>3, <5>4, <5>5 DEF FencedIsCode
      <4>6. i <= n
        BY <1>1, <4>1
      <4> HIDE DEF R
      <4> QED
        BY <4>2, <4>4, <4>5, <4>6
    <3>9. i > n \/ i <= n
      BY <1>1, <3>1
    <3> QED
      BY <3>5, <3>6, <3>7, <3>8, <3>9
  <2>2. ASSUME NEW s \in S, s \in go => succ[s] \in Good PROVE s \in Good
    BY <2>1, <2>2
  <2> HIDE DEF Good
  <2> QED
    BY <1>14, <2>2, ScanInduction
<1> DEFINE R == Segments(text)
<1>20. R \in Q /\ HoldsFrom(text, R, 1) /\ (PlainCode(text) => FencedIsCode(text, R, 1))
  <2> DEFINE s == <<1, 1>>
  <2>1. s \in S /\ s[1] = 1 /\ s[2] = 1
    BY <1>1 DEF S
  <2>2. s \in Good /\ R = split[s]
    BY <1>2, <1>19, <2>1
  <2> HIDE DEF s, R
  <2> QED
    BY <2>1, <2>2, OutsideFirst
<1> HIDE DEF R
<1>21. InOrder(R)
  BY <1>20, RangesInOrder DEF HoldsFrom
<1>22. \A i \in DOMAIN text \ Covered(R) : text[i] = "nl"
  BY <1>1, <1>20 DEF HoldsFrom
<1>23. (PlainFences(text) /\ \A i \in DOMAIN text : ~ Has(text, i, Math)) =>
         \A i \in DOMAIN text : FencedByLines(text, i) /\ text[i] # "nl" =>
           \E k \in DOMAIN R : R[k].code /\ i \in R[k].from .. R[k].to
  <2>1. \A i : i \in Coded(R) => \E k \in DOMAIN R : R[k].code /\ i \in R[k].from .. R[k].to
    BY DEF Coded
  <2> QED
    BY <1>1, <1>20, <2>1 DEF PlainCode, FencedIsCode
<1>24. ~ Panics(text) => CodeMathSegments(text) = R
  BY DEF CodeMathSegments, R
<1> QED
  BY <1>21, <1>22, <1>23, <1>24 DEF SegmentsAreExact

LEMMA SymbolsOfNotes ==
  Alphabet["chunks"] \subseteq Line /\ Alphabet["frontmatter"] \subseteq Line
<1>1. \A kind \in LineKind : A(kind) \in Line
  BY DEF A, Line
<1>2. \A level \in Nat : H(level) \in Line
  BY DEF H, A, Line, LineKind
<1>3. FenceOf("tick") \in Line /\ FenceOf("tilde") \in Line
  BY DEF FenceOf, A, Line, LineKind
<1>4. Alphabet["chunks"] = {A("blank"), A("text"), H(1), H(2), H(4),
                            FenceOf("tick"), FenceOf("tilde")}
  BY DEF Alphabet
<1>5. Alphabet["frontmatter"] = {A("blank"), A("text"), A("dashes"), A("indented dashes"),
                                 A("tags"), A("inline tags"), A("item")}
  BY DEF Alphabet
<1> QED
  BY <1>1, <1>2, <1>3, <1>4, <1>5 DEF LineKind

(* The pieces of which MCAlgorithms makes a text are texts.                *)
LEMMA PiecesOfText ==
  ASSUME function \in {"segments", "links", "emphasis"}
  PROVE  \E C : Alphabet[function] \subseteq Seq(C)
<1> DEFINE C == {"lower", "tick", "dollar", "nl", "space", "tilde", "[", "]", "|", "#",
                 "^", "=", "*"}
<1>1. /\ <<"lower">> \in Seq(C) /\ <<"tick">> \in Seq(C) /\ <<"dollar">> \in Seq(C)
      /\ <<"nl">> \in Seq(C) /\ <<"space">> \in Seq(C)
      /\ <<"tick", "tick", "tick">> \in Seq(C)
      /\ <<"tick", "tick", "tick", "nl">> \in Seq(C)
      /\ <<"tilde", "tilde", "tilde", "nl">> \in Seq(C)
  OBVIOUS
<1>2. /\ <<"[">> \in Seq(C) /\ <<"]">> \in Seq(C) /\ <<"[", "[">> \in Seq(C)
      /\ <<"]", "]">> \in Seq(C) /\ <<"|">> \in Seq(C) /\ <<"#">> \in Seq(C)
      /\ <<"^">> \in Seq(C) /\ <<"=">> \in Seq(C) /\ <<"*">> \in Seq(C)
  OBVIOUS
<1> HIDE DEF C
<1>3. Alphabet["segments"] \subseteq Seq(C)
  <2>1. Alphabet["segments"] =
          {<<"lower">>, <<"tick">>, <<"dollar">>, <<"nl">>, <<"space">>,
           <<"tick", "tick", "tick">>, <<"tick", "tick", "tick", "nl">>,
           <<"tilde", "tilde", "tilde", "nl">>}
    BY DEF Alphabet
  <2> QED
    BY <1>1, <2>1
<1>4. Alphabet["links"] \subseteq Seq(C)
  <2>1. Alphabet["links"] =
          {<<"lower">>, <<"[">>, <<"]">>, <<"[", "[">>, <<"]", "]">>,
           <<"|">>, <<"#">>, <<"^">>}
    BY DEF Alphabet
  <2> QED
    BY <1>1, <1>2, <2>1
<1>5. Alphabet["emphasis"] \subseteq Seq(C)
  <2>1. Alphabet["emphasis"] = {<<"lower">>, <<"=">>, <<"*">>, <<"[", "[">>}
    BY DEF Alphabet
  <2> QED
    BY <1>1, <1>2, <2>1
<1> QED
  BY <1>3, <1>4, <1>5

(* A note goes into the index whole: every line of it is in exactly one    *)
(* chunk, under the path of its headings, no fenced code is cut and the    *)
(* tags are those of its frontmatter; no character of a text that the      *)
(* segmenter does not panic at, no link and no emphasis is lost, and the   *)
(* longest entry of the dictionary wins: for inputs of any length.         *)
THEOREM NotesGoIntoTheIndex == Spec => []NotesAreIndexed
<1>1. InputInv => NotesAreIndexed
  <2> SUFFICES ASSUME InputInv PROVE NotesAreIndexed
    OBVIOUS
  <2>1. ASSUME Note
        PROVE  /\ FrontmatterIsExact(input)
               /\ \A chunks \in {SplitIntoChunks(input)} :
                    /\ EveryLineOnce(input, chunks)
                    /\ CodeStaysWhole(input, chunks)
                    /\ PathIsAncestry(input, chunks)
                    /\ LongChunksAreParagraphs(input, chunks)
    <3>1. function # "paging" /\ Alphabet[function] \subseteq Line
      BY <2>1, SymbolsOfNotes DEF Note
    <3>2. PICK Symbol : Symbol = Alphabet[function]
      OBVIOUS
    <3>3. input \in Seq(Symbol) /\ Symbol \subseteq Line
      BY <3>1, <3>2 DEF InputInv
    <3>4. input \in Seq(Line)
      BY <3>3
    <3> QED
      BY <3>4, NotesAreCut
  <2>2. ASSUME function \in {"segments", "links", "emphasis"}
        PROVE  \E C : Text \in Seq(C)
    <3>1. PICK C : Alphabet[function] \subseteq Seq(C)
      BY <2>2, PiecesOfText
    <3>2. input \in Seq(Alphabet[function])
      BY <2>2 DEF InputInv
    <3>3. PICK Piece : Piece = Alphabet[function]
      OBVIOUS
    <3>4. PICK Q : Q = Seq(C)
      OBVIOUS
    <3>5. input \in Seq(Q)
      <4>1. input \in Seq(Piece) /\ Piece \subseteq Q
        BY <3>1, <3>2, <3>3, <3>4
      <4> QED
        BY <4>1
    <3>6. input \in Seq(Seq(C))
      BY <3>4, <3>5
    <3>7. FlattenSeq(input) \in Seq(C)
      BY <3>6, FlattenIs DEF IsFlat
    <3> QED
      BY <3>7 DEF Text
  <2>3. ASSUME function = "segments" PROVE SegmentsAreExact(Text)
    BY <2>2, <2>3, SegmentsHoldText
  <2>4. ASSUME function \in {"links", "emphasis"} PROVE NoMarkMissed(Text)
    BY <2>2, <2>4, MarksAreFound
  <2>5. ASSUME function = "terms", NEW dict \in MCDictionary
        PROVE  LongestEntryWins(input, dict)
    <3>1. \E Symbol : input \in Seq(Symbol)
      BY <2>5 DEF InputInv
    <3> QED
      BY <3>1, LongestEntriesWin
  <2> QED
    BY <2>1, <2>3, <2>4, <2>5 DEF NotesAreIndexed
<1> QED
  BY InitInputInv, NextInputInv, <1>1, PTL DEF Spec

-----------------------------------------------------------------------------
(***************************************************************************)
(* Ranking.                                                                *)
(***************************************************************************)
LEMMA CountedBy ==
  ASSUME NEW S, NEW T, IsFiniteSet(S), NEW f \in [S -> T],
         \A a, b \in S : f[a] = f[b] => a = b, \A c \in T : \E a \in S : f[a] = c
  PROVE  IsFiniteSet(T) /\ Cardinality(T) = Cardinality(S)
<1>1. f \in Bijection(S, T)
  BY DEF Bijection, Injection, Surjection, IsInjective
<1> QED
  BY <1>1, FS_Bijection DEF ExistsBijection

(* The members of a finite set of numbers in the order of their keys.      *)
IsOrder(o, S, key) ==
  /\ o \in [1 .. Cardinality(S) -> S]
  /\ \A k, l \in 1 .. Cardinality(S) : o[k] = o[l] => k = l
  /\ \A a \in S : \E k \in 1 .. Cardinality(S) : o[k] = a
  /\ \A k, l \in 1 .. Cardinality(S) :
       k < l => key[o[k]] < key[o[l]] \/ (key[o[k]] = key[o[l]] /\ o[k] < o[l])

AreOrdered(rows1, S, key, f) ==
  \E o : /\ IsOrder(o, S, key)
         /\ InKeyOrder(rows1) = [k \in 1 .. Cardinality(S) |-> f[o[k]]]

LEMMA OrderIs ==
  ASSUME NEW S \in SUBSET Int, IsFiniteSet(S), NEW key \in [S -> Int],
         NEW f, NEW rows1, rows1 = {<<key[a], a, f[a]>> : a \in S}
  PROVE  AreOrdered(rows1, S, key, f)
<1> DEFINE Sooner(b, a) == key[b] < key[a] \/ (key[b] = key[a] /\ b < a)
           Behind(a) == {b \in S : Sooner(b, a)}
           n == Cardinality(S)
           nth == [a \in S |-> Cardinality(Behind(a))]
           o == [k \in 1 .. n |-> CHOOSE a \in S : nth[a] = k - 1]
<1>0. n \in Nat /\ \A a \in S : a \in Int /\ key[a] \in Int
  BY FS_CardinalityType
<1>1. ASSUME NEW a \in S
      PROVE  /\ IsFiniteSet(Behind(a)) /\ Cardinality(Behind(a)) \in 0 .. n - 1
             /\ a \notin Behind(a)
  <2>1. a \notin Behind(a)
    BY <1>0
  <2>2. Behind(a) \in SUBSET (S \ {a})
    BY <2>1
  <2>3. IsFiniteSet(S \ {a}) /\ Cardinality(S \ {a}) = n - 1
    BY FS_RemoveElement
  <2>4. IsFiniteSet(Behind(a)) /\ Cardinality(Behind(a)) <= n - 1
    BY <2>2, <2>3, FS_Subset
  <2>5. Cardinality(Behind(a)) \in Nat
    BY <2>4, FS_CardinalityType
  <2> QED
    BY <1>0, <2>1, <2>4, <2>5
<1>2. ASSUME NEW a \in S, NEW b \in S, Sooner(a, b)
      PROVE  Cardinality(Behind(a)) < Cardinality(Behind(b))
  <2>1. Behind(a) \in SUBSET Behind(b)
    <3>1. SUFFICES ASSUME NEW c \in S, Sooner(c, a) PROVE Sooner(c, b)
      OBVIOUS
    <3>2. PICK ka, kb, kc : ka = key[a] /\ kb = key[b] /\ kc = key[c]
      OBVIOUS
    <3>3. ka \in Int /\ kb \in Int /\ kc \in Int /\ a \in Int /\ b \in Int /\ c \in Int
      BY <1>0, <3>2
    <3> QED
      BY <1>2, <3>1, <3>2, <3>3
  <2>2. a \in Behind(b) /\ a \notin Behind(a)
    BY <1>1, <1>2
  <2>3. Cardinality(Behind(a)) <= Cardinality(Behind(b))
        /\ (Cardinality(Behind(b)) = Cardinality(Behind(a)) => Behind(a) = Behind(b))
    BY <1>1, <2>1, FS_Subset
  <2>4. Cardinality(Behind(a)) \in Int /\ Cardinality(Behind(b)) \in Int
    BY <1>1, FS_CardinalityType, SMTT(40)
  <2> QED
    BY <2>2, <2>3, <2>4
<1>3. \A a, b \in S : a = b \/ Sooner(a, b) \/ Sooner(b, a)
  BY <1>0
<1>4. nth \in [S -> 0 .. n - 1]
  BY <1>1
<1>5. \A a, b \in S : nth[a] = nth[b] => a = b
  <2>1. SUFFICES ASSUME NEW a \in S, NEW b \in S, nth[a] = nth[b], a # b PROVE FALSE
    OBVIOUS
  <2>2. nth[a] = Cardinality(Behind(a)) /\ nth[b] = Cardinality(Behind(b))
    OBVIOUS
  <2>3. nth[a] \in Int /\ nth[b] \in Int
    BY <1>0, <1>4
  <2>4. Sooner(a, b) => nth[a] < nth[b]
    BY <1>2, <2>2
  <2>5. Sooner(b, a) => nth[b] < nth[a]
    BY <1>2, <2>2
  <2> HIDE DEF nth, Sooner
  <2> QED
    BY <1>3, <2>1, <2>3, <2>4, <2>5
<1>6. \A k \in 0 .. n - 1 : \E a \in S : nth[a] = k
  <2>1. nth \in Injection(S, 0 .. n - 1)
    BY <1>4, <1>5 DEF Injection, IsInjective
  <2>2. IsFiniteSet(0 .. n - 1) /\ Cardinality(0 .. n - 1) = n
    <3>1. /\ IsFiniteSet(0 .. n - 1)
          /\ Cardinality(0 .. n - 1) = IF 0 > n - 1 THEN 0 ELSE (n - 1) - 0 + 1
      BY <1>0, FS_Interval, SMTT(40)
    <3> QED
      BY <1>0, <3>1
  <2>3. PICK T, g : T = 0 .. n - 1 /\ g = nth
    OBVIOUS
  <2>4. g \in Surjection(S, T)
    BY <2>1, <2>2, <2>3, FS_Injection
  <2> QED
    BY <2>3, <2>4 DEF Surjection
<1> DEFINE row(a) == <<key[a], a, f[a]>>
           before(r) == {q \in rows1 : q[1] < r[1] \/ (q[1] = r[1] /\ q[2] < r[2])}
           first(k) == CHOOSE r \in rows1 : Cardinality(before(r)) = k - 1
<1>7. ASSUME NEW a \in S PROVE Cardinality(before(row(a))) = nth[a]
  <2>1. PICK g : g = [b \in Behind(a) |-> row(b)]
    OBVIOUS
  <2>2. \A b \in S : row(b) \in before(row(a)) <=> Sooner(b, a)
    OBVIOUS
  <2>3. \A b, c \in S : row(b) = row(c) => b = c
    OBVIOUS
  <2>4. /\ \A b \in Behind(a) : b \in S /\ Sooner(b, a)
        /\ \A b \in S : Sooner(b, a) => b \in Behind(a)
    OBVIOUS
  <2>5. \A q \in before(row(a)) : \E b \in S : q = row(b)
    OBVIOUS
  <2>6. IsFiniteSet(Behind(a)) /\ nth[a] = Cardinality(Behind(a))
    BY <1>1
  <2>7. PICK B, C : B = Behind(a) /\ C = before(row(a))
    OBVIOUS
  <2> HIDE DEF before, Behind, row, Sooner, nth
  <2>8. g \in [B -> C]
    BY <2>1, <2>2, <2>4, <2>7
  <2>9. \A b, c \in B : g[b] = g[c] => b = c
    BY <2>1, <2>3, <2>4, <2>7
  <2>10. \A q \in C : \E b \in B : g[b] = q
    BY <2>1, <2>2, <2>4, <2>5, <2>7
  <2>12. IsFiniteSet(B)
    BY <2>6, <2>7
  <2>11. Cardinality(C) = Cardinality(B)
    BY <2>8, <2>9, <2>10, <2>12, CountedBy
  <2> QED
    BY <2>6, <2>7, <2>11
<1>14. \A r \in rows1 : \E a \in S : r = row(a)
  OBVIOUS
<1>15. \A a \in S : row(a) \in rows1 /\ row(a)[3] = f[a]
  OBVIOUS
<1>13. InKeyOrder(rows1) = [k \in 1 .. n |-> first(k)[3]]
  <2>1. PICK g : g = [a \in S |-> row(a)]
    OBVIOUS
  <2>2. \A b, c \in S : row(b) = row(c) => b = c
    OBVIOUS
  <2>3. Cardinality(rows1) = n
    <3> HIDE DEF row
    <3>1. g \in [S -> rows1]
      BY <1>15, <2>1
    <3>2. \A b, c \in S : g[b] = g[c] => b = c
      BY <2>1, <2>2
    <3>3. \A r \in rows1 : \E a \in S : g[a] = r
      BY <1>14, <2>1
    <3> QED
      BY <3>1, <3>2, <3>3, CountedBy
  <2> QED
    BY <2>3 DEF InKeyOrder
<1> HIDE DEF o, nth, row, before
<1>8. \A k \in 1 .. n : o[k] \in S /\ nth[o[k]] = k - 1
  <2>1. \A k \in 1 .. n : k - 1 \in 0 .. n - 1
    BY <1>0
  <2> QED
    BY <1>6, <2>1 DEF o
<1>9. o \in [1 .. n -> S]
  BY <1>8 DEF o
<1>16. ASSUME NEW k \in 1 .. n PROVE first(k)[3] = f[o[k]]
  <2>1. row(o[k]) \in rows1 /\ Cardinality(before(row(o[k]))) = k - 1
    BY <1>7, <1>8, <1>15
  <2>2. first(k) \in rows1 /\ Cardinality(before(first(k))) = k - 1
    BY <2>1
  <2>3. PICK a \in S : first(k) = row(a)
    BY <1>14, <2>2
  <2> HIDE DEF first
  <2>4. nth[a] = k - 1
    BY <1>7, <2>2, <2>3
  <2>5. a = o[k]
    BY <1>5, <1>8, <2>4
  <2> QED
    BY <1>15, <2>3, <2>5
<1> HIDE DEF first
<1>10. \A k, l \in 1 .. n : o[k] = o[l] => k = l
  <2>1. \A k, l \in 1 .. n : k - 1 = l - 1 => k = l
    BY <1>0
  <2> QED
    BY <1>8, <2>1
<1>11. ASSUME NEW a \in S PROVE \E k \in 1 .. n : o[k] = a
  <2>1. PICK k : k = nth[a] + 1
    OBVIOUS
  <2>2. k \in 1 .. n /\ nth[a] = k - 1
    BY <1>0, <1>4, <2>1
  <2>3. o[k] \in S /\ nth[o[k]] = nth[a]
    BY <1>8, <2>2
  <2> QED
    BY <1>5, <2>2, <2>3
<1>12. ASSUME NEW k \in 1 .. n, NEW l \in 1 .. n, k < l PROVE Sooner(o[k], o[l])
  <2>1. o[k] \in S /\ o[l] \in S /\ nth[o[k]] = k - 1 /\ nth[o[l]] = l - 1
    BY <1>8
  <2>2. o[k] # o[l]
    BY <1>10, <1>12
  <2>3. ~ Sooner(o[l], o[k])
    <3>1. Sooner(o[l], o[k]) => nth[o[l]] < nth[o[k]]
      BY <1>2, <2>1 DEF nth
    <3> HIDE DEF Sooner
    <3> QED
      BY <1>0, <1>12, <2>1, <3>1
  <2> HIDE DEF Sooner
  <2> QED
    BY <1>3, <2>1, <2>2, <2>3
<1>17. IsOrder(o, S, key)
  BY <1>9, <1>10, <1>11, <1>12 DEF IsOrder
<1>18. InKeyOrder(rows1) = [k \in 1 .. n |-> f[o[k]]]
  BY <1>13, <1>16
<1> QED
  BY <1>17, <1>18 DEF AreOrdered

(***************************************************************************)
(* Lists of results.                                                       *)
(***************************************************************************)
IsResult(r) == r = [id |-> r.id, score |-> r.score] /\ r.id \in Nat /\ r.score \in Int
IsRow(L, n) == n \in Nat /\ DOMAIN L = 1 .. n /\ Len(L) = n /\ L = [k \in 1 .. n |-> L[k]]
IsList(L, T) ==
  /\ IsRow(L, Len(L))
  /\ \A k \in 1 .. Len(L) : IsResult(L[k])
  /\ \A k, l \in 1 .. Len(L) : L[k].id = L[l].id => k = l
  /\ T = {L[k].id : k \in 1 .. Len(L)}
ScoreOf(L, a) == L[Place(L, a)].score

LEMMA PlaceIs ==
  ASSUME NEW L, NEW T, IsList(L, T)
  PROVE  /\ Len(L) \in Nat /\ DOMAIN L = 1 .. Len(L) /\ T \in SUBSET Nat
         /\ \A a \in T : /\ Place(L, a) \in 1 .. Len(L) /\ L[Place(L, a)].id = a
                         /\ L[Place(L, a)] = [id |-> a, score |-> ScoreOf(L, a)]
                         /\ ScoreOf(L, a) \in Int
         /\ \A k \in 1 .. Len(L) : /\ L[k].id \in T /\ Place(L, L[k].id) = k
                                   /\ L[k] = [id |-> L[k].id, score |-> L[k].score]
                                   /\ L[k].score = ScoreOf(L, L[k].id)
                                   /\ L[k].id \in Nat /\ L[k].score \in Int
         /\ \A a : a \notin T => Place(L, a) = Len(L) + 1
         /\ \A a, b \in T : Place(L, a) = Place(L, b) => a = b
<1> DEFINE at(a) == {k \in 1 .. Len(L) : L[k].id = a}
<1>1. Len(L) \in Nat /\ DOMAIN L = 1 .. Len(L) /\ T \in SUBSET Nat
  BY DEF IsList, IsResult, IsRow
<1>2. \A a : Place(L, a) = IF (IF at(a) # {} THEN Min(at(a)) ELSE 0) = 0 THEN Len(L) + 1
                           ELSE (IF at(a) # {} THEN Min(at(a)) ELSE 0)
  BY DEF Place, SelectInSeq
<1>3. ASSUME NEW a, NEW k \in 1 .. Len(L), L[k].id = a PROVE Place(L, a) = k
  <2>1. at(a) \in SUBSET Nat /\ k \in at(a)
    BY <1>1, <1>3
  <2>2. Min(at(a)) \in at(a)
    BY <2>1, MinIsLeast
  <2>3. Min(at(a)) = k
    BY <1>3, <2>2 DEF IsList
  <2> QED
    BY <1>1, <1>2, <2>1, <2>3
<1>4. \A a : a \notin T => Place(L, a) = Len(L) + 1
  <2>1. \A a : a \notin T => at(a) = {}
    BY DEF IsList
  <2> HIDE DEF at
  <2> QED
    BY <1>2, <2>1
<1>5. \A a \in T : \E k \in 1 .. Len(L) : L[k].id = a
  BY DEF IsList
<1>6. \A k \in 1 .. Len(L) : L[k].id \in T /\ Place(L, L[k].id) = k
  BY <1>3 DEF IsList
<1>7. \A a \in T : Place(L, a) \in 1 .. Len(L) /\ L[Place(L, a)].id = a
  BY <1>3, <1>5
<1>8. \A k \in 1 .. Len(L) : /\ L[k] = [id |-> L[k].id, score |-> L[k].score]
                             /\ L[k].id \in Nat /\ L[k].score \in Int
  BY DEF IsList, IsResult
<1>9. \A k \in 1 .. Len(L) : L[k].score = ScoreOf(L, L[k].id)
  BY <1>6 DEF ScoreOf
<1>10. \A a \in T : /\ L[Place(L, a)] = [id |-> a, score |-> ScoreOf(L, a)]
                    /\ ScoreOf(L, a) \in Int
  BY <1>7, <1>8 DEF ScoreOf
<1>11. \A a, b \in T : Place(L, a) = Place(L, b) => a = b
  BY <1>7
<1> QED
  BY <1>1, <1>4, <1>6, <1>7, <1>8, <1>9, <1>10, <1>11

LEMMA NthIsPlaced ==
  ASSUME NEW L, NEW T, IsList(L, T), NEW k \in 1 .. Len(L)
  PROVE  Place(L, L[k].id) = k
BY PlaceIs

IsMade(L, T, n, ids, sc) ==
  /\ IsList(L, T) /\ Len(L) = n
  /\ \A k \in 1 .. n : Place(L, ids[k]) = k /\ ScoreOf(L, ids[k]) = sc[k]

LEMMA MadeList ==
  ASSUME NEW n, NEW ids \in [1 .. n -> Nat], NEW sc \in [1 .. n -> Int],
         \A k, l \in 1 .. n : ids[k] = ids[l] => k = l,
         NEW L, IsRow(L, n),
         \A k \in 1 .. n : L[k] = [id |-> ids[k], score |-> sc[k]],
         NEW T, \A a : a \in T <=> \E k \in 1 .. n : ids[k] = a
  PROVE  IsMade(L, T, n, ids, sc)
<1>1. n \in Nat /\ DOMAIN L = 1 .. n /\ Len(L) = n
  BY DEF IsRow
<1>2. ASSUME NEW k \in 1 .. n PROVE L[k].id = ids[k] /\ L[k].score = sc[k]
  <2>1. L[k] = [id |-> ids[k], score |-> sc[k]]
    OBVIOUS
  <2> QED
    BY <2>1
<1>4. \A k \in 1 .. n : IsResult(L[k])
  BY <1>2 DEF IsResult
<1>5. T = {L[k].id : k \in 1 .. n}
  BY <1>2
<1>6. \A k, l \in 1 .. n : L[k].id = L[l].id => k = l
  BY <1>2
<1>7. IsList(L, T)
  BY <1>1, <1>4, <1>5, <1>6 DEF IsList
<1>8. ASSUME NEW k \in 1 .. n PROVE Place(L, ids[k]) = k
  <2>1. k \in 1 .. Len(L)
    BY <1>1
  <2>2. Place(L, L[k].id) = k
    BY <1>7, <2>1, NthIsPlaced
  <2> QED
    BY <1>2, <2>2
<1> QED
  BY <1>1, <1>2, <1>7, <1>8 DEF ScoreOf, IsMade

IsChosen(M, U, L, T, n, o) ==
  /\ IsList(M, U) /\ Len(M) = n
  /\ \A k \in 1 .. n : /\ L[o[k]].id \in T /\ Place(M, L[o[k]].id) = k
                       /\ Place(L, L[o[k]].id) = o[k]
                       /\ ScoreOf(M, L[o[k]].id) = ScoreOf(L, L[o[k]].id)

LEMMA ChosenList ==
  ASSUME NEW L, NEW T, IsList(L, T), NEW n, NEW o \in [1 .. n -> 1 .. Len(L)],
         \A k, l \in 1 .. n : o[k] = o[l] => k = l,
         NEW M, IsRow(M, n), \A k \in 1 .. n : M[k] = L[o[k]],
         NEW U, \A a : a \in U <=> \E k \in 1 .. n : L[o[k]].id = a
  PROVE  IsChosen(M, U, L, T, n, o)
<1> DEFINE ids == [k \in 1 .. n |-> L[o[k]].id]
           sc == [k \in 1 .. n |-> L[o[k]].score]
<1>1. \A j \in 1 .. Len(L) : /\ L[j].id \in T /\ Place(L, L[j].id) = j
                             /\ L[j] = [id |-> L[j].id, score |-> L[j].score]
                             /\ L[j].score = ScoreOf(L, L[j].id)
                             /\ L[j].id \in Nat /\ L[j].score \in Int
  BY PlaceIs
<1>2. \A k \in 1 .. n : o[k] \in 1 .. Len(L)
  OBVIOUS
<1>3. \A k \in 1 .. n : /\ L[o[k]].id \in T /\ Place(L, L[o[k]].id) = o[k]
                        /\ L[o[k]].score = ScoreOf(L, L[o[k]].id)
                        /\ L[o[k]].id \in Nat /\ L[o[k]].score \in Int
  BY <1>1, <1>2
<1>5. \A k \in 1 .. n : ids[k] = L[o[k]].id /\ sc[k] = L[o[k]].score
  OBVIOUS
<1>4. \A k \in 1 .. n : M[k] = [id |-> ids[k], score |-> sc[k]]
  BY <1>1, <1>2, <1>5
<1>6. ids \in [1 .. n -> Nat] /\ sc \in [1 .. n -> Int]
  BY <1>3
<1>7. \A a : a \in U <=> \E k \in 1 .. n : ids[k] = a
  BY <1>5
<1> HIDE DEF ids, sc
<1>8. \A k, l \in 1 .. n : ids[k] = ids[l] => k = l
  BY <1>3, <1>5
<1>9. IsMade(M, U, n, ids, sc)
  BY <1>4, <1>6, <1>7, <1>8, MadeList
<1> QED
  BY <1>3, <1>5, <1>9 DEF IsMade, IsChosen

(* A list that is sorted again: stable, and by the scores.                 *)
SortKey(s, mode) == IF mode = "hybrid" THEN - s ELSE s
IsSortOf(M, L, T, mode) ==
  /\ IsList(M, T) /\ Len(M) = Len(L)
  /\ \A a \in T : ScoreOf(M, a) = ScoreOf(L, a)
  /\ \A a, b \in T :
       Place(M, a) < Place(M, b) <=>
         \/ SortKey(ScoreOf(L, a), mode) < SortKey(ScoreOf(L, b), mode)
         \/ ScoreOf(L, a) = ScoreOf(L, b) /\ Place(L, a) < Place(L, b)

LEMMA SortedIs ==
  ASSUME NEW L, NEW T, IsList(L, T), NEW mode
  PROVE  IsSortOf(Sorted(L, mode), L, T, mode)
<1> DEFINE key == [k \in DOMAIN L |-> IF mode = "hybrid" THEN - L[k].score ELSE L[k].score]
           n == Len(L)
           M == Sorted(L, mode)
<1>1. /\ n \in Nat /\ DOMAIN L = 1 .. n /\ \A k \in 1 .. n : L[k].score \in Int
      /\ \A k \in 1 .. n : L[k].score = ScoreOf(L, L[k].id)
  BY PlaceIs
<1>2. key \in [1 .. n -> Int] /\ \A k \in 1 .. n : key[k] = SortKey(L[k].score, mode)
  BY <1>1 DEF SortKey
<1>3. IsFiniteSet(1 .. n) /\ Cardinality(1 .. n) = n
  <2>1. IsFiniteSet(1 .. n) /\ Cardinality(1 .. n) = IF 1 > n THEN 0 ELSE n - 1 + 1
    BY <1>1, FS_Interval, SMTT(40)
  <2> QED
    BY <1>1, <2>1
<1>15. PICK rows1 : rows1 = {<<key[k], k, L[k]>> : k \in 1 .. n}
  OBVIOUS
<1>16. M = InKeyOrder(rows1)
  <2>1. {<<key[k], k, L[k]>> : k \in DOMAIN L} = rows1
    BY <1>1, <1>15
  <2>2. M = StableSort(L, key)
    BY DEF Sorted
  <2> HIDE DEF M, key
  <2> QED
    BY <2>1, <2>2 DEF StableSort
<1> HIDE DEF key, M
<1>17. PICK o : /\ IsOrder(o, 1 .. n, key)
               /\ InKeyOrder(rows1) = [k \in 1 .. Cardinality(1 .. n) |-> L[o[k]]]
  <2>1. PICK S : S = 1 .. n
    OBVIOUS
  <2>2. S \in SUBSET Int /\ IsFiniteSet(S) /\ key \in [S -> Int]
    BY <1>1, <1>2, <1>3, <2>1
  <2>3. rows1 = {<<key[k], k, L[k]>> : k \in S}
    BY <1>15, <2>1
  <2>4. AreOrdered(rows1, S, key, L)
    BY <2>2, <2>3, OrderIs
  <2> QED
    BY <2>1, <2>4 DEF AreOrdered
<1>4. M = [k \in 1 .. n |-> L[o[k]]]
  BY <1>3, <1>16, <1>17
<1>5. IsOrder(o, 1 .. n, key)
  BY <1>17
<1>6. /\ o \in [1 .. n -> 1 .. n]
      /\ \A k, l \in 1 .. n : o[k] = o[l] => k = l
      /\ \A a \in 1 .. n : \E k \in 1 .. n : o[k] = a
      /\ \A k, l \in 1 .. n :
           k < l => key[o[k]] < key[o[l]] \/ (key[o[k]] = key[o[l]] /\ o[k] < o[l])
  BY <1>3, <1>5 DEF IsOrder
<1>14. IsRow(M, n) /\ \A k \in 1 .. n : M[k] = L[o[k]]
  <2>1. M \in Seq(Range(L))
    BY <1>1, <1>4, <1>6 DEF Range
  <2> QED
    BY <1>1, <1>4, <2>1 DEF IsRow
<1>9. \A a \in T : \E k \in 1 .. n : L[o[k]].id = a
  <2>1. \A a \in T : \E j \in 1 .. n : L[j].id = a
    BY DEF IsList
  <2> QED
    BY <1>6, <2>1
<1>8. \A k \in 1 .. n : L[o[k]].id \in T
  BY <1>6, PlaceIs
<1>12. IsChosen(M, T, L, T, n, o)
  <2>1. \A a : a \in T <=> \E k \in 1 .. n : L[o[k]].id = a
    BY <1>8, <1>9
  <2> QED
    BY <1>6, <1>14, <2>1, ChosenList
<1>7. /\ IsList(M, T) /\ Len(M) = n
      /\ \A k \in 1 .. n : /\ Place(M, L[o[k]].id) = k
                           /\ Place(L, L[o[k]].id) = o[k]
                           /\ ScoreOf(M, L[o[k]].id) = ScoreOf(L, L[o[k]].id)
  BY <1>12 DEF IsChosen
<1>10. \A a \in T : ScoreOf(M, a) = ScoreOf(L, a)
  BY <1>7, <1>9
<1>11. ASSUME NEW a \in T, NEW b \in T
       PROVE  Place(M, a) < Place(M, b) <=>
                \/ SortKey(ScoreOf(L, a), mode) < SortKey(ScoreOf(L, b), mode)
                \/ ScoreOf(L, a) = ScoreOf(L, b) /\ Place(L, a) < Place(L, b)
  <2>1. PICK k \in 1 .. n, l \in 1 .. n : L[o[k]].id = a /\ L[o[l]].id = b
    BY <1>9
  <2>2. PICK i \in 1 .. n, j \in 1 .. n : i = o[k] /\ j = o[l]
    BY <1>6
  <2>3. Place(M, a) = k /\ Place(M, b) = l /\ Place(L, a) = i /\ Place(L, b) = j
    BY <1>7, <2>1, <2>2
  <2>4. ScoreOf(L, a) = L[i].score /\ ScoreOf(L, b) = L[j].score
    BY <1>1, <2>1, <2>2
  <2>5. PICK s \in Int, t \in Int : s = L[i].score /\ t = L[j].score
    BY <1>1
  <2>6. key[i] = SortKey(s, mode) /\ key[j] = SortKey(t, mode)
    BY <1>2, <2>5
  <2>7. /\ k < l => key[i] < key[j] \/ (key[i] = key[j] /\ i < j)
        /\ l < k => key[j] < key[i] \/ (key[j] = key[i] /\ j < i)
        /\ k = l => i = j
    BY <1>6, <2>2
  <2>8. k \in Int /\ l \in Int /\ i \in Int /\ j \in Int
    BY <1>1
  <2> QED
    BY <2>3, <2>4, <2>5, <2>6, <2>7, <2>8 DEF SortKey
<1> QED
  BY <1>7, <1>10, <1>11 DEF IsSortOf, M

LEMMA RowIs ==
  ASSUME NEW n \in Nat, NEW L, DOMAIN L = 1 .. n, L = [k \in DOMAIN L |-> L[k]]
  PROVE  IsRow(L, n)
<1> DEFINE S == {L[k] : k \in 1 .. n}
<1>1. L \in [1 .. n -> S]
  OBVIOUS
<1>2. L \in Seq(S)
  BY <1>1
<1> QED
  BY <1>1, <1>2 DEF IsRow

LEMMA SeqIsRow ==
  ASSUME NEW S, NEW L \in Seq(S)
  PROVE  IsRow(L, Len(L)) /\ Len(L) \in Nat /\ DOMAIN L = 1 .. Len(L)
<1>1. Len(L) \in Nat /\ L \in [1 .. Len(L) -> S]
  BY LenProperties
<1> QED
  BY <1>1 DEF IsRow

LEMMA ListIsSeq ==
  ASSUME NEW L, NEW T, IsList(L, T)
  PROVE  \E S : L \in Seq(S)
<1> DEFINE S == {L[k] : k \in 1 .. Len(L)}
<1>1. L \in [1 .. Len(L) -> S] /\ Len(L) \in Nat
  BY DEF IsList, IsRow
<1>2. L \in Seq(S)
  BY <1>1
<1> QED
  BY <1>2

IsTaken(M, U, L, T, n) ==
  /\ IsList(M, U) /\ U \in SUBSET T
  /\ \A a \in T : a \in U <=> Place(L, a) <= n
  /\ Len(M) = IF Len(L) <= n THEN Len(L) ELSE n
  /\ \A a \in U : Place(M, a) = Place(L, a) /\ ScoreOf(M, a) = ScoreOf(L, a)

TakenOf(L, T, n) == {a \in T : Place(L, a) <= n}

LEMMA TakeIs ==
  ASSUME NEW L, NEW T, IsList(L, T), NEW n \in Nat
  PROVE  IsTaken(Take(L, n), TakenOf(L, T, n), L, T, n)
<1> DEFINE M == Take(L, n)
           U == TakenOf(L, T, n)
           m == Len(L)
<1>1. /\ m \in Nat /\ DOMAIN L = 1 .. m
      /\ \A a \in T : Place(L, a) \in 1 .. m /\ L[Place(L, a)].id = a
      /\ \A k \in 1 .. m : L[k].id \in T /\ Place(L, L[k].id) = k
  BY PlaceIs
<1>2. \A a \in T : a \in U <=> Place(L, a) <= n
  BY DEF TakenOf
<1>3. U \in SUBSET T
  BY DEF TakenOf
<1>4. CASE m <= n
  <2>1. M = L
    BY <1>4 DEF Take
  <2>2. U = T
    <3>1. \A a \in T : Place(L, a) <= n
      BY <1>1, <1>4
    <3> QED
      BY <3>1 DEF TakenOf
  <2> HIDE DEF M, U
  <2> QED
    BY <1>2, <1>4, <2>1, <2>2 DEF IsTaken, M, U
<1>5. CASE ~ (m <= n)
  <2>0. n <= m /\ n \in Nat
    BY <1>1, <1>5
  <2>1. M = SubSeq(L, 1, n)
    BY <1>5 DEF Take
  <2>2. PICK S : L \in Seq(S)
    BY ListIsSeq
  <2>3. /\ M \in Seq(S) /\ Len(M) = n - 1 + 1
        /\ \A k \in 1 .. n - 1 + 1 : M[k] = L[1 + k - 1]
    <3>1. 1 \in 1 .. Len(L) + 1 /\ n \in 1 - 1 .. Len(L)
      BY <1>1, <2>0
    <3> QED
      BY <2>1, <2>2, <3>1, SubSeqProperties
  <2>4. n - 1 + 1 = n /\ \A k \in 1 .. n : 1 + k - 1 = k
    BY <2>0
  <2>5. Len(M) = n /\ \A k \in 1 .. n : M[k] = L[k]
    BY <2>3, <2>4
  <2> HIDE DEF M, U
  <2>6. IsRow(M, n)
    <3>1. IsRow(M, Len(M))
      BY <2>3, SeqIsRow
    <3> QED
      BY <2>5, <3>1
  <2>7. PICK o : o = [k \in 1 .. n |-> k]
    OBVIOUS
  <2>8. /\ o \in [1 .. n -> 1 .. Len(L)] /\ \A k \in 1 .. n : o[k] = k
        /\ \A k, l \in 1 .. n : o[k] = o[l] => k = l
    BY <1>1, <2>0, <2>7
  <2>9. \A k \in 1 .. n : M[k] = L[o[k]]
    BY <2>5, <2>8
  <2>10. \A a : a \in U <=> \E k \in 1 .. n : L[o[k]].id = a
    <3>1. ASSUME NEW a \in U PROVE \E k \in 1 .. n : L[o[k]].id = a
      <4>1. Place(L, a) \in 1 .. n
        BY <1>1, <1>2, <1>3, <2>0
      <4> QED
        BY <1>1, <1>3, <2>8, <4>1
    <3>2. ASSUME NEW k \in 1 .. n PROVE L[o[k]].id \in U
      <4>1. k \in 1 .. m /\ o[k] = k /\ k <= n
        BY <1>1, <2>0, <2>8
      <4>2. L[k].id \in T /\ Place(L, L[k].id) = k
        BY <1>1, <4>1
      <4> QED
        BY <1>2, <4>1, <4>2
    <3> QED
      BY <3>1, <3>2
  <2>11. IsChosen(M, U, L, T, n, o)
    BY <2>6, <2>8, <2>9, <2>10, ChosenList
  <2>12. /\ IsList(M, U) /\ Len(M) = n
         /\ \A k \in 1 .. n : /\ Place(M, L[o[k]].id) = k
                              /\ Place(L, L[o[k]].id) = o[k]
                              /\ ScoreOf(M, L[o[k]].id) = ScoreOf(L, L[o[k]].id)
    BY <2>11 DEF IsChosen
  <2>13. \A a \in U : Place(M, a) = Place(L, a) /\ ScoreOf(M, a) = ScoreOf(L, a)
    <3>1. SUFFICES ASSUME NEW a \in U
                   PROVE  Place(M, a) = Place(L, a) /\ ScoreOf(M, a) = ScoreOf(L, a)
      OBVIOUS
    <3>2. PICK k \in 1 .. n : L[o[k]].id = a
      BY <2>10
    <3> QED
      BY <2>8, <2>12, <3>2
  <2> QED
    BY <1>2, <1>3, <1>5, <2>12, <2>13 DEF IsTaken, M, U
<1> QED
  BY <1>4, <1>5

(* A list of the results that are among some.                              *)
IsAmong(M, U, L) ==
  /\ IsList(M, U)
  /\ \A a \in U : ScoreOf(M, a) = ScoreOf(L, a)
  /\ \A a, b \in U : Place(M, a) < Place(M, b) <=> Place(L, a) < Place(L, b)

LEMMA AmongIs ==
  ASSUME NEW L, NEW T, IsList(L, T), NEW ids
  PROVE  IsAmong(Among(L, ids), T \cap ids, L)
<1> DEFINE m == Len(L)
           at == {k \in 1 .. m : L[k].id \in ids}
           key == [k \in at |-> k]
           n == Cardinality(at)
           M == Among(L, ids)
           U == T \cap ids
<1>1. /\ m \in Nat /\ DOMAIN L = 1 .. m
      /\ \A a \in T : Place(L, a) \in 1 .. m /\ L[Place(L, a)].id = a
      /\ \A k \in 1 .. m : L[k].id \in T /\ Place(L, L[k].id) = k
  BY PlaceIs
<1>2. IsFiniteSet(at) /\ n \in Nat /\ at \in SUBSET Int
  <2>1. IsFiniteSet(1 .. m)
    BY <1>1, FS_Interval
  <2>2. at \in SUBSET (1 .. m)
    OBVIOUS
  <2>3. IsFiniteSet(at)
    BY <2>1, <2>2, FS_Subset
  <2> QED
    BY <1>1, <2>3, FS_CardinalityType
<1>3. key \in [at -> Int] /\ \A k \in at : key[k] = k
  BY <1>2
<1>4. PICK rows1 : rows1 = {<<k, k, L[k]>> : k \in at}
  OBVIOUS
<1>5. M = InKeyOrder(rows1)
  <2>1. {j \in DOMAIN L : L[j].id \in ids} = at
    BY <1>1
  <2> HIDE DEF at
  <2> QED
    BY <1>4, <2>1 DEF Among
<1>17. PICK o : IsOrder(o, at, key) /\ M = [k \in 1 .. n |-> L[o[k]]]
  <2> HIDE DEF key, at, M
  <2>1. rows1 = {<<key[k], k, L[k]>> : k \in at}
    BY <1>3, <1>4
  <2>2. AreOrdered(rows1, at, key, L)
    BY <1>2, <1>3, <2>1, OrderIs
  <2> QED
    BY <1>5, <2>2 DEF AreOrdered
<1>6. M = [k \in 1 .. n |-> L[o[k]]]
  BY <1>17
<1>12. \A k \in 1 .. m : k \in at <=> L[k].id \in ids
  OBVIOUS
<1>13. at \in SUBSET (1 .. m)
  OBVIOUS
<1> HIDE DEF at, key, M
<1>7. /\ o \in [1 .. n -> at]
      /\ \A k, l \in 1 .. n : o[k] = o[l] => k = l
      /\ \A a \in at : \E k \in 1 .. n : o[k] = a
      /\ \A k, l \in 1 .. n :
           k < l => key[o[k]] < key[o[l]] \/ (key[o[k]] = key[o[l]] /\ o[k] < o[l])
  BY <1>17 DEF IsOrder
<1>8. \A k, l \in 1 .. n : k < l => o[k] < o[l]
  <2>1. SUFFICES ASSUME NEW k \in 1 .. n, NEW l \in 1 .. n, k < l PROVE o[k] < o[l]
    OBVIOUS
  <2>2. PICK i \in at, j \in at : i = o[k] /\ j = o[l]
    BY <1>7
  <2>3. i \in Int /\ j \in Int /\ key[i] = i /\ key[j] = j
    BY <1>2, <1>3
  <2>4. key[i] < key[j] \/ (key[i] = key[j] /\ i < j)
    BY <1>7, <2>1, <2>2
  <2> QED
    BY <2>2, <2>3, <2>4
<1>9. IsRow(M, n) /\ \A k \in 1 .. n : M[k] = L[o[k]]
  BY <1>2, <1>6, RowIs
<1>10. \A a : a \in U <=> \E k \in 1 .. n : L[o[k]].id = a
  <2>1. ASSUME NEW a \in U PROVE \E k \in 1 .. n : L[o[k]].id = a
    <3>1. Place(L, a) \in 1 .. m /\ L[Place(L, a)].id = a
      BY <1>1
    <3>2. Place(L, a) \in at
      BY <1>12, <3>1
    <3> QED
      BY <1>7, <3>1, <3>2
  <2>2. ASSUME NEW k \in 1 .. n PROVE L[o[k]].id \in U
    <3>1. o[k] \in at /\ o[k] \in 1 .. m
      BY <1>7, <1>13
    <3> QED
      BY <1>1, <1>12, <3>1
  <2> QED
    BY <2>1, <2>2
<1> HIDE DEF U, n
<1>11. IsChosen(M, U, L, T, n, o)
  <2>1. o \in [1 .. n -> 1 .. Len(L)]
    BY <1>7, <1>13
  <2> QED
    BY <1>7, <1>9, <1>10, <2>1, ChosenList
<1>14. /\ IsList(M, U) /\ Len(M) = n
       /\ \A k \in 1 .. n : /\ Place(M, L[o[k]].id) = k
                            /\ Place(L, L[o[k]].id) = o[k]
                            /\ ScoreOf(M, L[o[k]].id) = ScoreOf(L, L[o[k]].id)
  BY <1>11 DEF IsChosen
<1>15. ASSUME NEW a \in U, NEW b \in U
       PROVE  /\ ScoreOf(M, a) = ScoreOf(L, a)
              /\ Place(M, a) < Place(M, b) <=> Place(L, a) < Place(L, b)
  <2>1. PICK k \in 1 .. n, l \in 1 .. n : L[o[k]].id = a /\ L[o[l]].id = b
    BY <1>10
  <2>2. PICK i \in at, j \in at : i = o[k] /\ j = o[l]
    BY <1>7
  <2>3. Place(M, a) = k /\ Place(M, b) = l /\ Place(L, a) = i /\ Place(L, b) = j
        /\ ScoreOf(M, a) = ScoreOf(L, a)
    BY <1>14, <2>1, <2>2
  <2>4. i \in Int /\ j \in Int /\ k \in Int /\ l \in Int
    BY <1>2
  <2>5. (k < l => i < j) /\ (l < k => j < i) /\ (k = l => i = j)
    BY <1>8, <2>2
  <2> QED
    BY <2>3, <2>4, <2>5
<1> QED
  BY <1>14, <1>15 DEF IsAmong, M, U

(* The same list with other scores.                                        *)
IsRescored(M, L, T, sc) ==
  /\ IsList(M, T) /\ Len(M) = Len(L)
  /\ \A a \in T : Place(M, a) = Place(L, a) /\ ScoreOf(M, a) = sc[a]

LEMMA RescoredIs ==
  ASSUME NEW L, NEW T, IsList(L, T), NEW sc \in [T -> Int], NEW M,
         DOMAIN M = 1 .. Len(L), M = [k \in DOMAIN M |-> M[k]],
         \A k \in 1 .. Len(L) : M[k] = [id |-> L[k].id, score |-> sc[L[k].id]]
  PROVE  IsRescored(M, L, T, sc)
<1> DEFINE n == Len(L)
           ids == [k \in 1 .. n |-> L[k].id]
           scores == [k \in 1 .. n |-> sc[L[k].id]]
<1>1. /\ n \in Nat /\ DOMAIN L = 1 .. n
      /\ \A a \in T : Place(L, a) \in 1 .. n /\ L[Place(L, a)].id = a
      /\ \A k \in 1 .. Len(L) : L[k].id \in T /\ Place(L, L[k].id) = k /\ L[k].id \in Nat
  <2>1. n \in Nat /\ DOMAIN L = 1 .. n
    BY PlaceIs
  <2>2. \A a \in T : Place(L, a) \in 1 .. n /\ L[Place(L, a)].id = a
    BY PlaceIs, ZenonT(60)
  <2>3. \A k \in 1 .. Len(L) : L[k].id \in T /\ Place(L, L[k].id) = k /\ L[k].id \in Nat
    BY PlaceIs
  <2> QED
    BY <2>1, <2>2, <2>3
<1>2. \A k \in 1 .. n : ids[k] = L[k].id /\ scores[k] = sc[L[k].id]
  OBVIOUS
<1>3. ids \in [1 .. n -> Nat] /\ scores \in [1 .. n -> Int]
  BY <1>1
<1>4. IsRow(M, n)
  BY <1>1, RowIs
<1> HIDE DEF ids, scores
<1>5. \A k \in 1 .. n : M[k] = [id |-> ids[k], score |-> scores[k]]
  BY <1>2
<1>6. \A k, l \in 1 .. n : ids[k] = ids[l] => k = l
  BY <1>1, <1>2
<1>7. \A a : a \in T <=> \E k \in 1 .. n : ids[k] = a
  BY <1>1, <1>2
<1>8. IsMade(M, T, n, ids, scores)
  BY <1>3, <1>4, <1>5, <1>6, <1>7, MadeList
<1>9. /\ IsList(M, T) /\ Len(M) = n
      /\ \A k \in 1 .. n : Place(M, ids[k]) = k /\ ScoreOf(M, ids[k]) = scores[k]
  BY <1>8 DEF IsMade
<1>10. ASSUME NEW a \in T PROVE Place(M, a) = Place(L, a) /\ ScoreOf(M, a) = sc[a]
  <2>1. PICK k \in 1 .. n : ids[k] = a
    BY <1>7
  <2> QED
    BY <1>1, <1>2, <1>9, <2>1
<1> QED
  BY <1>9, <1>10 DEF IsRescored

(* The results of a set of scores, by rowid.                               *)
IsByRowid(M, T, sc) ==
  /\ IsList(M, T) /\ Len(M) = Cardinality(T)
  /\ \A a \in T : ScoreOf(M, a) = sc[a]
  /\ \A a, b \in T : Place(M, a) < Place(M, b) <=> a < b

LEMMA ResultsOfIs ==
  ASSUME NEW T \in SUBSET Nat, IsFiniteSet(T), NEW sc \in [T -> Int]
  PROVE  IsByRowid(ResultsOf(sc), T, sc)
<1> DEFINE key == [a \in T |-> a]
           n == Cardinality(T)
           M == ResultsOf(sc)
<1>1. n \in Nat /\ T \in SUBSET Int
  BY FS_CardinalityType
<1>2. key \in [T -> Int] /\ \A a \in T : key[a] = a
  BY <1>1
<1>3. PICK f, rows1 : f = [a \in T |-> [id |-> a, score |-> sc[a]]]
                      /\ rows1 = {<<a, a, [id |-> a, score |-> sc[a]]>> : a \in T}
  OBVIOUS
<1>13. M = InKeyOrder(rows1)
  <2>1. DOMAIN sc = T
    OBVIOUS
  <2> QED
    BY <1>3, <2>1 DEF ResultsOf
<1>14. PICK o : IsOrder(o, T, key) /\ M = [k \in 1 .. n |-> f[o[k]]]
  <2> HIDE DEF key, M
  <2>1. rows1 = {<<key[a], a, f[a]>> : a \in T}
    BY <1>2, <1>3
  <2>2. AreOrdered(rows1, T, key, f)
    BY <1>1, <1>2, <2>1, OrderIs
  <2> QED
    BY <1>13, <2>2 DEF AreOrdered
<1> HIDE DEF key, M
<1>6. /\ o \in [1 .. n -> T]
      /\ \A k, l \in 1 .. n : o[k] = o[l] => k = l
      /\ \A a \in T : \E k \in 1 .. n : o[k] = a
      /\ \A k, l \in 1 .. n :
           k < l => key[o[k]] < key[o[l]] \/ (key[o[k]] = key[o[l]] /\ o[k] < o[l])
  BY <1>14 DEF IsOrder
<1>5. M = [k \in 1 .. n |-> [id |-> o[k], score |-> sc[o[k]]]]
  BY <1>3, <1>6, <1>14
<1> DEFINE scores == [k \in 1 .. n |-> sc[o[k]]]
<1>7. scores \in [1 .. n -> Int] /\ \A k \in 1 .. n : scores[k] = sc[o[k]]
  BY <1>6
<1>8. o \in [1 .. n -> Nat]
  BY <1>6
<1>9. IsRow(M, n)
  BY <1>1, <1>5, RowIs
<1> HIDE DEF scores
<1>10. IsMade(M, T, n, o, scores)
  <2>1. \A k \in 1 .. n : M[k] = [id |-> o[k], score |-> scores[k]]
    BY <1>5, <1>7
  <2>2. \A a : a \in T <=> \E k \in 1 .. n : o[k] = a
    <3>1. \A k \in 1 .. n : o[k] \in T
      BY <1>6
    <3>2. \A a \in T : \E k \in 1 .. n : o[k] = a
      BY <1>6
    <3> HIDE DEF n
    <3> QED
      BY <3>1, <3>2
  <2> HIDE DEF n
  <2> QED
    BY <1>6, <1>7, <1>8, <1>9, <2>1, <2>2, MadeList
<1>11. /\ IsList(M, T) /\ Len(M) = n
       /\ \A k \in 1 .. n : Place(M, o[k]) = k /\ ScoreOf(M, o[k]) = scores[k]
  BY <1>10 DEF IsMade
<1>12. ASSUME NEW a \in T, NEW b \in T
       PROVE  /\ ScoreOf(M, a) = sc[a]
              /\ Place(M, a) < Place(M, b) <=> a < b
  <2>1. PICK k \in 1 .. n, l \in 1 .. n : o[k] = a /\ o[l] = b
    BY <1>6
  <2>2. Place(M, a) = k /\ Place(M, b) = l /\ ScoreOf(M, a) = sc[a]
    BY <1>7, <1>11, <2>1
  <2>3. a \in Int /\ b \in Int /\ k \in Int /\ l \in Int /\ key[a] = a /\ key[b] = b
    BY <1>1, <1>2
  <2>4. (k < l => a < b) /\ (l < k => b < a) /\ (k = l => a = b)
    BY <1>6, <2>1, <2>3
  <2> QED
    BY <2>2, <2>3, <2>4
<1> QED
  BY <1>11, <1>12 DEF IsByRowid, M

(* A place is counted by what comes before it.                             *)
AheadIn(L, T, a) == {b \in T : Place(L, b) < Place(L, a)}

LEMMA PlaceCounts ==
  ASSUME NEW L, NEW T, IsList(L, T), NEW a \in T
  PROVE  /\ IsFiniteSet(AheadIn(L, T, a)) /\ Place(L, a) \in Nat
         /\ Place(L, a) = 1 + Cardinality(AheadIn(L, T, a))
<1> DEFINE p == Place(L, a)
           B == AheadIn(L, T, a)
<1>1. /\ Len(L) \in Nat /\ p \in 1 .. Len(L)
      /\ \A b \in T : Place(L, b) \in 1 .. Len(L) /\ L[Place(L, b)].id = b
      /\ \A k \in 1 .. Len(L) : L[k].id \in T /\ Place(L, L[k].id) = k
      /\ \A b, c \in T : Place(L, b) = Place(L, c) => b = c
  BY PlaceIs
<1>2. PICK f : f = [k \in 1 .. p - 1 |-> L[k].id]
  OBVIOUS
<1>3. p - 1 \in Nat /\ \A k \in 1 .. p - 1 : k \in 1 .. Len(L) /\ k < p
  BY <1>1
<1>4. \A k \in 1 .. p - 1 : f[k] \in T /\ Place(L, f[k]) = k
  BY <1>1, <1>2, <1>3
<1>5. \A b : b \in B <=> b \in T /\ Place(L, b) < p
  BY DEF AheadIn
<1> HIDE DEF B, p
<1>6. f \in [1 .. p - 1 -> B]
  <2>1. \A k \in 1 .. p - 1 : f[k] \in B
    BY <1>3, <1>4, <1>5
  <2> QED
    BY <1>2, <2>1
<1>7. \A k, l \in 1 .. p - 1 : f[k] = f[l] => k = l
  BY <1>4
<1>8. \A b \in B : \E k \in 1 .. p - 1 : f[k] = b
  <2>1. SUFFICES ASSUME NEW b \in B PROVE \E k \in 1 .. p - 1 : f[k] = b
    OBVIOUS
  <2>2. b \in T /\ Place(L, b) < p
    BY <1>5
  <2>3. Place(L, b) \in 1 .. p - 1
    BY <1>1, <2>2
  <2> QED
    BY <1>1, <1>2, <2>2, <2>3
<1>10. IsFiniteSet(1 .. p - 1) /\ Cardinality(1 .. p - 1) = p - 1
  <2>1. PICK q \in Nat : q = p - 1
    BY <1>3
  <2>2. IsFiniteSet(1 .. q) /\ Cardinality(1 .. q) = IF 1 > q THEN 0 ELSE q - 1 + 1
    BY FS_Interval
  <2> QED
    BY <2>1, <2>2
<1>11. IsFiniteSet(B) /\ Cardinality(B) = p - 1
  <2>1. PICK S : S = 1 .. p - 1
    OBVIOUS
  <2>2. f \in [S -> B] /\ IsFiniteSet(S) /\ Cardinality(S) = p - 1
    BY <1>6, <1>10, <2>1
  <2>3. \A k, l \in S : f[k] = f[l] => k = l
    BY <1>7, <2>1
  <2>4. \A b \in B : \E k \in S : f[k] = b
    BY <1>8, <2>1
  <2> QED
    BY <2>2, <2>3, <2>4, CountedBy
<1> QED
  BY <1>1, <1>11 DEF B, p

LEMMA ListIsFinite ==
  ASSUME NEW L, NEW T, IsList(L, T)
  PROVE  IsFiniteSet(T) /\ Cardinality(T) = Len(L) /\ T \in SUBSET Nat
<1>1. /\ Len(L) \in Nat /\ T \in SUBSET Nat
      /\ \A b \in T : Place(L, b) \in 1 .. Len(L) /\ L[Place(L, b)].id = b
      /\ \A k \in 1 .. Len(L) : L[k].id \in T /\ Place(L, L[k].id) = k
  BY PlaceIs
<1>2. PICK f : f = [k \in 1 .. Len(L) |-> L[k].id]
  OBVIOUS
<1>3. f \in [1 .. Len(L) -> T]
  BY <1>1, <1>2
<1>4. \A k, l \in 1 .. Len(L) : f[k] = f[l] => k = l
  BY <1>1, <1>2
<1>5. \A b \in T : \E k \in 1 .. Len(L) : f[k] = b
  BY <1>1, <1>2
<1>6. IsFiniteSet(1 .. Len(L)) /\ Cardinality(1 .. Len(L)) = Len(L)
  <2>1. /\ IsFiniteSet(1 .. Len(L))
        /\ Cardinality(1 .. Len(L)) = IF 1 > Len(L) THEN 0 ELSE Len(L) - 1 + 1
    BY <1>1, FS_Interval
  <2> QED
    BY <1>1, <2>1
<1>7. PICK S : S = 1 .. Len(L)
  OBVIOUS
<1>8. f \in [S -> T] /\ IsFiniteSet(S) /\ Cardinality(S) = Len(L)
  BY <1>3, <1>6, <1>7
<1>9. \A k, l \in S : f[k] = f[l] => k = l
  BY <1>4, <1>7
<1>10. \A b \in T : \E k \in S : f[k] = b
  BY <1>5, <1>7
<1>11. IsFiniteSet(T) /\ Cardinality(T) = Cardinality(S)
  BY <1>8, <1>9, <1>10, CountedBy
<1> QED
  BY <1>1, <1>8, <1>11

LEMMA AheadPlaces ==
  ASSUME NEW L, NEW T, IsList(L, T), NEW M, NEW U, IsList(M, U),
         NEW a \in T, a \in U, AheadIn(M, U, a) \in SUBSET AheadIn(L, T, a)
  PROVE  Place(M, a) <= Place(L, a)
<1>1. /\ IsFiniteSet(AheadIn(L, T, a))
      /\ Place(L, a) = 1 + Cardinality(AheadIn(L, T, a))
  BY PlaceCounts
<1>2. /\ IsFiniteSet(AheadIn(M, U, a))
      /\ Place(M, a) = 1 + Cardinality(AheadIn(M, U, a))
  BY PlaceCounts
<1>3. Cardinality(AheadIn(M, U, a)) <= Cardinality(AheadIn(L, T, a))
  BY <1>1, FS_Subset
<1>4. Cardinality(AheadIn(M, U, a)) \in Int /\ Cardinality(AheadIn(L, T, a)) \in Int
  BY <1>1, <1>2, FS_CardinalityType
<1> QED
  BY <1>1, <1>2, <1>3, <1>4

(* Lists of the same ids in the same order, with the same scores.          *)
LEMMA SameLists ==
  ASSUME NEW L, NEW T, IsList(L, T), NEW M, IsList(M, T),
         \A a \in T : ScoreOf(M, a) = ScoreOf(L, a),
         \A a, b \in T : Place(M, a) < Place(M, b) <=> Place(L, a) < Place(L, b)
  PROVE  M = L
<1>1. Len(M) = Len(L)
  BY ListIsFinite
<1>2. ASSUME NEW a \in T PROVE Place(M, a) = Place(L, a)
  <2>1. AheadIn(M, T, a) = AheadIn(L, T, a)
    BY DEF AheadIn
  <2> QED
    BY <2>1, PlaceCounts
<1>3. PICK n : n = Len(L)
  OBVIOUS
<1>4. ASSUME NEW k \in 1 .. n PROVE M[k] = L[k]
  <2>1. /\ L[k].id \in T /\ Place(L, L[k].id) = k
        /\ L[k] = [id |-> L[k].id, score |-> L[k].score]
        /\ L[k].score = ScoreOf(L, L[k].id)
    BY <1>3, PlaceIs
  <2>2. PICK a \in T : a = L[k].id
    BY <2>1
  <2>3. Place(M, a) = k
    BY <1>2, <2>1, <2>2
  <2>4. M[Place(M, a)] = [id |-> a, score |-> ScoreOf(M, a)]
    BY PlaceIs
  <2> QED
    BY <2>1, <2>2, <2>3, <2>4
<1>5. L = [k \in 1 .. n |-> L[k]] /\ M = [k \in 1 .. n |-> M[k]]
  BY <1>1, <1>3 DEF IsList, IsRow
<1> QED
  BY <1>4, <1>5

(* A list that is in order stays as it is when it is sorted.               *)
InPlace(L, T, mode) ==
  \A a, b \in T : Place(L, a) < Place(L, b) =>
                    SortKey(ScoreOf(L, a), mode) <= SortKey(ScoreOf(L, b), mode)

LEMMA SortKeyIs ==
  ASSUME NEW s \in Int, NEW mode
  PROVE  SortKey(s, mode) \in Int /\ \A t \in Int : SortKey(s, mode) = SortKey(t, mode) <=> s = t
BY DEF SortKey

LEMMA SortedStays ==
  ASSUME NEW L, NEW T, IsList(L, T), NEW mode, InPlace(L, T, mode)
  PROVE  Sorted(L, mode) = L
<1>1. PICK M : M = Sorted(L, mode)
  OBVIOUS
<1>2. /\ IsList(M, T) /\ \A a \in T : ScoreOf(M, a) = ScoreOf(L, a)
      /\ \A a, b \in T :
           Place(M, a) < Place(M, b) <=>
             \/ SortKey(ScoreOf(L, a), mode) < SortKey(ScoreOf(L, b), mode)
             \/ ScoreOf(L, a) = ScoreOf(L, b) /\ Place(L, a) < Place(L, b)
  BY <1>1, SortedIs DEF IsSortOf
<1>3. ASSUME NEW a \in T, NEW b \in T
      PROVE  Place(M, a) < Place(M, b) <=> Place(L, a) < Place(L, b)
  <2>1. PICK s \in Int, t \in Int : s = ScoreOf(L, a) /\ t = ScoreOf(L, b)
    BY PlaceIs
  <2>2. SortKey(s, mode) \in Int /\ SortKey(t, mode) \in Int
        /\ (SortKey(s, mode) = SortKey(t, mode) <=> s = t)
    BY SortKeyIs
  <2>11. Place(L, a) \in Nat /\ Place(L, b) \in Nat
    BY PlaceCounts
  <2>3. PICK i \in Int, j \in Int : i = Place(L, a) /\ j = Place(L, b)
    BY <2>11
  <2>12. \A c, d \in T : Place(L, c) = Place(L, d) => c = d
    BY PlaceIs
  <2>4. i = j => a = b
    BY <2>3, <2>12
  <2>5. /\ i < j => SortKey(s, mode) <= SortKey(t, mode)
        /\ j < i => SortKey(t, mode) <= SortKey(s, mode)
    BY <2>1, <2>3 DEF InPlace
  <2>6. PICK x \in Int, y \in Int : x = SortKey(s, mode) /\ y = SortKey(t, mode)
    BY <2>2
  <2>7. Place(M, a) < Place(M, b) <=> x < y \/ (s = t /\ i < j)
    BY <1>2, <2>1, <2>3, <2>6
  <2>8. s = t <=> x = y
    BY <2>2, <2>6
  <2>9. (i < j => x <= y) /\ (j < i => y <= x) /\ (i = j => x = y)
    BY <2>1, <2>4, <2>5, <2>6
  <2>10. Place(M, a) < Place(M, b) <=> i < j
    BY <2>7, <2>8, <2>9
  <2> QED
    BY <2>3, <2>10
<1>4. M = L
  BY <1>2, <1>3, SameLists
<1> QED
  BY <1>1, <1>4

(***************************************************************************)
(* The unit of fused ranks, which K + rank divides for every rank.         *)
(***************************************************************************)
LEMMA FusionUnitRuns ==
  \E unit : /\ unit[0] = 60 /\ FusionUnit = unit[MaxRank]
            /\ \A r \in 1 .. MaxRank : unit[r] = unit[r - 1] * (K + r)
<1> DEFINE n == MaxRank
           step == [k \in 1 .. n |-> [u \in Nat |-> u * (K + k)]]
           F(x) == [r \in 0 .. n |-> IF r = 0 THEN 60 ELSE x[r - 1] * (K + r)]
           units == CHOOSE x : x = F(x)
<1>1. n \in Nat /\ K \in Nat /\ 60 \in Nat
  BY RankingAssumption
<1>2. step \in [1 .. n -> [Nat -> Nat]]
  <2>1. \A k \in 1 .. n : \A u \in Nat : u * (K + k) \in Nat
    BY <1>1
  <2> QED
    BY <2>1
<1>3. PICK a : a = 60
  OBVIOUS
<1>4. \E run : IsRun(run, Nat, n, a, step)
  <2> HIDE DEF step, n
  <2> QED
    BY <1>1, <1>2, <1>3, RunsExist
<1>5. PICK run \in [0 .. n -> Nat] :
        run[0] = 60 /\ \A k \in 1 .. n : run[k] = step[k][run[k - 1]]
  BY <1>3, <1>4 DEF IsRun
<1>6. \A k \in 1 .. n : run[k] = run[k - 1] * (K + k)
  <2>1. \A k \in 1 .. n : k - 1 \in 0 .. n
    BY <1>1
  <2> QED
    BY <1>1, <1>5, <2>1
<1>7. run = F(run)
  <2>1. \A k \in 0 .. n : run[k] = IF k = 0 THEN 60 ELSE run[k - 1] * (K + k)
    BY <1>1, <1>5, <1>6
  <2>2. run = [k \in 0 .. n |-> run[k]]
    BY <1>5
  <2> QED
    BY <2>1, <2>2
<1>8. units = F(units)
  BY <1>7
<1>9. FusionUnit = units[n]
  BY DEF FusionUnit
<1> HIDE DEF units
<1>10. units[0] = 60 /\ \A r \in 1 .. n : units[r] = units[r - 1] * (K + r)
  <2>1. \A r \in 0 .. n : units[r] = IF r = 0 THEN 60 ELSE units[r - 1] * (K + r)
    BY <1>8
  <2>2. \A r \in 1 .. n : r \in 0 .. n /\ r # 0
    BY <1>1
  <2>3. units[0] = 60
    BY <1>1, <2>1
  <2> QED
    BY <2>1, <2>2, <2>3
<1> QED
  BY <1>9, <1>10

Divides(d, u) == \E c \in Nat \ {0} : u = d * c

LEMMA DividesProduct ==
  ASSUME NEW d \in Nat, NEW u \in Nat, Divides(d, u), NEW x \in Nat \ {0}
  PROVE  Divides(d, u * x)
<1>1. PICK c \in Nat \ {0} : u = d * c
  BY DEF Divides
<1>2. c * x \in Nat \ {0} /\ u * x = d * (c * x)
  BY <1>1
<1> QED
  BY <1>2 DEF Divides

LEMMA FusionUnitIs ==
  /\ FusionUnit \in Nat \ {0}
  /\ \A p \in 1 .. MaxRank : Divides(2 * (K + p), FusionUnit)
<1>0. K \in Nat /\ MaxRank \in Nat
  BY RankingAssumption
<1>1. PICK unit : /\ unit[0] = 60 /\ FusionUnit = unit[MaxRank]
                  /\ \A r \in 1 .. MaxRank : unit[r] = unit[r - 1] * (K + r)
  BY FusionUnitRuns
<1> DEFINE Right(r) == /\ unit[r] \in Nat /\ Divides(60, unit[r])
                       /\ \A p \in 1 .. r : Divides(2 * (K + p), unit[r])
           T == {r \in 0 .. MaxRank : ~ Right(r)}
<1>2. T = {}
  <2>1. SUFFICES ASSUME T # {} PROVE FALSE
    OBVIOUS
  <2>2. T \in SUBSET Nat
    BY <1>0
  <2>3. PICK m \in T : \A k \in T : m <= k
    <3> HIDE DEF T
    <3> QED
      BY <2>1, <2>2, LeastNumber
  <2>4. Right(0)
    <3>1. Divides(60, 60)
      <4>1. 60 = 60 * 1 /\ 1 \in Nat \ {0}
        OBVIOUS
      <4> QED
        BY <4>1 DEF Divides
    <3> QED
      BY <1>1, <3>1
  <2>5. m \in 1 .. MaxRank /\ m - 1 \in 0 .. MaxRank /\ ~ (m <= m - 1) /\ ~ Right(m)
    BY <1>0, <2>3, <2>4
  <2>6. Right(m - 1)
    BY <2>3, <2>5
  <2>7. unit[m] = unit[m - 1] * (K + m) /\ K + m \in Nat \ {0}
    BY <1>0, <1>1, <2>5
  <2>8. PICK u, x : u = unit[m - 1] /\ x = K + m
    OBVIOUS
  <2>9. u \in Nat /\ Divides(60, u) /\ x \in Nat \ {0} /\ unit[m] = u * x
    BY <2>6, <2>7, <2>8
  <2>10. unit[m] \in Nat /\ Divides(60, unit[m])
    <3>1. Divides(60, u * x)
      BY <2>9, DividesProduct
    <3> QED
      BY <2>9, <3>1
  <2>11. ASSUME NEW p \in 1 .. m PROVE Divides(2 * (K + p), unit[m])
    <3>1. CASE p = m
      <4>1. PICK c \in Nat \ {0} : u = 60 * c
        BY <2>9 DEF Divides
      <4>2. 30 * c \in Nat \ {0} /\ (60 * c) * x = (2 * x) * (30 * c)
        BY <2>9
      <4>3. unit[m] = (2 * (K + p)) * (30 * c)
        BY <2>8, <2>9, <3>1, <4>1, <4>2
      <4> QED
        BY <4>2, <4>3 DEF Divides
    <3>2. CASE p # m
      <4>1. p \in 1 .. m - 1
        BY <2>5, <3>2
      <4>2. PICK d \in Nat : d = 2 * (K + p)
        BY <1>0, <2>5
      <4>3. Divides(d, u)
        BY <2>6, <2>8, <4>1, <4>2
      <4>4. Divides(d, u * x)
        BY <2>9, <4>3, DividesProduct
      <4> QED
        BY <2>9, <4>2, <4>4
    <3> QED
      BY <3>1, <3>2
  <2> QED
    BY <2>5, <2>10, <2>11
<1>3. Right(MaxRank)
  <2>1. MaxRank \in 0 .. MaxRank
    BY <1>0
  <2> HIDE DEF Right
  <2>2. \A r \in 0 .. MaxRank : Right(r)
    BY <1>2
  <2> QED
    BY <2>1, <2>2
<1>4. FusionUnit \in Nat /\ FusionUnit # 0
  <2>1. PICK c \in Nat \ {0} : unit[MaxRank] = 60 * c
    BY <1>3 DEF Divides
  <2> QED
    BY <1>1, <2>1
<1> QED
  BY <1>1, <1>3, <1>4

(* What a list gives to one of its ranks: less to the later one.           *)
Share(p) == FusionUnit \div (2 * (K + p))

LEMMA SharesFall ==
  ASSUME NEW p \in 1 .. MaxRank
  PROVE  /\ Share(p) \in Nat \ {0}
         /\ \A q \in 1 .. MaxRank : p < q => Share(q) < Share(p)
<1>0. K \in Nat /\ MaxRank \in Nat /\ FusionUnit \in Nat \ {0}
  BY RankingAssumption, FusionUnitIs
<1>1. ASSUME NEW q \in 1 .. MaxRank
      PROVE  Share(q) \in Nat \ {0} /\ FusionUnit = (2 * (K + q)) * Share(q)
  <2>1. PICK c \in Nat \ {0} : FusionUnit = (2 * (K + q)) * c
    BY FusionUnitIs DEF Divides
  <2>2. PICK d \in Nat \ {0} : d = 2 * (K + q)
    BY <1>0
  <2>3. (d * c) \div d = c
    BY <2>2
  <2> QED
    BY <2>1, <2>2, <2>3 DEF Share
<1>2. ASSUME NEW q \in 1 .. MaxRank, p < q PROVE Share(q) < Share(p)
  <2>1. PICK x \in Nat \ {0}, y \in Nat \ {0}, c \in Nat \ {0}, d \in Nat \ {0} :
          x = 2 * (K + p) /\ y = 2 * (K + q) /\ c = Share(p) /\ d = Share(q)
    BY <1>0, <1>1, SMTT(40)
  <2>2. x * c = y * d /\ x < y
    BY <1>0, <1>1, <1>2, <2>1
  <2>3. CASE c <= d
    <3>1. x * c <= x * d
      BY <2>3
    <3>2. x * d < y * d
      BY <2>2
    <3>3. x * c \in Int /\ x * d \in Int /\ y * d \in Int
      OBVIOUS
    <3> QED
      BY <2>2, <3>1, <3>2, <3>3
  <2> QED
    BY <2>1, <2>3
<1> QED
  BY <1>1, <1>2

(***************************************************************************)
(* An index, and the boosts of its chunks.                                 *)
(***************************************************************************)
KnownVectors(V) ==
  /\ NoVector \notin V
  /\ \A v, w \in V : Similarity(v) \in Int /\ Likeness(v, w) \in Int
ChunkKinds(V) ==
  [hit : BOOLEAN, bm25 : Int, vector : V \cup {NoVector}, title : BOOLEAN,
   emphasized : BOOLEAN, links : Nat, keep : BOOLEAN, here : BOOLEAN]
IsIndex(chunks) == \E V : KnownVectors(V) /\ chunks \in Seq(ChunkKinds(V))

LEMMA IndexIs ==
  ASSUME NEW chunks, IsIndex(chunks)
  PROVE  /\ Len(chunks) \in Nat /\ DOMAIN chunks = 1 .. Len(chunks)
         /\ DOMAIN chunks \in SUBSET Nat
         /\ \A i \in DOMAIN chunks :
              /\ chunks[i].bm25 \in Int /\ chunks[i].links \in Nat
              /\ chunks[i].title \in BOOLEAN /\ chunks[i].emphasized \in BOOLEAN
              /\ chunks[i].vector # NoVector => Similarity(chunks[i].vector) \in Int
         /\ \A i, j \in DOMAIN chunks :
              (chunks[i].vector # NoVector /\ chunks[j].vector # NoVector) =>
                Likeness(chunks[i].vector, chunks[j].vector) \in Int
<1>1. PICK V : KnownVectors(V) /\ chunks \in Seq(ChunkKinds(V))
  BY DEF IsIndex
<1>2. Len(chunks) \in Nat /\ DOMAIN chunks = 1 .. Len(chunks)
  BY <1>1, LenProperties
<1>3. \A i \in DOMAIN chunks : chunks[i] \in ChunkKinds(V)
  BY <1>1, <1>2, ElementOfSeq
<1>4. \A i \in DOMAIN chunks :
        /\ chunks[i].bm25 \in Int /\ chunks[i].links \in Nat
        /\ chunks[i].title \in BOOLEAN /\ chunks[i].emphasized \in BOOLEAN
        /\ chunks[i].vector \in V \cup {NoVector}
  BY <1>3 DEF ChunkKinds
<1> QED
  BY <1>1, <1>2, <1>4 DEF KnownVectors

(* Boosts do not make a score worse.                                       *)
LEMMA BoostedIs ==
  ASSUME NEW s \in Int, NEW mode, mode = "hybrid" => s >= 0,
         NEW c, c.title \in BOOLEAN, c.emphasized \in BOOLEAN
  PROVE  /\ Boosted(s, c, mode) \in Int
         /\ mode = "hybrid" => Boosted(s, c, mode) >= s
         /\ (~ c.title /\ ~ c.emphasized) => Boosted(s, c, mode) = s
BY DEF Boosted

LEMMA BoostedAlike ==
  ASSUME NEW s \in Int, NEW mode, NEW c, NEW d,
         d.title = c.title, d.emphasized = c.emphasized
  PROVE  Boosted(s, d, mode) = Boosted(s, c, mode)
BY DEF Boosted

LEMMA BoostedMore ==
  ASSUME NEW s \in Int, NEW mode, mode = "hybrid" => s >= 0,
         NEW c, c.title \in BOOLEAN, c.emphasized \in BOOLEAN,
         NEW d, d.title \in BOOLEAN, d.emphasized \in BOOLEAN,
         c.title => d.title, c.emphasized => d.emphasized
  PROVE  SortKey(Boosted(s, d, mode), mode) <= SortKey(Boosted(s, c, mode), mode)
BY DEF Boosted, SortKey

LEMMA BoostedGrows ==
  ASSUME NEW s \in Int, NEW t \in Int, 0 <= s, s <= t,
         NEW c, c.title \in BOOLEAN, c.emphasized \in BOOLEAN
  PROVE  Boosted(s, c, "hybrid") <= Boosted(t, c, "hybrid")
BY DEF Boosted

IsBoosted(M, L, U, chunks, mode) ==
  /\ IsList(M, U)
  /\ \A a \in U : ScoreOf(M, a) = Boosted(ScoreOf(L, a), chunks[a], mode)
  /\ \A a, b \in U :
       Place(M, a) < Place(M, b) <=>
         \/ SortKey(ScoreOf(M, a), mode) < SortKey(ScoreOf(M, b), mode)
         \/ ScoreOf(M, a) = ScoreOf(M, b) /\ Place(L, a) < Place(L, b)
Passing(chunks, T, filtering) == {a \in T : filtering => chunks[a].keep}
(* Fused ranks are not negative. *)
Fit(L, T, mode) == mode = "hybrid" => \A a \in T : ScoreOf(L, a) >= 0

LEMMA FilterAndBoostIs ==
  ASSUME NEW chunks, IsIndex(chunks), NEW L, NEW T, IsList(L, T), T \in SUBSET DOMAIN chunks,
         NEW mode, Fit(L, T, mode), NEW filtering
  PROVE  IsBoosted(FilterAndBoost(chunks, L, mode, filtering), L,
                   Passing(chunks, T, filtering), chunks, mode)
<1> DEFINE ids == {i \in DOMAIN chunks : filtering => chunks[i].keep}
           kept == Among(L, ids)
           U == Passing(chunks, T, filtering)
           B == [k \in DOMAIN kept |->
                  [kept[k] EXCEPT !.score = Boosted(@, chunks[kept[k].id], mode)]]
           M == FilterAndBoost(chunks, L, mode, filtering)
<1>1. T \cap ids = U
  BY DEF Passing
<1>2. /\ IsList(kept, U) /\ U \in SUBSET T
      /\ \A a \in U : ScoreOf(kept, a) = ScoreOf(L, a)
      /\ \A a, b \in U : Place(kept, a) < Place(kept, b) <=> Place(L, a) < Place(L, b)
  <2>1. IsAmong(kept, T \cap ids, L)
    <3> HIDE DEF ids
    <3> QED
      BY AmongIs
  <2> QED
    BY <1>1, <2>1 DEF IsAmong
<1>3. M = Sorted(B, mode)
  BY DEF FilterAndBoost
<1>4. PICK n : n = Len(kept)
  OBVIOUS
<1> HIDE DEF kept, M
<1>5. /\ n \in Nat /\ DOMAIN kept = 1 .. n
      /\ \A k \in 1 .. n : /\ kept[k].id \in U
                           /\ kept[k] = [id |-> kept[k].id, score |-> kept[k].score]
                           /\ kept[k].score = ScoreOf(kept, kept[k].id)
      /\ \A a \in U : ScoreOf(kept, a) \in Int
  <2>1. /\ Len(kept) \in Nat /\ DOMAIN kept = 1 .. Len(kept)
        /\ \A k \in 1 .. Len(kept) : /\ kept[k].id \in U
                             /\ kept[k] = [id |-> kept[k].id, score |-> kept[k].score]
                             /\ kept[k].score = ScoreOf(kept, kept[k].id)
        /\ \A a \in U : ScoreOf(kept, a) \in Int
    <3> HIDE DEF U
    <3>1. IsList(kept, U)
      BY <1>2
    <3> QED
      BY <3>1, PlaceIs, ZenonT(60)
  <2> HIDE DEF U
  <2> QED
    BY <1>4, <2>1
<1>6. PICK sc : sc = [a \in U |-> Boosted(ScoreOf(L, a), chunks[a], mode)]
  OBVIOUS
<1>7. ASSUME NEW a \in U
      PROVE  sc[a] \in Int /\ sc[a] = Boosted(ScoreOf(L, a), chunks[a], mode)
  <2>1. ScoreOf(L, a) \in Int /\ (mode = "hybrid" => ScoreOf(L, a) >= 0)
    BY <1>2, <1>5 DEF Fit
  <2>2. chunks[a].title \in BOOLEAN /\ chunks[a].emphasized \in BOOLEAN
    BY <1>2, IndexIs
  <2>3. Boosted(ScoreOf(L, a), chunks[a], mode) \in Int
    BY <2>1, <2>2, BoostedIs
  <2> QED
    BY <1>6, <2>3
<1>8. \A k \in 1 .. n : B[k] = [id |-> kept[k].id, score |-> sc[kept[k].id]]
  <2>1. SUFFICES ASSUME NEW k \in 1 .. n
                 PROVE  B[k] = [id |-> kept[k].id, score |-> sc[kept[k].id]]
    OBVIOUS
  <2>2. PICK a, s : a = kept[k].id /\ s = kept[k].score
    OBVIOUS
  <2>3. kept[k] = [id |-> a, score |-> s] /\ a \in U /\ s = ScoreOf(L, a)
    BY <1>2, <1>5, <2>2
  <2>4. B[k] = [kept[k] EXCEPT !.score = Boosted(kept[k].score, chunks[kept[k].id], mode)]
    BY <1>5
  <2>5. B[k] = [id |-> a, score |-> Boosted(s, chunks[a], mode)]
    BY <2>2, <2>3, <2>4
  <2> QED
    BY <1>7, <2>2, <2>3, <2>5
<1>9. DOMAIN B = 1 .. n /\ B = [k \in DOMAIN B |-> B[k]]
  BY <1>5
<1> HIDE DEF B
<1>10. IsRescored(B, kept, U, sc)
  <2>1. sc \in [U -> Int]
    BY <1>6, <1>7
  <2> QED
    BY <1>2, <1>4, <1>8, <1>9, <2>1, RescoredIs
<1>11. /\ IsList(B, U)
       /\ \A a \in U : Place(B, a) = Place(kept, a) /\ ScoreOf(B, a) = sc[a]
  BY <1>10 DEF IsRescored
<1>12. /\ IsList(M, U)
       /\ \A a \in U : ScoreOf(M, a) = ScoreOf(B, a)
       /\ \A a, b \in U :
            Place(M, a) < Place(M, b) <=>
              \/ SortKey(ScoreOf(B, a), mode) < SortKey(ScoreOf(B, b), mode)
              \/ ScoreOf(B, a) = ScoreOf(B, b) /\ Place(B, a) < Place(B, b)
  BY <1>3, <1>11, SortedIs DEF IsSortOf
<1>13. \A a, b \in U : Place(M, a) < Place(M, b) <=>
                         \/ SortKey(ScoreOf(M, a), mode) < SortKey(ScoreOf(M, b), mode)
                         \/ ScoreOf(M, a) = ScoreOf(M, b) /\ Place(L, a) < Place(L, b)
  <2>1. SUFFICES ASSUME NEW a \in U, NEW b \in U
                 PROVE  Place(M, a) < Place(M, b) <=>
                          \/ SortKey(ScoreOf(M, a), mode) < SortKey(ScoreOf(M, b), mode)
                          \/ ScoreOf(M, a) = ScoreOf(M, b) /\ Place(L, a) < Place(L, b)
    OBVIOUS
  <2>2. Place(B, a) < Place(B, b) <=> Place(L, a) < Place(L, b)
    BY <1>2, <1>11
  <2> QED
    BY <1>12, <2>2
<1>14. \A a \in U : ScoreOf(M, a) = Boosted(ScoreOf(L, a), chunks[a], mode)
  BY <1>7, <1>11, <1>12
<1> QED
  BY <1>12, <1>13, <1>14 DEF IsBoosted, M, U

(* Nothing is boosted and nothing filtered out.                            *)
LEMMA FilterStays ==
  ASSUME NEW chunks, IsIndex(chunks), NEW L, NEW T, IsList(L, T), T \in SUBSET DOMAIN chunks,
         NEW mode, Fit(L, T, mode), InPlace(L, T, mode), NEW filtering,
         \A a \in T : /\ ~ chunks[a].title /\ ~ chunks[a].emphasized
                      /\ filtering => chunks[a].keep
  PROVE  FilterAndBoost(chunks, L, mode, filtering) = L
<1>1. PICK M : M = FilterAndBoost(chunks, L, mode, filtering)
  OBVIOUS
<1>2. Passing(chunks, T, filtering) = T
  BY DEF Passing
<1>3. IsBoosted(M, L, T, chunks, mode)
  BY <1>1, <1>2, FilterAndBoostIs
<1>4. /\ IsList(M, T)
      /\ \A a \in T : ScoreOf(M, a) = Boosted(ScoreOf(L, a), chunks[a], mode)
      /\ \A a, b \in T :
           Place(M, a) < Place(M, b) <=>
             \/ SortKey(ScoreOf(M, a), mode) < SortKey(ScoreOf(M, b), mode)
             \/ ScoreOf(M, a) = ScoreOf(M, b) /\ Place(L, a) < Place(L, b)
  BY <1>3 DEF IsBoosted
<1>5. ASSUME NEW a \in T PROVE ScoreOf(M, a) = ScoreOf(L, a) /\ ScoreOf(L, a) \in Int
  <2>1. ScoreOf(L, a) \in Int /\ (mode = "hybrid" => ScoreOf(L, a) >= 0)
    BY PlaceIs DEF Fit
  <2>2. PICK c : c = chunks[a]
    OBVIOUS
  <2>3. c.title \in BOOLEAN /\ c.emphasized \in BOOLEAN /\ ~ c.title /\ ~ c.emphasized
    BY <2>2, IndexIs
  <2>4. Boosted(ScoreOf(L, a), c, mode) = ScoreOf(L, a)
    BY <2>1, <2>3, BoostedIs
  <2> QED
    BY <1>4, <2>1, <2>2, <2>4
<1>6. PICK N : N = Sorted(L, mode)
  OBVIOUS
<1>7. /\ IsList(N, T) /\ \A a \in T : ScoreOf(N, a) = ScoreOf(L, a)
      /\ \A a, b \in T :
           Place(N, a) < Place(N, b) <=>
             \/ SortKey(ScoreOf(L, a), mode) < SortKey(ScoreOf(L, b), mode)
             \/ ScoreOf(L, a) = ScoreOf(L, b) /\ Place(L, a) < Place(L, b)
  BY <1>6, SortedIs DEF IsSortOf
<1>8. \A a \in T : ScoreOf(M, a) = ScoreOf(N, a)
  BY <1>5, <1>7
<1>9. \A a, b \in T : Place(M, a) < Place(M, b) <=> Place(N, a) < Place(N, b)
  BY <1>4, <1>5, <1>7
<1>10. M = N
  BY <1>4, <1>7, <1>8, <1>9, SameLists
<1> QED
  BY <1>1, <1>6, <1>10, SortedStays

(* The boost of backlinks.                                                 *)
LinkBoost(chunk, mode) ==
  (IF mode = "hybrid" THEN 1 ELSE -1) * (IF mode = "hybrid" THEN FusionUnit \div 20 ELSE 30)
    * chunk.links
IsLinked(M, L, T, chunks, mode) ==
  /\ IsList(M, T)
  /\ \A a \in T : ScoreOf(M, a) = ScoreOf(L, a) + LinkBoost(chunks[a], mode)
  /\ \A a, b \in T :
       Place(M, a) < Place(M, b) <=>
         \/ SortKey(ScoreOf(M, a), mode) < SortKey(ScoreOf(M, b), mode)
         \/ ScoreOf(M, a) = ScoreOf(M, b) /\ Place(L, a) < Place(L, b)

LEMMA LinkBoostIs ==
  ASSUME NEW c, c.links \in Nat, NEW mode
  PROVE  /\ LinkBoost(c, mode) \in Int /\ SortKey(LinkBoost(c, mode), mode) <= 0
         /\ c.links = 0 => LinkBoost(c, mode) = 0
         /\ mode = "hybrid" => LinkBoost(c, mode) >= 0
         /\ \A d : d.links = c.links + 1 =>
              /\ LinkBoost(d, mode) \in Int
              /\ SortKey(LinkBoost(d, mode), mode) <= SortKey(LinkBoost(c, mode), mode)
<1>1. PICK unit \in Nat : unit = IF mode = "hybrid" THEN FusionUnit \div 20 ELSE 30
  <2>1. FusionUnit \in Nat
    BY FusionUnitIs
  <2>2. FusionUnit \div 20 \in Nat
    BY <2>1
  <2> QED
    BY <2>2
<1>2. PICK n \in Nat : n = c.links
  OBVIOUS
<1>3. unit * n \in Nat /\ unit * (n + 1) = unit * n + unit /\ (n = 0 => unit * n = 0)
  OBVIOUS
<1>4. CASE mode = "hybrid"
  <2>1. \A d : LinkBoost(d, mode) = (1 * unit) * d.links
    BY <1>1, <1>4 DEF LinkBoost
  <2>2. LinkBoost(c, mode) = unit * n
    BY <1>2, <2>1
  <2>3. \A d : d.links = n + 1 => LinkBoost(d, mode) = unit * n + unit
    BY <1>3, <2>1
  <2> QED
    BY <1>2, <1>3, <1>4, <2>2, <2>3 DEF SortKey
<1>5. CASE mode # "hybrid"
  <2>1. \A d : LinkBoost(d, mode) = ((-1) * unit) * d.links
    BY <1>1, <1>5 DEF LinkBoost
  <2>2. LinkBoost(c, mode) = - (unit * n)
    <3>1. ((-1) * unit) * n = - (unit * n)
      OBVIOUS
    <3> QED
      BY <1>2, <2>1, <3>1
  <2>3. \A d : d.links = n + 1 => LinkBoost(d, mode) = - (unit * n + unit)
    <3>1. ((-1) * unit) * (n + 1) = - (unit * n + unit)
      BY <1>3
    <3> QED
      BY <2>1, <3>1
  <2>4. \A s : SortKey(s, mode) = s
    BY <1>5 DEF SortKey
  <2>5. PICK x \in Nat : x = unit * n
    BY <1>3
  <2> QED
    BY <1>2, <1>3, <1>5, <2>2, <2>3, <2>4, <2>5
<1> QED
  BY <1>4, <1>5

LEMMA LinkedIs ==
  ASSUME NEW chunks, IsIndex(chunks), NEW L, NEW T, IsList(L, T), T \in SUBSET DOMAIN chunks,
         NEW mode, NEW req
  PROVE  IF req.backlinks THEN IsLinked(Linked(chunks, L, mode, req), L, T, chunks, mode)
         ELSE Linked(chunks, L, mode, req) = L
<1>1. CASE ~ req.backlinks
  BY <1>1 DEF Linked
<1>2. CASE req.backlinks
  <2> DEFINE M == Linked(chunks, L, mode, req)
             unit == IF mode = "hybrid" THEN FusionUnit \div 20 ELSE 30
             sign == IF mode = "hybrid" THEN 1 ELSE -1
             B == [k \in DOMAIN L |->
                     [L[k] EXCEPT !.score = @ + sign * unit * chunks[L[k].id].links]]
  <2>1. M = Sorted(B, mode)
    BY <1>2 DEF Linked
  <2>2. PICK n : n = Len(L)
    OBVIOUS
  <2>3. /\ n \in Nat /\ DOMAIN L = 1 .. n
        /\ \A k \in 1 .. n : /\ L[k].id \in T
                             /\ L[k] = [id |-> L[k].id, score |-> L[k].score]
                             /\ L[k].score = ScoreOf(L, L[k].id)
        /\ \A a \in T : ScoreOf(L, a) \in Int
    <3>1. /\ Len(L) \in Nat /\ DOMAIN L = 1 .. Len(L)
          /\ \A k \in 1 .. Len(L) : /\ L[k].id \in T
                             /\ L[k] = [id |-> L[k].id, score |-> L[k].score]
                             /\ L[k].score = ScoreOf(L, L[k].id)
          /\ \A a \in T : ScoreOf(L, a) \in Int
      BY PlaceIs, ZenonT(60)
    <3> QED
      BY <2>2, <3>1
  <2>4. PICK sc : sc = [a \in T |-> ScoreOf(L, a) + LinkBoost(chunks[a], mode)]
    OBVIOUS
  <2>5. ASSUME NEW a \in T
        PROVE  sc[a] \in Int /\ sc[a] = ScoreOf(L, a) + LinkBoost(chunks[a], mode)
    <3>1. PICK c : c = chunks[a]
      OBVIOUS
    <3>2. c.links \in Nat
      BY <3>1, IndexIs
    <3>3. LinkBoost(c, mode) \in Int
      BY <3>2, LinkBoostIs
    <3> QED
      BY <2>3, <2>4, <3>1, <3>3
  <2>6. \A k \in 1 .. n : B[k] = [id |-> L[k].id, score |-> sc[L[k].id]]
    <3>1. SUFFICES ASSUME NEW k \in 1 .. n
                   PROVE  B[k] = [id |-> L[k].id, score |-> sc[L[k].id]]
      OBVIOUS
    <3>2. PICK a, s : a = L[k].id /\ s = L[k].score
      OBVIOUS
    <3>3. L[k] = [id |-> a, score |-> s] /\ a \in T /\ s = ScoreOf(L, a)
      BY <2>3, <3>2
    <3>4. B[k] = [L[k] EXCEPT !.score = L[k].score + sign * unit * chunks[L[k].id].links]
      BY <2>3
    <3>5. sign * unit * chunks[L[k].id].links = LinkBoost(chunks[a], mode)
      BY <3>2 DEF LinkBoost
    <3> HIDE DEF B, sign, unit
    <3>6. B[k] = [id |-> a, score |-> s + LinkBoost(chunks[a], mode)]
      BY <3>2, <3>3, <3>4, <3>5
    <3> QED
      BY <2>5, <3>2, <3>3, <3>6
  <2>7. DOMAIN B = 1 .. n /\ B = [k \in DOMAIN B |-> B[k]]
    BY <2>3
  <2> HIDE DEF B, M
  <2>8. IsRescored(B, L, T, sc)
    <3>1. sc \in [T -> Int]
      BY <2>4, <2>5
    <3> QED
      BY <2>2, <2>6, <2>7, <3>1, RescoredIs
  <2>9. /\ IsList(B, T)
        /\ \A a \in T : Place(B, a) = Place(L, a) /\ ScoreOf(B, a) = sc[a]
    BY <2>8 DEF IsRescored
  <2>10. /\ IsList(M, T)
         /\ \A a \in T : ScoreOf(M, a) = ScoreOf(B, a)
         /\ \A a, b \in T :
              Place(M, a) < Place(M, b) <=>
                \/ SortKey(ScoreOf(B, a), mode) < SortKey(ScoreOf(B, b), mode)
                \/ ScoreOf(B, a) = ScoreOf(B, b) /\ Place(B, a) < Place(B, b)
    BY <2>1, <2>9, SortedIs DEF IsSortOf
  <2>11. \A a \in T : ScoreOf(M, a) = ScoreOf(L, a) + LinkBoost(chunks[a], mode)
    BY <2>5, <2>9, <2>10
  <2>12. \A a, b \in T : Place(M, a) < Place(M, b) <=>
                         \/ SortKey(ScoreOf(M, a), mode) < SortKey(ScoreOf(M, b), mode)
                         \/ ScoreOf(M, a) = ScoreOf(M, b) /\ Place(L, a) < Place(L, b)
    BY <2>9, <2>10
  <2>13. IsLinked(M, L, T, chunks, mode)
    BY <2>10, <2>11, <2>12 DEF IsLinked
  <2> QED
    BY <1>2, <2>13 DEF M
<1> QED
  BY <1>1, <1>2

LEMMA LinkedStays ==
  ASSUME NEW chunks, IsIndex(chunks), NEW L, NEW T, IsList(L, T), T \in SUBSET DOMAIN chunks,
         NEW mode, InPlace(L, T, mode), NEW req, \A a \in T : chunks[a].links = 0
  PROVE  Linked(chunks, L, mode, req) = L
<1>1. PICK M : M = Linked(chunks, L, mode, req)
  OBVIOUS
<1>2. CASE ~ req.backlinks
  BY <1>2, LinkedIs
<1>3. CASE req.backlinks
  <2>1. IsLinked(M, L, T, chunks, mode)
    BY <1>1, <1>3, LinkedIs
  <2>2. /\ IsList(M, T)
        /\ \A a \in T : ScoreOf(M, a) = ScoreOf(L, a) + LinkBoost(chunks[a], mode)
        /\ \A a, b \in T :
             Place(M, a) < Place(M, b) <=>
               \/ SortKey(ScoreOf(M, a), mode) < SortKey(ScoreOf(M, b), mode)
               \/ ScoreOf(M, a) = ScoreOf(M, b) /\ Place(L, a) < Place(L, b)
    BY <2>1 DEF IsLinked
  <2>3. ASSUME NEW a \in T PROVE ScoreOf(M, a) = ScoreOf(L, a) /\ ScoreOf(L, a) \in Int
    <3>1. PICK c : c = chunks[a]
      OBVIOUS
    <3>2. c.links \in Nat /\ c.links = 0
      BY <3>1, IndexIs
    <3>3. LinkBoost(c, mode) = 0
      BY <3>2, LinkBoostIs
    <3>4. ScoreOf(L, a) \in Int
      BY PlaceIs
    <3> QED
      BY <2>2, <3>1, <3>3, <3>4
  <2>4. PICK N : N = Sorted(L, mode)
    OBVIOUS
  <2>5. /\ IsList(N, T) /\ \A a \in T : ScoreOf(N, a) = ScoreOf(L, a)
        /\ \A a, b \in T :
             Place(N, a) < Place(N, b) <=>
               \/ SortKey(ScoreOf(L, a), mode) < SortKey(ScoreOf(L, b), mode)
               \/ ScoreOf(L, a) = ScoreOf(L, b) /\ Place(L, a) < Place(L, b)
    BY <2>4, SortedIs DEF IsSortOf
  <2>6. \A a \in T : ScoreOf(M, a) = ScoreOf(N, a)
    BY <2>3, <2>5
  <2>7. \A a, b \in T : Place(M, a) < Place(M, b) <=> Place(N, a) < Place(N, b)
    BY <2>2, <2>3, <2>5
  <2>8. M = N
    BY <2>2, <2>5, <2>6, <2>7, SameLists
  <2> QED
    BY <1>1, <2>4, <2>8, SortedStays
<1> QED
  BY <1>2, <1>3

(* Two lists of the same chunks, of which only one is further up in the    *)
(* second.                                                                 *)
IsRaise(L, M, T, i) ==
  \A a, b \in T : b # i /\ Place(L, a) < Place(L, b) => Place(M, a) < Place(M, b)

LEMMA RaisePlaces ==
  ASSUME NEW L, NEW T, IsList(L, T), NEW M, IsList(M, T), NEW i, IsRaise(L, M, T, i)
  PROVE  \A a \in T : IF a = i THEN Place(M, a) <= Place(L, a) ELSE Place(L, a) <= Place(M, a)
<1>1. SUFFICES ASSUME NEW a \in T
               PROVE  IF a = i THEN Place(M, a) <= Place(L, a) ELSE Place(L, a) <= Place(M, a)
  OBVIOUS
<1>2. \A b \in T : Place(L, b) \in Nat /\ Place(M, b) \in Nat
  BY PlaceCounts
<1>3. \A b, c \in T : Place(M, b) = Place(M, c) \/ Place(L, b) = Place(L, c) => b = c
  <2>1. \A b, c \in T : Place(M, b) = Place(M, c) => b = c
    BY PlaceIs
  <2>2. \A b, c \in T : Place(L, b) = Place(L, c) => b = c
    BY PlaceIs
  <2> QED
    BY <2>1, <2>2
<1>4. CASE a = i
  <2>1. AheadIn(M, T, a) \in SUBSET AheadIn(L, T, a)
    <3>1. SUFFICES ASSUME NEW b \in T, Place(M, b) < Place(M, a) PROVE Place(L, b) < Place(L, a)
      BY DEF AheadIn
    <3>2. b # a
      BY <1>2, <3>1
    <3>3. ~ (Place(L, a) < Place(L, b))
      BY <1>2, <1>4, <3>1, <3>2 DEF IsRaise
    <3>4. Place(L, a) # Place(L, b)
      BY <1>3, <3>2
    <3> QED
      BY <1>2, <3>3, <3>4
  <2>2. Place(M, a) <= Place(L, a)
    BY <2>1, AheadPlaces
  <2> QED
    BY <1>4, <2>2
<1>5. CASE a # i
  <2>1. AheadIn(L, T, a) \in SUBSET AheadIn(M, T, a)
    BY <1>5 DEF AheadIn, IsRaise
  <2>2. Place(L, a) <= Place(M, a)
    BY <2>1, AheadPlaces
  <2> QED
    BY <1>5, <2>2
<1> QED
  BY <1>4, <1>5

(***************************************************************************)
(* The end of a search: filters and boosts, then the backlinks.            *)
(***************************************************************************)
BoostKey(s, chunk, mode) == SortKey(Boosted(s, chunk, mode), mode)
LinkKey(chunk, mode, req) == IF req.backlinks THEN SortKey(LinkBoost(chunk, mode), mode) ELSE 0
IsFinal(R, L, U, chunks, mode, req) ==
  /\ IsList(R, U)
  /\ \A a, b \in U :
       LET x == BoostKey(ScoreOf(L, a), chunks[a], mode)
           y == BoostKey(ScoreOf(L, b), chunks[b], mode)
           v == x + LinkKey(chunks[a], mode, req)
           w == y + LinkKey(chunks[b], mode, req)
       IN  Place(R, a) < Place(R, b) <=>
             \/ v < w
             \/ v = w /\ (x < y \/ (x = y /\ Place(L, a) < Place(L, b)))

LEMMA KeysAre ==
  ASSUME NEW chunks, IsIndex(chunks), NEW a \in DOMAIN chunks, NEW s \in Int,
         NEW mode, mode = "hybrid" => s >= 0, NEW req
  PROVE  /\ BoostKey(s, chunks[a], mode) \in Int /\ LinkKey(chunks[a], mode, req) \in Int
         /\ BoostKey(s, chunks[a], mode) = SortKey(Boosted(s, chunks[a], mode), mode)
         /\ Boosted(s, chunks[a], mode) \in Int /\ LinkBoost(chunks[a], mode) \in Int
         /\ LinkKey(chunks[a], mode, req) <= 0
         /\ BoostKey(s, chunks[a], mode) <= SortKey(s, mode) \/ mode # "hybrid"
<1>1. PICK c : c = chunks[a]
  OBVIOUS
<1>2. c.title \in BOOLEAN /\ c.emphasized \in BOOLEAN /\ c.links \in Nat
  BY <1>1, IndexIs
<1>3. /\ Boosted(s, c, mode) \in Int
      /\ mode = "hybrid" => Boosted(s, c, mode) >= s
  BY <1>2, BoostedIs
<1>4. /\ LinkBoost(c, mode) \in Int /\ SortKey(LinkBoost(c, mode), mode) <= 0
  BY <1>2, LinkBoostIs
<1> QED
  BY <1>1, <1>3, <1>4 DEF BoostKey, LinkKey, SortKey

LEMMA FinalIs ==
  ASSUME NEW chunks, IsIndex(chunks), NEW L, NEW T, IsList(L, T), T \in SUBSET DOMAIN chunks,
         NEW mode, Fit(L, T, mode), NEW filtering, NEW req
  PROVE  IsFinal(Linked(chunks, FilterAndBoost(chunks, L, mode, filtering), mode, req),
                 L, Passing(chunks, T, filtering), chunks, mode, req)
<1>1. PICK F, U : F = FilterAndBoost(chunks, L, mode, filtering)
                 /\ U = Passing(chunks, T, filtering)
  OBVIOUS
<1>2. PICK R : R = Linked(chunks, F, mode, req)
  OBVIOUS
<1>3. U \in SUBSET T /\ U \in SUBSET DOMAIN chunks
  BY <1>1 DEF Passing
<1>4. /\ IsList(F, U)
      /\ \A a \in U : ScoreOf(F, a) = Boosted(ScoreOf(L, a), chunks[a], mode)
      /\ \A a, b \in U :
           Place(F, a) < Place(F, b) <=>
             \/ SortKey(ScoreOf(F, a), mode) < SortKey(ScoreOf(F, b), mode)
             \/ ScoreOf(F, a) = ScoreOf(F, b) /\ Place(L, a) < Place(L, b)
  BY <1>1, FilterAndBoostIs DEF IsBoosted
<1>5. ASSUME NEW a \in U
      PROVE  /\ BoostKey(ScoreOf(L, a), chunks[a], mode) \in Int
             /\ LinkKey(chunks[a], mode, req) \in Int
             /\ BoostKey(ScoreOf(L, a), chunks[a], mode) = SortKey(ScoreOf(F, a), mode)
             /\ ScoreOf(F, a) \in Int /\ LinkBoost(chunks[a], mode) \in Int
  <2>1. PICK s : s = ScoreOf(L, a)
    OBVIOUS
  <2>2. s \in Int /\ (mode = "hybrid" => s >= 0)
    BY <1>3, <2>1, PlaceIs DEF Fit
  <2>3. a \in DOMAIN chunks
    BY <1>3
  <2> QED
    BY <1>4, <2>1, <2>2, <2>3, KeysAre
<1>6. ASSUME NEW a \in U, NEW b \in U, NEW x, NEW y, NEW v, NEW w,
             x = BoostKey(ScoreOf(L, a), chunks[a], mode),
             y = BoostKey(ScoreOf(L, b), chunks[b], mode),
             v = x + LinkKey(chunks[a], mode, req),
             w = y + LinkKey(chunks[b], mode, req)
      PROVE  Place(R, a) < Place(R, b) <=>
               \/ v < w
               \/ v = w /\ (x < y \/ (x = y /\ Place(L, a) < Place(L, b)))
  <2>1. PICK s \in Int, t \in Int : s = ScoreOf(F, a) /\ t = ScoreOf(F, b)
    BY <1>5
  <2>2. x \in Int /\ y \in Int /\ x = SortKey(s, mode) /\ y = SortKey(t, mode)
    BY <1>5, <1>6, <2>1
  <2>3. Place(F, a) < Place(F, b) <=> x < y \/ (x = y /\ Place(L, a) < Place(L, b))
    <3>1. s = t <=> x = y
      BY <2>1, <2>2, SortKeyIs
    <3> QED
      BY <1>4, <2>1, <2>2, <3>1
  <2>4. CASE ~ req.backlinks
    <3>1. R = F
      BY <1>2, <1>3, <1>4, <2>4, LinkedIs
    <3>2. v = x /\ w = y
      BY <1>6, <2>2, <2>4 DEF LinkKey
    <3> QED
      BY <2>2, <2>3, <3>1, <3>2
  <2>5. CASE req.backlinks
    <3>1. IsLinked(R, F, U, chunks, mode)
      BY <1>2, <1>3, <1>4, <2>5, LinkedIs
    <3>2. PICK i \in Int, j \in Int : i = LinkBoost(chunks[a], mode) /\ j = LinkBoost(chunks[b], mode)
      BY <1>5
    <3>3. Place(R, a) < Place(R, b) <=>
            \/ SortKey(s + i, mode) < SortKey(t + j, mode)
            \/ s + i = t + j /\ Place(F, a) < Place(F, b)
      <4>1. /\ ScoreOf(R, a) = s + i /\ ScoreOf(R, b) = t + j
            /\ Place(R, a) < Place(R, b) <=>
                 \/ SortKey(ScoreOf(R, a), mode) < SortKey(ScoreOf(R, b), mode)
                 \/ ScoreOf(R, a) = ScoreOf(R, b) /\ Place(F, a) < Place(F, b)
        BY <2>1, <3>1, <3>2 DEF IsLinked
      <4> QED
        BY <4>1
    <3>4. v = SortKey(s + i, mode) /\ w = SortKey(t + j, mode)
      <4>1. v = x + SortKey(i, mode) /\ w = y + SortKey(j, mode)
        BY <1>6, <2>5, <3>2 DEF LinkKey
      <4> QED
        BY <2>2, <3>2, <4>1 DEF SortKey
    <3>5. s + i = t + j <=> v = w
      BY <2>1, <3>2, <3>4 DEF SortKey
    <3> QED
      BY <2>3, <3>3, <3>4, <3>5
  <2> QED
    BY <2>4, <2>5
<1>7. IsList(R, U)
  <2>1. CASE ~ req.backlinks
    BY <1>2, <1>3, <1>4, <2>1, LinkedIs
  <2>2. CASE req.backlinks
    <3>1. IsLinked(R, F, U, chunks, mode)
      BY <1>2, <1>3, <1>4, <2>2, LinkedIs
    <3> QED
      BY <3>1 DEF IsLinked
  <2> QED
    BY <2>1, <2>2
<1>8. IsFinal(R, L, U, chunks, mode, req)
  BY <1>6, <1>7 DEF IsFinal
<1> QED
  BY <1>1, <1>2, <1>8

(* A boosted index: one chunk has one boost more.                          *)
IsBetter(d, chunks, i) ==
  /\ IsIndex(d) /\ DOMAIN d = DOMAIN chunks /\ i \in DOMAIN chunks
  /\ \A a \in DOMAIN chunks :
       /\ d[a].hit = chunks[a].hit /\ d[a].bm25 = chunks[a].bm25
       /\ d[a].vector = chunks[a].vector
       /\ d[a].keep = chunks[a].keep /\ d[a].here = chunks[a].here
       /\ a # i => /\ d[a].title = chunks[a].title /\ d[a].emphasized = chunks[a].emphasized
                   /\ d[a].links = chunks[a].links
  /\ chunks[i].title => d[i].title
  /\ chunks[i].emphasized => d[i].emphasized
  /\ \/ d[i].links = chunks[i].links
     \/ /\ d[i].links = chunks[i].links + 1 /\ d[i].title = chunks[i].title
        /\ d[i].emphasized = chunks[i].emphasized

LEMMA BetterIs ==
  ASSUME NEW chunks, IsIndex(chunks), NEW i \in DOMAIN chunks
  PROVE  /\ IsBetter([chunks EXCEPT ![i].title = TRUE], chunks, i)
         /\ IsBetter([chunks EXCEPT ![i].emphasized = TRUE], chunks, i)
         /\ IsBetter([chunks EXCEPT ![i].links = @ + 1], chunks, i)
<1>1. PICK V : KnownVectors(V) /\ chunks \in Seq(ChunkKinds(V))
  BY DEF IsIndex
<1>2. PICK n \in Nat : n = Len(chunks) /\ DOMAIN chunks = 1 .. n
                       /\ chunks = [k \in 1 .. n |-> chunks[k]]
  <2>1. IsRow(chunks, Len(chunks))
    BY <1>1, SeqIsRow
  <2> QED
    BY <2>1 DEF IsRow
<1>3. \A a \in 1 .. n : chunks[a] \in ChunkKinds(V)
  BY <1>1, <1>2, ElementOfSeq
<1>4. PICK c : c = chunks[i] /\ c \in ChunkKinds(V)
  BY <1>2, <1>3
<1>5. /\ [c EXCEPT !.title = TRUE] \in ChunkKinds(V)
      /\ [c EXCEPT !.emphasized = TRUE] \in ChunkKinds(V)
      /\ [c EXCEPT !.links = @ + 1] \in ChunkKinds(V)
  <2>1. [c EXCEPT !.title = TRUE] \in ChunkKinds(V)
    BY <1>4 DEF ChunkKinds
  <2>2. [c EXCEPT !.emphasized = TRUE] \in ChunkKinds(V)
    BY <1>4 DEF ChunkKinds
  <2>3. PICK m \in Nat : m = c.links + 1
    BY <1>4 DEF ChunkKinds
  <2>4. [c EXCEPT !.links = m] \in ChunkKinds(V)
    BY <1>4 DEF ChunkKinds
  <2>5. [c EXCEPT !.links = @ + 1] = [c EXCEPT !.links = m]
    BY <2>3
  <2> QED
    BY <2>1, <2>2, <2>4, <2>5
<1>6. ASSUME NEW e \in ChunkKinds(V), NEW d, d = [chunks EXCEPT ![i] = e],
             e.hit = c.hit, e.bm25 = c.bm25, e.vector = c.vector, e.keep = c.keep,
             e.here = c.here, c.title => e.title, c.emphasized => e.emphasized,
             \/ e.links = c.links
             \/ e.links = c.links + 1 /\ e.title = c.title /\ e.emphasized = c.emphasized
      PROVE  IsBetter(d, chunks, i)
  <2>1. DOMAIN d = 1 .. n /\ d[i] = e /\ \A a \in 1 .. n : a # i => d[a] = chunks[a]
    BY <1>2, <1>6
  <2>2. d \in [1 .. n -> ChunkKinds(V)]
    BY <1>2, <1>3, <1>6
  <2>3. IsIndex(d)
    BY <1>1, <2>2 DEF IsIndex
  <2>4. \A a \in 1 .. n :
       /\ d[a].hit = chunks[a].hit /\ d[a].bm25 = chunks[a].bm25
       /\ d[a].vector = chunks[a].vector
       /\ d[a].keep = chunks[a].keep /\ d[a].here = chunks[a].here
       /\ a # i => /\ d[a].title = chunks[a].title /\ d[a].emphasized = chunks[a].emphasized
                   /\ d[a].links = chunks[a].links
    BY <1>4, <1>6, <2>1
  <2> QED
    BY <1>2, <1>4, <1>6, <2>1, <2>3, <2>4 DEF IsBetter
<1>7. /\ [chunks EXCEPT ![i].title = TRUE] = [chunks EXCEPT ![i] = [c EXCEPT !.title = TRUE]]
      /\ [chunks EXCEPT ![i].emphasized = TRUE]
           = [chunks EXCEPT ![i] = [c EXCEPT !.emphasized = TRUE]]
      /\ [chunks EXCEPT ![i].links = @ + 1] = [chunks EXCEPT ![i] = [c EXCEPT !.links = @ + 1]]
  BY <1>4
<1>8. \A e : e = [c EXCEPT !.title = TRUE] =>
        /\ e.hit = c.hit /\ e.bm25 = c.bm25 /\ e.vector = c.vector /\ e.keep = c.keep
        /\ e.here = c.here /\ e.title /\ e.emphasized = c.emphasized /\ e.links = c.links
  BY <1>4 DEF ChunkKinds
<1>9. \A e : e = [c EXCEPT !.emphasized = TRUE] =>
        /\ e.hit = c.hit /\ e.bm25 = c.bm25 /\ e.vector = c.vector /\ e.keep = c.keep
        /\ e.here = c.here /\ e.title = c.title /\ e.emphasized /\ e.links = c.links
  BY <1>4 DEF ChunkKinds
<1>10. \A e : e = [c EXCEPT !.links = @ + 1] =>
        /\ e.hit = c.hit /\ e.bm25 = c.bm25 /\ e.vector = c.vector /\ e.keep = c.keep
        /\ e.here = c.here /\ e.title = c.title /\ e.emphasized = c.emphasized
        /\ e.links = c.links + 1
  BY <1>4 DEF ChunkKinds
<1>11. IsBetter([chunks EXCEPT ![i].title = TRUE], chunks, i)
  <2>1. PICK e : e = [c EXCEPT !.title = TRUE]
    OBVIOUS
  <2> QED
    BY <1>5, <1>6, <1>7, <1>8, <2>1
<1>12. IsBetter([chunks EXCEPT ![i].emphasized = TRUE], chunks, i)
  <2>1. PICK e : e = [c EXCEPT !.emphasized = TRUE]
    OBVIOUS
  <2> QED
    BY <1>5, <1>6, <1>7, <1>9, <2>1
<1>13. IsBetter([chunks EXCEPT ![i].links = @ + 1], chunks, i)
  <2>1. PICK e : e = [c EXCEPT !.links = @ + 1]
    OBVIOUS
  <2> QED
    BY <1>5, <1>6, <1>7, <1>10, <2>1, ZenonT(60)
<1> QED
  BY <1>11, <1>12, <1>13

(***************************************************************************)
(* The lists that a search begins with.                                    *)
(***************************************************************************)
IsBase(L, T, sc, mode) ==
  /\ IsList(L, T)
  /\ \A a \in T : ScoreOf(L, a) = sc[a]
  /\ \A a, b \in T :
       Place(L, a) < Place(L, b) <=>
         \/ SortKey(sc[a], mode) < SortKey(sc[b], mode)
         \/ sc[a] = sc[b] /\ a < b

LEMMA BaseIs ==
  ASSUME NEW T \in SUBSET Nat, IsFiniteSet(T), NEW sc \in [T -> Int], NEW mode
  PROVE  IsBase(Sorted(ResultsOf(sc), mode), T, sc, mode)
<1>1. PICK B, L : B = ResultsOf(sc) /\ L = Sorted(B, mode)
  OBVIOUS
<1>2. /\ IsList(B, T)
      /\ \A a \in T : ScoreOf(B, a) = sc[a]
      /\ \A a, b \in T : Place(B, a) < Place(B, b) <=> a < b
  BY <1>1, ResultsOfIs DEF IsByRowid
<1>3. /\ IsList(L, T)
      /\ \A a \in T : ScoreOf(L, a) = ScoreOf(B, a)
      /\ \A a, b \in T :
           Place(L, a) < Place(L, b) <=>
             \/ SortKey(ScoreOf(B, a), mode) < SortKey(ScoreOf(B, b), mode)
             \/ ScoreOf(B, a) = ScoreOf(B, b) /\ Place(B, a) < Place(B, b)
  BY <1>1, <1>2, SortedIs DEF IsSortOf
<1>4. IsBase(L, T, sc, mode)
  BY <1>2, <1>3 DEF IsBase
<1> QED
  BY <1>1, <1>4

LEMMA BaseInPlace ==
  ASSUME NEW L, NEW T, NEW sc, NEW mode, IsBase(L, T, sc, mode)
  PROVE  InPlace(L, T, mode)
<1>1. SUFFICES ASSUME NEW a \in T, NEW b \in T, Place(L, a) < Place(L, b)
               PROVE  SortKey(ScoreOf(L, a), mode) <= SortKey(ScoreOf(L, b), mode)
  BY DEF InPlace
<1>2. PICK s \in Int, t \in Int : s = ScoreOf(L, a) /\ t = ScoreOf(L, b)
  <2>1. IsList(L, T)
    BY DEF IsBase
  <2> QED
    BY <2>1, PlaceIs
<1>3. SortKey(s, mode) < SortKey(t, mode) \/ s = t
  BY <1>1, <1>2 DEF IsBase
<1>4. SortKey(s, mode) \in Int /\ SortKey(t, mode) \in Int
  BY SortKeyIs
<1> QED
  BY <1>2, <1>3, <1>4

LEMMA TakenInPlace ==
  ASSUME NEW L, NEW T, NEW mode, InPlace(L, T, mode), NEW M, NEW U, NEW n,
         IsTaken(M, U, L, T, n)
  PROVE  InPlace(M, U, mode)
BY DEF InPlace, IsTaken

LEMMA AmongInPlace ==
  ASSUME NEW L, NEW T, NEW mode, InPlace(L, T, mode), NEW M, NEW U \in SUBSET T, IsAmong(M, U, L)
  PROVE  InPlace(M, U, mode)
BY DEF InPlace, IsAmong

TextHits(chunks) == {i \in DOMAIN chunks : chunks[i].hit /\ chunks[i].here}
TextScores(chunks) == [i \in TextHits(chunks) |-> 600 * chunks[i].bm25]
TextBase(chunks) == Sorted(ResultsOf(TextScores(chunks)), "fts")
VectorHits(chunks) == {i \in DOMAIN chunks : chunks[i].vector # NoVector}
VectorScores(chunks) ==
  [i \in VectorHits(chunks) |-> 60 * (10 - Similarity(chunks[i].vector))]
VectorBase(chunks) == Sorted(ResultsOf(VectorScores(chunks)), "vec")
Here(chunks) == {i \in DOMAIN chunks : chunks[i].here}
NearHere(chunks, limit) == Among(Nearest(chunks, limit), Here(chunks))

LEMMA TextBaseIs ==
  ASSUME NEW chunks, IsIndex(chunks)
  PROVE  /\ IsBase(TextBase(chunks), TextHits(chunks), TextScores(chunks), "fts")
         /\ TextHits(chunks) \in SUBSET DOMAIN chunks /\ IsFiniteSet(DOMAIN chunks)
<1>1. DOMAIN chunks = 1 .. Len(chunks) /\ Len(chunks) \in Nat /\ DOMAIN chunks \in SUBSET Nat
  BY IndexIs, SMTT(40)
<1>2. PICK n \in Nat : n = Len(chunks) /\ DOMAIN chunks = 1 .. n
  BY <1>1
<1>3. IsFiniteSet(DOMAIN chunks)
  BY <1>2, FS_Interval
<1>4. PICK T, sc : T = TextHits(chunks) /\ sc = TextScores(chunks)
  OBVIOUS
<1>5. T \in SUBSET DOMAIN chunks
  BY <1>4 DEF TextHits
<1>6. T \in SUBSET Nat /\ IsFiniteSet(T)
  BY <1>1, <1>3, <1>5, FS_Subset
<1>7. sc \in [T -> Int]
  <2>1. \A i \in T : 600 * chunks[i].bm25 \in Int
    BY <1>5, IndexIs
  <2> QED
    BY <1>4, <2>1 DEF TextScores
<1>8. IsBase(Sorted(ResultsOf(sc), "fts"), T, sc, "fts")
  BY <1>6, <1>7, BaseIs
<1> QED
  BY <1>3, <1>4, <1>5, <1>8 DEF TextBase

LEMMA VectorBaseIs ==
  ASSUME NEW chunks, IsIndex(chunks)
  PROVE  /\ IsBase(VectorBase(chunks), VectorHits(chunks), VectorScores(chunks), "vec")
         /\ VectorHits(chunks) \in SUBSET DOMAIN chunks
<1>1. DOMAIN chunks \in SUBSET Nat /\ IsFiniteSet(DOMAIN chunks)
  BY IndexIs, TextBaseIs
<1>4. PICK T, sc : T = VectorHits(chunks) /\ sc = VectorScores(chunks)
  OBVIOUS
<1>5. T \in SUBSET DOMAIN chunks
  BY <1>4 DEF VectorHits
<1>6. T \in SUBSET Nat /\ IsFiniteSet(T)
  BY <1>1, <1>5, FS_Subset
<1>7. sc \in [T -> Int]
  <2>1. \A i \in T : Similarity(chunks[i].vector) \in Int
    BY <1>4, <1>5, IndexIs DEF VectorHits
  <2>2. \A i \in T : 60 * (10 - Similarity(chunks[i].vector)) \in Int
    BY <2>1
  <2> QED
    BY <1>4, <2>2 DEF VectorScores
<1>8. IsBase(Sorted(ResultsOf(sc), "vec"), T, sc, "vec")
  BY <1>6, <1>7, BaseIs
<1> QED
  BY <1>4, <1>5, <1>8 DEF VectorBase

LEMMA StagesAre ==
  ASSUME NEW chunks, NEW limit, NEW filtering
  PROVE  /\ SearchFts(chunks, limit, filtering)
              = FilterAndBoost(chunks, Take(TextBase(chunks), limit), "fts", filtering)
         /\ Nearest(chunks, limit) = Take(VectorBase(chunks), limit)
         /\ SearchVec(chunks, limit, filtering)
              = FilterAndBoost(chunks, NearHere(chunks, limit), "vec", filtering)
BY DEF SearchFts, TextBase, TextScores, TextHits, Nearest, VectorBase, VectorScores, VectorHits,
       SearchVec, NearHere, Here

(* What is boosted does not matter to the first lists.                     *)
LEMMA SameBases ==
  ASSUME NEW chunks, NEW d, NEW i, IsBetter(d, chunks, i)
  PROVE  /\ TextBase(d) = TextBase(chunks) /\ VectorBase(d) = VectorBase(chunks)
         /\ \A limit : Nearest(d, limit) = Nearest(chunks, limit)
         /\ \A limit : NearHere(d, limit) = NearHere(chunks, limit)
         /\ \A T, filtering : T \in SUBSET DOMAIN chunks =>
              Passing(d, T, filtering) = Passing(chunks, T, filtering)
<1>1. /\ DOMAIN d = DOMAIN chunks
      /\ \A a \in DOMAIN chunks :
           /\ d[a].hit = chunks[a].hit /\ d[a].bm25 = chunks[a].bm25
           /\ d[a].vector = chunks[a].vector
           /\ d[a].keep = chunks[a].keep /\ d[a].here = chunks[a].here
  BY DEF IsBetter
<1>2. TextHits(d) = TextHits(chunks) /\ VectorHits(d) = VectorHits(chunks) /\ Here(d) = Here(chunks)
  BY <1>1 DEF TextHits, VectorHits, Here
<1>3. TextHits(chunks) \in SUBSET DOMAIN chunks /\ VectorHits(chunks) \in SUBSET DOMAIN chunks
  BY DEF TextHits, VectorHits
<1>4. TextScores(d) = TextScores(chunks)
  BY <1>1, <1>2, <1>3 DEF TextScores
<1>5. VectorScores(d) = VectorScores(chunks)
  BY <1>1, <1>2, <1>3 DEF VectorScores
<1>6. TextBase(d) = TextBase(chunks) /\ VectorBase(d) = VectorBase(chunks)
  BY <1>4, <1>5 DEF TextBase, VectorBase
<1>7. \A limit : Nearest(d, limit) = Nearest(chunks, limit)
  BY <1>6, StagesAre
<1>8. \A limit : NearHere(d, limit) = NearHere(chunks, limit)
  BY <1>2, <1>7 DEF NearHere
<1>9. \A T, filtering : T \in SUBSET DOMAIN chunks =>
              Passing(d, T, filtering) = Passing(chunks, T, filtering)
  BY <1>1 DEF Passing
<1> QED
  BY <1>6, <1>7, <1>8, <1>9

(* The parts of a search.                                                  *)
ModeOf(req) == IF req.mode = "hybrid" /\ ~ req.embedder THEN "fts" ELSE req.mode
PoolOf(req) == IF req.mmr THEN PoolFactor * req.limit ELSE req.limit
NearVectors(chunks, pool) ==
  [i \in {j \in ToSet(Ids(Nearest(chunks, pool))) : chunks[j].here} |-> chunks[i].vector]

LEMMA SearchIs ==
  ASSUME NEW chunks, NEW req
  PROVE  /\ ModeOf(req) = "fts" =>
              Search(chunks, req) =
                Take(Linked(chunks, SearchFts(chunks, req.limit + 1, TRUE), "fts", req), req.limit)
         /\ ModeOf(req) = "vec" =>
              Search(chunks, req) =
                Linked(chunks, Diversified(SearchVec(chunks, PoolOf(req), TRUE),
                                           NearVectors(chunks, PoolOf(req)), "vec", req), "vec", req)
         /\ ModeOf(req) = "hybrid" =>
              Search(chunks, req) =
                Linked(chunks,
                  Diversified(SearchHybrid(chunks, req.limit, PoolOf(req), req.weights),
                              NearVectors(chunks, PoolOf(req)), "hybrid", req), "hybrid", req)
<1>1. CASE ModeOf(req) = "fts"
  BY <1>1 DEF Search, ModeOf, PoolOf, NearVectors, Diversified, FirstPage
<1>2. CASE ModeOf(req) = "vec"
  BY <1>2 DEF Search, ModeOf, PoolOf, NearVectors, FirstPage
<1>3. CASE ModeOf(req) = "hybrid"
  BY <1>3 DEF Search, ModeOf, PoolOf, NearVectors, FirstPage
<1>4. CASE ModeOf(req) \notin {"fts", "vec", "hybrid"}
  BY <1>4
<1> QED
  BY <1>1, <1>2, <1>3, <1>4

LEMMA RequestIs ==
  ASSUME NEW req \in Request
  PROVE  /\ ModeOf(req) \in {"fts", "vec", "hybrid"} /\ req.limit \in Nat
         /\ PoolOf(req) \in Nat /\ PoolOf(req) >= req.limit
         /\ req.weights[1] \in Nat /\ req.weights[2] \in Nat
         /\ req.weights[1] > 0 \/ req.weights[2] > 0
         /\ req.mmr \in BOOLEAN /\ req.backlinks \in BOOLEAN /\ req.embedder \in BOOLEAN
         /\ req.lambda \in 0 .. 10 /\ req.mode \in {"fts", "vec", "hybrid"}
<1>1. /\ req.mode \in {"fts", "vec", "hybrid"} /\ req.limit \in Nat
      /\ req.weights \in (Nat \X Nat) \ {<<0, 0>>}
      /\ req.mmr \in BOOLEAN /\ req.backlinks \in BOOLEAN /\ req.embedder \in BOOLEAN
      /\ req.lambda \in 0 .. 10
  BY DEF Request
<1>2. PoolFactor \in Nat /\ PoolFactor >= 1
  BY RankingAssumption
<1>3. PoolFactor * req.limit \in Nat /\ PoolFactor * req.limit >= req.limit
  BY <1>1, <1>2
<1>4. ModeOf(req) \in {"fts", "vec", "hybrid"}
  BY <1>1 DEF ModeOf
<1>5. /\ req.weights[1] \in Nat /\ req.weights[2] \in Nat
      /\ req.weights[1] > 0 \/ req.weights[2] > 0
  <2>1. PICK v \in Nat, w \in Nat : req.weights = <<v, w>> /\ <<v, w>> # <<0, 0>>
    BY <1>1
  <2> QED
    BY <2>1
<1> QED
  BY <1>1, <1>3, <1>4, <1>5 DEF PoolOf

(* A boost of one chunk moves it up, where the search has found the same.  *)
LEMMA BetterKeys ==
  ASSUME NEW chunks, IsIndex(chunks), NEW i, NEW d, IsBetter(d, chunks, i),
         NEW a \in DOMAIN chunks, NEW s \in Int, NEW mode, mode = "hybrid" => s >= 0, NEW req
  PROVE  /\ BoostKey(s, d[a], mode) \in Int /\ BoostKey(s, chunks[a], mode) \in Int
         /\ LinkKey(d[a], mode, req) \in Int /\ LinkKey(chunks[a], mode, req) \in Int
         /\ BoostKey(s, d[a], mode) <= BoostKey(s, chunks[a], mode)
         /\ LinkKey(d[a], mode, req) <= LinkKey(chunks[a], mode, req)
         /\ a # i => /\ BoostKey(s, d[a], mode) = BoostKey(s, chunks[a], mode)
                     /\ LinkKey(d[a], mode, req) = LinkKey(chunks[a], mode, req)
         /\ d[i].links = chunks[i].links =>
              LinkKey(d[a], mode, req) = LinkKey(chunks[a], mode, req)
<1>1. IsIndex(d) /\ DOMAIN d = DOMAIN chunks /\ i \in DOMAIN chunks
  BY DEF IsBetter
<1>2. PICK c, e : c = chunks[a] /\ e = d[a]
  OBVIOUS
<1>3. /\ c.title \in BOOLEAN /\ c.emphasized \in BOOLEAN /\ c.links \in Nat
      /\ e.title \in BOOLEAN /\ e.emphasized \in BOOLEAN /\ e.links \in Nat
  BY <1>1, <1>2, IndexIs
<1>4. /\ BoostKey(s, e, mode) \in Int /\ BoostKey(s, c, mode) \in Int
      /\ LinkKey(e, mode, req) \in Int /\ LinkKey(c, mode, req) \in Int
  BY <1>1, <1>2, KeysAre
<1>5. (c.title => e.title) /\ (c.emphasized => e.emphasized)
  BY <1>2, <1>3 DEF IsBetter
<1>6. BoostKey(s, e, mode) <= BoostKey(s, c, mode)
  BY <1>3, <1>5, BoostedMore DEF BoostKey
<1>7. e.links = c.links => LinkKey(e, mode, req) = LinkKey(c, mode, req)
  BY DEF LinkKey, LinkBoost
<1>8. e.links = c.links \/ (a = i /\ e.links = c.links + 1)
  BY <1>2 DEF IsBetter
<1>9. LinkKey(e, mode, req) <= LinkKey(c, mode, req)
  <2>1. CASE e.links = c.links
    BY <1>4, <1>7, <2>1
  <2>2. CASE e.links = c.links + 1
    BY <1>3, <1>4, <2>2, LinkBoostIs DEF LinkKey
  <2> QED
    BY <1>8, <2>1, <2>2
<1>10. a # i => /\ BoostKey(s, e, mode) = BoostKey(s, c, mode)
                /\ LinkKey(e, mode, req) = LinkKey(c, mode, req)
  <2>1. a # i => e.title = c.title /\ e.emphasized = c.emphasized /\ e.links = c.links
    BY <1>2 DEF IsBetter
  <2> QED
    BY <1>7, <2>1, BoostedAlike DEF BoostKey
<1>11. d[i].links = chunks[i].links => LinkKey(e, mode, req) = LinkKey(c, mode, req)
  BY <1>2, <1>7, <1>8
<1> QED
  BY <1>2, <1>4, <1>6, <1>9, <1>10, <1>11

LEMMA FinalHelps ==
  ASSUME NEW chunks, IsIndex(chunks), NEW i, NEW d, IsBetter(d, chunks, i),
         NEW L, NEW T, IsList(L, T), T \in SUBSET DOMAIN chunks, NEW mode, Fit(L, T, mode),
         NEW U \in SUBSET T, NEW req, NEW R, NEW N,
         IsFinal(R, L, U, chunks, mode, req), IsFinal(N, L, U, d, mode, req), i \in U
  PROVE  Place(N, i) <= Place(R, i)
<1>1. IsList(R, U) /\ IsList(N, U)
  BY DEF IsFinal
<1>2. ASSUME NEW b \in AheadIn(N, U, i)
      PROVE  b \in AheadIn(R, U, i)
  <2>1. b \in U /\ Place(N, b) < Place(N, i)
    BY <1>2 DEF AheadIn
  <2>2. b # i
    <3>1. Len(N) \in Nat /\ Place(N, i) \in 1 .. Len(N)
      BY <1>1, PlaceIs
    <3> QED
      BY <2>1, <3>1
  <2>3. PICK s \in Int, t \in Int : /\ s = ScoreOf(L, b) /\ t = ScoreOf(L, i)
                                    /\ mode = "hybrid" => s >= 0 /\ t >= 0
    <3>1. ScoreOf(L, b) \in Int /\ ScoreOf(L, i) \in Int
      <4>1. b \in T /\ i \in T
        BY <2>1
      <4> QED
        BY <4>1, PlaceIs
    <3>2. mode = "hybrid" => ScoreOf(L, b) >= 0 /\ ScoreOf(L, i) >= 0
      BY <2>1 DEF Fit
    <3> QED
      BY <3>1, <3>2
  <2>4. PICK x, y, xx, yy : /\ x = BoostKey(s, chunks[b], mode) /\ y = BoostKey(t, chunks[i], mode)
                            /\ xx = BoostKey(s, d[b], mode) /\ yy = BoostKey(t, d[i], mode)
    OBVIOUS
  <2>5. PICK p, q, pp, qq : /\ p = LinkKey(chunks[b], mode, req) /\ q = LinkKey(chunks[i], mode, req)
                            /\ pp = LinkKey(d[b], mode, req) /\ qq = LinkKey(d[i], mode, req)
    OBVIOUS
  <2>6. b \in DOMAIN chunks /\ i \in DOMAIN chunks
    BY <2>1
  <2>7. /\ x \in Int /\ xx \in Int /\ p \in Int /\ pp \in Int /\ xx = x /\ pp = p
    BY <2>2, <2>3, <2>4, <2>5, <2>6, BetterKeys
  <2>8. /\ y \in Int /\ yy \in Int /\ q \in Int /\ qq \in Int /\ yy <= y /\ qq <= q
    BY <2>3, <2>4, <2>5, <2>6, BetterKeys
  <2>9. \/ xx + pp < yy + qq
        \/ xx + pp = yy + qq /\ (xx < yy \/ (xx = yy /\ Place(L, b) < Place(L, i)))
    BY <2>1, <2>3, <2>4, <2>5 DEF IsFinal
  <2>10. \/ x + p < y + q
         \/ x + p = y + q /\ (x < y \/ (x = y /\ Place(L, b) < Place(L, i)))
    BY <2>7, <2>8, <2>9
  <2>11. Place(R, b) < Place(R, i)
    BY <2>1, <2>3, <2>4, <2>5, <2>10 DEF IsFinal
  <2> QED
    BY <2>1, <2>11 DEF AheadIn
<1> QED
  BY <1>1, <1>2, AheadPlaces

(***************************************************************************)
(* The fusion of two lists.                                                *)
(***************************************************************************)
LEMMA IdsIs ==
  ASSUME NEW L, NEW T, IsList(L, T)
  PROVE  /\ ToSet(Ids(L)) = T /\ DOMAIN Ids(L) = 1 .. Len(L) /\ IsRow(Ids(L), Len(L))
         /\ \A k \in 1 .. Len(L) : Ids(L)[k] = L[k].id
<1>1. Len(L) \in Nat /\ DOMAIN L = 1 .. Len(L) /\ T = {L[k].id : k \in 1 .. Len(L)}
  BY SMTT(40) DEF IsList, IsRow
<1>2. PICK n \in Nat : n = Len(L)
  BY <1>1
<1>3. Ids(L) = [k \in 1 .. n |-> L[k].id] /\ DOMAIN L = 1 .. n
  BY <1>1, <1>2 DEF Ids
<1>4. PICK I : I = Ids(L)
  OBVIOUS
<1>5. DOMAIN I = 1 .. n /\ \A k \in 1 .. n : I[k] = L[k].id
  BY <1>3, <1>4
<1>6. I = [k \in DOMAIN I |-> I[k]]
  BY <1>3, <1>4
<1>7. IsRow(I, n)
  BY <1>5, <1>6, RowIs
<1>8. ToSet(I) = {I[k] : k \in 1 .. n}
  BY <1>5 DEF ToSet
<1>9. ToSet(I) = T
  BY <1>1, <1>2, <1>5, <1>8
<1> QED
  BY <1>2, <1>4, <1>5, <1>7, <1>9

LEMMA ReciprocalIs ==
  ASSUME NEW L, NEW T, IsList(L, T), Len(L) <= MaxRank, NEW w \in Nat, NEW a
  PROVE  /\ Reciprocal(L, a, w) \in Nat
         /\ a \in T => Reciprocal(L, a, w) = w * Share(Place(L, a))
         /\ a \notin T => Reciprocal(L, a, w) = 0
         /\ a \in T => Place(L, a) \in 1 .. MaxRank
<1> DEFINE at == {k \in 1 .. Len(L) : L[k].id = a}
           rank == IF at # {} THEN Min(at) ELSE 0
<1>1. Len(L) \in Nat /\ MaxRank \in Nat
  BY PlaceIs, RankingAssumption
<1>2. Reciprocal(L, a, w) = IF rank = 0 THEN 0 ELSE w * Share(rank)
  BY DEF Reciprocal, SelectInSeq, Share
<1>3. Place(L, a) = IF rank = 0 THEN Len(L) + 1 ELSE rank
  BY DEF Place, SelectInSeq
<1>4. a \notin T => rank = 0
  <2>1. a \notin T => at = {}
    BY DEF IsList
  <2> HIDE DEF at
  <2> QED
    BY <2>1
<1>5. a \in T => rank = Place(L, a) /\ Place(L, a) \in 1 .. MaxRank
  <2>1. a \in T => Place(L, a) \in 1 .. Len(L)
    BY PlaceIs
  <2> HIDE DEF rank
  <2> QED
    BY <1>1, <1>3, <2>1
<1> HIDE DEF rank
<1>6. a \in T => Reciprocal(L, a, w) = w * Share(Place(L, a))
  <2>1. a \in T => rank # 0
    BY <1>1, <1>5
  <2> QED
    BY <1>2, <1>5, <2>1
<1>7. a \notin T => Reciprocal(L, a, w) = 0
  BY <1>2, <1>4
<1>8. Reciprocal(L, a, w) \in Nat
  <2>1. CASE a \in T
    <3>1. PICK s \in Nat : s = Share(Place(L, a))
      BY <1>5, <2>1, SharesFall
    <3> QED
      BY <1>6, <2>1, <3>1
  <2> QED
    BY <1>7, <2>1
<1> QED
  BY <1>5, <1>6, <1>7, <1>8

(* The earlier in a list, the more it gives. *)
LEMMA EarlierGivesMore ==
  ASSUME NEW L, NEW T, IsList(L, T), Len(L) <= MaxRank, NEW w \in Nat, NEW a, NEW b,
         Place(L, a) <= Place(L, b)
  PROVE  /\ Reciprocal(L, b, w) <= Reciprocal(L, a, w)
         /\ Place(L, a) < Place(L, b) /\ w > 0 => Reciprocal(L, b, w) < Reciprocal(L, a, w)
<1>1. PICK x \in Nat, y \in Nat : x = Reciprocal(L, a, w) /\ y = Reciprocal(L, b, w)
  BY ReciprocalIs
<1>2. Len(L) \in Nat
  BY PlaceIs
<1>3. CASE a \notin T /\ b \notin T
  <2>1. x = 0 /\ y = 0 /\ Place(L, a) = Place(L, b) /\ Place(L, a) \in Nat
    BY <1>1, <1>2, <1>3, ReciprocalIs, PlaceIs
  <2> QED
    BY <1>1, <2>1
<1>4. CASE a \notin T /\ b \in T
  <2>1. Place(L, a) = Len(L) + 1 /\ Place(L, b) \in 1 .. Len(L)
    BY <1>4, PlaceIs
  <2> QED
    BY <1>2, <2>1
<1>5. CASE a \in T
  <2>1. PICK p \in 1 .. MaxRank : p = Place(L, a)
    BY <1>5, ReciprocalIs
  <2>2. PICK s \in Nat \ {0} : s = Share(p)
    BY SharesFall
  <2>3. x = w * s
    BY <1>1, <1>5, <2>1, <2>2, ReciprocalIs
  <2>4. CASE b \notin T
    <3>1. y = 0
      BY <1>1, <2>4, ReciprocalIs
    <3>2. w > 0 => w * s > 0
      <4>1. w * s >= w
        BY <2>2
      <4>2. w * s \in Int
        BY <2>2
      <4> QED
        BY <4>1, <4>2
    <3> QED
      BY <1>1, <2>3, <3>1, <3>2
  <2>5. CASE b \in T
    <3>1. PICK q \in 1 .. MaxRank : q = Place(L, b)
      BY <2>5, ReciprocalIs
    <3>2. PICK t \in Nat \ {0} : t = Share(q)
      BY SharesFall
    <3>3. y = w * t
      BY <1>1, <2>5, <3>1, <3>2, ReciprocalIs
    <3>4. MaxRank \in Nat /\ p <= q
      BY <2>1, <3>1, RankingAssumption
    <3>5. CASE p = q
      BY <1>1, <2>1, <2>2, <2>3, <3>1, <3>2, <3>3, <3>4, <3>5
    <3>6. CASE p < q
      <4>1. t < s
        BY <2>2, <3>2, <3>6, SharesFall
      <4>2. PICK r \in Nat \ {0} : s = t + r
        <5>1. s - t \in Nat \ {0} /\ s = t + (s - t)
          BY <4>1, <2>2, <3>2
        <5> QED
          BY <5>1
      <4>3. w * s = w * t + w * r /\ w * r >= w /\ w * t \in Int /\ w * r \in Int
        BY <4>2, <3>2
      <4> QED
        BY <1>1, <2>3, <3>3, <4>3
    <3> QED
      BY <3>4, <3>5, <3>6
  <2> QED
    BY <2>4, <2>5
<1> QED
  BY <1>3, <1>4, <1>5

LEMMA FurtherUpGivesMore ==
  ASSUME NEW L, NEW T, IsList(L, T), Len(L) <= MaxRank, NEW M, IsList(M, T), Len(M) <= MaxRank,
         NEW w \in Nat, NEW a, a \in T => Place(M, a) <= Place(L, a)
  PROVE  Reciprocal(L, a, w) <= Reciprocal(M, a, w)
<1>1. CASE a \notin T
  <2>1. Reciprocal(L, a, w) = 0 /\ Reciprocal(M, a, w) = 0
    BY <1>1, ReciprocalIs
  <2> QED
    BY <2>1
<1>2. CASE a \in T
  <2>1. PICK p \in 1 .. MaxRank, q \in 1 .. MaxRank : p = Place(L, a) /\ q = Place(M, a)
    BY <1>2, ReciprocalIs
  <2>2. PICK s \in Nat \ {0}, t \in Nat \ {0} : s = Share(p) /\ t = Share(q)
    BY SharesFall
  <2>3. q <= p /\ MaxRank \in Nat
    BY <1>2, <2>1, RankingAssumption
  <2>4. s <= t
    <3>1. CASE p = q
      BY <2>2, <3>1
    <3>2. CASE q < p
      BY <2>2, <3>2, SharesFall
    <3> QED
      BY <2>3, <3>1, <3>2
  <2>5. Reciprocal(L, a, w) = w * s /\ Reciprocal(M, a, w) = w * t
    <3>1. Reciprocal(L, a, w) = w * Share(Place(L, a))
      BY <1>2, ReciprocalIs
    <3>2. Reciprocal(M, a, w) = w * Share(Place(M, a))
      BY <1>2, ReciprocalIs
    <3> QED
      BY <2>1, <2>2, <3>1, <3>2
  <2>6. PICK r \in Nat : t = s + r
    <3>1. t - s \in Nat /\ t = s + (t - s)
      BY <2>2, <2>4
    <3> QED
      BY <3>1
  <2>7. w * t = w * s + w * r /\ w * r \in Nat /\ w * s \in Nat
    BY <2>2, <2>6
  <2> QED
    BY <2>5, <2>7
<1> QED
  BY <1>1, <1>2

AreWeights(weights) == weights[1] \in Nat /\ weights[2] \in Nat
FusedScores(L, M, ids, weights) ==
  [id \in ids |-> Reciprocal(L, id, weights[1]) + Reciprocal(M, id, weights[2])]
FusedBase(L, M, ids, weights) == Sorted(ResultsOf(FusedScores(L, M, ids, weights)), "hybrid")

IsFusion(L, M, ids, limit, weights) ==
  /\ Fused(L, M, limit, weights) = Take(FusedBase(L, M, ids, weights), limit)
  /\ IsBase(FusedBase(L, M, ids, weights), ids, FusedScores(L, M, ids, weights), "hybrid")
  /\ FusedScores(L, M, ids, weights) \in [ids -> Nat]
LEMMA FusedIs ==
  ASSUME NEW L, NEW T, IsList(L, T), Len(L) <= MaxRank, NEW M, NEW U, IsList(M, U),
         Len(M) <= MaxRank, NEW weights, AreWeights(weights), NEW limit,
         NEW ids, ids = T \cup U
  PROVE  IsFusion(L, M, ids, limit, weights)
<1>2. ToSet(Ids(L)) \cup ToSet(Ids(M)) = ids
  BY IdsIs
<1>3. Fused(L, M, limit, weights) = Take(FusedBase(L, M, ids, weights), limit)
  BY <1>2 DEF Fused, FusedBase, FusedScores
<1>4. ids \in SUBSET Nat /\ IsFiniteSet(ids)
  <2>1. IsFiniteSet(T) /\ T \in SUBSET Nat
    BY ListIsFinite
  <2>2. IsFiniteSet(U) /\ U \in SUBSET Nat
    BY ListIsFinite
  <2> QED
    BY <2>1, <2>2, FS_Union
<1>5. PICK sc : sc = FusedScores(L, M, ids, weights)
  OBVIOUS
<1>6. sc \in [ids -> Nat]
  <2>1. ASSUME NEW a \in ids PROVE Reciprocal(L, a, weights[1]) + Reciprocal(M, a, weights[2]) \in Nat
    <3>1. Reciprocal(L, a, weights[1]) \in Nat
      BY ReciprocalIs DEF AreWeights
    <3>2. Reciprocal(M, a, weights[2]) \in Nat
      BY ReciprocalIs DEF AreWeights
    <3> QED
      BY <3>1, <3>2
  <2> QED
    BY <1>5, <2>1 DEF FusedScores
<1>7. sc \in [ids -> Int]
  BY <1>6
<1>8. IsBase(Sorted(ResultsOf(sc), "hybrid"), ids, sc, "hybrid")
  BY <1>4, <1>7, BaseIs
<1> QED
  BY <1>3, <1>5, <1>6, <1>8 DEF FusedBase, IsFusion

(* A hybrid search of which only one result is boosted.                    *)
Alone(chunks, i) == \A j \in DOMAIN chunks \ {i} : Unboosted(chunks[j])
HybridEnd(chunks, B, limit, req) ==
  Linked(chunks, FilterAndBoost(chunks, Take(B, limit), "hybrid", TRUE), "hybrid", req)
HybridIds(chunks, B, T, limit) == Passing(chunks, TakenOf(B, T, limit), TRUE)

LEMMA HybridEndIs ==
  ASSUME NEW chunks, IsIndex(chunks), NEW T \in SUBSET DOMAIN chunks, NEW sc \in [T -> Nat],
         NEW B, IsBase(B, T, sc, "hybrid"), NEW limit \in Nat, NEW req
  PROVE  /\ IsFinal(HybridEnd(chunks, B, limit, req), Take(B, limit),
                    HybridIds(chunks, B, T, limit), chunks, "hybrid", req)
         /\ IsTaken(Take(B, limit), TakenOf(B, T, limit), B, T, limit)
         /\ HybridIds(chunks, B, T, limit) \in SUBSET TakenOf(B, T, limit)
         /\ Fit(Take(B, limit), TakenOf(B, T, limit), "hybrid")
<1>1. PICK L, V : L = Take(B, limit) /\ V = TakenOf(B, T, limit)
  OBVIOUS
<1>2. IsList(B, T) /\ \A a \in T : ScoreOf(B, a) = sc[a]
  BY DEF IsBase
<1>3. IsTaken(L, V, B, T, limit)
  BY <1>1, <1>2, TakeIs
<1>4. IsList(L, V) /\ V \in SUBSET T /\ V \in SUBSET DOMAIN chunks
  BY <1>3 DEF IsTaken
<1>5. Fit(L, V, "hybrid")
  <2>1. ASSUME NEW a \in V PROVE ScoreOf(L, a) >= 0
    <3>1. ScoreOf(L, a) = sc[a] /\ sc[a] \in Nat
      BY <1>2, <1>3, <1>4 DEF IsTaken
    <3> QED
      BY <3>1
  <2> QED
    BY <2>1 DEF Fit
<1>6. IsFinal(Linked(chunks, FilterAndBoost(chunks, L, "hybrid", TRUE), "hybrid", req), L,
              Passing(chunks, V, TRUE), chunks, "hybrid", req)
  BY <1>4, <1>5, FinalIs
<1>7. Passing(chunks, V, TRUE) \in SUBSET V
  BY DEF Passing
<1> QED
  BY <1>1, <1>3, <1>5, <1>6, <1>7 DEF HybridEnd, HybridIds

LEMMA BaseRaised ==
  ASSUME NEW T, NEW sc \in [T -> Nat], NEW sd \in [T -> Nat], NEW i \in T, sc[i] <= sd[i],
         \A a \in T : a # i => sd[a] <= sc[a],
         NEW B, IsBase(B, T, sc, "hybrid"), NEW C, IsBase(C, T, sd, "hybrid")
  PROVE  Place(C, i) <= Place(B, i)
<1>1. IsList(B, T) /\ IsList(C, T) /\ T \in SUBSET Nat
  <2>1. IsList(B, T) /\ IsList(C, T)
    BY DEF IsBase
  <2> QED
    BY <2>1, PlaceIs
<1>2. ASSUME NEW b \in AheadIn(C, T, i)
      PROVE  b \in AheadIn(B, T, i)
  <2>1. b \in T /\ Place(C, b) < Place(C, i)
    BY <1>2 DEF AheadIn
  <2>2. PICK x \in Nat, y \in Nat, xx \in Nat, yy \in Nat :
          x = sc[b] /\ y = sc[i] /\ xx = sd[b] /\ yy = sd[i]
    BY <2>1
  <2>3. - xx < - yy \/ (xx = yy /\ b < i)
    BY <2>1, <2>2 DEF IsBase, SortKey
  <2>4. b # i
    BY <1>1, <2>2, <2>3
  <2>5. xx <= x /\ y <= yy
    BY <2>1, <2>2, <2>4
  <2>6. - x < - y \/ (x = y /\ b < i)
    BY <2>3, <2>5
  <2>7. Place(B, b) < Place(B, i)
    BY <2>1, <2>2, <2>6 DEF IsBase, SortKey
  <2> QED
    BY <2>1, <2>7 DEF AheadIn
<1> QED
  BY <1>1, <1>2, AheadPlaces

LEMMA UnboostedKeys ==
  ASSUME NEW chunks, IsIndex(chunks), NEW a \in DOMAIN chunks, Unboosted(chunks[a]),
         NEW s \in Nat, NEW req
  PROVE  /\ BoostKey(s, chunks[a], "hybrid") = - s
         /\ LinkKey(chunks[a], "hybrid", req) = 0
<1>1. PICK c : c = chunks[a]
  OBVIOUS
<1>2. /\ c.title \in BOOLEAN /\ c.emphasized \in BOOLEAN /\ c.links \in Nat
      /\ ~ c.title /\ ~ c.emphasized /\ c.links = 0
  BY <1>1, IndexIs DEF Unboosted
<1>3. Boosted(s, c, "hybrid") = s
  BY <1>2, BoostedIs
<1>4. LinkBoost(c, "hybrid") = 0
  BY <1>2, LinkBoostIs
<1> QED
  BY <1>1, <1>3, <1>4 DEF BoostKey, LinkKey, SortKey

LEMMA FusedHelps ==
  ASSUME NEW chunks, IsIndex(chunks), NEW i, NEW d, IsBetter(d, chunks, i),
         d[i].links = chunks[i].links, Alone(chunks, i), NEW T \in SUBSET DOMAIN chunks,
         NEW sc \in [T -> Nat], NEW sd \in [T -> Nat], i \in T => sc[i] <= sd[i],
         \A a \in T : a # i => sd[a] <= sc[a],
         NEW B, IsBase(B, T, sc, "hybrid"), NEW C, IsBase(C, T, sd, "hybrid"),
         NEW limit \in Nat, NEW req, i \in HybridIds(chunks, B, T, limit)
  PROVE  /\ i \in HybridIds(d, C, T, limit)
         /\ Place(HybridEnd(d, C, limit, req), i) <= Place(HybridEnd(chunks, B, limit, req), i)
<1>1. IsIndex(d) /\ DOMAIN d = DOMAIN chunks /\ i \in DOMAIN chunks
      /\ \A a \in DOMAIN chunks : d[a].keep = chunks[a].keep
  BY DEF IsBetter
<1>2. PICK R, N, U, V, L, M : /\ R = HybridEnd(chunks, B, limit, req)
                              /\ N = HybridEnd(d, C, limit, req)
                              /\ U = HybridIds(chunks, B, T, limit)
                              /\ V = HybridIds(d, C, T, limit)
                              /\ L = Take(B, limit) /\ M = Take(C, limit)
  OBVIOUS
<1>3. /\ IsFinal(R, L, U, chunks, "hybrid", req)
      /\ IsTaken(L, TakenOf(B, T, limit), B, T, limit) /\ U \in SUBSET TakenOf(B, T, limit)
  BY <1>2, HybridEndIs
<1>4. /\ IsFinal(N, M, V, d, "hybrid", req)
      /\ IsTaken(M, TakenOf(C, T, limit), C, T, limit) /\ V \in SUBSET TakenOf(C, T, limit)
  BY <1>1, <1>2, HybridEndIs
<1>5. /\ IsList(B, T) /\ IsList(C, T)
      /\ \A a \in T : ScoreOf(B, a) = sc[a] /\ ScoreOf(C, a) = sd[a]
  BY DEF IsBase
<1>6. /\ \A a \in T : Place(B, a) \in Nat /\ Place(C, a) \in Nat
      /\ T \in SUBSET Nat
  <2>1. T \in SUBSET Nat /\ Len(B) \in Nat /\ \A a \in T : Place(B, a) \in 1 .. Len(B)
    BY <1>5, PlaceIs
  <2>2. Len(C) \in Nat /\ \A a \in T : Place(C, a) \in 1 .. Len(C)
    BY <1>5, PlaceIs
  <2> QED
    BY <2>1, <2>2
<1>7. i \in T /\ Place(B, i) <= limit /\ chunks[i].keep
  BY <1>1 DEF HybridIds, TakenOf, Passing
<1>8. Place(C, i) <= limit
  <2>1. Place(C, i) <= Place(B, i)
    BY <1>7, BaseRaised
  <2> QED
    BY <1>6, <1>7, <2>1
<1>9. i \in V
  BY <1>1, <1>2, <1>7, <1>8 DEF HybridIds, TakenOf, Passing
<1>10. IsList(R, U) /\ IsList(N, V) /\ i \in U
  BY <1>2, <1>3, <1>4 DEF IsFinal
<1>11. ASSUME NEW b \in AheadIn(N, V, i)
       PROVE  b \in AheadIn(R, U, i)
  <2>1. b \in V /\ Place(N, b) < Place(N, i)
    BY <1>11 DEF AheadIn
  <2>2. b # i
    <3>1. Len(N) \in Nat /\ Place(N, i) \in 1 .. Len(N)
      BY <1>9, <1>10, PlaceIs
    <3> QED
      BY <2>1, <3>1
  <2>3. b \in T /\ d[b].keep
    BY <1>2, <2>1 DEF HybridIds, TakenOf, Passing
  <2>4. b \in DOMAIN chunks /\ chunks[b].keep /\ Unboosted(chunks[b])
    BY <1>1, <2>2, <2>3 DEF Alone
  <2>5. PICK x \in Nat, y \in Nat, xx \in Nat, yy \in Nat :
          x = sc[b] /\ y = sc[i] /\ xx = sd[b] /\ yy = sd[i]
    BY <1>7, <2>3
  <2>6. xx <= x /\ y <= yy
    BY <1>7, <2>2, <2>3, <2>5
  <2>7. PICK k \in Int, l \in Int, q \in Int :
          /\ k = BoostKey(y, chunks[i], "hybrid") /\ l = BoostKey(yy, d[i], "hybrid")
          /\ q = LinkKey(chunks[i], "hybrid", req) /\ q = LinkKey(d[i], "hybrid", req)
          /\ l <= k /\ q <= 0 /\ k <= - y
    <3>1. PICK c, e : c = chunks[i] /\ e = d[i]
      OBVIOUS
    <3>6. y \in Int /\ y >= 0 /\ yy \in Int /\ yy >= 0
      OBVIOUS
    <3>7. PICK mode : mode = "hybrid"
      OBVIOUS
    <3>8. /\ BoostKey(y, c, mode) \in Int /\ LinkKey(c, mode, req) \in Int
          /\ LinkKey(c, mode, req) <= 0
          /\ BoostKey(y, c, mode) <= SortKey(y, mode) \/ mode # "hybrid"
      BY <1>1, <3>1, <3>6, KeysAre
    <3>9. /\ BoostKey(yy, e, mode) \in Int /\ BoostKey(yy, c, mode) \in Int
          /\ BoostKey(yy, e, mode) <= BoostKey(yy, c, mode)
          /\ d[i].links = chunks[i].links => LinkKey(e, mode, req) = LinkKey(c, mode, req)
      <4>1. PICK s \in Int : s = yy /\ (mode = "hybrid" => s >= 0)
        BY <3>6
      <4>2. /\ BoostKey(s, d[i], mode) \in Int /\ BoostKey(s, chunks[i], mode) \in Int
            /\ BoostKey(s, d[i], mode) <= BoostKey(s, chunks[i], mode)
        BY <1>1, <4>1, BetterKeys
      <4>3. e.links = c.links => LinkKey(e, mode, req) = LinkKey(c, mode, req)
        BY DEF LinkKey, LinkBoost
      <4> QED
        BY <3>1, <4>1, <4>2, <4>3
    <3>2. PICK k \in Int, q \in Int :
            /\ k = BoostKey(y, c, "hybrid") /\ q = LinkKey(c, "hybrid", req) /\ q <= 0
            /\ k <= - y
      <4>1. /\ BoostKey(y, c, "hybrid") \in Int /\ LinkKey(c, "hybrid", req) \in Int
            /\ LinkKey(c, "hybrid", req) <= 0
            /\ BoostKey(y, c, "hybrid") <= SortKey(y, "hybrid")
        BY <3>7, <3>8
      <4> QED
        BY <4>1 DEF SortKey
    <3>3. PICK j \in Int, l \in Int :
            j = BoostKey(yy, c, "hybrid") /\ l = BoostKey(yy, e, "hybrid") /\ l <= j
      BY <3>7, <3>9
    <3>4. LinkKey(e, "hybrid", req) = LinkKey(c, "hybrid", req)
      BY <3>7, <3>9
    <3>5. j <= k
      <4>1. c.title \in BOOLEAN /\ c.emphasized \in BOOLEAN
        BY <1>1, <3>1, IndexIs
      <4>2. Boosted(y, c, "hybrid") <= Boosted(yy, c, "hybrid")
        BY <2>6, <4>1, BoostedGrows
      <4>3. Boosted(y, c, "hybrid") \in Int /\ Boosted(yy, c, "hybrid") \in Int
        BY <4>1, BoostedIs
      <4> QED
        BY <3>2, <3>3, <4>2, <4>3 DEF BoostKey, SortKey
    <3> QED
      BY <3>1, <3>2, <3>3, <3>4, <3>5
  <2>8. BoostKey(x, chunks[b], "hybrid") = - x /\ LinkKey(chunks[b], "hybrid", req) = 0
    BY <2>4, <2>5, UnboostedKeys
  <2>9. BoostKey(xx, d[b], "hybrid") = - xx /\ LinkKey(d[b], "hybrid", req) = 0
    <3>1. d[b].title = chunks[b].title /\ d[b].emphasized = chunks[b].emphasized
          /\ d[b].links = chunks[b].links
      BY <2>2, <2>4 DEF IsBetter
    <3>2. Unboosted(d[b])
      BY <2>4, <3>1 DEF Unboosted
    <3> QED
      BY <1>1, <2>4, <2>5, <3>2, UnboostedKeys
  <2>10. /\ ScoreOf(M, b) = xx /\ ScoreOf(M, i) = yy
         /\ Place(M, b) = Place(C, b) /\ Place(M, i) = Place(C, i)
    <3>1. b \in TakenOf(C, T, limit) /\ i \in TakenOf(C, T, limit)
      BY <1>4, <1>9, <2>1
    <3> QED
      BY <1>4, <1>5, <1>7, <2>3, <2>5, <3>1 DEF IsTaken
  <2>11. \/ (- xx) + 0 < l + q
         \/ /\ (- xx) + 0 = l + q
            /\ - xx < l \/ (- xx = l /\ Place(C, b) < Place(C, i))
    BY <1>4, <1>9, <2>1, <2>5, <2>7, <2>9, <2>10 DEF IsFinal
  <2>12. Place(C, b) < Place(C, i) <=> (- xx < - yy \/ (xx = yy /\ b < i))
    BY <1>7, <2>3, <2>5 DEF IsBase, SortKey
  <2>13. b \in Nat /\ i \in Nat
    BY <1>6, <1>7, <2>3
  <2>14. /\ - x < - y \/ (x = y /\ b < i)
         /\ \/ - x < k + q
            \/ - x = k + q /\ (- x < k \/ (- x = k /\ (- x < - y \/ (x = y /\ b < i))))
    <3>1. - x <= - xx /\ l + q <= k + q /\ k + q <= - y
      BY <2>5, <2>6, <2>7
    <3>2. CASE - x < k + q
      BY <2>5, <2>7, <3>1, <3>2
    <3>3. CASE ~ (- x < k + q)
      <4>1. x = xx /\ l = k /\ - x = k + q
        BY <2>5, <2>6, <2>7, <2>11, <3>1, <3>3
      <4>2. - xx < l \/ (- xx = l /\ (- xx < - yy \/ (xx = yy /\ b < i)))
        BY <2>5, <2>7, <2>11, <2>12, <4>1
      <4> QED
        BY <2>5, <2>6, <2>7, <4>1, <4>2
    <3> QED
      BY <3>2, <3>3
  <2>15. Place(B, b) < Place(B, i) <=> (- x < - y \/ (x = y /\ b < i))
    BY <1>7, <2>3, <2>5 DEF IsBase, SortKey
  <2>16. Place(B, b) <= limit
    BY <1>6, <1>7, <2>3, <2>14, <2>15
  <2>17. b \in U
    BY <1>2, <2>3, <2>4, <2>16 DEF HybridIds, TakenOf, Passing
  <2>18. /\ ScoreOf(L, b) = x /\ ScoreOf(L, i) = y
         /\ Place(L, b) = Place(B, b) /\ Place(L, i) = Place(B, i)
    <3>1. b \in TakenOf(B, T, limit) /\ i \in TakenOf(B, T, limit)
      BY <1>3, <1>10, <2>17
    <3> QED
      BY <1>3, <1>5, <1>7, <2>3, <2>5, <3>1 DEF IsTaken
  <2>19. \/ (- x) + 0 < k + q
         \/ (- x) + 0 = k + q /\ (- x < k \/ (- x = k /\ Place(L, b) < Place(L, i)))
    BY <2>5, <2>14, <2>15, <2>18
  <2>20. Place(R, b) < Place(R, i)
    BY <1>3, <1>10, <2>5, <2>7, <2>8, <2>17, <2>18, <2>19 DEF IsFinal
  <2> QED
    BY <2>17, <2>20 DEF AheadIn
<1>12. Place(N, i) <= Place(R, i)
  BY <1>9, <1>10, <1>11, AheadPlaces
<1> QED
  BY <1>2, <1>9, <1>12

(* The two lists that are fused.                                           *)
TextIds(chunks, n) == TakenOf(TextBase(chunks), TextHits(chunks), n)
NearIds(chunks, n) == TakenOf(VectorBase(chunks), VectorHits(chunks), n) \cap Here(chunks)

LEMMA TextListIs ==
  ASSUME NEW chunks, IsIndex(chunks), NEW n \in Nat
  PROVE  /\ IsTaken(Take(TextBase(chunks), n), TextIds(chunks, n), TextBase(chunks),
                    TextHits(chunks), n)
         /\ IsList(Take(TextBase(chunks), n), TextIds(chunks, n))
         /\ TextIds(chunks, n) \in SUBSET DOMAIN chunks
         /\ \A filtering : IsBoosted(SearchFts(chunks, n, filtering), Take(TextBase(chunks), n),
                                     Passing(chunks, TextIds(chunks, n), filtering), chunks, "fts")
<1>1. PICK B, T : B = TextBase(chunks) /\ T = TextHits(chunks)
  OBVIOUS
<1>2. IsList(B, T) /\ T \in SUBSET DOMAIN chunks
  BY <1>1, TextBaseIs DEF IsBase
<1>3. PICK L, U : L = Take(B, n) /\ U = TakenOf(B, T, n)
  OBVIOUS
<1>4. IsTaken(L, U, B, T, n)
  BY <1>2, <1>3, TakeIs
<1>5. IsList(L, U) /\ U \in SUBSET DOMAIN chunks
  BY <1>2, <1>4 DEF IsTaken
<1>6. Fit(L, U, "fts")
  BY DEF Fit
<1>7. \A filtering : IsBoosted(FilterAndBoost(chunks, L, "fts", filtering), L,
                               Passing(chunks, U, filtering), chunks, "fts")
  BY <1>5, <1>6, FilterAndBoostIs
<1>8. \A filtering : SearchFts(chunks, n, filtering) = FilterAndBoost(chunks, L, "fts", filtering)
  BY <1>1, <1>3, StagesAre
<1> QED
  BY <1>1, <1>3, <1>4, <1>5, <1>7, <1>8 DEF TextIds

LEMMA NearestIs ==
  ASSUME NEW chunks, IsIndex(chunks), NEW n \in Nat
  PROVE  IsTaken(Nearest(chunks, n), TakenOf(VectorBase(chunks), VectorHits(chunks), n),
                 VectorBase(chunks), VectorHits(chunks), n)
<1>1. PICK B, T : B = VectorBase(chunks) /\ T = VectorHits(chunks)
  OBVIOUS
<1>2. IsList(B, T)
  BY <1>1, VectorBaseIs DEF IsBase
<1>3. IsTaken(Take(B, n), TakenOf(B, T, n), B, T, n)
  BY <1>2, TakeIs
<1>4. Nearest(chunks, n) = Take(B, n)
  BY <1>1, StagesAre
<1> QED
  BY <1>1, <1>3, <1>4

LEMMA NearListIs ==
  ASSUME NEW chunks, IsIndex(chunks), NEW n \in Nat
  PROVE  /\ IsAmong(NearHere(chunks, n), NearIds(chunks, n), Nearest(chunks, n))
         /\ IsList(NearHere(chunks, n), NearIds(chunks, n))
         /\ NearIds(chunks, n) \in SUBSET DOMAIN chunks
         /\ \A filtering : IsBoosted(SearchVec(chunks, n, filtering), NearHere(chunks, n),
                                     Passing(chunks, NearIds(chunks, n), filtering), chunks, "vec")
<1>1. PICK L, U, M, V : L = Nearest(chunks, n) /\ M = NearHere(chunks, n)
                        /\ U = TakenOf(VectorBase(chunks), VectorHits(chunks), n)
                        /\ V = NearIds(chunks, n)
  OBVIOUS
<1>2. IsList(L, U)
  BY <1>1, NearestIs DEF IsTaken
<1>3. M = Among(L, Here(chunks)) /\ V = U \cap Here(chunks)
  BY <1>1 DEF NearHere, NearIds
<1>4. IsAmong(M, V, L)
  BY <1>2, <1>3, AmongIs
<1>5. IsList(M, V) /\ V \in SUBSET DOMAIN chunks
  BY <1>3, <1>4 DEF IsAmong, Here
<1>6. Fit(M, V, "vec")
  BY DEF Fit
<1>7. \A filtering : IsBoosted(FilterAndBoost(chunks, M, "vec", filtering), M,
                               Passing(chunks, V, filtering), chunks, "vec")
  BY <1>5, <1>6, FilterAndBoostIs
<1>8. \A filtering : SearchVec(chunks, n, filtering) = FilterAndBoost(chunks, M, "vec", filtering)
  BY <1>1, StagesAre
<1> QED
  BY <1>1, <1>4, <1>5, <1>7, <1>8

LEMMA ShortLists ==
  ASSUME NEW chunks, IsIndex(chunks), NEW L, NEW T, IsList(L, T), T \in SUBSET DOMAIN chunks
  PROVE  Len(L) <= Len(chunks) /\ Len(L) \in Nat /\ Len(chunks) \in Nat
<1>1. Len(chunks) \in Nat /\ DOMAIN chunks = 1 .. Len(chunks)
  BY IndexIs, SMTT(40)
<1>2. PICK n \in Nat : n = Len(chunks) /\ DOMAIN chunks = 1 .. n
  BY <1>1
<1>3. IsFiniteSet(1 .. n) /\ Cardinality(1 .. n) = n
  <2>1. /\ IsFiniteSet(1 .. n)
        /\ Cardinality(1 .. n) = IF 1 > n THEN 0 ELSE n - 1 + 1
    BY FS_Interval
  <2> QED
    BY <1>2, <2>1
<1>4. IsFiniteSet(T) /\ Cardinality(T) = Len(L)
  BY ListIsFinite
<1>5. Cardinality(T) <= Cardinality(1 .. n)
  BY <1>2, <1>3, FS_Subset
<1>6. Len(L) \in Nat
  BY PlaceIs
<1> QED
  BY <1>2, <1>3, <1>4, <1>5, <1>6, SMTT(40)

LEMMA PassingAll ==
  ASSUME NEW chunks, NEW T
  PROVE  Passing(chunks, T, FALSE) = T
BY DEF Passing

LEMMA FusedListsAre ==
  ASSUME NEW chunks, IsIndex(chunks), Len(chunks) <= MaxRank, NEW n \in Nat, NEW m \in Nat
  PROVE  /\ IsList(SearchFts(chunks, n, FALSE), TextIds(chunks, n))
         /\ IsList(SearchVec(chunks, m, FALSE), NearIds(chunks, m))
         /\ Len(SearchFts(chunks, n, FALSE)) <= MaxRank
         /\ Len(SearchVec(chunks, m, FALSE)) <= MaxRank
<1>1. PICK L, M : L = SearchFts(chunks, n, FALSE) /\ M = SearchVec(chunks, m, FALSE)
  OBVIOUS
<1>2. IsList(L, TextIds(chunks, n)) /\ TextIds(chunks, n) \in SUBSET DOMAIN chunks
  BY <1>1, TextListIs, PassingAll DEF IsBoosted
<1>3. IsList(M, NearIds(chunks, m)) /\ NearIds(chunks, m) \in SUBSET DOMAIN chunks
  BY <1>1, NearListIs, PassingAll DEF IsBoosted
<1>4. Len(L) <= Len(chunks) /\ Len(L) \in Nat /\ Len(chunks) \in Nat
  BY <1>2, ShortLists
<1>5. Len(M) <= Len(chunks) /\ Len(M) \in Nat
  BY <1>3, ShortLists
<1>6. Len(L) <= MaxRank /\ Len(M) <= MaxRank
  <2>1. MaxRank \in Nat
    BY RankingAssumption
  <2>2. PICK p \in Nat, q \in Nat, r \in Nat : p = Len(L) /\ q = Len(M) /\ r = Len(chunks)
    BY <1>4, <1>5
  <2> QED
    BY <1>4, <1>5, <2>1, <2>2
<1> QED
  BY <1>1, <1>2, <1>3, <1>6

(* The fused list of a hybrid search.                                      *)
HybridFound(chunks, limit, pool) == TextIds(chunks, 2 * limit) \cup NearIds(chunks, pool)
HybridScores(chunks, limit, pool, weights) ==
  FusedScores(SearchFts(chunks, 2 * limit, FALSE), SearchVec(chunks, pool, FALSE),
              HybridFound(chunks, limit, pool), weights)
HybridBase(chunks, limit, pool, weights) ==
  FusedBase(SearchFts(chunks, 2 * limit, FALSE), SearchVec(chunks, pool, FALSE),
            HybridFound(chunks, limit, pool), weights)

LEMMA HybridIs ==
  ASSUME NEW chunks, IsIndex(chunks), Len(chunks) <= MaxRank, NEW limit \in Nat, NEW pool \in Nat,
         NEW weights, AreWeights(weights)
  PROVE  /\ SearchHybrid(chunks, limit, pool, weights)
              = FilterAndBoost(chunks, Take(HybridBase(chunks, limit, pool, weights), limit),
                               "hybrid", TRUE)
         /\ IsBase(HybridBase(chunks, limit, pool, weights), HybridFound(chunks, limit, pool),
                   HybridScores(chunks, limit, pool, weights), "hybrid")
         /\ HybridScores(chunks, limit, pool, weights) \in [HybridFound(chunks, limit, pool) -> Nat]
         /\ HybridFound(chunks, limit, pool) \in SUBSET DOMAIN chunks
<1>1. PICK n \in Nat : n = 2 * limit
  OBVIOUS
<1>2. PICK L, M, T, U : /\ L = SearchFts(chunks, n, FALSE) /\ M = SearchVec(chunks, pool, FALSE)
                        /\ T = TextIds(chunks, n) /\ U = NearIds(chunks, pool)
  OBVIOUS
<1>3. /\ IsList(L, T) /\ IsList(M, U) /\ Len(L) <= MaxRank /\ Len(M) <= MaxRank
  BY <1>2, FusedListsAre
<1>9. PICK ids : ids = T \cup U
  OBVIOUS
<1>4. ids \in SUBSET DOMAIN chunks
  BY <1>2, <1>9, TextListIs, NearListIs
<1>5. IsFusion(L, M, ids, limit, weights)
  BY <1>3, <1>9, FusedIs
<1>7. SearchHybrid(chunks, limit, pool, weights)
        = FilterAndBoost(chunks, Fused(L, M, limit, weights), "hybrid", TRUE)
  BY <1>1, <1>2 DEF SearchHybrid
<1> QED
  BY <1>1, <1>2, <1>4, <1>5, <1>7, <1>9 DEF IsFusion, HybridFound, HybridScores, HybridBase

(***************************************************************************)
(* A boost helps.                                                          *)
(***************************************************************************)
LEMMA BoostRaises ==
  ASSUME NEW chunks, IsIndex(chunks), NEW i, NEW d, IsBetter(d, chunks, i),
         NEW L, NEW T, IsList(L, T), T \in SUBSET DOMAIN chunks, NEW mode, mode # "hybrid",
         NEW M, IsBoosted(M, L, T, chunks, mode), NEW N, IsBoosted(N, L, T, d, mode)
  PROVE  /\ IsRaise(M, N, T, i)
         /\ (d[i].title = chunks[i].title /\ d[i].emphasized = chunks[i].emphasized) => N = M
<1>1. IsList(M, T) /\ IsList(N, T) /\ IsIndex(d) /\ DOMAIN d = DOMAIN chunks
  BY DEF IsBoosted, IsBetter
<1>2. ASSUME NEW a \in T
      PROVE  /\ ScoreOf(M, a) \in Int /\ ScoreOf(N, a) \in Int
             /\ SortKey(ScoreOf(N, a), mode) <= SortKey(ScoreOf(M, a), mode)
             /\ a # i => ScoreOf(N, a) = ScoreOf(M, a)
             /\ (d[i].title = chunks[i].title /\ d[i].emphasized = chunks[i].emphasized)
                  => ScoreOf(N, a) = ScoreOf(M, a)
  <2>1. PICK s \in Int : s = ScoreOf(L, a)
    BY <1>2, PlaceIs
  <2>2. PICK c, e : c = chunks[a] /\ e = d[a]
    OBVIOUS
  <2>3. a \in DOMAIN chunks /\ a \in DOMAIN d
    BY <1>1, <1>2
  <2>4. /\ c.title \in BOOLEAN /\ c.emphasized \in BOOLEAN
        /\ e.title \in BOOLEAN /\ e.emphasized \in BOOLEAN
    BY <1>1, <2>2, <2>3, IndexIs
  <2>5. Boosted(s, c, mode) \in Int /\ Boosted(s, e, mode) \in Int
    <3>1. Boosted(s, c, mode) \in Int
      BY <2>4, BoostedIs
    <3>2. Boosted(s, e, mode) \in Int
      BY <2>4, BoostedIs
    <3> QED
      BY <3>1, <3>2
  <2>6. (c.title => e.title) /\ (c.emphasized => e.emphasized)
    BY <2>2, <2>3, <2>4 DEF IsBetter
  <2>7. SortKey(Boosted(s, e, mode), mode) <= SortKey(Boosted(s, c, mode), mode)
    BY <2>4, <2>6, BoostedMore
  <2>8. (e.title = c.title /\ e.emphasized = c.emphasized) =>
          Boosted(s, e, mode) = Boosted(s, c, mode)
    BY BoostedAlike
  <2>9. a # i => e.title = c.title /\ e.emphasized = c.emphasized
    BY <2>2, <2>3 DEF IsBetter
  <2>10. ScoreOf(M, a) = Boosted(s, c, mode) /\ ScoreOf(N, a) = Boosted(s, e, mode)
    BY <1>2, <2>1, <2>2 DEF IsBoosted
  <2>11. (d[i].title = chunks[i].title /\ d[i].emphasized = chunks[i].emphasized) =>
           e.title = c.title /\ e.emphasized = c.emphasized
    BY <2>2, <2>9
  <2> QED
    BY <2>5, <2>7, <2>8, <2>9, <2>10, <2>11
<1>3. IsRaise(M, N, T, i)
  <2>1. SUFFICES ASSUME NEW a \in T, NEW b \in T, b # i, Place(M, a) < Place(M, b)
                 PROVE  Place(N, a) < Place(N, b)
    BY DEF IsRaise
  <2>2. PICK s \in Int, t \in Int, ss \in Int, tt \in Int :
          /\ s = ScoreOf(M, a) /\ t = ScoreOf(M, b) /\ ss = ScoreOf(N, a) /\ tt = ScoreOf(N, b)
    BY <1>2
  <2>3. SortKey(ss, mode) <= SortKey(s, mode) /\ tt = t
    BY <1>2, <2>1, <2>2
  <2>4. SortKey(s, mode) < SortKey(t, mode) \/ (s = t /\ Place(L, a) < Place(L, b))
    BY <2>1, <2>2 DEF IsBoosted
  <2>5. SortKey(ss, mode) < SortKey(tt, mode) \/ (ss = tt /\ Place(L, a) < Place(L, b))
    BY <2>2, <2>3, <2>4 DEF SortKey
  <2> QED
    BY <2>2, <2>5 DEF IsBoosted
<1>4. ASSUME d[i].title = chunks[i].title, d[i].emphasized = chunks[i].emphasized
      PROVE  N = M
  <2>1. \A a \in T : ScoreOf(N, a) = ScoreOf(M, a)
    BY <1>2, <1>4
  <2>2. \A a, b \in T : Place(N, a) < Place(N, b) <=> Place(M, a) < Place(M, b)
    BY <2>1 DEF IsBoosted
  <2> QED
    BY <1>1, <2>1, <2>2, SameLists
<1> QED
  BY <1>3, <1>4

(* The lists that are fused, of the index and of the boosted one.          *)
AreRaised(chunks, d, i, n, m) ==
  /\ TextIds(d, n) = TextIds(chunks, n) /\ NearIds(d, m) = NearIds(chunks, m)
  /\ IsRaise(SearchFts(chunks, n, FALSE), SearchFts(d, n, FALSE), TextIds(chunks, n), i)
  /\ IsRaise(SearchVec(chunks, m, FALSE), SearchVec(d, m, FALSE), NearIds(chunks, m), i)
  /\ (d[i].title = chunks[i].title /\ d[i].emphasized = chunks[i].emphasized) =>
       /\ SearchFts(d, n, FALSE) = SearchFts(chunks, n, FALSE)
       /\ SearchVec(d, m, FALSE) = SearchVec(chunks, m, FALSE)

LEMMA BetterLists ==
  ASSUME NEW chunks, IsIndex(chunks), NEW i, NEW d, IsBetter(d, chunks, i),
         NEW n \in Nat, NEW m \in Nat
  PROVE  AreRaised(chunks, d, i, n, m)
<1>1. IsIndex(d) /\ DOMAIN d = DOMAIN chunks
  BY DEF IsBetter
<1>2. /\ TextBase(d) = TextBase(chunks) /\ VectorBase(d) = VectorBase(chunks)
      /\ NearHere(d, m) = NearHere(chunks, m)
  BY SameBases
<1>3. TextHits(d) = TextHits(chunks) /\ VectorHits(d) = VectorHits(chunks) /\ Here(d) = Here(chunks)
  BY DEF IsBetter, TextHits, VectorHits, Here
<1>4. TextIds(d, n) = TextIds(chunks, n) /\ NearIds(d, m) = NearIds(chunks, m)
  BY <1>2, <1>3 DEF TextIds, NearIds
<1>5. PICK L, T, M, N : /\ L = Take(TextBase(chunks), n) /\ T = TextIds(chunks, n)
                        /\ M = SearchFts(chunks, n, FALSE) /\ N = SearchFts(d, n, FALSE)
  OBVIOUS
<1>6. IsList(L, T) /\ T \in SUBSET DOMAIN chunks /\ IsBoosted(M, L, T, chunks, "fts")
  BY <1>5, TextListIs, PassingAll
<1>7. IsBoosted(N, L, T, d, "fts")
  BY <1>1, <1>2, <1>4, <1>5, TextListIs, PassingAll
<1>8. PICK mode : mode = "fts"
  OBVIOUS
<1>9. /\ IsRaise(M, N, T, i)
      /\ (d[i].title = chunks[i].title /\ d[i].emphasized = chunks[i].emphasized) => N = M
  BY <1>6, <1>7, <1>8, BoostRaises
<1>10. PICK P, U, Q, S : /\ P = NearHere(chunks, m) /\ U = NearIds(chunks, m)
                         /\ Q = SearchVec(chunks, m, FALSE) /\ S = SearchVec(d, m, FALSE)
  OBVIOUS
<1>11. IsList(P, U) /\ U \in SUBSET DOMAIN chunks /\ IsBoosted(Q, P, U, chunks, "vec")
  BY <1>10, NearListIs, PassingAll
<1>12. IsBoosted(S, P, U, d, "vec")
  BY <1>1, <1>2, <1>4, <1>10, NearListIs, PassingAll
<1>13. PICK near : near = "vec"
  OBVIOUS
<1>14. /\ IsRaise(Q, S, U, i)
       /\ (d[i].title = chunks[i].title /\ d[i].emphasized = chunks[i].emphasized) => S = Q
  BY <1>11, <1>12, <1>13, BoostRaises
<1> QED
  BY <1>4, <1>5, <1>9, <1>10, <1>14 DEF AreRaised

LEMMA BetterScores ==
  ASSUME NEW chunks, IsIndex(chunks), Len(chunks) <= MaxRank, NEW i, NEW d,
         IsBetter(d, chunks, i), NEW limit \in Nat, NEW pool \in Nat,
         NEW weights, AreWeights(weights), NEW T, T = HybridFound(chunks, limit, pool),
         NEW sc, sc = HybridScores(chunks, limit, pool, weights),
         NEW sd, sd = HybridScores(d, limit, pool, weights)
  PROVE  /\ HybridFound(d, limit, pool) = T
         /\ i \in T => sc[i] <= sd[i]
         /\ \A a \in T : a # i => sd[a] <= sc[a]
         /\ (d[i].title = chunks[i].title /\ d[i].emphasized = chunks[i].emphasized) =>
              HybridBase(d, limit, pool, weights) = HybridBase(chunks, limit, pool, weights)
<1>1. PICK n \in Nat : n = 2 * limit
  OBVIOUS
<1>2. PICK U, V, L, M, P, Q : /\ U = TextIds(chunks, n) /\ V = NearIds(chunks, pool)
                              /\ L = SearchFts(chunks, n, FALSE) /\ M = SearchFts(d, n, FALSE)
                              /\ P = SearchVec(chunks, pool, FALSE) /\ Q = SearchVec(d, pool, FALSE)
  OBVIOUS
<1>3. IsIndex(d) /\ Len(d) <= MaxRank
  <2>1. IsIndex(d) /\ DOMAIN d = DOMAIN chunks
    BY DEF IsBetter
  <2>2. DOMAIN d = 1 .. Len(d) /\ Len(d) \in Nat
    BY <2>1, IndexIs
  <2>3. DOMAIN chunks = 1 .. Len(chunks) /\ Len(chunks) \in Nat
    BY IndexIs, SMTT(40)
  <2>4. PICK p \in Nat, q \in Nat : p = Len(d) /\ q = Len(chunks)
    BY <2>2, <2>3
  <2>5. 1 .. p = 1 .. q
    BY <2>1, <2>2, <2>3, <2>4
  <2>6. p = q
    <3>1. p \in 1 .. p \/ p = 0
      BY <2>4
    <3>2. q \in 1 .. q \/ q = 0
      BY <2>4
    <3> QED
      BY <2>5, <3>1, <3>2
  <2> QED
    BY <2>1, <2>4, <2>6
<1>4. /\ TextIds(d, n) = U /\ NearIds(d, pool) = V
      /\ IsRaise(L, M, U, i) /\ IsRaise(P, Q, V, i)
      /\ (d[i].title = chunks[i].title /\ d[i].emphasized = chunks[i].emphasized) =>
           M = L /\ Q = P
  <2>1. AreRaised(chunks, d, i, n, pool)
    BY BetterLists
  <2> QED
    BY <1>2, <2>1 DEF AreRaised
<1>5. IsList(L, U) /\ IsList(P, V) /\ Len(L) <= MaxRank /\ Len(P) <= MaxRank
  BY <1>2, FusedListsAre
<1>6. IsList(M, U) /\ IsList(Q, V) /\ Len(M) <= MaxRank /\ Len(Q) <= MaxRank
  BY <1>2, <1>3, <1>4, FusedListsAre
<1>7. T = U \cup V /\ HybridFound(d, limit, pool) = T
  BY <1>1, <1>2, <1>4 DEF HybridFound
<1>8. sc = FusedScores(L, P, T, weights) /\ sd = FusedScores(M, Q, T, weights)
  BY <1>1, <1>2, <1>7 DEF HybridScores
<1>9. PICK v \in Nat, w \in Nat : v = weights[1] /\ w = weights[2]
  BY DEF AreWeights
<1>10. ASSUME NEW a \in T
       PROVE  /\ sc[a] = Reciprocal(L, a, v) + Reciprocal(P, a, w)
              /\ sd[a] = Reciprocal(M, a, v) + Reciprocal(Q, a, w)
              /\ Reciprocal(L, a, v) \in Nat /\ Reciprocal(P, a, w) \in Nat
              /\ Reciprocal(M, a, v) \in Nat /\ Reciprocal(Q, a, w) \in Nat
  <2>1. Reciprocal(L, a, v) \in Nat
    BY <1>5, ReciprocalIs
  <2>2. Reciprocal(P, a, w) \in Nat
    BY <1>5, ReciprocalIs
  <2>3. Reciprocal(M, a, v) \in Nat
    BY <1>6, ReciprocalIs
  <2>4. Reciprocal(Q, a, w) \in Nat
    BY <1>6, ReciprocalIs
  <2> QED
    BY <1>8, <1>9, <1>10, <2>1, <2>2, <2>3, <2>4 DEF FusedScores
<1>11. \A a \in U : IF a = i THEN Place(M, a) <= Place(L, a) ELSE Place(L, a) <= Place(M, a)
  BY <1>4, <1>5, <1>6, RaisePlaces
<1>12. \A a \in V : IF a = i THEN Place(Q, a) <= Place(P, a) ELSE Place(P, a) <= Place(Q, a)
  BY <1>4, <1>5, <1>6, RaisePlaces
<1>13. i \in T => sc[i] <= sd[i]
  <2>1. Reciprocal(L, i, v) <= Reciprocal(M, i, v)
    BY <1>5, <1>6, <1>11, FurtherUpGivesMore
  <2>2. Reciprocal(P, i, w) <= Reciprocal(Q, i, w)
    BY <1>5, <1>6, <1>12, FurtherUpGivesMore
  <2> QED
    BY <1>10, <2>1, <2>2
<1>14. ASSUME NEW a \in T, a # i PROVE sd[a] <= sc[a]
  <2>1. Reciprocal(M, a, v) <= Reciprocal(L, a, v)
    BY <1>5, <1>6, <1>11, <1>14, FurtherUpGivesMore
  <2>2. Reciprocal(Q, a, w) <= Reciprocal(P, a, w)
    BY <1>5, <1>6, <1>12, <1>14, FurtherUpGivesMore
  <2> QED
    BY <1>10, <2>1, <2>2
<1>15. (d[i].title = chunks[i].title /\ d[i].emphasized = chunks[i].emphasized) =>
         HybridBase(d, limit, pool, weights) = HybridBase(chunks, limit, pool, weights)
  BY <1>1, <1>2, <1>4, <1>7 DEF HybridBase
<1> QED
  BY <1>7, <1>13, <1>14, <1>15

(* What a boost does to the place of its chunk.                            *)
IsPlaced(R, i, k) == k \in DOMAIN R /\ R[k].id = i
IsNoFurther(N, R, i) == \A k : IsPlaced(R, i, k) => \E l : IsPlaced(N, i, l) /\ l <= k

LEMMA NoFurther ==
  ASSUME NEW R, NEW U, IsList(R, U), NEW N, NEW V, IsList(N, V), NEW i,
         i \in U => i \in V /\ Place(N, i) <= Place(R, i)
  PROVE  IsNoFurther(N, R, i)
<1>1. SUFFICES ASSUME NEW k, IsPlaced(R, i, k)
               PROVE  \E l : IsPlaced(N, i, l) /\ l <= k
  BY DEF IsNoFurther
<1>2. i \in U /\ Place(R, i) = k
  BY <1>1, PlaceIs DEF IsPlaced
<1>3. Place(N, i) \in DOMAIN N /\ N[Place(N, i)].id = i
  <2>1. i \in V
    BY <1>2
  <2>2. DOMAIN N = 1 .. Len(N) /\ Place(N, i) \in 1 .. Len(N) /\ N[Place(N, i)].id = i
    BY <2>1, PlaceIs
  <2> QED
    BY <2>2
<1> QED
  BY <1>2, <1>3 DEF IsPlaced

LEMMA TakenNoFurther ==
  ASSUME NEW R, NEW U, IsList(R, U), NEW N, IsList(N, U), NEW i, NEW n \in Nat,
         i \in U => Place(N, i) <= Place(R, i)
  PROVE  IsNoFurther(Take(N, n), Take(R, n), i)
<1>1. PICK P, Q, S, T : /\ P = Take(R, n) /\ S = TakenOf(R, U, n)
                        /\ Q = Take(N, n) /\ T = TakenOf(N, U, n)
  OBVIOUS
<1>2. IsTaken(P, S, R, U, n)
  BY <1>1, TakeIs
<1>3. IsTaken(Q, T, N, U, n)
  BY <1>1, TakeIs
<1>4. IsList(P, S) /\ IsList(Q, T)
  BY <1>2, <1>3 DEF IsTaken
<1>5. i \in S => i \in T /\ Place(Q, i) <= Place(P, i)
  <2>1. HAVE i \in S
  <2>2. i \in U /\ Place(R, i) <= n /\ Place(P, i) = Place(R, i)
    BY <1>2, <2>1 DEF IsTaken
  <2>3. Len(R) \in Nat /\ Place(R, i) \in 1 .. Len(R)
    BY <2>2, PlaceIs
  <2>4. Len(N) \in Nat /\ Place(N, i) \in 1 .. Len(N)
    BY <2>2, PlaceIs
  <2>5. Place(N, i) <= n
    BY <2>2, <2>3, <2>4
  <2>6. i \in T
    BY <1>3, <2>2, <2>5 DEF IsTaken
  <2> QED
    BY <1>3, <2>2, <2>6 DEF IsTaken
<1> QED
  BY <1>1, <1>4, <1>5, NoFurther

LEMMA SamePassing ==
  ASSUME NEW chunks, NEW d, NEW i, IsBetter(d, chunks, i), NEW T \in SUBSET DOMAIN chunks
  PROVE  Passing(d, T, TRUE) = Passing(chunks, T, TRUE)
BY DEF IsBetter, Passing

LEMMA TextSearchIs ==
  ASSUME NEW chunks, NEW req, ModeOf(req) = "fts", NEW n, n = req.limit + 1
  PROVE  Search(chunks, req) =
           Take(Linked(chunks, FilterAndBoost(chunks, Take(TextBase(chunks), n), "fts", TRUE),
                       "fts", req), req.limit)
<1>1. SearchFts(chunks, n, TRUE) = FilterAndBoost(chunks, Take(TextBase(chunks), n), "fts", TRUE)
  BY StagesAre
<1>2. Search(chunks, req) = Take(Linked(chunks, SearchFts(chunks, n, TRUE), "fts", req), req.limit)
  BY SearchIs
<1> QED
  BY <1>1, <1>2

LEMMA VectorSearchIs ==
  ASSUME NEW chunks, NEW req, ModeOf(req) = "vec", NEW n, n = PoolOf(req), ~ req.mmr
  PROVE  Search(chunks, req) =
           Linked(chunks, FilterAndBoost(chunks, NearHere(chunks, n), "vec", TRUE), "vec", req)
<1>1. SearchVec(chunks, n, TRUE) = FilterAndBoost(chunks, NearHere(chunks, n), "vec", TRUE)
  BY StagesAre
<1>2. Search(chunks, req) = Linked(chunks, SearchVec(chunks, n, TRUE), "vec", req)
  BY SearchIs DEF Diversified
<1> QED
  BY <1>1, <1>2

LEMMA BetterText ==
  ASSUME NEW chunks, IsIndex(chunks), NEW i, NEW d, IsBetter(d, chunks, i), NEW req \in Request,
         ModeOf(req) = "fts"
  PROVE  IsNoFurther(Search(d, req), Search(chunks, req), i)
<1>1. IsIndex(d) /\ DOMAIN d = DOMAIN chunks
  BY DEF IsBetter
<1>2. PICK limit \in Nat, n \in Nat : limit = req.limit /\ n = limit + 1
  <2>1. req.limit \in Nat
    BY RequestIs
  <2> QED
    BY <2>1
<1>3. PICK L, T, U, mode : /\ L = Take(TextBase(chunks), n) /\ T = TextIds(chunks, n)
                           /\ U = Passing(chunks, T, TRUE) /\ mode = "fts"
  OBVIOUS
<1>4. IsList(L, T) /\ T \in SUBSET DOMAIN chunks
  BY <1>3, TextListIs
<1>5. Fit(L, T, mode)
  BY <1>3 DEF Fit
<1>6. PICK R, N : /\ R = Linked(chunks, FilterAndBoost(chunks, L, mode, TRUE), mode, req)
                  /\ N = Linked(d, FilterAndBoost(d, L, mode, TRUE), mode, req)
  OBVIOUS
<1>7. IsFinal(R, L, U, chunks, mode, req)
  BY <1>3, <1>4, <1>5, <1>6, FinalIs
<1>8. IsFinal(N, L, U, d, mode, req)
  <2>1. U = Passing(d, T, TRUE)
    BY <1>3, <1>4, SamePassing
  <2> QED
    BY <1>1, <1>4, <1>5, <1>6, <2>1, FinalIs
<1>9. U \in SUBSET T
  BY <1>3 DEF Passing
<1>10. i \in U => Place(N, i) <= Place(R, i)
  BY <1>4, <1>5, <1>7, <1>8, <1>9, FinalHelps
<1>11. IsNoFurther(Take(N, limit), Take(R, limit), i)
  <2>1. IsList(R, U) /\ IsList(N, U)
    BY <1>7, <1>8 DEF IsFinal
  <2> QED
    BY <1>10, <2>1, TakenNoFurther
<1>12. Search(chunks, req) = Take(R, limit)
  BY <1>2, <1>3, <1>6, TextSearchIs
<1>13. Search(d, req) = Take(N, limit)
  <2>1. TextBase(d) = TextBase(chunks)
    BY SameBases
  <2> QED
    BY <1>2, <1>3, <1>6, <2>1, TextSearchIs
<1> QED
  BY <1>11, <1>12, <1>13

LEMMA BetterVector ==
  ASSUME NEW chunks, IsIndex(chunks), NEW i, NEW d, IsBetter(d, chunks, i), NEW req \in Request,
         ModeOf(req) = "vec", ~ req.mmr
  PROVE  IsNoFurther(Search(d, req), Search(chunks, req), i)
<1>1. IsIndex(d) /\ DOMAIN d = DOMAIN chunks
  BY DEF IsBetter
<1>2. PICK n \in Nat : n = PoolOf(req)
  BY RequestIs
<1>3. PICK L, T, U, mode : /\ L = NearHere(chunks, n) /\ T = NearIds(chunks, n)
                           /\ U = Passing(chunks, T, TRUE) /\ mode = "vec"
  OBVIOUS
<1>4. IsList(L, T) /\ T \in SUBSET DOMAIN chunks
  BY <1>3, NearListIs
<1>5. Fit(L, T, mode)
  BY <1>3 DEF Fit
<1>6. PICK R, N : /\ R = Linked(chunks, FilterAndBoost(chunks, L, mode, TRUE), mode, req)
                  /\ N = Linked(d, FilterAndBoost(d, L, mode, TRUE), mode, req)
  OBVIOUS
<1>7. IsFinal(R, L, U, chunks, mode, req)
  BY <1>3, <1>4, <1>5, <1>6, FinalIs
<1>8. IsFinal(N, L, U, d, mode, req)
  <2>1. U = Passing(d, T, TRUE)
    BY <1>3, <1>4, SamePassing
  <2> QED
    BY <1>1, <1>4, <1>5, <1>6, <2>1, FinalIs
<1>9. U \in SUBSET T
  BY <1>3 DEF Passing
<1>10. i \in U => Place(N, i) <= Place(R, i)
  BY <1>4, <1>5, <1>7, <1>8, <1>9, FinalHelps
<1>11. IsNoFurther(N, R, i)
  <2>1. IsList(R, U) /\ IsList(N, U)
    BY <1>7, <1>8 DEF IsFinal
  <2> QED
    BY <1>10, <2>1, NoFurther
<1>12. Search(chunks, req) = R
  BY <1>2, <1>3, <1>6, VectorSearchIs
<1>13. Search(d, req) = N
  <2>1. NearHere(d, n) = NearHere(chunks, n)
    BY SameBases
  <2> QED
    BY <1>2, <1>3, <1>6, <2>1, VectorSearchIs
<1> QED
  BY <1>11, <1>12, <1>13

LEMMA HybridSearchIs ==
  ASSUME NEW chunks, IsIndex(chunks), Len(chunks) <= MaxRank, NEW req \in Request,
         ModeOf(req) = "hybrid", ~ req.mmr
  PROVE  /\ Search(chunks, req)
              = HybridEnd(chunks, HybridBase(chunks, req.limit, PoolOf(req), req.weights),
                          req.limit, req)
         /\ req.limit \in Nat /\ PoolOf(req) \in Nat /\ AreWeights(req.weights)
<1>1. req.limit \in Nat /\ PoolOf(req) \in Nat /\ AreWeights(req.weights)
  BY RequestIs DEF AreWeights
<1>2. PICK B : B = HybridBase(chunks, req.limit, PoolOf(req), req.weights)
  OBVIOUS
<1>3. SearchHybrid(chunks, req.limit, PoolOf(req), req.weights)
        = FilterAndBoost(chunks, Take(B, req.limit), "hybrid", TRUE)
  BY <1>1, <1>2, HybridIs
<1>4. Search(chunks, req) = Linked(chunks, FilterAndBoost(chunks, Take(B, req.limit), "hybrid", TRUE),
                                   "hybrid", req)
  BY <1>3, SearchIs, ZenonT(60) DEF Diversified
<1> QED
  BY <1>1, <1>2, <1>4 DEF HybridEnd

LEMMA SameLength ==
  ASSUME NEW chunks, IsIndex(chunks), NEW d, IsIndex(d), DOMAIN d = DOMAIN chunks
  PROVE  Len(d) = Len(chunks)
<1>1. DOMAIN d = 1 .. Len(d) /\ Len(d) \in Nat
  BY IndexIs, SMTT(40)
<1>2. DOMAIN chunks = 1 .. Len(chunks) /\ Len(chunks) \in Nat
  BY IndexIs, SMTT(40)
<1>3. PICK p \in Nat, q \in Nat : p = Len(d) /\ q = Len(chunks)
  BY <1>1, <1>2
<1>4. 1 .. p = 1 .. q
  BY <1>1, <1>2, <1>3
<1>5. (p \in 1 .. p \/ p = 0) /\ (q \in 1 .. q \/ q = 0)
  BY <1>3
<1>6. p = q
  BY <1>4, <1>5
<1> QED
  BY <1>3, <1>6

LEMMA BetterHybrid ==
  ASSUME NEW chunks, IsIndex(chunks), Len(chunks) <= MaxRank, NEW i, NEW d,
         IsBetter(d, chunks, i), NEW req \in Request, ModeOf(req) = "hybrid", ~ req.mmr,
         \/ d[i].links = chunks[i].links /\ Alone(chunks, i)
         \/ d[i].title = chunks[i].title /\ d[i].emphasized = chunks[i].emphasized
  PROVE  IsNoFurther(Search(d, req), Search(chunks, req), i)
<1>1. IsIndex(d) /\ DOMAIN d = DOMAIN chunks
  BY DEF IsBetter
<1>2. PICK limit, pool, weights : limit = req.limit /\ pool = PoolOf(req) /\ weights = req.weights
  OBVIOUS
<1>3. limit \in Nat /\ pool \in Nat /\ AreWeights(weights)
  BY <1>2, HybridSearchIs
<1>4. PICK B, C, T, sc, sd : /\ B = HybridBase(chunks, limit, pool, weights)
                             /\ C = HybridBase(d, limit, pool, weights)
                             /\ T = HybridFound(chunks, limit, pool)
                             /\ sc = HybridScores(chunks, limit, pool, weights)
                             /\ sd = HybridScores(d, limit, pool, weights)
  OBVIOUS
<1>5. PICK R, N, U, V : /\ R = HybridEnd(chunks, B, limit, req) /\ N = HybridEnd(d, C, limit, req)
                        /\ U = HybridIds(chunks, B, T, limit) /\ V = HybridIds(d, C, T, limit)
  OBVIOUS
<1>6. /\ HybridFound(d, limit, pool) = T
      /\ i \in T => sc[i] <= sd[i]
      /\ \A a \in T : a # i => sd[a] <= sc[a]
      /\ (d[i].title = chunks[i].title /\ d[i].emphasized = chunks[i].emphasized) => C = B
  BY <1>3, <1>4, BetterScores
<1>7. IsBase(B, T, sc, "hybrid") /\ sc \in [T -> Nat] /\ T \in SUBSET DOMAIN chunks
  BY <1>3, <1>4, HybridIs
<1>8. IsBase(C, T, sd, "hybrid") /\ sd \in [T -> Nat]
  <2>1. Len(d) = Len(chunks)
    BY <1>1, SameLength
  <2>2. Len(d) <= MaxRank
    BY <2>1
  <2>3. /\ IsBase(HybridBase(d, limit, pool, weights), HybridFound(d, limit, pool),
                 HybridScores(d, limit, pool, weights), "hybrid")
        /\ HybridScores(d, limit, pool, weights) \in [HybridFound(d, limit, pool) -> Nat]
    BY <1>1, <1>3, <2>2, HybridIs
  <2> QED
    BY <1>4, <1>6, <2>3
<1>9. /\ IsFinal(R, Take(B, limit), U, chunks, "hybrid", req)
      /\ IsTaken(Take(B, limit), TakenOf(B, T, limit), B, T, limit)
      /\ U \in SUBSET TakenOf(B, T, limit)
      /\ Fit(Take(B, limit), TakenOf(B, T, limit), "hybrid")
  BY <1>3, <1>5, <1>7, HybridEndIs
<1>10. IsFinal(N, Take(C, limit), V, d, "hybrid", req)
  BY <1>1, <1>3, <1>5, <1>7, <1>8, HybridEndIs
<1>11. i \in U => i \in V /\ Place(N, i) <= Place(R, i)
  <2>1. CASE d[i].links = chunks[i].links /\ Alone(chunks, i)
    BY <1>3, <1>5, <1>6, <1>7, <1>8, <2>1, FusedHelps
  <2>2. CASE d[i].title = chunks[i].title /\ d[i].emphasized = chunks[i].emphasized
    <3>1. C = B
      BY <1>6, <2>2
    <3>2. V = U
      <4>1. TakenOf(B, T, limit) \in SUBSET DOMAIN chunks
        BY <1>7 DEF TakenOf
      <4> QED
        BY <1>5, <3>1, <4>1, SamePassing DEF HybridIds
    <3>3. PICK L, S, mode : L = Take(B, limit) /\ S = TakenOf(B, T, limit) /\ mode = "hybrid"
      OBVIOUS
    <3>4. IsList(L, S) /\ S \in SUBSET DOMAIN chunks /\ U \in SUBSET S /\ Fit(L, S, mode)
      BY <1>7, <1>9, <3>3 DEF IsTaken
    <3>5. IsFinal(R, L, U, chunks, mode, req) /\ IsFinal(N, L, U, d, mode, req)
      BY <1>9, <1>10, <3>1, <3>2, <3>3
    <3>6. i \in U => Place(N, i) <= Place(R, i)
      BY <3>4, <3>5, FinalHelps
    <3> QED
      BY <3>2, <3>6
  <2> QED
    BY <2>1, <2>2
<1>12. IsNoFurther(N, R, i)
  <2>1. IsList(R, U) /\ IsList(N, V)
    BY <1>9, <1>10 DEF IsFinal
  <2> QED
    BY <1>11, <2>1, NoFurther
<1>13. Search(chunks, req) = R
  BY <1>2, <1>4, <1>5, HybridSearchIs
<1>14. Search(d, req) = N
  <2>1. Len(d) = Len(chunks)
    BY <1>1, SameLength
  <2> QED
    BY <1>1, <1>2, <1>4, <1>5, <2>1, HybridSearchIs
<1> QED
  BY <1>12, <1>13, <1>14

(* A chunk whose title or emphasis matches, or that has one more backlink, *)
(* is not placed further down for it (apply_filters_and_boost and          *)
(* compute_rrf_internal of core/src/search.rs), whatever the index.        *)
THEOREM BoostMovesUp ==
  ASSUME NEW chunks, IsIndex(chunks), Len(chunks) <= MaxRank, NEW req \in Request
  PROVE  BoostsHelp(chunks, req)
<1>1. SUFFICES ASSUME ~ req.mmr, NEW i \in DOMAIN chunks,
                      NEW d,
                      \/ d = [chunks EXCEPT ![i].links = @ + 1]
                      \/ /\ \/ d = [chunks EXCEPT ![i].title = TRUE]
                            \/ d = [chunks EXCEPT ![i].emphasized = TRUE]
                         /\ req.mode = "hybrid" => Alone(chunks, i)
               PROVE  IsNoFurther(Search(d, req), Search(chunks, req), i)
  BY DEF BoostsHelp, IsNoFurther, IsPlaced, Alone
<1>2. IsBetter(d, chunks, i)
  BY <1>1, BetterIs, ZenonT(60)
<1>3. \/ d[i].links = chunks[i].links /\ (req.mode = "hybrid" => Alone(chunks, i))
      \/ d[i].title = chunks[i].title /\ d[i].emphasized = chunks[i].emphasized
  <2>1. PICK W : chunks \in Seq(ChunkKinds(W))
    BY DEF IsIndex
  <2>2. PICK c : c = chunks[i] /\ c \in ChunkKinds(W)
    BY <2>1, ElementOfSeq, IndexIs
  <2>6. c.links \in Nat
    BY <2>2 DEF ChunkKinds
  <2>7. d = [chunks EXCEPT ![i].links = @ + 1] => d[i].links = c.links + 1
    <3>1. HAVE d = [chunks EXCEPT ![i].links = @ + 1]
    <3>2. d[i] = [c EXCEPT !.links = @ + 1]
      BY <2>2, <3>1
    <3> QED
      BY <2>2, <3>2 DEF ChunkKinds
  <2>3. CASE d = [chunks EXCEPT ![i].links = @ + 1]
    <3>1. d[i] = [c EXCEPT !.links = @ + 1]
      BY <2>2, <2>3
    <3> QED
      BY <2>2, <3>1 DEF ChunkKinds
  <2>4. CASE d = [chunks EXCEPT ![i].title = TRUE]
    <3>1. d[i] = [c EXCEPT !.title = TRUE]
      BY <2>2, <2>4
    <3>2. d[i].links = c.links
      BY <2>2, <3>1 DEF ChunkKinds
    <3>3. req.mode = "hybrid" => Alone(chunks, i)
      BY <1>1, <2>6, <2>7, <3>2
    <3> QED
      BY <2>2, <3>2, <3>3
  <2>5. CASE d = [chunks EXCEPT ![i].emphasized = TRUE]
    <3>1. d[i] = [c EXCEPT !.emphasized = TRUE]
      BY <2>2, <2>5
    <3>2. d[i].links = c.links
      BY <2>2, <3>1 DEF ChunkKinds
    <3>3. req.mode = "hybrid" => Alone(chunks, i)
      BY <1>1, <2>6, <2>7, <3>2
    <3> QED
      BY <2>2, <3>2, <3>3
  <2> QED
    BY <1>1, <2>3, <2>4, <2>5
<1>4. CASE ModeOf(req) = "fts"
  BY <1>2, <1>4, BetterText
<1>5. CASE ModeOf(req) = "vec"
  BY <1>1, <1>2, <1>5, BetterVector
<1>6. CASE ModeOf(req) = "hybrid"
  <2>1. req.mode = "hybrid"
    BY <1>6 DEF ModeOf
  <2> QED
    BY <1>1, <1>2, <1>3, <1>6, <2>1, BetterHybrid
<1> QED
  BY <1>4, <1>5, <1>6, RequestIs

(***************************************************************************)
(* A search that nothing boosts and nothing filters.                       *)
(***************************************************************************)
LEMMA TakeTwice ==
  ASSUME NEW L, NEW T, IsList(L, T), NEW m \in Nat, NEW n \in Nat, n <= m
  PROVE  Take(Take(L, m), n) = Take(L, n)
<1>1. PICK M, U, N, V, P, W : /\ M = Take(L, m) /\ U = TakenOf(L, T, m)
                              /\ N = Take(L, n) /\ V = TakenOf(L, T, n)
                              /\ P = Take(M, n) /\ W = TakenOf(M, U, n)
  OBVIOUS
<1>2. IsTaken(M, U, L, T, m)
  BY <1>1, TakeIs
<1>3. IsTaken(N, V, L, T, n)
  BY <1>1, TakeIs
<1>4. IsList(M, U) /\ IsList(N, V)
  BY <1>2, <1>3 DEF IsTaken
<1>5. IsTaken(P, W, M, U, n)
  BY <1>1, <1>4, TakeIs
<1>6. W = V
  <2>1. \A a \in T : Place(L, a) \in Nat
    <3>1. Len(L) \in Nat /\ \A a \in T : Place(L, a) \in 1 .. Len(L)
      BY PlaceIs
    <3> QED
      BY <3>1
  <2>2. W \in SUBSET U /\ U \in SUBSET T /\ V \in SUBSET T
    BY <1>2, <1>3, <1>5 DEF IsTaken
  <2>3. ASSUME NEW a \in W PROVE a \in V
    BY <1>2, <1>3, <1>5, <2>2, <2>3 DEF IsTaken
  <2>4. ASSUME NEW a \in V PROVE a \in W
    <3>1. a \in T /\ Place(L, a) <= n /\ Place(L, a) \in Nat
      BY <1>3, <2>1, <2>2, <2>4 DEF IsTaken
    <3>2. a \in U /\ Place(M, a) = Place(L, a)
      BY <1>2, <3>1 DEF IsTaken
    <3> QED
      BY <1>5, <3>1, <3>2 DEF IsTaken
  <2> QED
    BY <2>3, <2>4
<1>7. \A a \in V : Place(P, a) = Place(N, a) /\ ScoreOf(P, a) = ScoreOf(N, a)
  BY <1>2, <1>3, <1>5, <1>6 DEF IsTaken
<1>8. IsList(P, V)
  BY <1>5, <1>6 DEF IsTaken
<1>9. P = N
  BY <1>4, <1>7, <1>8, SameLists
<1> QED
  BY <1>1, <1>9

LEMMA PlainIs ==
  ASSUME NEW chunks, Plain(chunks)
  PROVE  \A a \in DOMAIN chunks : /\ ~ chunks[a].title /\ ~ chunks[a].emphasized
                                  /\ chunks[a].links = 0 /\ chunks[a].keep /\ chunks[a].here
BY DEF Plain, Unboosted

LEMMA AmongAll ==
  ASSUME NEW L, NEW T, IsList(L, T), NEW ids, T \in SUBSET ids
  PROVE  Among(L, ids) = L
<1>1. PICK M, U : M = Among(L, ids) /\ U = T \cap ids
  OBVIOUS
<1>2. IsAmong(M, U, L) /\ U = T
  BY <1>1, AmongIs
<1>3. /\ IsList(M, T) /\ \A a \in T : ScoreOf(M, a) = ScoreOf(L, a)
      /\ \A a, b \in T : Place(M, a) < Place(M, b) <=> Place(L, a) < Place(L, b)
  BY <1>2 DEF IsAmong
<1>4. M = L
  BY <1>3, SameLists
<1> QED
  BY <1>1, <1>4

IsUnboosted(L, T, chunks, mode) ==
  /\ IsList(L, T) /\ InPlace(L, T, mode) /\ T \in SUBSET DOMAIN chunks
  /\ \A filtering : FilterAndBoost(chunks, L, mode, filtering) = L
  /\ \A req : Linked(chunks, L, mode, req) = L

LEMMA UnboostedIs ==
  ASSUME NEW chunks, IsIndex(chunks), Plain(chunks), NEW L, NEW T, IsList(L, T),
         T \in SUBSET DOMAIN chunks, NEW mode, Fit(L, T, mode), InPlace(L, T, mode)
  PROVE  IsUnboosted(L, T, chunks, mode)
<1>1. \A a \in T : /\ ~ chunks[a].title /\ ~ chunks[a].emphasized
                   /\ chunks[a].links = 0 /\ chunks[a].keep
  BY PlainIs
<1>2. \A filtering : FilterAndBoost(chunks, L, mode, filtering) = L
  BY <1>1, FilterStays
<1>3. \A req : Linked(chunks, L, mode, req) = L
  BY <1>1, LinkedStays
<1> QED
  BY <1>2, <1>3 DEF IsUnboosted

LEMMA PlainText ==
  ASSUME NEW chunks, IsIndex(chunks), Plain(chunks), NEW n \in Nat
  PROVE  /\ IsUnboosted(Take(TextBase(chunks), n), TextIds(chunks, n), chunks, "fts")
         /\ \A filtering : SearchFts(chunks, n, filtering) = Take(TextBase(chunks), n)
<1>1. PICK B, T, L, U, mode : /\ B = TextBase(chunks) /\ T = TextHits(chunks) /\ L = Take(B, n)
                              /\ U = TextIds(chunks, n) /\ mode = "fts"
  OBVIOUS
<1>2. IsTaken(L, U, B, T, n) /\ IsList(L, U) /\ U \in SUBSET DOMAIN chunks
  BY <1>1, TextListIs
<1>3. InPlace(B, T, mode)
  BY <1>1, TextBaseIs, BaseInPlace
<1>4. InPlace(L, U, mode)
  BY <1>2, <1>3, TakenInPlace
<1>5. Fit(L, U, mode)
  BY <1>1 DEF Fit
<1>6. IsUnboosted(L, U, chunks, mode)
  BY <1>2, <1>4, <1>5, UnboostedIs
<1>7. \A filtering : SearchFts(chunks, n, filtering) = FilterAndBoost(chunks, L, mode, filtering)
  BY <1>1, StagesAre
<1> QED
  BY <1>1, <1>6, <1>7 DEF IsUnboosted

LEMMA PlainVector ==
  ASSUME NEW chunks, IsIndex(chunks), Plain(chunks), NEW n \in Nat
  PROVE  /\ IsUnboosted(Nearest(chunks, n), NearIds(chunks, n), chunks, "vec")
         /\ IsTaken(Nearest(chunks, n), NearIds(chunks, n), VectorBase(chunks),
                    VectorHits(chunks), n)
         /\ \A filtering : SearchVec(chunks, n, filtering) = Nearest(chunks, n)
<1>1. PICK B, T, L, U, mode : /\ B = VectorBase(chunks) /\ T = VectorHits(chunks)
                              /\ L = Nearest(chunks, n) /\ U = NearIds(chunks, n) /\ mode = "vec"
  OBVIOUS
<1>2. IsTaken(L, TakenOf(B, T, n), B, T, n)
  BY <1>1, NearestIs
<1>3. Here(chunks) = DOMAIN chunks
  BY PlainIs DEF Here
<1>4. T \in SUBSET DOMAIN chunks
  BY <1>1 DEF VectorHits
<1>5. U = TakenOf(B, T, n)
  BY <1>1, <1>3, <1>4 DEF NearIds, TakenOf
<1>6. IsTaken(L, U, B, T, n) /\ IsList(L, U) /\ U \in SUBSET DOMAIN chunks
  BY <1>2, <1>4, <1>5 DEF IsTaken
<1>7. NearHere(chunks, n) = L
  <2>1. Among(L, DOMAIN chunks) = L
    BY <1>6, AmongAll
  <2> QED
    BY <1>1, <1>3, <2>1 DEF NearHere
<1>8. InPlace(B, T, mode)
  BY <1>1, VectorBaseIs, BaseInPlace
<1>9. InPlace(L, U, mode)
  BY <1>6, <1>8, TakenInPlace
<1>10. Fit(L, U, mode)
  BY <1>1 DEF Fit
<1>11. IsUnboosted(L, U, chunks, mode)
  BY <1>6, <1>9, <1>10, UnboostedIs
<1>12. \A filtering : SearchVec(chunks, n, filtering) = FilterAndBoost(chunks, L, mode, filtering)
  BY <1>1, <1>7, StagesAre
<1> QED
  BY <1>1, <1>6, <1>11, <1>12 DEF IsUnboosted

LEMMA PlainHybrid ==
  ASSUME NEW chunks, IsIndex(chunks), Plain(chunks), Len(chunks) <= MaxRank, NEW limit \in Nat,
         NEW pool \in Nat, NEW weights, AreWeights(weights),
         NEW B, B = HybridBase(chunks, limit, pool, weights),
         NEW T, T = HybridFound(chunks, limit, pool)
  PROVE  /\ IsUnboosted(Take(B, limit), TakenOf(B, T, limit), chunks, "hybrid")
         /\ IsTaken(Take(B, limit), TakenOf(B, T, limit), B, T, limit)
         /\ SearchHybrid(chunks, limit, pool, weights) = Take(B, limit)
<1>1. PICK sc : sc = HybridScores(chunks, limit, pool, weights)
  OBVIOUS
<1>2. /\ SearchHybrid(chunks, limit, pool, weights)
           = FilterAndBoost(chunks, Take(B, limit), "hybrid", TRUE)
      /\ IsBase(B, T, sc, "hybrid") /\ sc \in [T -> Nat] /\ T \in SUBSET DOMAIN chunks
  BY <1>1, HybridIs
<1>3. PICK L, U, mode : L = Take(B, limit) /\ U = TakenOf(B, T, limit) /\ mode = "hybrid"
  OBVIOUS
<1>4. IsTaken(L, U, B, T, limit) /\ Fit(L, U, mode)
  BY <1>2, <1>3, HybridEndIs
<1>5. IsList(L, U) /\ U \in SUBSET DOMAIN chunks
  BY <1>2, <1>4 DEF IsTaken
<1>6. InPlace(B, T, mode)
  BY <1>2, <1>3, BaseInPlace
<1>7. InPlace(L, U, mode)
  BY <1>4, <1>6, TakenInPlace
<1>8. IsUnboosted(L, U, chunks, mode)
  BY <1>4, <1>5, <1>7, UnboostedIs
<1> QED
  BY <1>2, <1>3, <1>4, <1>8 DEF IsUnboosted

LEMMA PlainTextSearch ==
  ASSUME NEW chunks, IsIndex(chunks), Plain(chunks), NEW req \in Request,
         NEW limit, limit = req.limit, ModeOf(req) = "fts"
  PROVE  Search(chunks, req) = Take(TextBase(chunks), limit)
<1>1. limit \in Nat
  BY RequestIs
<1>2. PICK n \in Nat : n = limit + 1
  BY <1>1
<1>3. PICK L : L = Take(TextBase(chunks), n)
  OBVIOUS
<1>4. FilterAndBoost(chunks, L, "fts", TRUE) = L /\ Linked(chunks, L, "fts", req) = L
  BY <1>3, PlainText DEF IsUnboosted
<1>5. Search(chunks, req) = Take(L, limit)
  BY <1>2, <1>3, <1>4, TextSearchIs
<1>6. IsList(TextBase(chunks), TextHits(chunks))
  BY TextBaseIs DEF IsBase
<1>7. Take(Take(TextBase(chunks), n), limit) = Take(TextBase(chunks), limit)
  BY <1>1, <1>2, <1>6, TakeTwice
<1> QED
  BY <1>3, <1>5, <1>7

LEMMA PlainSearchIs ==
  ASSUME NEW chunks, IsIndex(chunks), Plain(chunks), Len(chunks) <= MaxRank, NEW req \in Request,
         NEW limit, limit = req.limit
  PROVE  /\ ModeOf(req) = "fts" => Search(chunks, req) = Take(TextBase(chunks), limit)
         /\ (ModeOf(req) = "vec" /\ ~ req.mmr) => Search(chunks, req) = Nearest(chunks, limit)
         /\ (ModeOf(req) = "hybrid" /\ ~ req.mmr) =>
              Search(chunks, req) = Take(HybridBase(chunks, limit, limit, req.weights), limit)
<1>1. limit \in Nat /\ AreWeights(req.weights)
  BY RequestIs DEF AreWeights
<1>3. CASE ModeOf(req) = "fts"
  BY <1>3, PlainTextSearch
<1>4. CASE ModeOf(req) = "vec" /\ ~ req.mmr
  <2>1. PoolOf(req) = limit
    BY <1>4 DEF PoolOf
  <2>2. PICK L : L = Nearest(chunks, limit)
    OBVIOUS
  <2>3. Linked(chunks, L, "vec", req) = L /\ SearchVec(chunks, limit, TRUE) = L
    BY <1>1, <2>2, PlainVector DEF IsUnboosted
  <2>4. Search(chunks, req) = Linked(chunks, SearchVec(chunks, limit, TRUE), "vec", req)
    BY <1>4, <2>1, SearchIs DEF Diversified
  <2> QED
    BY <1>4, <2>2, <2>3, <2>4
<1>5. CASE ModeOf(req) = "hybrid" /\ ~ req.mmr
  <2>1. PoolOf(req) = limit
    BY <1>5 DEF PoolOf
  <2>2. PICK B, L, w : /\ w = req.weights /\ B = HybridBase(chunks, limit, limit, w)
                       /\ L = Take(B, limit)
    OBVIOUS
  <2>3. Linked(chunks, L, "hybrid", req) = L /\ SearchHybrid(chunks, limit, limit, w) = L
    BY <1>1, <2>2, PlainHybrid DEF IsUnboosted
  <2>4. Search(chunks, req) = Linked(chunks, SearchHybrid(chunks, limit, limit, w), "hybrid", req)
    BY <1>5, <2>1, <2>2, SearchIs DEF Diversified
  <2> QED
    BY <1>5, <2>2, <2>3, <2>4
<1> QED
  BY <1>3, <1>4, <1>5

(* The scores of fused lists.                                              *)
AreFused(L, U, M, V, T, sc, weights) ==
  /\ IsList(L, U) /\ IsList(M, V) /\ Len(L) <= MaxRank /\ Len(M) <= MaxRank
  /\ T = U \cup V
  /\ \A a \in T : sc[a] = Reciprocal(L, a, weights[1]) + Reciprocal(M, a, weights[2])
LEMMA HybridScoresAre ==
  ASSUME NEW chunks, IsIndex(chunks), Len(chunks) <= MaxRank, NEW limit \in Nat, NEW pool \in Nat,
         NEW weights, AreWeights(weights), NEW L, L = SearchFts(chunks, 2 * limit, FALSE),
         NEW M, M = SearchVec(chunks, pool, FALSE), NEW sc,
         sc = HybridScores(chunks, limit, pool, weights),
         NEW U, U = TextIds(chunks, 2 * limit), NEW V, V = NearIds(chunks, pool), NEW T,
         T = HybridFound(chunks, limit, pool)
  PROVE  AreFused(L, U, M, V, T, sc, weights)
<1>1. PICK n \in Nat : n = 2 * limit
  OBVIOUS
<1>2. IsList(L, U) /\ IsList(M, V) /\ Len(L) <= MaxRank /\ Len(M) <= MaxRank
  BY <1>1, FusedListsAre
<1>3. T = U \cup V
  BY DEF HybridFound
<1>4. \A a \in T : sc[a] = Reciprocal(L, a, weights[1]) + Reciprocal(M, a, weights[2])
  BY DEF HybridScores, FusedScores
<1> QED
  BY <1>2, <1>3, <1>4 DEF AreFused

(* What precedes in a list precedes in its beginning.                      *)
LEMMA TakenOrder ==
  ASSUME NEW M, NEW U, NEW L, NEW T, NEW n \in Nat, IsList(L, T), IsTaken(M, U, L, T, n),
         NEW a, NEW b, Place(L, a) <= Place(L, b)
  PROVE  Place(M, a) <= Place(M, b)
<1>1. IsList(M, U) /\ U \in SUBSET T
  BY DEF IsTaken
<1>2. PICK m \in Nat, l \in Nat : m = Len(M) /\ l = Len(L)
  BY <1>1, PlaceIs
<1>3. \A c : Place(M, c) \in 1 .. m + 1 /\ (c \notin U => Place(M, c) = m + 1)
  <2>1. \A c \in U : Place(M, c) \in 1 .. Len(M)
    BY <1>1, PlaceIs
  <2>2. \A c : c \notin U => Place(M, c) = Len(M) + 1
    BY <1>1, PlaceIs
  <2> QED
    BY <1>2, <2>1, <2>2
<1>4. CASE b \notin U
  BY <1>2, <1>3, <1>4
<1>5. CASE b \in U
  <2>1. b \in T /\ Place(L, b) <= n /\ Place(M, b) = Place(L, b)
    BY <1>1, <1>5 DEF IsTaken
  <2>2. Place(L, b) \in 1 .. l
    BY <1>2, <2>1, PlaceIs
  <2>3. Place(L, a) \in 1 .. l + 1 /\ (a \notin T => Place(L, a) = l + 1)
    <3>1. a \in T => Place(L, a) \in 1 .. Len(L)
      BY PlaceIs
    <3>2. a \notin T => Place(L, a) = Len(L) + 1
      BY PlaceIs
    <3> QED
      BY <1>2, <3>1, <3>2
  <2>4. a \in T /\ Place(L, a) <= n
    BY <1>2, <2>1, <2>2, <2>3
  <2>5. a \in U /\ Place(M, a) = Place(L, a)
    BY <2>4 DEF IsTaken
  <2> QED
    BY <2>1, <2>5
<1> QED
  BY <1>4, <1>5

(* What text and vectors agree about stays in its order in the fusion      *)
(* (compute_rrf_internal of core/src/search.rs), whatever the index.       *)
THEOREM FusionKeepsAgreement ==
  ASSUME NEW chunks, IsIndex(chunks), Len(chunks) <= MaxRank, NEW req \in Request
  PROVE  AgreementIsKept(chunks, req)
<1>1. PICK limit : limit = req.limit
  OBVIOUS
<1>2. limit \in Nat /\ AreWeights(req.weights)
  BY <1>1, RequestIs DEF AreWeights
<1>3. PICK L, M, R, w : /\ L = SearchFts(chunks, 2 * limit, FALSE) /\ M = SearchVec(chunks, limit, FALSE)
                        /\ R = Search(chunks, req) /\ w = req.weights
  OBVIOUS
<1>4. SUFFICES ASSUME Plain(chunks), req.mode = "hybrid", req.embedder, ~ req.mmr,
                      NEW a \in DOMAIN chunks, NEW b \in DOMAIN chunks,
                      Place(L, a) <= Place(L, b), Place(M, a) <= Place(M, b),
                      Place(L, a) < Place(L, b), w[1] > 0
               PROVE  Place(R, a) <= Place(R, b)
  BY <1>1, <1>3 DEF AgreementIsKept
<1>5. PICK B, T, sc : /\ B = HybridBase(chunks, limit, limit, w) /\ T = HybridFound(chunks, limit, limit)
                      /\ sc = HybridScores(chunks, limit, limit, w)
  OBVIOUS
<1>6. R = Take(B, limit)
  <2>1. ModeOf(req) = "hybrid"
    BY <1>4 DEF ModeOf
  <2> QED
    BY <1>1, <1>3, <1>4, <1>5, <2>1, PlainSearchIs
<1>7. IsTaken(R, TakenOf(B, T, limit), B, T, limit)
  BY <1>2, <1>3, <1>4, <1>5, <1>6, PlainHybrid
<1>8. IsBase(B, T, sc, "hybrid") /\ sc \in [T -> Nat]
  BY <1>2, <1>3, <1>5, HybridIs
<1>9. PICK U, V : U = TextIds(chunks, 2 * limit) /\ V = NearIds(chunks, limit)
  OBVIOUS
<1>10. /\ IsList(L, U) /\ IsList(M, V) /\ Len(L) <= MaxRank /\ Len(M) <= MaxRank /\ T = U \cup V
       /\ \A c \in T : sc[c] = Reciprocal(L, c, w[1]) + Reciprocal(M, c, w[2])
  <2>1. AreFused(L, U, M, V, T, sc, w)
    <3>1. AreWeights(w) /\ limit \in Nat
      BY <1>2, <1>3
    <3>2. PICK pool \in Nat : pool = limit
      BY <1>2
    <3>3. /\ L = SearchFts(chunks, 2 * limit, FALSE) /\ M = SearchVec(chunks, pool, FALSE)
          /\ sc = HybridScores(chunks, limit, pool, w) /\ T = HybridFound(chunks, limit, pool)
          /\ U = TextIds(chunks, 2 * limit) /\ V = NearIds(chunks, pool)
      BY <1>3, <1>5, <1>9, <3>2
    <3> QED
      BY <3>1, <3>3, HybridScoresAre
  <2> QED
    BY <2>1 DEF AreFused
<1>11. PICK v \in Nat, u \in Nat : v = w[1] /\ u = w[2] /\ v > 0
  BY <1>2, <1>3, <1>4 DEF AreWeights
<1>12. IsList(B, T)
  BY <1>8 DEF IsBase
<1>13. Place(B, a) <= Place(B, b)
  <2>1. Len(B) \in Nat /\ \A c \in T : Place(B, c) \in 1 .. Len(B)
    BY <1>12, PlaceIs
  <2>2. \A c : c \notin T => Place(B, c) = Len(B) + 1
    BY <1>12, PlaceIs
  <2>3. CASE b \notin T
    <3>1. Place(B, b) = Len(B) + 1
      BY <2>2, <2>3
    <3>2. Place(B, a) \in 1 .. Len(B) \/ Place(B, a) = Len(B) + 1
      BY <2>1, <2>2
    <3> QED
      BY <2>1, <3>1, <3>2
  <2>4. CASE b \in T
    <3>1. a \in T
      <4>1. a \notin U => Place(L, a) = Len(L) + 1 /\ Len(L) \in Nat
        BY <1>10, PlaceIs
      <4>2. b \in U => Place(L, b) \in 1 .. Len(L)
        BY <1>10, PlaceIs
      <4>3. b \notin U => Place(L, b) = Len(L) + 1
        BY <1>10, PlaceIs
      <4>4. a \in U
        BY <1>4, <4>1, <4>2, <4>3
      <4> QED
        BY <1>10, <4>4
    <3>2. PICK p \in Nat, q \in Nat, s \in Nat, t \in Nat :
            /\ p = Reciprocal(L, a, v) /\ q = Reciprocal(L, b, v)
            /\ s = Reciprocal(M, a, u) /\ t = Reciprocal(M, b, u)
      <4>1. \A c : Reciprocal(L, c, v) \in Nat
        BY <1>10, ReciprocalIs
      <4>2. \A c : Reciprocal(M, c, u) \in Nat
        BY <1>10, ReciprocalIs
      <4> QED
        BY <4>1, <4>2
    <3>3. q < p
      BY <1>4, <1>10, <1>11, <3>2, EarlierGivesMore
    <3>4. t <= s
      BY <1>4, <1>10, <3>2, EarlierGivesMore
    <3>5. sc[a] = p + s /\ sc[b] = q + t
      BY <1>10, <1>11, <2>4, <3>1, <3>2
    <3>6. - sc[a] < - sc[b]
      BY <3>3, <3>4, <3>5
    <3>7. Place(B, a) < Place(B, b)
      BY <1>8, <2>4, <3>1, <3>6 DEF IsBase, SortKey
    <3> QED
      BY <2>1, <2>4, <3>1, <3>7
  <2> QED
    BY <2>3, <2>4
<1> QED
  BY <1>2, <1>7, <1>12, <1>13, TakenOrder

LEMMA RowIsSeq ==
  ASSUME NEW s, NEW n, IsRow(s, n)
  PROVE  n \in Nat /\ Len(s) = n /\ \E S : s \in Seq(S)
<1>1. n \in Nat /\ Len(s) = n /\ DOMAIN s = 1 .. n /\ s = [k \in 1 .. n |-> s[k]]
  BY DEF IsRow
<1>2. PICK S : S = {s[k] : k \in 1 .. n}
  OBVIOUS
<1>3. s \in [1 .. n -> S]
  BY <1>1, <1>2
<1>4. s \in Seq(S)
  BY <1>1, <1>3
<1> QED
  BY <1>1, <1>4

LEMMA SameRows ==
  ASSUME NEW s, NEW t, NEW n, IsRow(s, n), IsRow(t, n), \A k \in 1 .. n : s[k] = t[k]
  PROVE  s = t
BY DEF IsRow

Least(m, n) == IF m <= n THEN m ELSE n

LEMMA TakeCuts ==
  ASSUME NEW s, NEW m, IsRow(s, m), NEW n \in Nat
  PROVE  /\ Take(s, n) = SubSeq(s, 1, Least(m, n)) /\ IsRow(Take(s, n), Least(m, n))
         /\ \A k \in 1 .. Least(m, n) : Take(s, n)[k] = s[k]
         /\ Least(m, n) \in Nat /\ Least(m, n) <= m /\ Least(m, n) <= n
<1>1. m \in Nat /\ Len(s) = m
  BY RowIsSeq
<1>2. PICK S : s \in Seq(S)
  BY RowIsSeq
<1>3. CASE m <= n
  <2>1. SubSeq(s, 1, m) = s
    BY <1>1, <1>2, SubSeqFull
  <2>2. Take(s, n) = s /\ Least(m, n) = m
    BY <1>1, <1>3 DEF Take, Least
  <2> QED
    BY <1>1, <1>3, <2>1, <2>2
<1>4. CASE ~ (m <= n)
  <2>1. n <= m /\ Least(m, n) = n
    BY <1>1, <1>4 DEF Least
  <2>2. Take(s, n) = SubSeq(s, 1, n)
    BY <1>1, <1>4 DEF Take
  <2>3. PICK t : t = SubSeq(s, 1, n)
    OBVIOUS
  <2>4. \A k \in 1 .. n : s[k] \in S
    BY <1>1, <1>2, <2>1, ElementOfSeq
  <2>5. /\ t \in Seq(S) /\ Len(t) = IF 1 <= n THEN n - 1 + 1 ELSE 0
        /\ \A k \in 1 .. n - 1 + 1 : t[k] = s[1 + k - 1]
    BY <2>3, <2>4, SubSeqProperties
  <2>6. Len(t) = n /\ \A k \in 1 .. n : t[k] = s[k]
    <3>1. Len(t) = n
      BY <2>5
    <3>2. n - 1 + 1 = n /\ \A k \in 1 .. n : 1 + k - 1 = k
      OBVIOUS
    <3> QED
      BY <2>5, <3>1, <3>2
  <2>7. IsRow(t, n)
    <3>1. IsRow(t, Len(t))
      BY <2>5, SeqIsRow
    <3> QED
      BY <2>6, <3>1
  <2> QED
    BY <1>1, <2>1, <2>2, <2>3, <2>6, <2>7
<1> QED
  BY <1>3, <1>4

IsCut(t, s, r) ==
  t = SubSeq(s, 1, r) /\ IsRow(t, r) /\ \A k \in 1 .. r : t[k] = s[k]

LEMMA TakenCuts ==
  ASSUME NEW s, NEW m, IsRow(s, m), NEW n \in Nat, NEW r, r = Least(m, n)
  PROVE  IsCut(Take(s, n), s, r)
<1>1. /\ Take(s, n) = SubSeq(s, 1, Least(m, n)) /\ IsRow(Take(s, n), Least(m, n))
      /\ \A k \in 1 .. Least(m, n) : Take(s, n)[k] = s[k]
  BY TakeCuts
<1> QED
  BY <1>1 DEF IsCut

LEMMA IdsTaken ==
  ASSUME NEW L, NEW T, IsList(L, T), NEW n \in Nat
  PROVE  Ids(Take(L, n)) = Take(Ids(L), n)
<1>1. PICK m \in Nat : m = Len(L) /\ IsRow(L, m)
  BY DEF IsList, IsRow
<1>2. PICK M, U, r : M = Take(L, n) /\ U = TakenOf(L, T, n) /\ r = Least(m, n)
  OBVIOUS
<1>3. IsRow(M, r) /\ \A k \in 1 .. r : M[k] = L[k]
  BY <1>1, <1>2, TakeCuts
<1>4. IsList(M, U)
  BY <1>2, TakeIs DEF IsTaken
<1>5. Len(M) = r
  BY <1>3 DEF IsRow
<1>6. IsRow(Ids(M), r) /\ \A k \in 1 .. r : Ids(M)[k] = M[k].id
  BY <1>4, <1>5, IdsIs
<1>7. PICK I : I = Ids(L)
  OBVIOUS
<1>8. IsRow(I, m) /\ \A k \in 1 .. m : I[k] = L[k].id
  BY <1>1, <1>7, IdsIs
<1>9. /\ IsRow(Take(I, n), r) /\ \A k \in 1 .. r : Take(I, n)[k] = I[k]
      /\ r \in Nat /\ r <= m
  BY <1>2, <1>8, TakeCuts
<1>10. \A k \in 1 .. r : Ids(M)[k] = Take(I, n)[k]
  BY <1>1, <1>3, <1>6, <1>8, <1>9
<1>11. Ids(M) = Take(I, n)
  BY <1>6, <1>9, <1>10, SameRows
<1> QED
  BY <1>2, <1>7, <1>11

LEMMA PrefixIs ==
  ASSUME NEW s, NEW m, IsRow(s, m), NEW t, NEW n, IsRow(t, n), m <= n,
         \A k \in 1 .. m : s[k] = t[k]
  PROVE  IsPrefix(s, t)
<1>1. m \in Nat /\ n \in Nat /\ Len(s) = m /\ Len(t) = n
  BY RowIsSeq
<1>2. Least(n, m) = m /\ Least(m, m) = m
  BY <1>1 DEF Least
<1>3. IsCut(Take(t, m), t, m)
  BY <1>1, <1>2, TakenCuts
<1>4. IsCut(Take(s, m), s, m)
  BY <1>1, <1>2, TakenCuts
<1>5. Take(s, m) = Take(t, m)
  BY <1>3, <1>4, SameRows DEF IsCut
<1> QED
  BY <1>1, <1>3, <1>4, <1>5 DEF IsPrefix, IsCut

(* A list that comes first in another, in its own order.                   *)
IsAhead(L, T, M, U) ==
  /\ IsList(L, T) /\ IsList(M, U) /\ T \in SUBSET U
  /\ \A a \in T : \A b \in U : Place(M, b) < Place(M, a) <=> (b \in T /\ Place(L, b) < Place(L, a))

LEMMA AheadIsPrefix ==
  ASSUME NEW L, NEW T, NEW M, NEW U, IsAhead(L, T, M, U), NEW n \in Nat
  PROVE  IsPrefix(Take(Ids(L), n), Ids(Take(M, n)))
<1>1. IsList(L, T) /\ IsList(M, U) /\ T \in SUBSET U
  BY DEF IsAhead
<1>2. PICK l \in Nat, m \in Nat : l = Len(L) /\ m = Len(M)
  BY <1>1, PlaceIs
<1>3. \A a \in T : Place(M, a) = Place(L, a)
  <2>1. SUFFICES ASSUME NEW a \in T PROVE Place(M, a) = Place(L, a)
    OBVIOUS
  <2>2. AheadIn(M, U, a) = AheadIn(L, T, a)
    BY <1>1 DEF IsAhead, AheadIn
  <2>3. Place(L, a) = 1 + Cardinality(AheadIn(L, T, a))
    BY <1>1, PlaceCounts
  <2>4. a \in U
    BY <1>1
  <2>5. Place(M, a) = 1 + Cardinality(AheadIn(M, U, a))
    BY <1>1, <2>4, PlaceCounts
  <2> QED
    BY <2>2, <2>3, <2>5
<1>4. l <= m
  <2>1. IsFiniteSet(T) /\ Cardinality(T) = l
    BY <1>1, <1>2, ListIsFinite
  <2>2. IsFiniteSet(U) /\ Cardinality(U) = m
    BY <1>1, <1>2, ListIsFinite
  <2> QED
    BY <1>1, <2>1, <2>2, FS_Subset
<1>5. PICK I, J : I = Ids(L) /\ J = Ids(M)
  OBVIOUS
<1>6. IsRow(I, l) /\ \A k \in 1 .. l : I[k] = L[k].id
  BY <1>1, <1>2, <1>5, IdsIs
<1>7. IsRow(J, m) /\ \A k \in 1 .. m : J[k] = M[k].id
  BY <1>1, <1>2, <1>5, IdsIs
<1>8. \A k \in 1 .. l : I[k] = J[k]
  <2>1. SUFFICES ASSUME NEW k \in 1 .. l PROVE I[k] = J[k]
    OBVIOUS
  <2>2. PICK a : a = L[k].id
    OBVIOUS
  <2>3. a \in T /\ Place(L, a) = k
    BY <1>1, <1>2, <2>2, PlaceIs
  <2>4. a \in U /\ Place(M, a) = k
    BY <1>1, <1>3, <2>3
  <2>5. M[k].id = a
    BY <1>1, <2>4, PlaceIs
  <2> QED
    BY <1>4, <1>6, <1>7, <2>2, <2>5
<1>9. PICK p \in Nat, q \in Nat : p = Least(l, n) /\ q = Least(m, n) /\ p <= q /\ p <= l
  BY <1>4 DEF Least
<1>10. IsRow(Take(I, n), p) /\ \A k \in 1 .. p : Take(I, n)[k] = I[k]
  BY <1>6, <1>9, TakeCuts
<1>11. IsRow(Take(J, n), q) /\ \A k \in 1 .. q : Take(J, n)[k] = J[k]
  BY <1>7, <1>9, TakeCuts
<1>12. \A k \in 1 .. p : Take(I, n)[k] = Take(J, n)[k]
  <2>1. \A k \in 1 .. p : k \in 1 .. q /\ k \in 1 .. l
    BY <1>9
  <2> QED
    BY <1>8, <1>10, <1>11, <2>1
<1>13. IsPrefix(Take(I, n), Take(J, n))
  BY <1>9, <1>10, <1>11, <1>12, PrefixIs
<1>14. Ids(Take(M, n)) = Take(J, n)
  BY <1>1, <1>5, IdsTaken
<1> QED
  BY <1>5, <1>13, <1>14

LEMMA OneList ==
  ASSUME NEW L, NEW U, IsList(L, U), Len(L) <= MaxRank, NEW T, U \in SUBSET T, NEW sc \in [T -> Nat],
         NEW w \in Nat, w > 0, \A a \in T : sc[a] = Reciprocal(L, a, w),
         NEW B, IsBase(B, T, sc, "hybrid")
  PROVE  IsAhead(L, U, B, T)
<1>1. IsList(B, T)
  BY DEF IsBase
<1>2. ASSUME NEW a \in U, NEW b \in T
      PROVE  Place(B, b) < Place(B, a) <=> (b \in U /\ Place(L, b) < Place(L, a))
  <2>1. a \in T
    BY <1>2
  <2>2. PICK x \in Nat, y \in Nat : x = sc[a] /\ y = sc[b]
    BY <2>1, <1>2
  <2>3. Place(B, b) < Place(B, a) <=> (- y < - x \/ (y = x /\ b < a))
    BY <1>2, <2>1, <2>2 DEF IsBase, SortKey
  <2>4. x = Reciprocal(L, a, w) /\ y = Reciprocal(L, b, w)
    BY <1>2, <2>1, <2>2
  <2>5. Place(L, a) \in 1 .. Len(L) /\ Len(L) \in Nat
    BY <1>2, PlaceIs
  <2>6. CASE b \in U /\ Place(L, b) < Place(L, a)
    <3>1. Place(L, b) <= Place(L, a)
      <4>1. Place(L, b) \in 1 .. Len(L)
        BY <2>6, PlaceIs
      <4> QED
        BY <2>5, <2>6, <4>1
    <3>2. x < y
      BY <2>4, <2>6, <3>1, EarlierGivesMore
    <3> QED
      BY <2>3, <2>6, <3>2
  <2>7. CASE b \in U /\ ~ (Place(L, b) < Place(L, a))
    <3>1. Place(L, b) \in 1 .. Len(L)
      BY <2>7, PlaceIs
    <3>2. CASE Place(L, b) = Place(L, a)
      <4>1. b = a
        BY <1>2, <2>7, <3>2, PlaceIs
      <4>2. Place(B, a) \in 1 .. Len(B) /\ Len(B) \in Nat
        BY <1>1, <2>1, PlaceIs
      <4> QED
        BY <2>5, <2>7, <4>1, <4>2
    <3>3. CASE Place(L, b) # Place(L, a)
      <4>1. Place(L, a) <= Place(L, b) /\ Place(L, a) < Place(L, b)
        BY <2>5, <2>7, <3>1, <3>3
      <4>2. y < x
        BY <2>4, <4>1, EarlierGivesMore
      <4> QED
        BY <2>2, <2>3, <2>7, <4>2
    <3> QED
      BY <3>2, <3>3
  <2>8. CASE b \notin U
    <3>1. Place(L, b) = Len(L) + 1
      BY <2>8, PlaceIs
    <3>2. Place(L, a) <= Place(L, b) /\ Place(L, a) < Place(L, b)
      BY <2>5, <3>1
    <3>3. y < x
      BY <2>4, <3>2, EarlierGivesMore
    <3> QED
      BY <2>2, <2>3, <2>8, <3>3
  <2> QED
    BY <2>6, <2>7, <2>8
<1> QED
  BY <1>1, <1>2 DEF IsAhead

(* With a weight of 0 for the vectors, the first results of hybrid search  *)
(* are those of the text search, in its order, and vice versa              *)
(* (--hybrid-alpha of core/src/search.rs), whatever the index.             *)
THEOREM AlphaIsAChoice ==
  ASSUME NEW chunks, IsIndex(chunks), Len(chunks) <= MaxRank, NEW req \in Request
  PROVE  AlphaChoosesTheList(chunks, req)
<1>1. PICK limit : limit = req.limit
  OBVIOUS
<1>2. limit \in Nat /\ AreWeights(req.weights)
  BY <1>1, RequestIs DEF AreWeights
<1>3. PICK L, M, R, w : /\ L = SearchFts(chunks, 2 * limit, FALSE) /\ M = SearchVec(chunks, limit, FALSE)
                        /\ R = Search(chunks, req) /\ w = req.weights
  OBVIOUS
<1>4. SUFFICES ASSUME 0 \in {w[1], w[2]}, Plain(chunks), req.mode = "hybrid", req.embedder, ~ req.mmr
               PROVE  IsPrefix(Take(Ids(IF w[2] = 0 THEN L ELSE M), limit), Ids(R))
  BY <1>1, <1>3 DEF AlphaChoosesTheList
<1>5. PICK B, T, sc, U, V :
        /\ B = HybridBase(chunks, limit, limit, w) /\ T = HybridFound(chunks, limit, limit)
        /\ sc = HybridScores(chunks, limit, limit, w)
        /\ U = TextIds(chunks, 2 * limit) /\ V = NearIds(chunks, limit)
  OBVIOUS
<1>6. R = Take(B, limit)
  <2>1. ModeOf(req) = "hybrid"
    BY <1>4 DEF ModeOf
  <2> QED
    BY <1>1, <1>3, <1>4, <1>5, <2>1, PlainSearchIs
<1>7. IsBase(B, T, sc, "hybrid") /\ sc \in [T -> Nat]
  BY <1>2, <1>3, <1>5, HybridIs
<1>8. AreFused(L, U, M, V, T, sc, w)
  <2>1. AreWeights(w) /\ limit \in Nat
    BY <1>2, <1>3
  <2>2. PICK pool \in Nat : pool = limit
    BY <1>2
  <2>3. /\ L = SearchFts(chunks, 2 * limit, FALSE) /\ M = SearchVec(chunks, pool, FALSE)
        /\ sc = HybridScores(chunks, limit, pool, w) /\ T = HybridFound(chunks, limit, pool)
        /\ U = TextIds(chunks, 2 * limit) /\ V = NearIds(chunks, pool)
    BY <1>3, <1>5, <2>2
  <2> QED
    BY <2>1, <2>3, HybridScoresAre
<1>9. PICK v \in Nat, u \in Nat : v = w[1] /\ u = w[2] /\ (v > 0 \/ u > 0)
  BY <1>3, RequestIs
<1>10. /\ IsList(L, U) /\ IsList(M, V) /\ Len(L) <= MaxRank /\ Len(M) <= MaxRank /\ T = U \cup V
       /\ \A a \in T : sc[a] = Reciprocal(L, a, v) + Reciprocal(M, a, u)
  BY <1>8, <1>9 DEF AreFused
<1>11. ASSUME NEW P, NEW S, IsList(P, S), Len(P) <= MaxRank
       PROVE  \A a : Reciprocal(P, a, 0) = 0
  <2>1. SUFFICES ASSUME NEW a PROVE Reciprocal(P, a, 0) = 0
    OBVIOUS
  <2>2. PICK z \in Nat : z = 0
    OBVIOUS
  <2>3. CASE a \in S
    <3>1. Place(P, a) \in 1 .. MaxRank /\ Reciprocal(P, a, z) = z * Share(Place(P, a))
      BY <1>11, <2>3, ReciprocalIs
    <3>2. Share(Place(P, a)) \in Nat
      BY <3>1, SharesFall
    <3> QED
      BY <2>2, <3>1, <3>2
  <2>4. CASE a \notin S
    <3>1. Reciprocal(P, a, z) = 0
      BY <1>11, <2>4, ReciprocalIs
    <3> QED
      BY <2>2, <3>1
  <2> QED
    BY <2>3, <2>4
<1>12. CASE u = 0
  <2>1. \A a : Reciprocal(M, a, u) = 0
    BY <1>10, <1>11, <1>12
  <2>2. \A a \in T : sc[a] = Reciprocal(L, a, v)
    <3>1. \A a : Reciprocal(L, a, v) \in Nat
      BY <1>10, ReciprocalIs
    <3> QED
      BY <1>10, <2>1, <3>1
  <2>3. v > 0 /\ U \in SUBSET T
    BY <1>9, <1>10, <1>12
  <2>4. IsAhead(L, U, B, T)
    BY <1>7, <1>10, <2>2, <2>3, OneList
  <2>5. IsPrefix(Take(Ids(L), limit), Ids(Take(B, limit)))
    BY <1>2, <2>4, AheadIsPrefix
  <2> QED
    BY <1>6, <1>9, <1>12, <2>5
<1>13. CASE u # 0
  <2>1. v = 0
    BY <1>4, <1>9, <1>13
  <2>2. \A a : Reciprocal(L, a, v) = 0
    BY <1>10, <1>11, <2>1
  <2>3. \A a \in T : sc[a] = Reciprocal(M, a, u)
    <3>1. \A a : Reciprocal(M, a, u) \in Nat
      BY <1>10, ReciprocalIs
    <3> QED
      BY <1>10, <2>2, <3>1
  <2>4. u > 0 /\ V \in SUBSET T
    BY <1>9, <1>10, <2>1
  <2>5. IsAhead(M, V, B, T)
    BY <1>7, <1>10, <2>3, <2>4, OneList
  <2>6. IsPrefix(Take(Ids(M), limit), Ids(Take(B, limit)))
    BY <1>2, <2>5, AheadIsPrefix
  <2> QED
    BY <1>6, <1>9, <1>13, <2>6
<1> QED
  BY <1>12, <1>13

(***************************************************************************)
(* The three doors.                                                        *)
(***************************************************************************)
LEMMA MinOfTwo ==
  ASSUME NEW m \in Nat, NEW n \in Nat
  PROVE  Min({m, n}) = Least(m, n) /\ Least(m, n) \in Nat /\ Least(m, n) <= m /\ Least(m, n) <= n
<1>1. {m, n} \in SUBSET Nat /\ {m, n} # {}
  OBVIOUS
<1>2. Min({m, n}) \in {m, n} /\ \A k \in {m, n} : Min({m, n}) <= k
  BY <1>1, MinIsLeast
<1>3. PICK k : k = Min({m, n})
  OBVIOUS
<1>4. (k = m \/ k = n) /\ k <= m /\ k <= n
  BY <1>2, <1>3
<1> QED
  BY <1>3, <1>4 DEF Least

LEMMA AskIs ==
  ASSUME NEW ask \in Ask
  PROVE  /\ ask.blank \in BOOLEAN /\ ask.mode \in {"fts", "vec", "hybrid"}
         /\ ask.vault \in {"any", "here", "unknown"} /\ ask.limit \in Nat /\ ask.offset \in Nat
         /\ ask.filtering \in BOOLEAN /\ ask.mmr \in BOOLEAN
BY DEF Ask

LEMMA SeenIs ==
  ASSUME NEW chunks, IsIndex(chunks), NEW ask \in Ask
  PROVE  /\ IsIndex(Seen(chunks, ask)) /\ DOMAIN Seen(chunks, ask) = DOMAIN chunks
         /\ \A i \in DOMAIN chunks :
              LET c == chunks[i] e == Seen(chunks, ask)[i]
              IN  /\ e.hit = c.hit /\ e.bm25 = c.bm25 /\ e.vector = c.vector
                  /\ e.title = c.title /\ e.emphasized = c.emphasized /\ e.links = c.links
                  /\ e.here <=> (ask.vault = "any" \/ (ask.vault = "here" /\ c.here))
                  /\ e.keep <=> (ask.filtering => c.keep)
<1>1. PICK V : KnownVectors(V) /\ chunks \in Seq(ChunkKinds(V))
  BY DEF IsIndex
<1>2. PICK n \in Nat : n = Len(chunks) /\ DOMAIN chunks = 1 .. n
  BY IndexIs
<1>3. PICK d : d = Seen(chunks, ask)
  OBVIOUS
<1>4. d = [i \in 1 .. n |->
             [chunks[i] EXCEPT !.here = ask.vault = "any" \/ (ask.vault = "here" /\ @),
                               !.keep = ask.filtering => @]]
  BY <1>2, <1>3 DEF Seen
<1>5. ASSUME NEW i \in 1 .. n
      PROVE  /\ d[i] \in ChunkKinds(V)
             /\ LET c == chunks[i] e == d[i]
                IN  /\ e.hit = c.hit /\ e.bm25 = c.bm25 /\ e.vector = c.vector
                    /\ e.title = c.title /\ e.emphasized = c.emphasized /\ e.links = c.links
                    /\ e.here <=> (ask.vault = "any" \/ (ask.vault = "here" /\ c.here))
                    /\ e.keep <=> (ask.filtering => c.keep)
  <2>1. PICK c : c = chunks[i] /\ c \in ChunkKinds(V)
    BY <1>1, <1>2, <1>5, ElementOfSeq
  <2>2. PICK h \in BOOLEAN, k \in BOOLEAN :
          /\ h = (ask.vault = "any" \/ (ask.vault = "here" /\ c.here))
          /\ k = (ask.filtering => c.keep)
    OBVIOUS
  <2>3. d[i] = [c EXCEPT !.here = h, !.keep = k]
    BY <1>4, <1>5, <2>1, <2>2
  <2>4. PICK e : e = d[i]
    OBVIOUS
  <2>5. /\ e.hit = c.hit /\ e.bm25 = c.bm25 /\ e.vector = c.vector
        /\ e.title = c.title /\ e.emphasized = c.emphasized /\ e.links = c.links
        /\ e.here = h /\ e.keep = k
    BY <2>1, <2>3, <2>4 DEF ChunkKinds
  <2>6. e \in ChunkKinds(V)
    BY <2>1, <2>3, <2>4 DEF ChunkKinds
  <2> QED
    BY <2>1, <2>2, <2>4, <2>5, <2>6
<1>6. d \in Seq(ChunkKinds(V))
  <2>1. d = [i \in 1 .. n |-> d[i]]
    BY <1>4
  <2>2. d \in [1 .. n -> ChunkKinds(V)]
    BY <1>5, <2>1
  <2> QED
    BY <2>2
<1>7. IsIndex(d)
  BY <1>1, <1>6 DEF IsIndex
<1>8. DOMAIN d = 1 .. n
  BY <1>4
<1> QED
  BY <1>2, <1>3, <1>5, <1>7, <1>8

LEMMA RequestOfIs ==
  ASSUME NEW ask \in Ask, NEW limit \in Nat, NEW model \in BOOLEAN, NEW backlinks \in BOOLEAN
  PROVE  /\ RequestOf(ask, limit, model, backlinks) \in Request
         /\ RequestOf(ask, limit, model, backlinks).limit = limit
         /\ (~ model /\ ask.mode # "vec") => ModeOf(RequestOf(ask, limit, model, backlinks)) = "fts"
<1>1. PICK r : r = RequestOf(ask, limit, model, backlinks)
  OBVIOUS
<1>2. r = [mode |-> ask.mode, embedder |-> model, limit |-> limit, weights |-> <<1, 1>>,
           mmr |-> ask.mmr, lambda |-> 5, backlinks |-> backlinks]
  BY <1>1 DEF RequestOf, EvenWeights
<1>3. ask.mode \in {"fts", "vec", "hybrid"} /\ ask.mmr \in BOOLEAN
  BY AskIs
<1>4. <<1, 1>> \in (Nat \X Nat) \ {<<0, 0>>} /\ 5 \in 0 .. 10
  OBVIOUS
<1>5. r \in Request
  BY <1>2, <1>3, <1>4 DEF Request
<1>6. r.limit = limit /\ r.mode = ask.mode /\ r.embedder = model
  BY <1>2
<1>7. (~ model /\ ask.mode # "vec") => ModeOf(r) = "fts"
  BY <1>3, <1>6 DEF ModeOf
<1> QED
  BY <1>1, <1>5, <1>6, <1>7

LEMMA TextAnswer ==
  ASSUME NEW chunks, IsIndex(chunks), NEW req \in Request, ModeOf(req) = "fts",
         NEW limit, limit = req.limit
  PROVE  \E U : /\ IsList(Search(chunks, req), U) /\ U \in SUBSET TextHits(chunks)
                /\ Len(Search(chunks, req)) <= limit /\ Len(Search(chunks, req)) \in Nat
<1>1. limit \in Nat
  BY RequestIs
<1>2. PICK n \in Nat : n = limit + 1
  BY <1>1
<1>3. PICK L, T, U, mode : /\ L = Take(TextBase(chunks), n) /\ T = TextIds(chunks, n)
                           /\ U = Passing(chunks, T, TRUE) /\ mode = "fts"
  OBVIOUS
<1>4. IsList(L, T) /\ T \in SUBSET DOMAIN chunks
  BY <1>3, TextListIs
<1>5. Fit(L, T, mode)
  BY <1>3 DEF Fit
<1>6. PICK R : R = Linked(chunks, FilterAndBoost(chunks, L, mode, TRUE), mode, req)
  OBVIOUS
<1>7. IsList(R, U)
  BY <1>3, <1>4, <1>5, <1>6, FinalIs DEF IsFinal
<1>8. Search(chunks, req) = Take(R, limit)
  BY <1>2, <1>3, <1>6, TextSearchIs
<1>9. PICK P, W : P = Take(R, limit) /\ W = TakenOf(R, U, limit)
  OBVIOUS
<1>10. IsTaken(P, W, R, U, limit)
  BY <1>1, <1>7, <1>9, TakeIs
<1>11. Len(P) = IF Len(R) <= limit THEN Len(R) ELSE limit
  BY <1>10 DEF IsTaken
<1>12. Len(R) \in Nat
  BY <1>7, PlaceIs
<1>13. W \in SUBSET TextHits(chunks)
  <2>1. U \in SUBSET T /\ T \in SUBSET TextHits(chunks)
    BY <1>3 DEF Passing, TextIds, TakenOf
  <2> QED
    BY <1>10, <2>1 DEF IsTaken
<1>14. IsList(P, W)
  BY <1>10 DEF IsTaken
<1> QED
  BY <1>1, <1>8, <1>9, <1>11, <1>12, <1>13, <1>14

(* One index gives one answer, whichever door is asked (run_dive,          *)
(* handle_search, handle_search_local_notes), whatever the index.          *)
THEOREM DoorsGiveOneAnswer ==
  ASSUME NEW chunks, IsIndex(chunks), NEW ask \in Ask, NEW setup \in Setup
  PROVE  DoorsAgree(chunks, ask, setup)
<1>1. SUFFICES ASSUME setup.tokenizer, ~ setup.model, ~ ask.filtering, ~ ask.mmr, ask.offset = 0,
                      ~ ask.blank, ask.vault # "unknown",
                      ask.limit <= Min({McpLimit, HttpLimit})
               PROVE  /\ HandleSearch(chunks, ask, setup) = Dive(chunks, ask, setup)
                      /\ HandleSearchLocalNotes(chunks, ask, setup) = Dive(chunks, ask, setup)
  BY DEF DoorsAgree
<1>2. /\ ask.limit \in Nat /\ setup.backlinks \in BOOLEAN /\ ask.mode \in {"fts", "vec", "hybrid"}
      /\ HttpLimit \in Nat /\ McpLimit \in Nat /\ HttpOffset \in Nat
  BY AskIs, DoorsAssumption DEF Setup
<1>3. PICK limit \in Nat, backlinks \in BOOLEAN : limit = ask.limit /\ backlinks = setup.backlinks
  BY <1>2
<1>4. limit <= McpLimit /\ limit <= HttpLimit
  <2>1. PICK p \in Nat : p = Min({McpLimit, HttpLimit}) /\ p <= McpLimit /\ p <= HttpLimit
    BY <1>2, MinOfTwo
  <2> QED
    BY <1>1, <1>2, <1>3, <2>1
<1>5. Min({limit, HttpLimit}) = limit /\ Min({limit, McpLimit}) = limit /\ Min({0, HttpOffset}) = 0
  <2>1. Min({limit, HttpLimit}) = Least(limit, HttpLimit)
    BY <1>2, MinOfTwo
  <2>2. Min({limit, McpLimit}) = Least(limit, McpLimit)
    BY <1>2, MinOfTwo
  <2>3. Min({0, HttpOffset}) = Least(0, HttpOffset)
    BY <1>2, MinOfTwo
  <2> QED
    BY <1>2, <1>4, <2>1, <2>2, <2>3 DEF Least
<1>6. CASE ask.mode = "vec"
  <2>1. Dive(chunks, ask, setup) = Refused
    BY <1>1, <1>6 DEF Dive
  <2>2. HandleSearch(chunks, ask, setup) = Refused
    BY <1>1, <1>6 DEF HandleSearch
  <2>3. HandleSearchLocalNotes(chunks, ask, setup) = Refused
    BY <1>1, <1>6 DEF HandleSearchLocalNotes
  <2> QED
    BY <2>1, <2>2, <2>3
<1>7. CASE ask.mode # "vec"
  <2>1. PICK d, r : d = Seen(chunks, ask) /\ r = RequestOf(ask, limit, FALSE, backlinks)
    OBVIOUS
  <2>2. Dive(chunks, ask, setup) = Ids(Search(d, r))
    <3>1. setup.model = FALSE
      BY <1>1 DEF Setup
    <3> QED
      BY <1>1, <1>3, <1>7, <2>1, <3>1 DEF Dive
  <2>3. HandleSearchLocalNotes(chunks, ask, setup) = Ids(Search(d, r))
    <3>1. PICK plain : plain = [ask EXCEPT !.filtering = FALSE, !.mmr = FALSE]
      OBVIOUS
    <3>2. plain = ask
      BY <1>1, <3>1 DEF Ask
    <3>3. HandleSearchLocalNotes(chunks, ask, setup)
            = Ids(Search(Seen(chunks, plain),
                         RequestOf(plain, Min({ask.limit, McpLimit}), FALSE, setup.backlinks)))
      BY <1>1, <1>7, <3>1 DEF HandleSearchLocalNotes
    <3> QED
      BY <1>3, <1>5, <2>1, <3>2, <3>3
  <2>4. HandleSearch(chunks, ask, setup) = Slice(Ids(Search(d, r)), 0, limit)
    <3>1. Clamped(ask) = ask
      <4>1. ask.limit = limit /\ ask.offset = 0
        BY <1>1, <1>3
      <4>2. Clamped(ask) = [ask EXCEPT !.limit = limit, !.offset = 0]
        BY <1>5, <4>1 DEF Clamped
      <4> QED
        BY <4>1, <4>2 DEF Ask
    <3>2. [ask EXCEPT !.mmr = FALSE] = ask
      BY <1>1 DEF Ask
    <3>3. limit + 0 = limit
      OBVIOUS
    <3>4. HandleSearch(chunks, ask, setup)
            = Slice(Ids(Search(Seen(chunks, ask), RequestOf(ask, limit + 0, FALSE, backlinks))),
                    0, limit)
      BY <1>1, <1>3, <1>7, <3>1, <3>2 DEF HandleSearch
    <3> QED
      BY <2>1, <3>3, <3>4
  <2>5. Slice(Ids(Search(d, r)), 0, limit) = Ids(Search(d, r))
    <3>1. IsIndex(d)
      BY <2>1, SeenIs
    <3>2. r \in Request /\ ModeOf(r) = "fts" /\ r.limit = limit
      BY <1>7, <2>1, RequestOfIs
    <3>3. PICK R : R = Search(d, r)
      OBVIOUS
    <3>4. PICK U : IsList(R, U) /\ Len(R) <= limit /\ Len(R) \in Nat
      BY <3>1, <3>2, <3>3, TextAnswer
    <3>5. PICK n, I : n \in Nat /\ n = Len(R) /\ I = Ids(R)
      BY <3>4
    <3>6. IsRow(I, n)
      BY <3>4, <3>5, IdsIs
    <3>7. PICK S : I \in Seq(S)
      BY <3>6, RowIsSeq
    <3>8. Len(I) = n
      BY <3>6, RowIsSeq
    <3>9. Min({limit, n}) = n
      <4>1. Min({limit, n}) = Least(limit, n)
        BY <3>5, MinOfTwo
      <4> QED
        BY <3>4, <3>5, <4>1 DEF Least
    <3>10. Slice(I, 0, limit) = SubSeq(I, 1, n)
      <4>1. 0 + limit = limit /\ 0 + 1 = 1
        OBVIOUS
      <4> QED
        BY <3>8, <3>9, <4>1 DEF Slice
    <3>11. SubSeq(I, 1, n) = I
      BY <3>7, <3>8, SubSeqFull
    <3> QED
      BY <3>3, <3>5, <3>10, <3>11
  <2> QED
    BY <2>2, <2>3, <2>4, <2>5
<1> QED
  BY <1>6, <1>7

LEMMA SizeIs ==
  ASSUME NEW ask \in Ask, NEW size, size = Min({ask.limit, HttpLimit})
  PROVE  /\ size \in Nat /\ ask.limit \in Nat /\ HttpLimit \in Nat /\ HttpOffset \in Nat
<1>1. HttpLimit \in Nat /\ HttpOffset \in Nat
  BY DoorsAssumption
<1>2. ask.limit \in Nat
  BY AskIs
<1> QED
  BY <1>1, <1>2, MinOfTwo

IsMoved(a, ask, skip) == a = [ask EXCEPT !.offset = skip]
IsPage(h, chunks, p, ask, setup, skip, size) ==
  /\ p.vault = ask.vault /\ p.mode # "vec"
  /\ h = Slice(Ids(Search(Seen(chunks, p),
                          RequestOf(p, size + skip, FALSE, setup.backlinks))),
               skip, size)

LEMMA OnePageIs ==
  ASSUME NEW chunks, IsIndex(chunks), NEW ask \in Ask, NEW setup \in Setup, setup.tokenizer,
         ask.mode # "vec", ~ ask.blank, NEW size, size = Min({ask.limit, HttpLimit}),
         NEW skip \in Nat, skip <= HttpOffset,
         NEW a, IsMoved(a, ask, skip), NEW h, h = HandleSearch(chunks, a, setup)
  PROVE  \E p \in Ask : IsPage(h, chunks, p, ask, setup, skip, size)
<1>1. HttpOffset \in Nat
  BY DoorsAssumption
<1>2. size \in Nat
  BY SizeIs
<1>3. Min({skip, HttpOffset}) = skip
  <2>1. Min({skip, HttpOffset}) = Least(skip, HttpOffset)
    BY <1>1, MinOfTwo
  <2> QED
    BY <2>1 DEF Least
<1>14. a = [ask EXCEPT !.offset = skip]
  BY DEF IsMoved
<1>4. PICK q, p : /\ q = [ask EXCEPT !.offset = skip, !.limit = size]
                  /\ p = [ask EXCEPT !.offset = skip, !.limit = size, !.mmr = FALSE]
  OBVIOUS
<1>5. a.limit = ask.limit /\ a.offset = skip /\ a.mode = ask.mode /\ a.blank = ask.blank
  BY <1>14 DEF Ask
<1>6. Clamped(a) = q
  <2>1. Clamped(a) = [a EXCEPT !.limit = size, !.offset = skip]
    BY <1>3, <1>5 DEF Clamped
  <2> QED
    BY <1>4, <1>14, <2>1 DEF Ask
<1>7. [q EXCEPT !.mmr = FALSE] = p
  BY <1>4 DEF Ask
<1>8. p \in Ask /\ p.vault = ask.vault /\ p.mode # "vec"
  BY <1>2, <1>4 DEF Ask
<1>9. q.limit = size /\ q.offset = skip /\ Seen(chunks, q) = Seen(chunks, p)
  <2>1. /\ q.limit = size /\ q.offset = skip /\ q.vault = p.vault /\ q.filtering = p.filtering
    BY <1>4 DEF Ask
  <2> QED
    BY <2>1 DEF Seen
<1>10. HandleSearch(chunks, a, setup)
         = Slice(Ids(Search(Seen(chunks, q),
                            RequestOf([q EXCEPT !.mmr = FALSE], q.limit + q.offset, FALSE,
                                      setup.backlinks))),
                 q.offset, q.limit)
  BY <1>5, <1>6 DEF HandleSearch
<1>11. HandleSearch(chunks, a, setup)
         = Slice(Ids(Search(Seen(chunks, p), RequestOf(p, size + skip, FALSE, setup.backlinks))),
                 skip, size)
  BY <1>7, <1>9, <1>10
<1>12. IsPage(h, chunks, p, ask, setup, skip, size)
  BY <1>8, <1>11 DEF IsPage
<1> QED
  BY <1>8, <1>12

LEMMA SeenPlain ==
  ASSUME NEW chunks, IsIndex(chunks), Plain(chunks), NEW p \in Ask, p.vault # "unknown"
  PROVE  /\ Plain(Seen(chunks, p)) /\ IsIndex(Seen(chunks, p))
         /\ TextBase(Seen(chunks, p)) = TextBase(chunks)
<1>1. PICK d : d = Seen(chunks, p)
  OBVIOUS
<1>2. /\ IsIndex(d) /\ DOMAIN d = DOMAIN chunks
      /\ \A i \in DOMAIN chunks :
           /\ d[i].hit = chunks[i].hit /\ d[i].bm25 = chunks[i].bm25
           /\ d[i].title = chunks[i].title /\ d[i].emphasized = chunks[i].emphasized
           /\ d[i].links = chunks[i].links
           /\ d[i].here <=> (p.vault = "any" \/ (p.vault = "here" /\ chunks[i].here))
           /\ d[i].keep <=> (p.filtering => chunks[i].keep)
  BY <1>1, SeenIs
<1>3. p.vault = "any" \/ p.vault = "here"
  BY AskIs
<1>4. \A i \in DOMAIN chunks : /\ ~ chunks[i].title /\ ~ chunks[i].emphasized
                               /\ chunks[i].links = 0 /\ chunks[i].keep /\ chunks[i].here
  BY PlainIs
<1>5. Plain(d)
  BY <1>2, <1>3, <1>4 DEF Plain, Unboosted
<1>6. TextHits(d) = TextHits(chunks)
  BY <1>2, <1>3, <1>4 DEF TextHits
<1>7. TextScores(d) = TextScores(chunks)
  <2>1. TextHits(chunks) \in SUBSET DOMAIN chunks
    BY DEF TextHits
  <2> QED
    BY <1>2, <1>6, <2>1 DEF TextScores
<1>8. TextBase(d) = TextBase(chunks)
  BY <1>7 DEF TextBase
<1> QED
  BY <1>1, <1>2, <1>5, <1>8

LEMMA SeenAnswer ==
  ASSUME NEW chunks, IsIndex(chunks), Plain(chunks), NEW p \in Ask, p.vault # "unknown",
         p.mode # "vec", NEW n \in Nat, NEW backlinks \in BOOLEAN
  PROVE  Ids(Search(Seen(chunks, p), RequestOf(p, n, FALSE, backlinks)))
           = Take(Ids(TextBase(chunks)), n)
<1>1. PICK d, r : d = Seen(chunks, p) /\ r = RequestOf(p, n, FALSE, backlinks)
  OBVIOUS
<1>2. Plain(d) /\ IsIndex(d) /\ TextBase(d) = TextBase(chunks)
  BY <1>1, SeenPlain
<1>3. r \in Request /\ ModeOf(r) = "fts" /\ r.limit = n
  BY <1>1, RequestOfIs, ZenonT(60)
<1>4. Search(d, r) = Take(TextBase(d), n)
  BY <1>2, <1>3, PlainTextSearch
<1>5. IsList(TextBase(chunks), TextHits(chunks))
  BY TextBaseIs DEF IsBase
<1>6. Ids(Take(TextBase(chunks), n)) = Take(Ids(TextBase(chunks)), n)
  BY <1>5, IdsTaken
<1> QED
  BY <1>1, <1>2, <1>4, <1>6

LEMMA EmptyAnswer ==
  ASSUME NEW chunks, IsIndex(chunks), NEW p \in Ask, p.vault = "unknown",
         p.mode # "vec", NEW n \in Nat, NEW backlinks \in BOOLEAN
  PROVE  Ids(Search(Seen(chunks, p), RequestOf(p, n, FALSE, backlinks))) = <<>>
<1>1. PICK d, r, R : /\ d = Seen(chunks, p) /\ r = RequestOf(p, n, FALSE, backlinks)
                     /\ R = Search(d, r)
  OBVIOUS
<1>2. IsIndex(d)
  BY <1>1, SeenIs
<1>3. TextHits(d) = {}
  <2>1. \A i \in DOMAIN chunks : ~ d[i].here
    BY <1>1, SeenIs
  <2>2. DOMAIN d = DOMAIN chunks
    BY <1>1, SeenIs
  <2> QED
    BY <2>1, <2>2 DEF TextHits
<1>4. r \in Request /\ ModeOf(r) = "fts" /\ r.limit = n
  BY <1>1, RequestOfIs
<1>5. PICK U : IsList(R, U) /\ U \in SUBSET TextHits(d)
  BY <1>1, <1>2, <1>4, TextAnswer
<1>6. IsList(R, {})
  BY <1>3, <1>5
<1>7. Len(R) = 0
  <2>1. Cardinality({}) = Len(R)
    BY <1>6, ListIsFinite
  <2> QED
    BY <2>1, FS_EmptySet
<1>8. IsRow(Ids(R), 0)
  BY <1>6, <1>7, IdsIs
<1>9. PICK I : I = Ids(R)
  OBVIOUS
<1>10. Len(I) = 0 /\ \E S : I \in Seq(S)
  BY <1>8, <1>9, RowIsSeq
<1>11. I = <<>>
  BY <1>10, EmptySeq
<1> QED
  BY <1>1, <1>9, <1>11

IsPart(t, s, n, a, b) == t = SubSeq(s, Least(n, a) + 1, Least(n, b))

LEMMA SliceIs ==
  ASSUME NEW I, NEW n, IsRow(I, n), NEW skip \in Nat, NEW size \in Nat,
         NEW u, u = size + skip
  PROVE  IsPart(Slice(Take(I, u), skip, size), I, n, skip, u)
<1> USE DEF IsPart
<1>1. n \in Nat /\ Len(I) = n /\ u \in Nat
  BY RowIsSeq
<1>2. PICK S : I \in Seq(S)
  BY RowIsSeq
<1>3. PICK e \in Nat : e = Least(n, u) /\ e <= n /\ e <= u
  BY <1>1 DEF Least
<1>4. PICK C : C = Take(I, u)
  OBVIOUS
<1>5. IsCut(C, I, e)
  BY <1>1, <1>3, <1>4, TakenCuts
<1>6. C = SubSeq(I, 1, e) /\ Len(C) = e
  BY <1>5, RowIsSeq DEF IsCut
<1>7. Min({skip + size, e}) = e
  <2>1. skip + size = u
    BY <1>1
  <2>2. Min({u, e}) = Least(u, e)
    BY <1>1, MinOfTwo
  <2>3. Least(u, e) = e
    BY <1>1, <1>3 DEF Least
  <2> QED
    BY <2>1, <2>2, <2>3
<1>8. Slice(C, skip, size) = SubSeq(C, skip + 1, e)
  BY <1>6, <1>7 DEF Slice
<1>9. CASE skip + 1 <= e
  <2>1. Least(n, skip) = skip
    BY <1>1, <1>3, <1>9 DEF Least
  <2>2. PICK m \in Nat : m = skip + 1
    OBVIOUS
  <2>3. 1 \in 1 .. Len(I) /\ e \in 1 .. Len(I) /\ m \in 1 .. e - 1 + 1 /\ e \in 1 .. e - 1 + 1
    BY <1>1, <1>3, <1>9, <2>2
  <2>4. SubSeq(SubSeq(I, 1, e), m, e) = SubSeq(I, 1 + m - 1, 1 + e - 1)
    BY <1>2, <2>3, SubSeqOfSubSeq
  <2>5. 1 + m - 1 = m /\ 1 + e - 1 = e
    OBVIOUS
  <2> QED
    BY <1>3, <1>4, <1>6, <1>8, <2>1, <2>2, <2>4, <2>5
<1>10. CASE ~ (skip + 1 <= e)
  <2>1. PICK k \in Nat : k = Least(n, skip) + 1
    BY <1>1 DEF Least
  <2>2. e < k
    BY <1>1, <1>3, <1>10, <2>1 DEF Least
  <2>3. SubSeq(I, k, e) = <<>>
    BY <2>2, SubSeqEmpty
  <2>4. PICK m \in Nat : m = skip + 1
    OBVIOUS
  <2>5. SubSeq(C, m, e) = <<>>
    BY <1>10, <2>4, SubSeqEmpty
  <2> QED
    BY <1>3, <1>4, <1>8, <2>1, <2>3, <2>4, <2>5
<1> QED
  BY <1>9, <1>10

IsJoined(c, s, t) == c = s \o t
IsFirst(s, I, a) == s = Take(I, a)

LEMMA CutsTile ==
  ASSUME NEW I, NEW n, IsRow(I, n), NEW a \in Nat, NEW b \in Nat, a <= b,
         NEW t, IsPart(t, I, n, a, b), NEW s, IsFirst(s, I, a), NEW c, IsJoined(c, s, t)
  PROVE  IsFirst(c, I, b)
<1>1. n \in Nat /\ Len(I) = n
  BY RowIsSeq
<1>2. PICK S : I \in Seq(S)
  BY RowIsSeq
<1>3. PICK k \in Nat, m \in Nat : k = Least(n, a) /\ m = Least(n, b) /\ k <= m /\ m <= n
  BY <1>1 DEF Least
<1>4. 1 \in 1 .. Len(I) + 1 /\ k \in 1 - 1 .. Len(I) /\ m \in k .. Len(I)
  BY <1>1, <1>3
<1>5. SubSeq(I, 1, k) \o SubSeq(I, k + 1, m) = SubSeq(I, 1, m)
  BY <1>2, <1>4, ConcatAdjacentSubSeq
<1>6. IsCut(Take(I, a), I, k)
  BY <1>3, TakenCuts
<1>7. IsCut(Take(I, b), I, m)
  BY <1>3, TakenCuts
<1> QED
  BY <1>3, <1>5, <1>6, <1>7 DEF IsCut, IsPart, IsFirst, IsJoined

LEMMA PageCuts ==
  ASSUME NEW chunks, IsIndex(chunks), Plain(chunks), NEW ask \in Ask, NEW setup \in Setup,
         setup.tokenizer, ask.mode # "vec", ~ ask.blank, ask.vault # "unknown",
         NEW size, size = Min({ask.limit, HttpLimit}),
         NEW skip \in Nat, skip <= HttpOffset, NEW a, IsMoved(a, ask, skip),
         NEW I, I = Ids(TextBase(chunks)), NEW n, IsRow(I, n), NEW u, u = size + skip
  PROVE  IsPart(HandleSearch(chunks, a, setup), I, n, skip, u)
<1>1. size \in Nat
  BY SizeIs
<1>0. PICK h : h = HandleSearch(chunks, a, setup)
  OBVIOUS
<1>2. PICK p \in Ask : IsPage(h, chunks, p, ask, setup, skip, size)
  BY <1>0, OnePageIs
<1>6. /\ p.vault = ask.vault /\ p.mode # "vec"
      /\ h = Slice(Ids(Search(Seen(chunks, p),
                              RequestOf(p, size + skip, FALSE, setup.backlinks))),
                   skip, size)
  BY <1>2 DEF IsPage
<1>3. u \in Nat /\ setup.backlinks \in BOOLEAN
  BY <1>1 DEF Setup
<1>4. Ids(Search(Seen(chunks, p), RequestOf(p, u, FALSE, setup.backlinks))) = Take(I, u)
  BY <1>6, <1>3, SeenAnswer
<1>5. IsPart(Slice(Take(I, u), skip, size), I, n, skip, u)
  BY <1>1, SliceIs
<1> QED
  BY <1>0, <1>3, <1>4, <1>5, <1>6

LEMMA NoPage ==
  ASSUME NEW chunks, IsIndex(chunks), NEW ask \in Ask, NEW setup \in Setup,
         setup.tokenizer, ask.mode # "vec", ~ ask.blank, ask.vault = "unknown",
         NEW size, size = Min({ask.limit, HttpLimit}),
         NEW skip \in Nat, skip <= HttpOffset, NEW a, IsMoved(a, ask, skip)
  PROVE  HandleSearch(chunks, a, setup) = <<>>
<1>1. size \in Nat
  BY SizeIs
<1>0. PICK h : h = HandleSearch(chunks, a, setup)
  OBVIOUS
<1>2. PICK p \in Ask : IsPage(h, chunks, p, ask, setup, skip, size)
  BY <1>0, OnePageIs
<1>6. /\ p.vault = ask.vault /\ p.mode # "vec"
      /\ h = Slice(Ids(Search(Seen(chunks, p),
                              RequestOf(p, size + skip, FALSE, setup.backlinks))),
                   skip, size)
  BY <1>2 DEF IsPage
<1>3. PICK u \in Nat : u = size + skip
  BY <1>1
<1>4. Ids(Search(Seen(chunks, p), RequestOf(p, u, FALSE, setup.backlinks))) = <<>>
  <2>1. setup.backlinks \in BOOLEAN
    BY DEF Setup
  <2> QED
    BY <1>6, <1>3, <2>1, EmptyAnswer
<1>5. Slice(<<>>, skip, size) = <<>>
  <2>1. Len(<<>>) = 0 /\ skip + size \in Nat
    BY <1>1
  <2>2. Min({skip + size, 0}) = Least(skip + size, 0)
    BY <2>1, MinOfTwo
  <2>3. Least(skip + size, 0) = 0
    BY <2>1 DEF Least
  <2>4. PICK m \in Nat : m = skip + 1
    OBVIOUS
  <2>5. SubSeq(<<>>, m, 0) = <<>>
    BY <2>4, SubSeqEmpty
  <2> QED
    BY <2>1, <2>2, <2>3, <2>4, <2>5 DEF Slice
<1> QED
  BY <1>0, <1>3, <1>4, <1>5, <1>6

LEMMA WholeIs ==
  ASSUME NEW chunks, IsIndex(chunks), Plain(chunks), NEW ask \in Ask, NEW setup \in Setup,
         setup.tokenizer, ask.mode # "vec", ~ ask.blank, NEW n \in Nat
  PROVE  Dive(chunks, [ask EXCEPT !.vault = "any", !.limit = n, !.mmr = FALSE],
              [setup EXCEPT !.model = FALSE])
           = Take(Ids(TextBase(chunks)), n)
<1>1. PICK w, s : /\ w = [ask EXCEPT !.vault = "any", !.limit = n, !.mmr = FALSE]
                  /\ s = [setup EXCEPT !.model = FALSE]
  OBVIOUS
<1>2. /\ w \in Ask /\ w.vault = "any" /\ w.limit = n /\ w.mode # "vec" /\ ~ w.blank
  BY <1>1 DEF Ask
<1>3. s.tokenizer /\ s.model = FALSE /\ s.backlinks \in BOOLEAN
  BY <1>1 DEF Setup
<1>4. Dive(chunks, w, s) = Ids(Search(Seen(chunks, w), RequestOf(w, n, FALSE, s.backlinks)))
  BY <1>2, <1>3 DEF Dive
<1>5. Ids(Search(Seen(chunks, w), RequestOf(w, n, FALSE, s.backlinks)))
        = Take(Ids(TextBase(chunks)), n)
  BY <1>2, <1>3, SeenAnswer
<1> QED
  BY <1>1, <1>4, <1>5

(* The pages by skip of GET /search (handle_search), put one after the    *)
(* other, are the one long answer of `shiotsuchi search` (run_dive), for   *)
(* every index without boosts and every page size that the server's own    *)
(* bounds let through: no result is on two pages and none is on no page.   *)
THEOREM PagesAreTheAnswer ==
  ASSUME NEW chunks, IsIndex(chunks), NEW ask \in Ask, NEW setup \in Setup
  PROVE  PagesTile(chunks, ask, setup)
<1> SUFFICES ASSUME Plain(chunks), setup.tokenizer, ask.mode # "vec", ~ ask.blank,
                    NEW size \in {n \in {Min({ask.limit, HttpLimit})} : 2 * n <= HttpOffset}
             PROVE  HandleSearch(chunks, [ask EXCEPT !.offset = 0 * size], setup)
                      \o HandleSearch(chunks, [ask EXCEPT !.offset = 1 * size], setup)
                      \o HandleSearch(chunks, [ask EXCEPT !.offset = 2 * size], setup)
                    = IF ask.vault = "unknown" THEN <<>>
                      ELSE Dive(chunks, [ask EXCEPT !.vault = "any", !.limit = 3 * size,
                                                    !.mmr = FALSE],
                                [setup EXCEPT !.model = FALSE])
  BY DEF PagesTile
<1>1. size = Min({ask.limit, HttpLimit}) /\ 2 * size <= HttpOffset
  OBVIOUS
<1>2. size \in Nat /\ HttpOffset \in Nat
  <2>1. ask.limit \in Nat /\ HttpLimit \in Nat /\ HttpOffset \in Nat
    BY AskIs, DoorsAssumption
  <2> QED
    BY <1>1, <2>1, MinOfTwo
<1>3. PICK one \in Nat, two \in Nat, three \in Nat :
        /\ one = 1 * size /\ two = 2 * size /\ three = 3 * size /\ 0 * size = 0
        /\ one = size + 0 /\ two = size + one /\ three = size + two
        /\ one <= two /\ two <= three /\ two <= HttpOffset /\ one <= HttpOffset
        /\ 0 <= HttpOffset
  <2>1. /\ 1 * size \in Nat /\ 2 * size \in Nat /\ 3 * size \in Nat
    BY <1>2
  <2> QED
    BY <1>1, <1>2, <2>1
<1>6. PICK a, b, c : /\ a = [ask EXCEPT !.offset = 0]
                     /\ b = [ask EXCEPT !.offset = one]
                     /\ c = [ask EXCEPT !.offset = two]
  OBVIOUS
<1>7. IsMoved(a, ask, 0) /\ IsMoved(b, ask, one) /\ IsMoved(c, ask, two)
  BY <1>6 DEF IsMoved
<1>4. PICK p, q, r : /\ p = HandleSearch(chunks, a, setup)
                     /\ q = HandleSearch(chunks, b, setup)
                     /\ r = HandleSearch(chunks, c, setup)
  OBVIOUS
<1>5. p \o q \o r = IF ask.vault = "unknown" THEN <<>>
                    ELSE Dive(chunks, [ask EXCEPT !.vault = "any", !.limit = three,
                                                  !.mmr = FALSE],
                              [setup EXCEPT !.model = FALSE])
  <2>1. CASE ask.vault = "unknown"
    <3>1. p = <<>> /\ q = <<>> /\ r = <<>>
      BY <1>1, <1>3, <1>4, <1>7, <2>1, NoPage
    <3> QED
      BY <2>1, <3>1
  <2>2. CASE ask.vault # "unknown"
    <3>1. PICK I, n : I = Ids(TextBase(chunks)) /\ n = Len(TextBase(chunks))
      OBVIOUS
    <3>2. IsRow(I, n)
      <4>1. IsList(TextBase(chunks), TextHits(chunks))
        BY TextBaseIs DEF IsBase
      <4> QED
        BY <3>1, <4>1, IdsIs
    <3>3. n \in Nat /\ Least(n, 0) = 0
      BY <3>2, RowIsSeq DEF Least
    <3>4. IsPart(p, I, n, 0, one)
      BY <1>1, <1>3, <1>4, <1>7, <2>2, <3>1, <3>2, PageCuts
    <3>5. IsPart(q, I, n, one, two)
      BY <1>1, <1>3, <1>4, <1>7, <2>2, <3>1, <3>2, PageCuts
    <3>6. IsPart(r, I, n, two, three)
      BY <1>1, <1>3, <1>4, <1>7, <2>2, <3>1, <3>2, PageCuts
    <3>7. IsFirst(p, I, one)
      <4>1. IsCut(Take(I, one), I, Least(n, one))
        BY <3>2, TakenCuts
      <4>2. 0 + 1 = 1
        OBVIOUS
      <4> QED
        BY <3>3, <3>4, <4>1, <4>2 DEF IsCut, IsPart, IsFirst
    <3>8. PICK s, t : s = p \o q /\ t = s \o r
      OBVIOUS
    <3>9. IsJoined(s, p, q) /\ IsJoined(t, s, r)
      BY <3>8 DEF IsJoined
    <3>11. IsFirst(s, I, two)
      BY <1>3, <3>2, <3>5, <3>7, <3>9, CutsTile
    <3>12. IsFirst(t, I, three)
      BY <1>3, <3>2, <3>6, <3>9, <3>11, CutsTile
    <3>13. p \o q \o r = Take(I, three)
      BY <3>8, <3>12 DEF IsFirst
    <3>10. Dive(chunks, [ask EXCEPT !.vault = "any", !.limit = three, !.mmr = FALSE],
                [setup EXCEPT !.model = FALSE]) = Take(I, three)
      BY <3>1, WholeIs
    <3> QED
      BY <2>2, <3>10, <3>13
  <2> QED
    BY <2>1, <2>2
<1> QED
  BY <1>3, <1>4, <1>5, <1>6

(***************************************************************************)
(* The re-ranking for diversity.                                           *)
(***************************************************************************)
LEMMA GreatestKey ==
  ASSUME NEW S \in SUBSET Int, IsFiniteSet(S), S # {}, NEW key \in [S -> Int]
  PROVE  \E x \in S : \A y \in S : key[y] <= key[x]
<1>1. PICK down \in [S -> Int] : \A a \in S : down[a] = - key[a]
  <2>1. [a \in S |-> - key[a]] \in [S -> Int]
    OBVIOUS
  <2> QED
    BY <2>1
<1>2. PICK rows1, f : rows1 = {<<down[a], a, f[a]>> : a \in S}
  OBVIOUS
<1>3. AreOrdered(rows1, S, down, f)
  BY <1>2, OrderIs
<1>4. PICK o : IsOrder(o, S, down)
  BY <1>3 DEF AreOrdered
<1>5. PICK n : n = Cardinality(S)
  OBVIOUS
<1>6. n \in Nat /\ n # 0
  BY <1>5, FS_CardinalityType, FS_EmptySet
<1>7. 1 \in 1 .. n /\ o[1] \in S
  BY <1>4, <1>5, <1>6 DEF IsOrder
<1>8. ASSUME NEW y \in S PROVE key[y] <= key[o[1]]
  <2>1. PICK k \in 1 .. n : o[k] = y
    BY <1>4, <1>5 DEF IsOrder
  <2>2. CASE k = 1
    BY <1>7, <2>1, <2>2
  <2>3. CASE k # 1
    <3>1. 1 < k
      BY <1>6, <2>3
    <3>2. down[o[1]] < down[o[k]] \/ (down[o[1]] = down[o[k]] /\ o[1] < o[k])
      BY <1>4, <1>5, <1>7, <3>1 DEF IsOrder
    <3>3. key[y] \in Int /\ key[o[1]] \in Int /\ down[y] = - key[y] /\ down[o[1]] = - key[o[1]]
      BY <1>1, <1>7
    <3> QED
      BY <2>1, <3>2, <3>3
  <2> QED
    BY <2>2, <2>3
<1> QED
  BY <1>7, <1>8

LEMMA GreatestIs ==
  ASSUME NEW S \in SUBSET Int, IsFiniteSet(S), S # {}
  PROVE  Max(S) \in S
<1>1. [a \in S |-> a] \in [S -> Int]
  OBVIOUS
<1>2. PICK x \in S : \A y \in S : [a \in S |-> a][y] <= [a \in S |-> a][x]
  BY <1>1, GreatestKey
<1>3. \A y \in S : x >= y
  <2>1. SUFFICES ASSUME NEW y \in S PROVE x >= y
    OBVIOUS
  <2>2. y <= x /\ x \in Int /\ y \in Int
    BY <1>2
  <2> QED
    BY <2>2
<1>4. \E z \in S : \A y \in S : z >= y
  BY <1>3
<1> QED
  BY <1>4 DEF Max

AreVectors(v) ==
  \A a, b \in DOMAIN v : Similarity(v[a]) \in Int /\ Likeness(v[a], v[b]) \in Int

SimilarityOf(C, v, k) == IF C[k].id \in DOMAIN v THEN Similarity(v[C[k].id]) ELSE 0
LikenessOf(C, v, j, k) ==
  IF C[j].id \in DOMAIN v /\ C[k].id \in DOMAIN v THEN Likeness(v[C[j].id], v[C[k].id]) ELSE 0
PenaltyOf(C, v, k, s) == Max({0} \cup {LikenessOf(C, v, j, k) : j \in ToSet(s)})
MarginOf(C, v, lambda, k, s) == Margin(lambda, SimilarityOf(C, v, k), PenaltyOf(C, v, k, s))
RestOf(C, s) == DOMAIN C \ ToSet(s)
BestOf(C, v, lambda, s) ==
  Min({k \in RestOf(C, s) : \A j \in RestOf(C, s) :
         MarginOf(C, v, lambda, j, s) <= MarginOf(C, v, lambda, k, s)})

(* A list of different places. *)
IsPick(s, n, m) ==
  /\ s \in Seq(1 .. n) /\ Len(s) = m
  /\ \A i, j \in 1 .. m : s[i] = s[j] => i = j

LEMMA MarginIs ==
  ASSUME NEW C, NEW n \in Nat, DOMAIN C = 1 .. n, NEW v, AreVectors(v), NEW lambda \in 0 .. 10,
         NEW s, s \in Seq(1 .. n), NEW k
  PROVE  /\ MarginOf(C, v, lambda, k, s) \in Int
         /\ SimilarityOf(C, v, k) \in Int
         /\ lambda = 10 => MarginOf(C, v, lambda, k, s) = 10 * SimilarityOf(C, v, k)
<1> DEFINE like == [j \in ToSet(s) |-> LikenessOf(C, v, j, k)]
           T == {0} \cup {LikenessOf(C, v, j, k) : j \in ToSet(s)}
<1>1. SimilarityOf(C, v, k) \in Int /\ \A j : LikenessOf(C, v, j, k) \in Int
  BY DEF SimilarityOf, LikenessOf, AreVectors
<1>2. IsFiniteSet(ToSet(s))
  <2>1. ToSet(s) \in SUBSET (1 .. n)
    BY DEF ToSet
  <2>2. 1 \in Int /\ n \in Int
    OBVIOUS
  <2>3. IsFiniteSet(1 .. n)
    BY <2>2, FS_Interval
  <2> QED
    BY <2>1, <2>3, FS_Subset
<1>3. IsFiniteSet({LikenessOf(C, v, j, k) : j \in ToSet(s)})
  <2>1. like \in Surjection(ToSet(s), {LikenessOf(C, v, j, k) : j \in ToSet(s)})
    BY DEF Surjection
  <2> QED
    BY <1>2, <2>1, FS_Surjection
<1>4. IsFiniteSet(T)
  <2>1. T = {LikenessOf(C, v, j, k) : j \in ToSet(s)} \cup {0}
    OBVIOUS
  <2> QED
    BY <1>3, <2>1, FS_AddElement
<1>5. T \in SUBSET Int /\ T # {}
  BY <1>1
<1>6. Max(T) \in T
  <2> HIDE DEF T
  <2> QED
    BY <1>4, <1>5, GreatestIs
<1>7. PICK x, y : x = SimilarityOf(C, v, k) /\ y = PenaltyOf(C, v, k, s)
  OBVIOUS
<1>8. x \in Int /\ y \in Int
  BY <1>1, <1>5, <1>6, <1>7 DEF PenaltyOf
<1>9. MarginOf(C, v, lambda, k, s) = lambda * x - (10 - lambda) * y
  BY <1>7 DEF MarginOf, Margin
<1>10. lambda \in Int /\ 10 - lambda \in Int
  OBVIOUS
<1>11. lambda * x \in Int /\ (10 - lambda) * y \in Int
  BY <1>8, <1>10
<1>12. MarginOf(C, v, lambda, k, s) \in Int
  BY <1>9, <1>11
<1>13. ASSUME lambda = 10 PROVE MarginOf(C, v, lambda, k, s) = 10 * x
  <2>1. MarginOf(C, v, lambda, k, s) = 10 * x - 0 * y
    BY <1>9, <1>13
  <2>2. 0 * y = 0 /\ 10 * x \in Int
    BY <1>8
  <2> QED
    BY <2>1, <2>2
<1> QED
  BY <1>1, <1>7, <1>12, <1>13

IsBest(b, C, v, lambda, s, n, m) ==
  /\ b \in 1 .. n
  /\ \A k \in 1 .. m : s[k] # b
  /\ \A k \in 1 .. n :
       (/\ \A i \in 1 .. m : s[i] # k
        /\ \A j \in 1 .. n : (\A i \in 1 .. m : s[i] # j) =>
             MarginOf(C, v, lambda, j, s) <= MarginOf(C, v, lambda, k, s))
       => b <= k

LEMMA BestIs ==
  ASSUME NEW C, NEW n \in Nat, DOMAIN C = 1 .. n, NEW v, AreVectors(v), NEW lambda \in 0 .. 10,
         NEW s, NEW m \in Nat, m < n, IsPick(s, n, m)
  PROVE  IsBest(BestOf(C, v, lambda, s), C, v, lambda, s, n, m)
<1> DEFINE R == RestOf(C, s)
           margin == [k \in R |-> MarginOf(C, v, lambda, k, s)]
           B == {k \in R : \A j \in R : MarginOf(C, v, lambda, j, s) <= MarginOf(C, v, lambda, k, s)}
<1>1. s \in Seq(1 .. n) /\ Len(s) = m /\ \A i, j \in 1 .. m : s[i] = s[j] => i = j
  BY DEF IsPick
<1>2. s \in [1 .. m -> 1 .. n]
  BY <1>1
<1>3. \A k : k \in R <=> k \in 1 .. n /\ \A i \in 1 .. m : s[i] # k
  BY <1>1 DEF RestOf, ToSet
<1>4. IsFiniteSet(1 .. n) /\ Cardinality(1 .. n) = n
  <2>1. Cardinality(1 .. n) = IF 1 > n THEN 0 ELSE n - 1 + 1
    BY FS_Interval
  <2>2. IsFiniteSet(1 .. n)
    BY FS_Interval
  <2> QED
    BY <2>1, <2>2
<1>5. IsFiniteSet(1 .. m) /\ Cardinality(1 .. m) = m
  <2>1. Cardinality(1 .. m) = IF 1 > m THEN 0 ELSE m - 1 + 1
    BY FS_Interval
  <2>2. IsFiniteSet(1 .. m)
    BY FS_Interval
  <2> QED
    BY <2>1, <2>2
<1>6. R # {}
  <2>1. SUFFICES ASSUME R = {} PROVE FALSE
    OBVIOUS
  <2>2. \A k \in 1 .. n : \E i \in 1 .. m : s[i] = k
    BY <1>3, <2>1
  <2>3. Cardinality(1 .. n) = Cardinality(1 .. m)
    BY <1>1, <1>2, <1>5, <2>2, CountedBy, ZenonT(60)
  <2> QED
    BY <1>4, <1>5, <2>3
<1>7. R \in SUBSET (1 .. n)
  BY <1>3
<1>8. IsFiniteSet(R)
  BY <1>4, <1>7, FS_Subset
<1>9. \A k : MarginOf(C, v, lambda, k, s) \in Int
  BY <1>1, MarginIs
<1>10. margin \in [R -> Int] /\ R \in SUBSET Int
  BY <1>7, <1>9
<1>11. \E x \in R : \A y \in R : margin[y] <= margin[x]
  <2> HIDE DEF R, margin
  <2> QED
    BY <1>6, <1>8, <1>10, GreatestKey
<1>12. B # {} /\ B \in SUBSET Nat /\ B \in SUBSET R
  BY <1>7, <1>11
<1>13. Min(B) \in B /\ \A k \in B : Min(B) <= k
  <2> HIDE DEF B
  <2> QED
    BY <1>12, MinIsLeast
<1>14. BestOf(C, v, lambda, s) = Min(B)
  BY DEF BestOf
<1>15. BestOf(C, v, lambda, s) \in R
  BY <1>12, <1>13, <1>14
<1>16. ASSUME NEW k \in 1 .. n, \A i \in 1 .. m : s[i] # k,
              \A j \in 1 .. n : (\A i \in 1 .. m : s[i] # j) =>
                MarginOf(C, v, lambda, j, s) <= MarginOf(C, v, lambda, k, s)
       PROVE  BestOf(C, v, lambda, s) <= k
  <2>1. k \in R
    BY <1>3, <1>16
  <2>2. \A j \in R : MarginOf(C, v, lambda, j, s) <= MarginOf(C, v, lambda, k, s)
    BY <1>3, <1>16
  <2>3. k \in B
    BY <2>1, <2>2
  <2> HIDE DEF B
  <2> QED
    BY <1>13, <1>14, <2>3
<1>17. BestOf(C, v, lambda, s) \in 1 .. n /\ \A k \in 1 .. m : s[k] # BestOf(C, v, lambda, s)
  <2> HIDE DEF R
  <2> QED
    BY <1>3, <1>15
<1> QED
  BY <1>16, <1>17 DEF IsBest

PickedOf(C, v, lambda, count) ==
  LET pick[n \in 0 .. count] ==
        IF n = 0 THEN <<>>
        ELSE Append(pick[n - 1], BestOf(C, v, lambda, pick[n - 1]))
  IN  pick[count]

IsPicked(M, C, v, lambda, count) ==
  M = IF Len(C) <= 1 THEN C ELSE [n \in 1 .. count |-> C[PickedOf(C, v, lambda, count)[n]]]

LEMMA RerankPicks ==
  ASSUME NEW C, NEW v, NEW lambda, NEW limit, NEW count, count = Min({limit, Len(C)})
  PROVE  IsPicked(Rerank(C, v, lambda, limit), C, v, lambda, count)
BY DEF IsPicked, Rerank, PickedOf, BestOf, RestOf, MarginOf, PenaltyOf, LikenessOf, SimilarityOf

ArePicks(run, C, v, lambda, n, count) ==
  /\ run[0] = <<>> /\ PickedOf(C, v, lambda, count) = run[count]
  /\ \A k \in 1 .. count : run[k] = Append(run[k - 1], BestOf(C, v, lambda, run[k - 1]))
  /\ \A k \in 0 .. count : IsPick(run[k], n, k)

LEMMA PicksAre ==
  ASSUME NEW C, NEW n \in Nat, DOMAIN C = 1 .. n, NEW v, AreVectors(v), NEW lambda \in 0 .. 10,
         NEW count \in Nat, count <= n
  PROVE  \E run : ArePicks(run, C, v, lambda, n, count)
<1> DEFINE S == {s \in Seq(1 .. n) : IsPick(s, n, Len(s))}
           best(s) == BestOf(C, v, lambda, s)
           after == [s \in S |-> IF Len(s) < n THEN Append(s, best(s)) ELSE s]
           step == [k \in 1 .. count |-> after]
           F(x) == [k \in 0 .. count |-> IF k = 0 THEN <<>> ELSE Append(x[k - 1], best(x[k - 1]))]
           picks == CHOOSE x : x = F(x)
<1>1. ASSUME NEW s, NEW m \in Nat, m < n, IsPick(s, n, m)
      PROVE  IsPick(Append(s, best(s)), n, m + 1)
  <2>1. PICK b : b = best(s)
    OBVIOUS
  <2>2. b \in 1 .. n /\ \A k \in 1 .. m : s[k] # b
    BY <1>1, <2>1, BestIs DEF IsBest
  <2>3. s \in Seq(1 .. n) /\ Len(s) = m /\ \A i, j \in 1 .. m : s[i] = s[j] => i = j
    BY <1>1 DEF IsPick
  <2>4. PICK t : t = Append(s, b)
    OBVIOUS
  <2>5. /\ t \in Seq(1 .. n) /\ Len(t) = m + 1 /\ t[m + 1] = b
        /\ \A i \in 1 .. m : t[i] = s[i]
    BY <2>2, <2>3, <2>4, AppendProperties
  <2>6. ASSUME NEW i \in 1 .. m + 1, NEW j \in 1 .. m + 1, t[i] = t[j] PROVE i = j
    <3>1. (i \in 1 .. m \/ i = m + 1) /\ (j \in 1 .. m \/ j = m + 1)
      OBVIOUS
    <3> QED
      BY <2>2, <2>3, <2>5, <2>6, <3>1
  <2> QED
    BY <2>1, <2>4, <2>5, <2>6 DEF IsPick
<1>2. <<>> \in S
  <2>1. <<>> \in Seq(1 .. n) /\ Len(<<>>) = 0
    BY EmptySeq
  <2> QED
    BY <2>1 DEF IsPick
<1>3. step \in [1 .. count -> [S -> S]]
  <2>1. ASSUME NEW s \in S PROVE after[s] \in S
    <3>1. PICK m \in Nat : m = Len(s)
      BY LenProperties
    <3>2. CASE m < n
      <4>1. IsPick(Append(s, best(s)), n, m + 1)
        BY <1>1, <3>1, <3>2
      <4>2. PICK t : t = Append(s, best(s))
        OBVIOUS
      <4>3. t \in Seq(1 .. n) /\ Len(t) = m + 1 /\ IsPick(t, n, m + 1)
        BY <4>1, <4>2 DEF IsPick
      <4> QED
        BY <3>1, <3>2, <4>2, <4>3
    <3>3. CASE ~ (m < n)
      BY <3>1, <3>3
    <3> QED
      BY <3>2, <3>3
  <2>2. after \in [S -> S]
    BY <2>1
  <2> QED
    BY <2>2
<1>4. PICK a : a = <<>>
  OBVIOUS
<1>5. \E run : IsRun(run, S, count, a, step)
  <2> HIDE DEF S, step
  <2> QED
    BY <1>2, <1>3, <1>4, RunsExist
<1>6. PICK run \in [0 .. count -> S] :
        run[0] = <<>> /\ \A k \in 1 .. count : run[k] = step[k][run[k - 1]]
  BY <1>4, <1>5 DEF IsRun
<1>7. \A k \in 0 .. count : IsPick(run[k], n, k)
  <2> DEFINE T == {k \in 0 .. count : ~ IsPick(run[k], n, k)}
  <2>1. SUFFICES ASSUME T # {} PROVE FALSE
    OBVIOUS
  <2>2. PICK k \in T : \A j \in T : k <= j
    <3>1. T \in SUBSET Nat
      OBVIOUS
    <3> HIDE DEF T
    <3> QED
      BY <2>1, <3>1, LeastNumber
  <2>3. k # 0
    <3>1. <<>> \in Seq(1 .. n) /\ Len(<<>>) = 0
      BY EmptySeq
    <3>2. IsPick(<<>>, n, 0)
      BY <3>1 DEF IsPick
    <3> QED
      BY <1>6, <2>2, <3>2
  <2>4. PICK m \in Nat : m = k - 1 /\ m < n /\ m + 1 = k /\ m \in 0 .. count /\ k \in 1 .. count
    BY <2>2, <2>3
  <2>5. IsPick(run[m], n, m)
    <3>1. ~ (k <= m)
      BY <2>2, <2>4
    <3> QED
      BY <2>2, <2>4, <3>1
  <2>6. run[m] \in S /\ Len(run[m]) = m
    BY <1>6, <2>4, <2>5 DEF IsPick
  <2>7. run[k] = Append(run[m], best(run[m]))
    <3>1. run[k] = step[k][run[m]]
      BY <1>6, <2>4
    <3> HIDE DEF S
    <3> QED
      BY <2>4, <2>6, <3>1
  <2>8. IsPick(run[k], n, k)
    BY <1>1, <2>4, <2>5, <2>7
  <2> QED
    BY <2>2, <2>8
<1>8. ASSUME NEW k \in 1 .. count PROVE run[k] = Append(run[k - 1], best(run[k - 1]))
  <2>1. PICK m \in Nat : m = k - 1 /\ m < n /\ m \in 0 .. count
    OBVIOUS
  <2>2. run[m] \in S /\ Len(run[m]) = m
    BY <1>6, <1>7, <2>1 DEF IsPick
  <2>3. run[k] = step[k][run[m]]
    BY <1>6, <2>1
  <2> HIDE DEF S
  <2> QED
    BY <2>1, <2>2, <2>3
<1>9. run = F(run)
  <2>1. \A k \in 0 .. count : run[k] = IF k = 0 THEN <<>> ELSE Append(run[k - 1], best(run[k - 1]))
    <3>1. SUFFICES ASSUME NEW k \in 0 .. count
                   PROVE  run[k] = IF k = 0 THEN <<>> ELSE Append(run[k - 1], best(run[k - 1]))
      OBVIOUS
    <3>2. CASE k = 0
      BY <1>6, <3>2
    <3>3. CASE k # 0
      <4>1. k \in 1 .. count
        BY <3>3, SMTT(40)
      <4> QED
        BY <1>8, <3>3, <4>1, ZenonT(60)
    <3> QED
      BY <3>2, <3>3
  <2>2. run = [k \in 0 .. count |-> run[k]]
    BY <1>6, SMTT(40)
  <2> QED
    BY <2>1, <2>2
<1>10. picks = F(picks)
  BY <1>9
<1>11. PickedOf(C, v, lambda, count) = picks[count]
  BY DEF PickedOf
<1> HIDE DEF picks
<1>12. \A k \in 0 .. count : picks[k] = run[k]
  <2> DEFINE T == {k \in 0 .. count : picks[k] # run[k]}
  <2>0. \A k \in 0 .. count : picks[k] = IF k = 0 THEN <<>> ELSE Append(picks[k - 1], best(picks[k - 1]))
    BY <1>10
  <2>1. SUFFICES ASSUME T # {} PROVE FALSE
    OBVIOUS
  <2>2. PICK k \in T : \A j \in T : k <= j
    <3>1. T \in SUBSET Nat
      OBVIOUS
    <3> HIDE DEF T
    <3> QED
      BY <2>1, <3>1, LeastNumber
  <2>3. k # 0
    BY <1>6, <2>0, <2>2
  <2>4. PICK m \in Nat : m = k - 1 /\ m \in 0 .. count /\ k \in 1 .. count
    BY <2>2, <2>3
  <2>5. picks[m] = run[m]
    <3>1. ~ (k <= m)
      BY <2>2, <2>4
    <3> QED
      BY <2>2, <2>4, <3>1
  <2>6. picks[k] = Append(picks[m], best(picks[m]))
    BY <2>0, <2>3, <2>4
  <2>7. run[k] = Append(run[m], best(run[m]))
    BY <1>8, <2>4
  <2> QED
    BY <2>2, <2>5, <2>6, <2>7
<1>13. count \in 0 .. count
  OBVIOUS
<1> QED
  BY <1>6, <1>7, <1>8, <1>11, <1>12, <1>13 DEF ArePicks

IsReranked(M, C, T, limit) ==
  \E U : /\ U \in SUBSET T /\ IsList(M, U)
         /\ Len(M) = IF Len(C) <= 1 THEN Len(C) ELSE Least(limit, Len(C))

LEMMA RerankIs ==
  ASSUME NEW C, NEW T, IsList(C, T), NEW v, AreVectors(v), NEW lambda \in 0 .. 10,
         NEW limit \in Nat
  PROVE  IsReranked(Rerank(C, v, lambda, limit), C, T, limit)
<1>1. PICK n \in Nat : n = Len(C) /\ DOMAIN C = 1 .. n
  BY PlaceIs
<1>2. PICK count \in Nat : count = Min({limit, Len(C)}) /\ count = Least(limit, n) /\ count <= n
  BY <1>1, MinOfTwo
<1>3. PICK M : M = Rerank(C, v, lambda, limit)
  OBVIOUS
<1>4. CASE n <= 1
  <2>1. M = C
    BY <1>1, <1>2, <1>3, <1>4, RerankPicks DEF IsPicked
  <2> QED
    BY <1>1, <1>3, <1>4, <2>1 DEF IsReranked
<1>5. CASE ~ (n <= 1)
  <2>1. PICK run : ArePicks(run, C, v, lambda, n, count)
    BY <1>1, <1>2, PicksAre
  <2>2. PICK s : s = run[count]
    OBVIOUS
  <2>3. PickedOf(C, v, lambda, count) = s /\ IsPick(s, n, count)
    <3>1. count \in 0 .. count
      OBVIOUS
    <3> QED
      BY <2>1, <2>2, <3>1 DEF ArePicks
  <2>4. M = [k \in 1 .. count |-> C[s[k]]]
    <3>1. IsPicked(Rerank(C, v, lambda, limit), C, v, lambda, count)
      BY <1>2, RerankPicks
    <3> QED
      BY <1>1, <1>3, <1>5, <2>3, <3>1 DEF IsPicked
  <2>5. s \in [1 .. count -> 1 .. n] /\ \A k, l \in 1 .. count : s[k] = s[l] => k = l
    BY <2>3 DEF IsPick
  <2>6. IsRow(M, count)
    BY <2>4, RowIs
  <2>7. PICK U : U = {C[s[k]].id : k \in 1 .. count}
    OBVIOUS
  <2>8. \A a : a \in U <=> \E k \in 1 .. count : C[s[k]].id = a
    BY <2>7
  <2>9. \A k \in 1 .. count : M[k] = C[s[k]]
    BY <2>4
  <2>10. IsChosen(M, U, C, T, count, s)
    BY <1>1, <2>5, <2>6, <2>8, <2>9, ChosenList
  <2>11. IsList(M, U) /\ Len(M) = count /\ U \in SUBSET T
    BY <2>8, <2>10 DEF IsChosen
  <2> QED
    BY <1>1, <1>2, <1>3, <1>5, <2>11 DEF IsReranked
<1> QED
  BY <1>4, <1>5

(* With lambda 1 the first that is left is the best, if they are sorted.   *)
BySimilarity(C, v, n) ==
  \A k, l \in 1 .. n : k <= l => SimilarityOf(C, v, l) <= SimilarityOf(C, v, k)

LEMMA FirstIsBest ==
  ASSUME NEW C, NEW n \in Nat, DOMAIN C = 1 .. n, NEW v, AreVectors(v), BySimilarity(C, v, n),
         NEW s, NEW m \in Nat, m < n, IsPick(s, n, m), \A k \in 1 .. m : s[k] = k
  PROVE  BestOf(C, v, 10, s) = m + 1
<1>1. PICK b : b = BestOf(C, v, 10, s)
  OBVIOUS
<1>0. 10 \in 0 .. 10
  OBVIOUS
<1>2. /\ b \in 1 .. n /\ \A k \in 1 .. m : s[k] # b
      /\ \A k \in 1 .. n :
           (/\ \A i \in 1 .. m : s[i] # k
            /\ \A j \in 1 .. n : (\A i \in 1 .. m : s[i] # j) =>
                 MarginOf(C, v, 10, j, s) <= MarginOf(C, v, 10, k, s))
           => b <= k
  <2>1. PICK lambda \in 0 .. 10 : lambda = 10
    BY <1>0
  <2>2. b = BestOf(C, v, lambda, s)
    BY <1>1, <2>1
  <2>3. IsBest(b, C, v, lambda, s, n, m)
    BY <2>2, BestIs
  <2> QED
    BY <2>1, <2>3 DEF IsBest
<1>3. PICK k \in 1 .. n : k = m + 1
  OBVIOUS
<1>4. \A i \in 1 .. m : s[i] # k
  BY <1>3
<1>5. ASSUME NEW j \in 1 .. n, \A i \in 1 .. m : s[i] # j
      PROVE  MarginOf(C, v, 10, j, s) <= MarginOf(C, v, 10, k, s)
  <2>1. k <= j
    <3>1. j \notin 1 .. m
      BY <1>5
    <3> QED
      BY <1>3, <3>1
  <2>2. PICK x, y : x = SimilarityOf(C, v, j) /\ y = SimilarityOf(C, v, k)
    OBVIOUS
  <2>3. x <= y
    BY <2>1, <2>2 DEF BySimilarity
  <2>4. s \in Seq(1 .. n)
    BY DEF IsPick
  <2>5. /\ x \in Int /\ y \in Int
        /\ MarginOf(C, v, 10, j, s) = 10 * x /\ MarginOf(C, v, 10, k, s) = 10 * y
    BY <1>0, <2>2, <2>4, MarginIs
  <2> QED
    BY <2>3, <2>5
<1>6. b <= k
  BY <1>2, <1>4, <1>5
<1>7. b \notin 1 .. m
  BY <1>2
<1> QED
  BY <1>1, <1>2, <1>3, <1>6, <1>7

LEMMA RelevanceIsOrder ==
  ASSUME NEW C, NEW T, IsList(C, T), NEW v, AreVectors(v), BySimilarity(C, v, Len(C)),
         NEW limit \in Nat, Len(C) > 1
  PROVE  Rerank(C, v, 10, limit) = Take(C, limit)
<1>1. PICK n \in Nat : n = Len(C) /\ DOMAIN C = 1 .. n
  BY PlaceIs
<1>0. 10 \in 0 .. 10
  OBVIOUS
<1>2. PICK count \in Nat : count = Min({limit, Len(C)}) /\ count = Least(limit, n) /\ count <= n
  BY <1>1, MinOfTwo
<1>3. PICK run : ArePicks(run, C, v, 10, n, count)
  BY <1>0, <1>1, <1>2, PicksAre
<1>4. \A k \in 0 .. count : \A i \in 1 .. k : run[k][i] = i
  <2> DEFINE S == {k \in 0 .. count : ~ \A i \in 1 .. k : run[k][i] = i}
  <2>1. SUFFICES ASSUME S # {} PROVE FALSE
    OBVIOUS
  <2>2. PICK k \in S : \A j \in S : k <= j
    <3>1. S \in SUBSET Nat
      OBVIOUS
    <3> HIDE DEF S
    <3> QED
      BY <2>1, <3>1, LeastNumber
  <2>3. k # 0
    BY <2>2
  <2>4. PICK m \in Nat : m = k - 1 /\ m < n /\ m + 1 = k /\ m \in 0 .. count /\ k \in 1 .. count
    BY <1>2, <2>2, <2>3
  <2>5. \A i \in 1 .. m : run[m][i] = i
    <3>1. ~ (k <= m)
      BY <2>2, <2>4
    <3> QED
      BY <2>2, <2>4, <3>1
  <2>6. PICK s, t, b : s = run[m] /\ t = run[k] /\ b = BestOf(C, v, 10, s)
    OBVIOUS
  <2>7. IsPick(s, n, m) /\ t = Append(s, b)
    BY <1>3, <2>4, <2>6 DEF ArePicks
  <2>8. BySimilarity(C, v, n) /\ \A i \in 1 .. m : s[i] = i
    BY <1>1, <2>5, <2>6
  <2>9. b = m + 1
    BY <1>1, <2>4, <2>6, <2>7, <2>8, FirstIsBest
  <2>10. s \in Seq(1 .. n) /\ Len(s) = m /\ b \in 1 .. n
    BY <2>4, <2>7, <2>9 DEF IsPick
  <2>11. t[m + 1] = b /\ \A i \in 1 .. m : t[i] = s[i]
    BY <2>7, <2>10, AppendProperties
  <2>12. \A i \in 1 .. k : i \in 1 .. m \/ i = m + 1
    BY <2>4
  <2>13. \A i \in 1 .. k : t[i] = i
    BY <2>8, <2>9, <2>11, <2>12
  <2> QED
    BY <2>2, <2>6, <2>13
<1>5. PICK M : M = Rerank(C, v, 10, limit)
  OBVIOUS
<1>6. M = [k \in 1 .. count |-> C[run[count][k]]]
  <2>1. PickedOf(C, v, 10, count) = run[count]
    BY <1>3 DEF ArePicks
  <2>2. IsPicked(Rerank(C, v, 10, limit), C, v, 10, count)
    BY <1>2, RerankPicks
  <2> QED
    BY <1>1, <1>5, <2>1, <2>2 DEF IsPicked
<1>7. M = [k \in 1 .. count |-> C[k]]
  <2>1. count \in 0 .. count
    OBVIOUS
  <2> QED
    BY <1>4, <1>6, <2>1
<1>8. IsRow(M, count)
  BY <1>7, RowIs
<1>9. IsRow(C, n)
  BY <1>1 DEF IsList
<1>10. PICK N : N = Take(C, limit)
  OBVIOUS
<1>11. IsRow(N, count) /\ \A k \in 1 .. count : N[k] = C[k]
  <2>1. Least(n, limit) = count
    BY <1>2 DEF Least
  <2> QED
    BY <1>9, <1>10, <2>1, TakeCuts
<1>12. M = N
  BY <1>7, <1>8, <1>11, SameRows
<1> QED
  BY <1>5, <1>10, <1>12

LEMMA VectorsAre ==
  ASSUME NEW chunks, IsIndex(chunks), Plain(chunks), NEW n \in Nat,
         NEW v, v = NearVectors(chunks, n)
  PROVE  /\ AreVectors(v) /\ DOMAIN v = NearIds(chunks, n)
         /\ \A a \in NearIds(chunks, n) : /\ v[a] = chunks[a].vector /\ a \in DOMAIN chunks
                                          /\ chunks[a].vector # NoVector
<1>1. PICK L, U : L = Nearest(chunks, n) /\ U = NearIds(chunks, n)
  OBVIOUS
<1>2. IsTaken(L, U, VectorBase(chunks), VectorHits(chunks), n)
  BY <1>1, PlainVector
<1>3. IsList(L, U) /\ U \in SUBSET VectorHits(chunks)
  BY <1>2 DEF IsTaken
<1>4. ToSet(Ids(L)) = U
  BY <1>3, IdsIs
<1>5. \A a \in U : a \in DOMAIN chunks /\ chunks[a].vector # NoVector /\ chunks[a].here
  <2>1. \A a \in U : a \in DOMAIN chunks /\ chunks[a].vector # NoVector
    BY <1>3 DEF VectorHits
  <2> QED
    BY <2>1, PlainIs
<1>6. v = [i \in U |-> chunks[i].vector]
  <2>1. {j \in U : chunks[j].here} = U
    BY <1>5
  <2> QED
    BY <1>1, <1>4, <2>1 DEF NearVectors
<1>7. DOMAIN v = U /\ \A a \in U : v[a] = chunks[a].vector
  BY <1>6
<1>8. \A a, b \in U : Similarity(chunks[a].vector) \in Int
                      /\ Likeness(chunks[a].vector, chunks[b].vector) \in Int
  BY <1>5, IndexIs
<1>9. AreVectors(v)
  BY <1>7, <1>8 DEF AreVectors
<1> QED
  BY <1>1, <1>5, <1>7, <1>9

LEMMA PlainVectorSearch ==
  ASSUME NEW chunks, IsIndex(chunks), Plain(chunks), NEW req \in Request, req.mode = "vec",
         NEW limit, limit = req.limit
  PROVE  /\ req.mmr => Search(chunks, req) =
              Linked(chunks, Diversified(Nearest(chunks, PoolOf(req)),
                                         NearVectors(chunks, PoolOf(req)), "vec", req), "vec", req)
         /\ ~ req.mmr => Search(chunks, req) = Nearest(chunks, limit)
<1>1. limit \in Nat /\ PoolOf(req) \in Nat
  BY RequestIs
<1>2. ModeOf(req) = "vec"
  BY DEF ModeOf
<1>3. PICK pool, L : pool = PoolOf(req) /\ L = Nearest(chunks, pool)
  OBVIOUS
<1>4. SearchVec(chunks, pool, TRUE) = L /\ Linked(chunks, L, "vec", req) = L
  BY <1>1, <1>3, PlainVector DEF IsUnboosted
<1>5. Search(chunks, req) = Linked(chunks, Diversified(L, NearVectors(chunks, pool), "vec", req),
                                   "vec", req)
  BY <1>2, <1>3, <1>4, SearchIs
<1>6. ASSUME ~ req.mmr PROVE Search(chunks, req) = Nearest(chunks, limit)
  <2>1. pool = limit
    BY <1>3, <1>6 DEF PoolOf
  <2>2. Diversified(L, NearVectors(chunks, pool), "vec", req) = L
    BY <1>6 DEF Diversified
  <2> QED
    BY <1>3, <1>4, <1>5, <2>1, <2>2
<1> QED
  BY <1>3, <1>5, <1>6

LEMMA NearestSimilarity ==
  ASSUME NEW chunks, IsIndex(chunks), Plain(chunks), NEW n \in Nat,
         NEW v, v = NearVectors(chunks, n), NEW L, L = Nearest(chunks, n)
  PROVE  BySimilarity(L, v, Len(L))
<1>1. PICK U, B, T : U = NearIds(chunks, n) /\ B = VectorBase(chunks) /\ T = VectorHits(chunks)
  OBVIOUS
<1>2. IsTaken(L, U, B, T, n) /\ InPlace(L, U, "vec")
  BY <1>1, PlainVector DEF IsUnboosted
<1>3. IsList(L, U) /\ U \in SUBSET T /\ \A a \in U : ScoreOf(L, a) = ScoreOf(B, a)
  BY <1>2 DEF IsTaken
<1>4. \A a \in U : ScoreOf(L, a) = 60 * (10 - Similarity(chunks[a].vector))
  <2>1. IsBase(B, T, VectorScores(chunks), "vec")
    BY <1>1, VectorBaseIs
  <2>2. \A a \in U : ScoreOf(L, a) = VectorScores(chunks)[a] /\ a \in T
    BY <1>3, <2>1 DEF IsBase
  <2> QED
    BY <1>1, <2>2 DEF VectorScores
<1>5. /\ AreVectors(v) /\ DOMAIN v = U
      /\ \A a \in U : v[a] = chunks[a].vector
  BY <1>1, VectorsAre
<1>6. SUFFICES ASSUME NEW k \in 1 .. Len(L), NEW l \in 1 .. Len(L), k <= l
               PROVE  SimilarityOf(L, v, l) <= SimilarityOf(L, v, k)
  BY DEF BySimilarity
<1>7. PICK a, b : a = L[k].id /\ b = L[l].id
  OBVIOUS
<1>8. a \in U /\ b \in U /\ Place(L, a) = k /\ Place(L, b) = l
  BY <1>3, <1>7, PlaceIs
<1>9. PICK x, y : x = Similarity(v[a]) /\ y = Similarity(v[b])
  OBVIOUS
<1>10. /\ x \in Int /\ y \in Int
       /\ SimilarityOf(L, v, k) = x /\ SimilarityOf(L, v, l) = y
  BY <1>5, <1>7, <1>8, <1>9 DEF SimilarityOf, AreVectors
<1>11. ScoreOf(L, a) = 60 * (10 - x) /\ ScoreOf(L, b) = 60 * (10 - y)
  BY <1>4, <1>5, <1>8, <1>9
<1>12. CASE k = l
  BY <1>7, <1>9, <1>10, <1>12
<1>13. CASE k # l
  <2>1. k < l
    BY <1>6, <1>13
  <2>2. Place(L, a) < Place(L, b)
    BY <1>8, <2>1
  <2>3. ScoreOf(L, a) <= ScoreOf(L, b)
    BY <1>2, <1>8, <1>10, <1>11, <2>2 DEF InPlace, SortKey
  <2> QED
    BY <1>10, <1>11, <2>3
<1> QED
  BY <1>12, <1>13

LEMMA RelevanceIsNearest ==
  ASSUME NEW chunks, IsIndex(chunks), Plain(chunks), NEW pool \in Nat, NEW limit \in Nat,
         limit <= pool, limit = 0 => pool = 0, NEW v, v = NearVectors(chunks, pool),
         NEW L, L = Nearest(chunks, pool)
  PROVE  /\ Rerank(L, v, 10, limit) = Nearest(chunks, limit)
         /\ v = <<>> => L = Nearest(chunks, limit)
<1>1. PICK U, B, T : U = NearIds(chunks, pool) /\ B = VectorBase(chunks) /\ T = VectorHits(chunks)
  OBVIOUS
<1>2. IsTaken(L, U, B, T, pool)
  BY <1>1, PlainVector
<1>3. IsBase(B, T, VectorScores(chunks), "vec")
  BY <1>1, VectorBaseIs
<1>4. IsList(L, U) /\ IsList(B, T) /\ Len(L) \in Nat /\ Len(B) \in Nat /\ Len(L) <= pool
  <2>1. IsList(L, U) /\ IsList(B, T) /\ Len(L) = IF Len(B) <= pool THEN Len(B) ELSE pool
    BY <1>2, <1>3 DEF IsTaken, IsBase
  <2>2. Len(L) \in Nat /\ Len(B) \in Nat
    BY <2>1, PlaceIs
  <2> QED
    BY <2>1, <2>2
<1>5. L = Take(B, pool) /\ Nearest(chunks, limit) = Take(B, limit)
  BY <1>1, StagesAre
<1>6. Take(L, limit) = Nearest(chunks, limit)
  BY <1>4, <1>5, TakeTwice
<1>7. Len(L) <= 1 => Take(L, limit) = L
  <2>1. ASSUME Len(L) <= 1 PROVE Len(L) <= limit
    BY <1>4, <2>1
  <2> QED
    BY <2>1 DEF Take
<1>8. AreVectors(v) /\ DOMAIN v = U
  BY <1>1, VectorsAre
<1>9. ASSUME v = <<>> PROVE Len(L) <= 1
  <2>1. U = {}
    BY <1>8, <1>9
  <2>2. Cardinality(U) = Len(L)
    BY <1>4, ListIsFinite
  <2> QED
    BY <2>1, <2>2, FS_EmptySet
<1>10. Rerank(L, v, 10, limit) = Take(L, limit)
  <2>1. CASE Len(L) > 1
    <3>1. BySimilarity(L, v, Len(L))
      BY NearestSimilarity
    <3> QED
      BY <1>4, <1>8, <2>1, <3>1, RelevanceIsOrder
  <2>2. CASE ~ (Len(L) > 1)
    <3>1. PICK count : count = Min({limit, Len(L)})
      OBVIOUS
    <3>2. IsPicked(Rerank(L, v, 10, limit), L, v, 10, count)
      BY <3>1, RerankPicks
    <3>3. Len(L) <= 1
      BY <1>4, <2>2
    <3> QED
      BY <1>7, <3>2, <3>3 DEF IsPicked
  <2> QED
    BY <2>1, <2>2
<1> QED
  BY <1>6, <1>7, <1>9, <1>10

(* "lambda = 1.0 -> pure relevance" (mmr_rerank): of a vector search whose *)
(* scores nothing boosts, the re-ranking with lambda 1 gives back the page *)
(* that the search without it gives, for every index, limit and pool.      *)
THEOREM RelevanceIsKept ==
  ASSUME NEW chunks, IsIndex(chunks), NEW req \in Request
  PROVE  RelevanceKeepsOrder(chunks, req)
<1>1. SUFFICES ASSUME Plain(chunks), req.mode = "vec", req.mmr, req.lambda = 10
               PROVE  Search(chunks, req) = Search(chunks, [req EXCEPT !.mmr = FALSE])
  BY DEF RelevanceKeepsOrder
<1>2. PICK limit, pool, plain : /\ limit = req.limit /\ pool = PoolOf(req)
                                /\ plain = [req EXCEPT !.mmr = FALSE]
  OBVIOUS
<1>3. plain \in Request /\ plain.mode = "vec" /\ ~ plain.mmr /\ plain.limit = limit
  BY <1>1, <1>2 DEF Request
<1>4. Search(chunks, plain) = Nearest(chunks, limit)
  BY <1>1, <1>3, PlainVectorSearch
<1>5. limit \in Nat /\ pool \in Nat /\ limit <= pool /\ (limit = 0 => pool = 0)
  <2>1. limit \in Nat /\ pool \in Nat /\ pool >= limit
    BY <1>2, RequestIs
  <2>2. pool = PoolFactor * limit /\ PoolFactor \in Nat
    BY <1>1, <1>2, RankingAssumption DEF PoolOf
  <2>3. PoolFactor * 0 = 0
    BY <2>2
  <2> QED
    BY <2>1, <2>2, <2>3
<1>6. PICK L, v, D : /\ L = Nearest(chunks, pool) /\ v = NearVectors(chunks, pool)
                     /\ D = Diversified(L, v, "vec", req)
  OBVIOUS
<1>7. Search(chunks, req) = Linked(chunks, D, "vec", req)
  BY <1>1, <1>2, <1>6, PlainVectorSearch
<1>8. D = IF v # <<>> THEN Rerank(L, v, 10, limit) ELSE L
  BY <1>1, <1>2, <1>6 DEF Diversified
<1>9. D = Nearest(chunks, limit)
  BY <1>1, <1>5, <1>6, <1>8, RelevanceIsNearest
<1>10. Linked(chunks, D, "vec", req) = D
  BY <1>1, <1>5, <1>9, PlainVector DEF IsUnboosted
<1> QED
  BY <1>2, <1>4, <1>7, <1>9, <1>10

(* A list of different hits, as long as the limit and the hits allow.      *)
IsFullList(M, limit, hits) ==
  \E U : IsList(M, U) /\ U \in SUBSET hits /\ Len(M) = Least(limit, Cardinality(hits))

LEMMA FullListIs ==
  ASSUME NEW M, NEW limit \in Nat, NEW hits, IsFiniteSet(hits), IsFullList(M, limit, hits)
  PROVE  /\ Cardinality(ToSet(Ids(M))) = Len(M)
         /\ Len(M) = Min({limit, Cardinality(hits)})
         /\ ToSet(Ids(M)) \subseteq hits
<1>1. PICK U : IsList(M, U) /\ U \in SUBSET hits /\ Len(M) = Least(limit, Cardinality(hits))
  BY DEF IsFullList
<1>2. ToSet(Ids(M)) = U
  BY <1>1, IdsIs
<1>3. Cardinality(U) = Len(M)
  BY <1>1, ListIsFinite
<1>4. Cardinality(hits) \in Nat
  BY FS_CardinalityType
<1>5. Len(M) = Min({limit, Cardinality(hits)})
  BY <1>1, <1>4, MinOfTwo
<1> QED
  BY <1>1, <1>2, <1>3, <1>5

LEMMA FullTaken ==
  ASSUME NEW L, NEW T, IsList(L, T), NEW n \in Nat, NEW M, NEW U, IsTaken(M, U, L, T, n)
  PROVE  IsFullList(M, n, T)
<1>1. Cardinality(T) = Len(L) /\ Len(L) \in Nat
  BY ListIsFinite, PlaceIs
<1>2. /\ IsList(M, U) /\ U \in SUBSET T
      /\ Len(M) = IF Len(L) <= n THEN Len(L) ELSE n
  BY DEF IsTaken
<1>3. Len(M) = Least(n, Cardinality(T))
  BY <1>1, <1>2 DEF Least
<1> QED
  BY <1>2, <1>3 DEF IsFullList

LEMMA FullLinked ==
  ASSUME NEW chunks, IsIndex(chunks), NEW M, NEW limit, NEW hits, IsFullList(M, limit, hits),
         hits \in SUBSET DOMAIN chunks, NEW mode, NEW req
  PROVE  IsFullList(Linked(chunks, M, mode, req), limit, hits)
<1>1. PICK U : IsList(M, U) /\ U \in SUBSET hits /\ Len(M) = Least(limit, Cardinality(hits))
  BY DEF IsFullList
<1>2. PICK N : N = Linked(chunks, M, mode, req)
  OBVIOUS
<1>3. U \in SUBSET DOMAIN chunks
  BY <1>1
<1>4. IF req.backlinks THEN IsLinked(N, M, U, chunks, mode) ELSE N = M
  BY <1>1, <1>2, <1>3, LinkedIs
<1>5. IsList(N, U)
  BY <1>1, <1>4 DEF IsLinked
<1>6. Len(N) = Cardinality(U) /\ Len(M) = Cardinality(U)
  BY <1>1, <1>5, ListIsFinite
<1> QED
  BY <1>1, <1>2, <1>5, <1>6 DEF IsFullList

(* The pool that is re-ranked is at least as long as the page.             *)
LEMMA FullReranked ==
  ASSUME NEW pool \in Nat, NEW limit \in Nat, limit <= pool, limit = 0 => pool = 0,
         NEW hits, IsFiniteSet(hits), NEW L, IsFullList(L, pool, hits), NEW v, AreVectors(v),
         NEW lambda \in 0 .. 10
  PROVE  IsFullList(Rerank(L, v, lambda, limit), limit, hits)
<1>1. PICK T : IsList(L, T) /\ T \in SUBSET hits /\ Len(L) = Least(pool, Cardinality(hits))
  BY DEF IsFullList
<1>2. PICK M : M = Rerank(L, v, lambda, limit)
  OBVIOUS
<1>3. IsReranked(M, L, T, limit)
  BY <1>1, <1>2, RerankIs
<1>4. PICK U : /\ U \in SUBSET T /\ IsList(M, U)
               /\ Len(M) = IF Len(L) <= 1 THEN Len(L) ELSE Least(limit, Len(L))
  BY <1>3 DEF IsReranked
<1>5. PICK c \in Nat : c = Cardinality(hits)
  BY FS_CardinalityType
<1>6. Len(M) = Least(limit, c)
  BY <1>1, <1>4, <1>5 DEF Least
<1>7. U \in SUBSET hits
  BY <1>1, <1>4
<1> QED
  BY <1>2, <1>4, <1>5, <1>6, <1>7 DEF IsFullList

LEMMA PoolIs ==
  ASSUME NEW req \in Request, NEW limit, limit = req.limit, NEW pool, pool = PoolOf(req)
  PROVE  limit \in Nat /\ pool \in Nat /\ limit <= pool /\ (limit = 0 => pool = 0)
<1>1. limit \in Nat /\ pool \in Nat /\ limit <= pool /\ req.mmr \in BOOLEAN
  BY RequestIs
<1>2. PoolFactor \in Nat
  BY RankingAssumption
<1>3. PoolFactor * 0 = 0
  BY <1>2
<1>4. pool = PoolFactor * limit \/ pool = limit
  BY DEF PoolOf
<1> QED
  BY <1>1, <1>3, <1>4

LEMMA VectorPageIsFull ==
  ASSUME NEW chunks, IsIndex(chunks), Plain(chunks), NEW req \in Request, req.mode = "vec",
         NEW limit, limit = req.limit
  PROVE  IsFullList(Search(chunks, req), limit, VectorHits(chunks))
<1>1. PICK pool, hits, B : pool = PoolOf(req) /\ hits = VectorHits(chunks) /\ B = VectorBase(chunks)
  OBVIOUS
<1>2. limit \in Nat /\ pool \in Nat /\ limit <= pool /\ (limit = 0 => pool = 0)
  BY <1>1, PoolIs
<1>3. IsList(B, hits) /\ hits \in SUBSET DOMAIN chunks
  BY <1>1, VectorBaseIs DEF IsBase
<1>4. ASSUME NEW n \in Nat PROVE IsFullList(Nearest(chunks, n), n, hits)
  <2>1. IsTaken(Nearest(chunks, n), NearIds(chunks, n), B, hits, n)
    BY <1>1, PlainVector
  <2> QED
    BY <1>3, <2>1, FullTaken
<1>5. CASE ~ req.mmr
  BY <1>1, <1>2, <1>4, <1>5, PlainVectorSearch
<1>6. CASE req.mmr
  <2>1. PICK L, v, D : /\ L = Nearest(chunks, pool) /\ v = NearVectors(chunks, pool)
                       /\ D = Diversified(L, v, "vec", req)
    OBVIOUS
  <2>2. Search(chunks, req) = Linked(chunks, D, "vec", req)
    BY <1>1, <1>6, <2>1, PlainVectorSearch
  <2>3. IsFullList(L, pool, hits) /\ IsFiniteSet(hits) /\ AreVectors(v)
    BY <1>2, <1>3, <1>4, <2>1, ListIsFinite, VectorsAre
  <2>4. D = IF v # <<>> THEN Rerank(L, v, req.lambda, limit) ELSE L
    BY <1>6, <2>1 DEF Diversified
  <2>5. IsFullList(D, limit, hits)
    <3>1. CASE v # <<>>
      <4>1. req.lambda \in 0 .. 10
        BY RequestIs
      <4>2. IsFullList(Rerank(L, v, req.lambda, limit), limit, hits)
        BY <1>2, <2>3, <4>1, FullReranked
      <4> QED
        BY <2>4, <3>1, <4>2
    <3>2. CASE v = <<>>
      <4>1. Rerank(L, v, 10, limit) = Nearest(chunks, limit) /\ (v = <<>> => L = Nearest(chunks, limit))
        BY <1>2, <2>1, RelevanceIsNearest
      <4> QED
        BY <1>2, <1>4, <2>4, <3>2, <4>1
    <3> QED
      BY <3>1, <3>2
  <2>6. IsFullList(Linked(chunks, D, "vec", req), limit, hits)
    BY <1>3, <2>5, FullLinked
  <2> QED
    BY <1>1, <2>2, <2>6
<1>7. req.mmr \in BOOLEAN
  BY RequestIs
<1> QED
  BY <1>5, <1>6, <1>7

LEMMA AllOrEnough ==
  ASSUME NEW L, NEW T, IsList(L, T), NEW n \in Nat, NEW M, NEW U, IsTaken(M, U, L, T, n),
         NEW limit \in Nat, limit <= n, Cardinality(U) < limit
  PROVE  U = T
<1>1. IsFiniteSet(T) /\ Cardinality(T) = Len(L) /\ Len(L) \in Nat
  BY ListIsFinite, PlaceIs
<1>2. IsList(M, U) /\ U \in SUBSET T /\ Len(M) = IF Len(L) <= n THEN Len(L) ELSE n
  BY DEF IsTaken
<1>3. Cardinality(U) = Len(M)
  BY <1>2, ListIsFinite
<1>4. Cardinality(U) = Cardinality(T)
  BY <1>1, <1>2, <1>3
<1> QED
  BY <1>1, <1>2, <1>4, FS_Subset

LEMMA HybridPageIsFull ==
  ASSUME NEW chunks, IsIndex(chunks), Plain(chunks), Len(chunks) <= MaxRank, NEW req \in Request,
         ModeOf(req) = "hybrid", NEW limit, limit = req.limit,
         NEW hits, hits = TextHits(chunks) \cup VectorHits(chunks)
  PROVE  IsFullList(Search(chunks, req), limit, hits)
<1>1. PICK pool, w, B, T, U : /\ pool = PoolOf(req) /\ w = req.weights
                              /\ B = HybridBase(chunks, limit, pool, w)
                              /\ T = HybridFound(chunks, limit, pool) /\ U = TakenOf(B, T, limit)
  OBVIOUS
<1>2. limit \in Nat /\ pool \in Nat /\ limit <= pool /\ (limit = 0 => pool = 0)
  BY <1>1, PoolIs
<1>3. AreWeights(w)
  BY <1>1, RequestIs DEF AreWeights
<1>4. PICK M : M = Take(B, limit)
  OBVIOUS
<1>5. IsTaken(M, U, B, T, limit) /\ SearchHybrid(chunks, limit, pool, w) = M
  BY <1>1, <1>2, <1>3, <1>4, PlainHybrid
<1>6. IsList(B, T)
  BY <1>1, <1>2, <1>3, HybridIs DEF IsBase
<1>7. hits \in SUBSET DOMAIN chunks /\ IsFiniteSet(hits)
  <2>1. hits \in SUBSET DOMAIN chunks
    BY DEF TextHits, VectorHits
  <2>2. IsFiniteSet(DOMAIN chunks)
    BY TextBaseIs
  <2> QED
    BY <2>1, <2>2, FS_Subset
<1>8. PICK two \in Nat : two = 2 * limit /\ limit <= two
  BY <1>2
<1>9. /\ IsTaken(Take(TextBase(chunks), two), TextIds(chunks, two), TextBase(chunks),
                 TextHits(chunks), two)
      /\ IsList(TextBase(chunks), TextHits(chunks))
  BY TextListIs, TextBaseIs DEF IsBase
<1>10. /\ IsTaken(Nearest(chunks, pool), NearIds(chunks, pool), VectorBase(chunks),
                  VectorHits(chunks), pool)
       /\ IsList(VectorBase(chunks), VectorHits(chunks))
  BY <1>2, PlainVector, VectorBaseIs DEF IsBase
<1>11. T = TextIds(chunks, two) \cup NearIds(chunks, pool)
  BY <1>1, <1>8 DEF HybridFound
<1>12. T \in SUBSET hits
  <2>1. /\ TextIds(chunks, two) \in SUBSET TextHits(chunks)
        /\ NearIds(chunks, pool) \in SUBSET VectorHits(chunks)
    BY <1>9, <1>10 DEF IsTaken
  <2> QED
    BY <1>11, <2>1
<1>13. PICK c \in Nat, d \in Nat : c = Cardinality(T) /\ d = Cardinality(hits) /\ c <= d
                                   /\ IsFiniteSet(T)
  <2>1. IsFiniteSet(T) /\ Cardinality(T) <= Cardinality(hits)
    BY <1>7, <1>12, FS_Subset
  <2>2. Cardinality(T) \in Nat /\ Cardinality(hits) \in Nat
    BY <1>7, <2>1, FS_CardinalityType
  <2> QED
    BY <2>1, <2>2
<1>14. c < limit => T = hits
  <2>1. SUFFICES ASSUME c < limit PROVE T = hits
    OBVIOUS
  <2>2. PICK X, Y : X = TextIds(chunks, two) /\ Y = NearIds(chunks, pool)
    OBVIOUS
  <2>3. X \in SUBSET T /\ Y \in SUBSET T
    BY <1>11, <2>2
  <2>4. Cardinality(X) < limit /\ Cardinality(Y) < limit
    <3>1. /\ IsFiniteSet(X) /\ Cardinality(X) <= Cardinality(T)
          /\ IsFiniteSet(Y) /\ Cardinality(Y) <= Cardinality(T)
      BY <1>13, <2>3, FS_Subset
    <3>2. Cardinality(X) \in Nat /\ Cardinality(Y) \in Nat
      BY <3>1, FS_CardinalityType
    <3> QED
      BY <1>2, <1>13, <2>1, <3>1, <3>2
  <2>5. X = TextHits(chunks)
    BY <1>2, <1>8, <1>9, <2>2, <2>4, AllOrEnough
  <2>6. Y = VectorHits(chunks)
    BY <1>2, <1>10, <2>2, <2>4, AllOrEnough
  <2> QED
    BY <1>11, <2>2, <2>5, <2>6
<1>15. IsFullList(M, limit, T)
  BY <1>2, <1>5, <1>6, FullTaken
<1>16. PICK V : IsList(M, V) /\ V \in SUBSET T /\ Len(M) = Least(limit, c)
  BY <1>13, <1>15 DEF IsFullList
<1>17. Len(M) = Least(limit, d) /\ V \in SUBSET hits
  <2>1. c < limit => c = d
    BY <1>13, <1>14
  <2> QED
    BY <1>2, <1>12, <1>13, <1>16, <2>1 DEF Least
<1>18. IsFullList(M, limit, hits)
  BY <1>13, <1>16, <1>17 DEF IsFullList
<1>19. PICK v, D : /\ v = NearVectors(chunks, pool)
                   /\ D = Diversified(M, v, "hybrid", req)
  OBVIOUS
<1>20. Search(chunks, req) = Linked(chunks, D, "hybrid", req)
  BY <1>1, <1>5, <1>19, SearchIs
<1>21. IsFullList(D, limit, hits)
  <2>1. AreVectors(v) /\ req.lambda \in 0 .. 10
    BY <1>2, <1>19, VectorsAre, RequestIs
  <2>2. IsFullList(Rerank(M, v, req.lambda, limit), limit, hits)
    <3>1. PICK same \in Nat : same = limit /\ limit <= same /\ (limit = 0 => same = 0)
      BY <1>2
    <3>2. IsFullList(M, same, hits)
      BY <1>18, <3>1
    <3> QED
      BY <1>2, <1>7, <2>1, <3>1, <3>2, FullReranked
  <2>3. D = Rerank(M, v, req.lambda, limit) \/ D = M
    BY <1>19 DEF Diversified
  <2> QED
    BY <1>18, <2>2, <2>3
<1>22. IsFullList(Linked(chunks, D, "hybrid", req), limit, hits)
  BY <1>7, <1>21, FullLinked
<1> QED
  BY <1>20, <1>22

(* A page of results is as full as the limit and the index allow, holds    *)
(* nothing twice and nothing that neither text nor vectors match: in every *)
(* mode (fts_search_inner, vec_search_inner, compute_rrf_internal), with   *)
(* and without re-ranking, for every index without boosts and filters.     *)
THEOREM PagesAreFull ==
  ASSUME NEW chunks, IsIndex(chunks), Len(chunks) <= MaxRank, NEW req \in Request
  PROVE  PageIsFull(chunks, req)
<1>1. PICK hits, limit, got :
        /\ hits = {i \in DOMAIN chunks :
                     \/ req.mode # "vec" /\ chunks[i].hit
                     \/ /\ req.mode # "fts" /\ req.embedder
                        /\ chunks[i].vector # NoVector}
        /\ limit = req.limit /\ got = Search(chunks, req)
  OBVIOUS
<1>2. ASSUME Plain(chunks), req.mode = "vec" => req.embedder
      PROVE  IsFullList(got, limit, hits)
  <2>1. /\ limit \in Nat /\ ModeOf(req) \in {"fts", "vec", "hybrid"}
        /\ req.mode \in {"fts", "vec", "hybrid"} /\ req.embedder \in BOOLEAN
    BY <1>1, RequestIs
  <2>2. TextHits(chunks) = {i \in DOMAIN chunks : chunks[i].hit}
    BY <1>2, PlainIs DEF TextHits
  <2>3. CASE ModeOf(req) = "fts"
    <3>1. req.mode # "vec" /\ ~ (req.mode # "fts" /\ req.embedder)
      BY <2>1, <2>3 DEF ModeOf
    <3>2. hits = TextHits(chunks)
      BY <1>1, <2>2, <3>1
    <3>3. got = Take(TextBase(chunks), limit)
      BY <1>1, <1>2, <2>3, PlainTextSearch
    <3>4. /\ IsTaken(got, TextIds(chunks, limit), TextBase(chunks), hits, limit)
          /\ IsList(TextBase(chunks), hits)
      BY <2>1, <3>2, <3>3, TextListIs, TextBaseIs DEF IsBase
    <3> QED
      BY <2>1, <3>4, FullTaken
  <2>4. CASE ModeOf(req) = "vec"
    <3>1. req.mode = "vec" /\ req.embedder
      BY <1>2, <2>1, <2>4 DEF ModeOf
    <3>2. hits = VectorHits(chunks)
      BY <1>1, <3>1 DEF VectorHits
    <3> QED
      BY <1>1, <1>2, <3>1, <3>2, VectorPageIsFull
  <2>5. CASE ModeOf(req) = "hybrid"
    <3>1. req.mode = "hybrid" /\ req.embedder
      BY <2>1, <2>5 DEF ModeOf
    <3>2. hits = TextHits(chunks) \cup VectorHits(chunks)
      BY <1>1, <2>2, <3>1 DEF VectorHits
    <3> QED
      BY <1>1, <1>2, <2>5, <3>2, HybridPageIsFull
  <2> QED
    BY <2>1, <2>3, <2>4, <2>5
<1>3. limit \in Nat
  BY <1>1, RequestIs
<1>4. IsFiniteSet(hits)
  <2>1. hits \in SUBSET DOMAIN chunks
    BY <1>1
  <2>2. IsFiniteSet(DOMAIN chunks)
    BY TextBaseIs
  <2> QED
    BY <2>1, <2>2, FS_Subset
<1>5. ASSUME Plain(chunks), req.mode = "vec" => req.embedder
      PROVE  /\ Cardinality(ToSet(Ids(got))) = Len(got)
             /\ Len(got) = Min({limit, Cardinality(hits)})
             /\ ToSet(Ids(got)) \subseteq hits
  BY <1>2, <1>3, <1>4, <1>5, FullListIs
<1> QED
  BY <1>1, <1>5 DEF PageIsFull

(***************************************************************************)
(* The ranking of every index that a run can make of the kinds of chunks.  *)
(***************************************************************************)
LEMMA HitIs ==
  ASSUME NEW b \in Int, NEW w \in Direction \cup {NoVector}
  PROVE  Hit(b, w) \in ChunkKinds(Direction) /\ NotHit(w) \in ChunkKinds(Direction)
<1>1. \A a \in Int : Hit(a, w) \in ChunkKinds(Direction)
  BY DEF Hit, ChunkKinds
<1>2. 0 \in Int
  OBVIOUS
<1>3. PICK h : h = Hit(0, w)
  OBVIOUS
<1>4. h \in ChunkKinds(Direction)
  BY <1>1, <1>2, <1>3
<1>5. [h EXCEPT !.hit = FALSE] \in ChunkKinds(Direction)
  BY <1>4 DEF ChunkKinds
<1> QED
  BY <1>1, <1>3, <1>5 DEF NotHit

LEMMA KindChanges ==
  ASSUME NEW c \in ChunkKinds(Direction)
  PROVE  /\ [c EXCEPT !.title = TRUE] \in ChunkKinds(Direction)
         /\ [c EXCEPT !.emphasized = TRUE] \in ChunkKinds(Direction)
         /\ [c EXCEPT !.links = 1] \in ChunkKinds(Direction)
         /\ [c EXCEPT !.keep = FALSE] \in ChunkKinds(Direction)
         /\ [c EXCEPT !.here = FALSE] \in ChunkKinds(Direction)
         /\ [c EXCEPT !.title = TRUE, !.emphasized = TRUE] \in ChunkKinds(Direction)
BY DEF ChunkKinds

LEMMA RankingAlphabet == Alphabet["ranking"] \in SUBSET ChunkKinds(Direction)
<1>1. /\ NoVector \in Direction \cup {NoVector}
      /\ 0 \in Direction \cup {NoVector} /\ 1 \in Direction \cup {NoVector}
      /\ 2 \in Direction \cup {NoVector} /\ 3 \in Direction \cup {NoVector}
      /\ 5 \in Direction \cup {NoVector}
  BY DEF Direction
<1>2. -1 \in Int /\ -2 \in Int /\ 1 \in Int
  OBVIOUS
<1>3. /\ Hit(-1, NoVector) \in ChunkKinds(Direction) /\ Hit(-2, 0) \in ChunkKinds(Direction)
      /\ Hit(1, 2) \in ChunkKinds(Direction) /\ Hit(-1, 1) \in ChunkKinds(Direction)
      /\ Hit(1, NoVector) \in ChunkKinds(Direction) /\ Hit(-2, 5) \in ChunkKinds(Direction)
  BY <1>1, <1>2, HitIs
<1>4. /\ NotHit(0) \in ChunkKinds(Direction) /\ NotHit(1) \in ChunkKinds(Direction)
      /\ NotHit(2) \in ChunkKinds(Direction) /\ NotHit(3) \in ChunkKinds(Direction)
      /\ NotHit(5) \in ChunkKinds(Direction)
  BY <1>1, <1>2, HitIs
<1>5. /\ [Hit(-1, 1) EXCEPT !.title = TRUE] \in ChunkKinds(Direction)
      /\ [Hit(1, NoVector) EXCEPT !.emphasized = TRUE] \in ChunkKinds(Direction)
      /\ [Hit(-2, 5) EXCEPT !.links = 1] \in ChunkKinds(Direction)
      /\ [Hit(-2, 0) EXCEPT !.keep = FALSE] \in ChunkKinds(Direction)
      /\ [Hit(-2, 0) EXCEPT !.here = FALSE] \in ChunkKinds(Direction)
      /\ [NotHit(2) EXCEPT !.title = TRUE, !.emphasized = TRUE] \in ChunkKinds(Direction)
  BY <1>3, <1>4, KindChanges
<1>6. Alphabet["ranking"]
        = {Hit(-1, NoVector), Hit(-2, 0), Hit(1, 2), Hit(-1, 1),
           NotHit(0), NotHit(1), NotHit(3), NotHit(5),
           [Hit(-1, 1) EXCEPT !.title = TRUE],
           [Hit(1, NoVector) EXCEPT !.emphasized = TRUE],
           [Hit(-2, 5) EXCEPT !.links = 1],
           [Hit(-2, 0) EXCEPT !.keep = FALSE],
           [Hit(-2, 0) EXCEPT !.here = FALSE],
           [NotHit(2) EXCEPT !.title = TRUE, !.emphasized = TRUE]}
  BY DEF Alphabet
<1> QED
  BY Zenon, <1>3, <1>4, <1>5, <1>6

(* An index is no longer than its bound. *)
RankedInv ==
  /\ function \in DOMAIN MaxLength
  /\ function = "ranking" =>
       input \in Seq(ChunkKinds(Direction)) /\ Len(input) \in 0 .. MaxRank

LEMMA InitRankedInv == Init => RankedInv
<1>1. 0 \in 0 .. MaxRank
  BY RankingAssumption
<1>2. <<>> \in Seq(ChunkKinds(Direction)) /\ Len(<<>>) = 0
  BY EmptySeq
<1> QED
  BY <1>1, <1>2 DEF Init, RankedInv

LEMMA NextRankedInv == RankedInv /\ [Next]_<<function, input, pagingVars>> => RankedInv'
<1> SUFFICES ASSUME RankedInv, [Next]_<<function, input, pagingVars>> PROVE RankedInv'
  OBVIOUS
<1>1. CASE Grow
  <2>1. function' = function /\ function \in DOMAIN MaxLength
    BY <1>1 DEF Grow, RankedInv
  <2>2. ASSUME function = "ranking"
        PROVE  input' \in Seq(ChunkKinds(Direction)) /\ Len(input') \in 0 .. MaxRank
    <3>1. /\ input \in Seq(ChunkKinds(Direction)) /\ Len(input) \in 0 .. MaxRank
          /\ MaxLength["ranking"] \in 0 .. MaxRank
      BY <2>1, <2>2, LengthAssumption DEF RankedInv
    <3>2. PICK symbol \in Alphabet["ranking"] : input' = Append(input, symbol)
      BY <1>1, <2>2 DEF Grow
    <3>3. Len(input) < MaxLength["ranking"]
      BY <1>1, <2>2 DEF Grow
    <3>4. symbol \in ChunkKinds(Direction)
      BY RankingAlphabet
    <3>5. input' \in Seq(ChunkKinds(Direction)) /\ Len(input') = Len(input) + 1
      BY <3>1, <3>2, <3>4, AppendProperties
    <3>6. PICK n \in 0 .. MaxRank : n = MaxLength["ranking"]
      BY <3>1
    <3>7. MaxRank \in Nat
      BY RankingAssumption
    <3> QED
      BY <3>1, <3>3, <3>5, <3>6, <3>7
  <2> QED
    BY <2>1, <2>2 DEF RankedInv
<1>2. CASE TurnPages
  BY <1>2 DEF TurnPages, RankedInv
<1>3. CASE UNCHANGED <<function, input, pagingVars>>
  BY <1>3 DEF RankedInv
<1> QED
  BY <1>1, <1>2, <1>3 DEF Next

LEMMA InputIsRanked == RankedInv => RankingIsRight
<1>1. SUFFICES ASSUME RankedInv, function = "ranking"
               PROVE  /\ \A req \in MCRequest :
                           /\ AgreementIsKept(input, req) /\ AlphaChoosesTheList(input, req)
                           /\ BoostsHelp(input, req) /\ RelevanceKeepsOrder(input, req)
                           /\ PageIsFull(input, req)
                      /\ \A ask \in MCAsk, setup \in MCSetup :
                           DoorsAgree(input, ask, setup) /\ PagesTile(input, ask, setup)
  BY Zenon DEF RankingIsRight, Ranked
<1>2. IsIndex(input) /\ Len(input) <= MaxRank
  <2>1. input \in Seq(ChunkKinds(Direction)) /\ Len(input) \in 0 .. MaxRank
    BY <1>1 DEF RankedInv
  <2>2. KnownVectors(Direction)
    BY DirectionAssumption DEF KnownVectors
  <2>3. MaxRank \in Nat
    BY RankingAssumption
  <2> QED
    BY <2>1, <2>2, <2>3 DEF IsIndex
<1>3. ASSUME NEW req \in MCRequest
      PROVE  /\ AgreementIsKept(input, req) /\ AlphaChoosesTheList(input, req)
             /\ BoostsHelp(input, req) /\ RelevanceKeepsOrder(input, req)
             /\ PageIsFull(input, req)
  <2>1. req \in Request
    BY RequestAssumption
  <2> QED
    BY <1>2, <2>1, FusionKeepsAgreement, AlphaIsAChoice, BoostMovesUp, RelevanceIsKept,
       PagesAreFull
<1>4. ASSUME NEW ask \in MCAsk, NEW setup \in MCSetup
      PROVE  DoorsAgree(input, ask, setup) /\ PagesTile(input, ask, setup)
  <2>1. ask \in Ask /\ setup \in Setup
    BY AskAssumption
  <2> QED
    BY <1>2, <2>1, DoorsGiveOneAnswer, PagesAreTheAnswer
<1> QED
  BY <1>3, <1>4

(* What both lists agree about stays first, alpha chooses between them, a  *)
(* boost never moves a result down, lambda 1 keeps the order of relevance, *)
(* a page is full and holds nothing twice, CLI, HTTP and MCP server give   *)
(* the same answer, and pages by offset are the long answer, cut: for      *)
(* every index of up to MaxRank chunks, and whatever K, the pool factor,   *)
(* the clamps and the similarities are.                                    *)
THEOREM RankingsAreRight == Spec => []RankingIsRight
BY InitRankedInv, NextRankedInv, InputIsRanked, PTL DEF Spec
=============================================================================
