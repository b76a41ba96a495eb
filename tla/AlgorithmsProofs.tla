------------------------- MODULE AlgorithmsProofs -------------------------
(***************************************************************************)
(* What holds of VaultWalk and Places for every vault, list of patterns,   *)
(* environment and configuration file, of NoteText for every note and      *)
(* threshold, of SearchPaging for any rows, ranks, chunks and limit, any   *)
(* number of pages and of chunks that are replaced between the queries,    *)
(* and of MCAlgorithms for inputs of any length.                           *)
(***************************************************************************)
EXTENDS MCAlgorithms, FunctionTheorems, FiniteSetTheorems, SequenceTheorems,
        NaturalsInduction, WellFoundedInduction, TLAPS

(***************************************************************************)
(* Loops.  A set of numbers has a least one; a loop over a list, which the *)
(* modules write as a recursive function, has a run.                       *)
(***************************************************************************)
LEMMA LeastNumber ==
  ASSUME NEW T \in SUBSET Nat, T # {}
  PROVE  \E m \in T : \A k \in T : m <= k
<1>1. PICK m \in T : \A k \in T : ~ (<<k, m>> \in OpToRel(<, Nat))
  BY NatLessThanWellFounded, WFMin
<1>2. \A k \in T : ~ (k < m)
  BY <1>1 DEF OpToRel
<1> QED
  BY <1>2

(* The states of a loop, each made of the one before it.                   *)
IsRun(run, S, n, a, step) ==
  /\ run \in [0 .. n -> S] /\ run[0] = a
  /\ \A k \in 1 .. n : run[k] = step[k][run[k - 1]]

LEMMA RunsExist ==
  ASSUME NEW S, NEW n \in Nat, NEW a \in S, NEW step \in [1 .. n -> [S -> S]]
  PROVE  \E run : IsRun(run, S, n, a, step)
<1> DEFINE Runs(m) == {run \in [0 .. m -> S] :
                         run[0] = a /\ \A k \in 1 .. m : run[k] = step[k][run[k - 1]]}
           T == {m \in Nat : m <= n /\ Runs(m) = {}}
<1>1. SUFFICES ASSUME T # {} PROVE FALSE
  <2>1. Runs(n) # {}
    BY <1>1, SMTT(40)
  <2> QED
    BY <2>1 DEF IsRun
<1>2. PICK m \in T : \A k \in T : m <= k
  BY <1>1, LeastNumber
<1>3. m # 0
  <2>1. [k \in 0 .. 0 |-> a] \in Runs(0)
    OBVIOUS
  <2> QED
    BY <1>2, <2>1
<1>4. PICK run \in [0 .. m - 1 -> S] :
        run[0] = a /\ \A k \in 1 .. m - 1 : run[k] = step[k][run[k - 1]]
  <2>1. m - 1 \in Nat /\ m - 1 <= n /\ ~ (m <= m - 1)
    BY <1>2, <1>3
  <2>2. m - 1 \notin T
    BY <1>2, <2>1
  <2>3. Runs(m - 1) # {}
    BY <2>1, <2>2
  <2> QED
    BY <2>3
<1>5. m \in 1 .. n
  BY <1>2, <1>3
<1> DEFINE longer == [k \in 0 .. m |-> IF k = m THEN step[m][run[m - 1]] ELSE run[k]]
<1>6. step[m] \in [S -> S] /\ run[m - 1] \in S
  BY <1>4, <1>5
<1>7. longer \in [0 .. m -> S]
  BY <1>4, <1>5, <1>6
<1>8. longer[0] = a
  BY <1>4, <1>5
<1>9. ASSUME NEW k \in 1 .. m PROVE longer[k] = step[k][longer[k - 1]]
  <2>1. k - 1 \in 0 .. m - 1 /\ longer[k - 1] = run[k - 1]
    BY <1>5
  <2>2. CASE k = m
    BY <2>1, <2>2
  <2>3. CASE k # m
    <3>1. k \in 1 .. m - 1
      BY <1>5, <2>3
    <3>2. longer[k] = run[k]
      BY <1>5, <3>1
    <3> QED
      BY <1>4, <2>1, <3>1, <3>2
  <2> QED
    BY <2>2, <2>3
<1>10. longer \in Runs(m)
  BY <1>7, <1>8, <1>9
<1>11. FALSE
  BY <1>2, <1>10
<1> QED
  BY <1>11

-----------------------------------------------------------------------------
(***************************************************************************)
(* Globs.  What GlobMatches computes position by position is what the      *)
(* documentation says of cuts: a path is cut into as many pieces as the    *)
(* pattern has parts, and each part stands for its piece.                  *)
(***************************************************************************)
(* The names between two positions of a path.                              *)
LEMMA NamesBetween ==
  ASSUME NEW Name, NEW path \in Seq(Name), NEW a \in Int, NEW b \in Int,
         1 <= a, a <= b + 1, b <= Len(path)
  PROVE  /\ SubSeq(path, a, b) \in Seq(Name) /\ Len(SubSeq(path, a, b)) = b + 1 - a
         /\ \A k \in 1 .. b + 1 - a : SubSeq(path, a, b)[k] = path[a + k - 1]
<1>1. \A k \in a .. b : path[k] \in Name
  BY LenProperties, ElementOfSeq
<1>2. /\ SubSeq(path, a, b) \in Seq(Name)
      /\ Len(SubSeq(path, a, b)) = IF a <= b THEN b - a + 1 ELSE 0
      /\ \A k \in 1 .. b - a + 1 : SubSeq(path, a, b)[k] = path[a + k - 1]
  BY <1>1, SubSeqProperties
<1>3. b - a + 1 = b + 1 - a /\ (~ (a <= b) => b + 1 - a = 0)
  OBVIOUS
<1> QED
  BY <1>2, <1>3

LEMMA EndsBetween ==
  ASSUME NEW Name, NEW path \in Seq(Name), NEW a \in Int, NEW b \in Int,
         1 <= a, a <= b + 1, b <= Len(path)
  PROVE  /\ SubSeq(path, a, b) # <<>> <=> a <= b
         /\ a <= b => /\ Head(SubSeq(path, a, b)) = path[a]
                      /\ SubSeq(path, a, b)[Len(SubSeq(path, a, b))] = path[b]
<1>1. PICK s : s = SubSeq(path, a, b)
  OBVIOUS
<1>2. /\ s \in Seq(Name) /\ Len(s) = b + 1 - a
      /\ \A k \in 1 .. b + 1 - a : s[k] = path[a + k - 1]
  BY <1>1, NamesBetween
<1>3. s # <<>> <=> a <= b
  BY <1>2, EmptySeq
<1>4. a <= b => Head(s) = path[a] /\ s[Len(s)] = path[b]
  <2>1. SUFFICES ASSUME a <= b PROVE Head(s) = path[a] /\ s[Len(s)] = path[b]
    OBVIOUS
  <2>2. Head(s) = s[1]
    BY <1>2, <1>3, <2>1, HeadTailProperties
  <2>3. /\ 1 \in 1 .. b + 1 - a /\ b + 1 - a \in 1 .. b + 1 - a
        /\ a + 1 - 1 = a /\ a + (b + 1 - a) - 1 = b
    BY <2>1
  <2> QED
    BY <1>2, <2>2, <2>3
<1> QED
  BY <1>1, <1>3, <1>4

LEMMA OneName ==
  ASSUME NEW Name, NEW s \in Seq(Name), NEW part
  PROVE  s = <<part>> <=> Len(s) = 1 /\ s[1] = part
<1>1. s = <<part>> => Len(s) = 1 /\ s[1] = part
  OBVIOUS
<1>2. ASSUME Len(s) = 1, s[1] = part PROVE s = <<part>>
  <2>1. DOMAIN s = 1 .. 1 /\ s = [k \in DOMAIN s |-> s[k]]
    BY <1>2, LenProperties
  <2>2. \A k \in 1 .. 1 : s[k] = <<part>>[k]
    BY <1>2
  <2> QED
    BY <2>1, <2>2
<1> QED
  BY <1>1, <1>2

(* What the glob reaches is what its next part can stand for.              *)
LEMMA AfterIs ==
  ASSUME NEW Name, NEW path \in Seq(Name), NEW from \in SUBSET (0 .. Len(path)), NEW part
  PROVE  /\ After(path, from, part) \in SUBSET (0 .. Len(path))
         /\ \A j \in 0 .. Len(path) : j \in After(path, from, part) <=>
              \E i \in from : i <= j /\ PartFits(part, SubSeq(path, i + 1, j))
<1> DEFINE n == Len(path)
           Fit(i, j) == PartFits(part, SubSeq(path, i + 1, j))
<1>1. n \in Nat /\ from \in SUBSET (0 .. n)
  BY LenProperties
<1>2. CASE part = "**"
  <2>1. After(path, from, part) = {j \in 0 .. n : \E i \in from : i <= j}
    BY <1>2, WalkAssumption DEF After
  <2>2. \A i, j : Fit(i, j)
    BY <1>2 DEF PartFits
  <2> HIDE DEF Fit
  <2> QED
    BY <1>1, <2>1, <2>2 DEF Fit
<1>3. CASE part # "**" /\ part \in DOMAIN Starting
  <2>1. After(path, from, part) =
          {j \in 1 .. n : \E i \in from : i < j /\ path[i + 1] \in Starting[part]}
    BY <1>3, WalkAssumption DEF After
  <2>2. ASSUME NEW i \in from, NEW j \in i .. n
        PROVE  Fit(i, j) <=> i < j /\ path[i + 1] \in Starting[part]
    <3>1. /\ i + 1 \in Int /\ j \in Int /\ 1 <= i + 1 /\ i + 1 <= j + 1 /\ j <= Len(path)
          /\ (i + 1 <= j <=> i < j) /\ (i + 1 = j <=> j = i + 1)
      BY <1>1
    <3> DEFINE s == SubSeq(path, i + 1, j)
    <3>2. (s # <<>> <=> i < j) /\ (i < j => Head(s) = path[i + 1])
      BY <1>1, <3>1, EndsBetween
    <3>3. Fit(i, j) <=> s # <<>> /\ Head(s) \in Starting[part]
      <4> HIDE DEF s
      <4> QED
        BY <1>3, WalkAssumption DEF PartFits, s
    <3> HIDE DEF s, Fit
    <3> QED
      BY <3>2, <3>3
  <2> HIDE DEF Fit
  <2>3. \A i \in from, j \in 0 .. n :
          i <= j /\ Fit(i, j) <=> i < j /\ path[i + 1] \in Starting[part]
    BY <1>1, <2>2
  <2> QED
    BY <1>1, <2>1, <2>3 DEF Fit
<1>4. CASE part # "**" /\ part \notin DOMAIN Starting /\ part \in DOMAIN Ending
  <2>1. After(path, from, part) =
          {j \in 1 .. n : path[j] \in Ending[part] /\ \E i \in from : i < j}
    BY <1>4 DEF After
  <2>2. ASSUME NEW i \in from, NEW j \in i .. n
        PROVE  Fit(i, j) <=> i < j /\ path[j] \in Ending[part]
    <3>1. /\ i + 1 \in Int /\ j \in Int /\ 1 <= i + 1 /\ i + 1 <= j + 1 /\ j <= Len(path)
          /\ (i + 1 <= j <=> i < j) /\ (i + 1 = j <=> j = i + 1)
      BY <1>1
    <3> DEFINE s == SubSeq(path, i + 1, j)
    <3>2. (s # <<>> <=> i < j) /\ (i < j => s[Len(s)] = path[j])
      BY <1>1, <3>1, EndsBetween
    <3>3. Fit(i, j) <=> s # <<>> /\ s[Len(s)] \in Ending[part]
      <4> HIDE DEF s
      <4> QED
        BY <1>4, WalkAssumption DEF PartFits, s
    <3> HIDE DEF s, Fit
    <3> QED
      BY <3>2, <3>3
  <2> HIDE DEF Fit
  <2>3. \A i \in from, j \in 0 .. n :
          i <= j /\ Fit(i, j) <=> i < j /\ path[j] \in Ending[part]
    BY <1>1, <2>2
  <2> QED
    BY <1>1, <2>1, <2>3 DEF Fit
<1>5. CASE part # "**" /\ part \notin DOMAIN Starting /\ part \notin DOMAIN Ending
  <2>1. After(path, from, part) = {j \in 1 .. n : path[j] = part /\ j - 1 \in from}
    BY <1>5 DEF After
  <2>2. ASSUME NEW i \in from, NEW j \in i .. n
        PROVE  Fit(i, j) <=> j = i + 1 /\ path[j] = part
    <3>1. /\ i + 1 \in Int /\ j \in Int /\ 1 <= i + 1 /\ i + 1 <= j + 1 /\ j <= Len(path)
          /\ (i + 1 <= j <=> i < j) /\ (i + 1 = j <=> j = i + 1)
      BY <1>1
    <3>2. Fit(i, j) <=> SubSeq(path, i + 1, j) = <<part>>
      BY <1>5 DEF PartFits
    <3> DEFINE s == SubSeq(path, i + 1, j)
    <3>3. /\ s \in Seq(Name) /\ Len(s) = j + 1 - (i + 1)
          /\ \A k \in 1 .. j + 1 - (i + 1) : s[k] = path[i + 1 + k - 1]
      BY <3>1, NamesBetween
    <3> HIDE DEF s
    <3>4. s = <<part>> <=> Len(s) = 1 /\ s[1] = part
      BY <3>3, OneName
    <3>5. Len(s) = 1 => j = i + 1 /\ s[1] = path[j]
      <4>1. \A l : l = j + 1 - (i + 1) /\ l = 1 => j = i + 1 /\ i + 1 + 1 - 1 = j /\ 1 \in 1 .. l
        BY <3>1
      <4> QED
        BY <3>3, <4>1
    <3>6. j = i + 1 => Len(s) = 1
      BY <3>1, <3>3
    <3> QED
      BY <3>2, <3>4, <3>5, <3>6 DEF s
  <2> HIDE DEF Fit
  <2>3. \A i \in from, j \in 0 .. n :
          i <= j /\ Fit(i, j) <=> j = i + 1 /\ path[j] = part
    BY <1>1, <2>2
  <2>4. \A j \in 0 .. n : (\E i \in from : j = i + 1 /\ path[j] = part) <=>
                           j \in 1 .. n /\ path[j] = part /\ j - 1 \in from
    BY <1>1
  <2> QED
    BY <1>1, <2>1, <2>3, <2>4 DEF Fit
<1> QED
  BY <1>2, <1>3, <1>4, <1>5

(* What the first k parts of a pattern can stand for behind any of the     *)
(* directories: cuts of the path.                                          *)
Cuts(pattern, path, k) ==
  {cut \in [0 .. k -> 0 .. Len(path)] :
     \A m \in 1 .. k : /\ cut[m - 1] <= cut[m]
                        /\ PartFits(pattern[m], SubSeq(path, cut[m - 1] + 1, cut[m]))}

IsReach(reach, parts, path) ==
  /\ reach \in [0 .. Len(parts) -> SUBSET (0 .. Len(path))] /\ reach[0] = {0}
  /\ \A k \in 1 .. Len(parts) : reach[k] = After(path, reach[k - 1], parts[k])

LEMMA ReachIs ==
  ASSUME NEW Name, NEW path \in Seq(Name), NEW Part, NEW parts \in Seq(Part)
  PROVE  IsReach(Reach(parts, path), parts, path)
<1> DEFINE S == SUBSET (0 .. Len(path))
           n == Len(parts)
           step == [k \in 1 .. n |-> [from \in S |-> After(path, from, parts[k])]]
<1>1. n \in Nat /\ Len(path) \in Nat /\ {0} \in S
  BY LenProperties
<1>2. step \in [1 .. n -> [S -> S]]
  <2>1. ASSUME NEW k \in 1 .. n, NEW from \in S PROVE After(path, from, parts[k]) \in S
    BY AfterIs
  <2> QED
    BY <2>1
<1>3. PICK run \in [0 .. n -> S] :
        run[0] = {0} /\ \A k \in 1 .. n : run[k] = step[k][run[k - 1]]
  <2>1. PICK a : a = {0}
    OBVIOUS
  <2>2. \E run : IsRun(run, S, n, a, step)
    <3> HIDE DEF S, step, n
    <3> QED
      BY <1>1, <1>2, <2>1, RunsExist
  <2> QED
    BY <2>1, <2>2 DEF IsRun
<1>4. \A k \in 1 .. n : run[k] = After(path, run[k - 1], parts[k])
  <2>1. \A k \in 1 .. n : run[k - 1] \in S
    BY <1>1, <1>3
  <2> HIDE DEF S
  <2> QED
    BY <1>1, <1>3, <2>1
<1> HIDE DEF step, S
<1> DEFINE F(x) == [k \in 0 .. n |-> IF k = 0 THEN {0} ELSE After(path, x[k - 1], parts[k])]
<1>5. run = F(run)
  <2>1. \A k \in 0 .. n : run[k] = IF k = 0 THEN {0} ELSE After(path, run[k - 1], parts[k])
    BY <1>1, <1>3, <1>4
  <2>2. run = [k \in 0 .. n |-> run[k]]
    BY <1>3
  <2> QED
    BY <2>1, <2>2
<1> DEFINE reach == Reach(parts, path)
<1>6. reach = CHOOSE x : x = F(x)
  BY DEF Reach
<1>7. reach = F(reach)
  BY <1>5, <1>6
<1> HIDE DEF reach
<1>8. /\ reach = [k \in 0 .. n |-> reach[k]] /\ reach[0] = {0}
      /\ \A k \in 1 .. n : reach[k] = After(path, reach[k - 1], parts[k])
  <2>1. \A k \in 0 .. n : reach[k] = IF k = 0 THEN {0} ELSE After(path, reach[k - 1], parts[k])
    BY <1>7
  <2>2. reach = [k \in 0 .. n |-> reach[k]]
    BY <1>7
  <2> QED
    BY <1>1, <2>1, <2>2
<1> HIDE DEF F
<1>9. \A k \in 0 .. n : reach[k] \in S
  <2> DEFINE T == {k \in 0 .. n : reach[k] \notin S}
  <2>1. SUFFICES ASSUME T # {} PROVE FALSE
    OBVIOUS
  <2>2. T \in SUBSET Nat
    BY <1>1
  <2>3. PICK m \in T : \A k \in T : m <= k
    BY <2>1, <2>2, LeastNumber
  <2>4. m # 0
    BY <1>1, <1>8, <2>3
  <2>5. m - 1 \in 0 .. n /\ m \in 1 .. n /\ reach[m - 1] \in S
    BY <1>1, <2>3, <2>4
  <2>6. reach[m] \in S
    BY <1>8, <2>5, AfterIs DEF S
  <2> QED
    BY <2>3, <2>6
<1>10. reach \in [0 .. n -> S]
  BY <1>8, <1>9
<1> QED
  BY <1>8, <1>10 DEF reach, S, IsReach

LEMMA CutShorter ==
  ASSUME NEW pattern, NEW path, Len(path) \in Nat, NEW k \in Nat, NEW cut \in Cuts(pattern, path, k + 1)
  PROVE  /\ [m \in 0 .. k |-> cut[m]] \in Cuts(pattern, path, k)
         /\ cut[k] \in 0 .. Len(path) /\ cut[k + 1] \in 0 .. Len(path) /\ cut[k] <= cut[k + 1]
         /\ PartFits(pattern[k + 1], SubSeq(path, cut[k] + 1, cut[k + 1]))
<1>1. /\ cut \in [0 .. k + 1 -> 0 .. Len(path)]
      /\ \A m \in 1 .. k + 1 : /\ cut[m - 1] <= cut[m]
                               /\ PartFits(pattern[m], SubSeq(path, cut[m - 1] + 1, cut[m]))
  BY DEF Cuts
<1>2. k + 1 \in 1 .. k + 1 /\ k + 1 - 1 = k /\ k \in 0 .. k + 1 /\ k + 1 \in 0 .. k + 1
  OBVIOUS
<1>3. \A m \in 1 .. k : m \in 1 .. k + 1 /\ m \in 0 .. k /\ m - 1 \in 0 .. k
  OBVIOUS
<1>4. PICK short : short = [m \in 0 .. k |-> cut[m]]
  OBVIOUS
<1>5. short \in [0 .. k -> 0 .. Len(path)] /\ \A m \in 0 .. k : short[m] = cut[m]
  BY <1>1, <1>4
<1>6. short \in Cuts(pattern, path, k)
  BY <1>1, <1>3, <1>5 DEF Cuts
<1> QED
  BY <1>1, <1>2, <1>4, <1>6

LEMMA CutLonger ==
  ASSUME NEW pattern, NEW path, Len(path) \in Nat, NEW k \in Nat,
         NEW cut \in Cuts(pattern, path, k), NEW j \in 0 .. Len(path), cut[k] <= j,
         PartFits(pattern[k + 1], SubSeq(path, cut[k] + 1, j))
  PROVE  \E longer \in Cuts(pattern, path, k + 1) : longer[k] = cut[k] /\ longer[k + 1] = j
<1>1. /\ cut \in [0 .. k -> 0 .. Len(path)]
      /\ \A m \in 1 .. k : /\ cut[m - 1] <= cut[m]
                           /\ PartFits(pattern[m], SubSeq(path, cut[m - 1] + 1, cut[m]))
  BY DEF Cuts
<1>2. PICK longer : longer = [m \in 0 .. k + 1 |-> IF m = k + 1 THEN j ELSE cut[m]]
  OBVIOUS
<1>3. longer \in [0 .. k + 1 -> 0 .. Len(path)]
  BY <1>1, <1>2
<1>4. longer[k + 1] = j /\ \A m \in 0 .. k : longer[m] = cut[m]
  BY <1>2
<1>5. ASSUME NEW m \in 1 .. k + 1
      PROVE  /\ longer[m - 1] <= longer[m]
             /\ PartFits(pattern[m], SubSeq(path, longer[m - 1] + 1, longer[m]))
  <2>1. CASE m = k + 1
    <3>1. longer[m] = j /\ longer[m - 1] = cut[k] /\ pattern[m] = pattern[k + 1]
      BY <1>4, <2>1
    <3> QED
      BY <3>1
  <2>2. CASE m # k + 1
    <3>1. m \in 1 .. k /\ longer[m] = cut[m] /\ longer[m - 1] = cut[m - 1]
      BY <1>4, <2>2
    <3> QED
      BY <1>1, <3>1
  <2> QED
    BY <2>1, <2>2
<1>6. longer \in Cuts(pattern, path, k + 1)
  BY <1>3, <1>5 DEF Cuts
<1> QED
  BY <1>4, <1>6

LEMMA StarsReach ==
  ASSUME NEW path
  PROVE  After(path, {0}, "**") = 0 .. Len(path)
<1>1. After(path, {0}, "**") = {j \in 0 .. Len(path) : \E i \in {0} : i <= j}
  BY WalkAssumption DEF After
<1> QED
  BY <1>1

(* "**" first: the glob reaches what a beginning of the pattern can stand  *)
(* for behind any of the directories.                                      *)
Follows(parts, pattern, last) ==
  parts[1] = "**" /\ last < Len(parts) /\ \A k \in 1 .. last : parts[k + 1] = pattern[k]
ByCuts(parts, pattern, path, last) ==
  \A k \in 0 .. last : \A j \in 0 .. Len(path) :
    j \in Reach(parts, path)[k + 1] <=> \E cut \in Cuts(pattern, path, k) : cut[k] = j

LEMMA ReachesByCuts ==
  ASSUME NEW Name, NEW path \in Seq(Name), NEW Part, NEW parts \in Seq(Part),
         NEW pattern, NEW last \in Nat, Follows(parts, pattern, last)
  PROVE  ByCuts(parts, pattern, path, last)
<1> DEFINE n == Len(path)
           R == Reach(parts, path)
<1>1. /\ n \in Nat /\ Len(parts) \in Nat /\ last < Len(parts) /\ parts[1] = "**"
      /\ \A k \in 1 .. last : parts[k + 1] = pattern[k]
  BY LenProperties DEF Follows
<1>2. /\ R \in [0 .. Len(parts) -> SUBSET (0 .. n)] /\ R[0] = {0}
      /\ \A k \in 1 .. Len(parts) : R[k] = After(path, R[k - 1], parts[k])
  BY ReachIs DEF IsReach
<1> HIDE DEF R
<1> DEFINE Good(k) == \A j \in 0 .. n :
             j \in R[k + 1] <=> \E cut \in Cuts(pattern, path, k) : cut[k] = j
<1>3. Good(0)
  <2>1. R[1] = After(path, {0}, "**")
    <3>1. 1 \in 1 .. Len(parts) /\ 1 - 1 = 0
      BY <1>1
    <3> QED
      BY <1>1, <1>2, <3>1
  <2>2. ASSUME NEW j \in 0 .. n PROVE j \in R[1]
    BY <2>1, StarsReach
  <2>3. ASSUME NEW j \in 0 .. n PROVE \E cut \in Cuts(pattern, path, 0) : cut[0] = j
    <3>1. [m \in 0 .. 0 |-> j] \in Cuts(pattern, path, 0)
      BY DEF Cuts
    <3>2. [m \in 0 .. 0 |-> j][0] = j
      OBVIOUS
    <3> QED
      BY <3>1, <3>2
  <2> QED
    BY <2>2, <2>3
<1>4. ASSUME NEW k \in 0 .. last, k + 1 <= last, Good(k) PROVE Good(k + 1)
  <2>1. k \in Nat /\ R[k + 1] \in SUBSET (0 .. n)
    <3>1. k + 1 \in 0 .. Len(parts)
      BY <1>1, <1>4
    <3>2. \A m \in 0 .. Len(parts) : R[m] \in SUBSET (0 .. n)
      BY <1>2
    <3> QED
      BY <1>4, <3>1, <3>2
  <2>2. R[k + 2] = After(path, R[k + 1], pattern[k + 1])
    <3>1. k + 2 \in 1 .. Len(parts) /\ k + 2 - 1 = k + 1 /\ k + 1 \in 1 .. last /\ k + 1 + 1 = k + 2
      BY <1>1, <1>4
    <3>2. parts[k + 2] = pattern[k + 1]
      BY <1>1, <3>1
    <3> QED
      BY <1>2, <3>1, <3>2
  <2>3. ASSUME NEW j \in 0 .. n
        PROVE  j \in R[k + 2] <=>
                 \E i \in R[k + 1] : i <= j /\ PartFits(pattern[k + 1], SubSeq(path, i + 1, j))
    <3>1. PICK from, part : from = R[k + 1] /\ part = pattern[k + 1]
      OBVIOUS
    <3>2. from \in SUBSET (0 .. Len(path)) /\ R[k + 2] = After(path, from, part)
      BY <2>1, <2>2, <3>1
    <3>3. j \in After(path, from, part) <=>
            \E i \in from : i <= j /\ PartFits(part, SubSeq(path, i + 1, j))
      BY <3>2, AfterIs
    <3> QED
      BY <3>1, <3>2, <3>3
  <2>4. ASSUME NEW j \in 0 .. n, j \in R[k + 2]
        PROVE  \E cut \in Cuts(pattern, path, k + 1) : cut[k + 1] = j
    <3>1. PICK i \in R[k + 1] : i <= j /\ PartFits(pattern[k + 1], SubSeq(path, i + 1, j))
      BY <2>3, <2>4
    <3>2. PICK cut \in Cuts(pattern, path, k) : cut[k] = i
      BY <1>4, <2>1, <3>1
    <3>3. cut[k] <= j /\ PartFits(pattern[k + 1], SubSeq(path, cut[k] + 1, j))
      BY <3>1, <3>2
    <3>4. \E longer \in Cuts(pattern, path, k + 1) : longer[k] = cut[k] /\ longer[k + 1] = j
      BY <1>1, <2>1, <3>3, CutLonger
    <3> QED
      BY <3>4
  <2>5. ASSUME NEW j \in 0 .. n, NEW cut \in Cuts(pattern, path, k + 1), cut[k + 1] = j
        PROVE  j \in R[k + 2]
    <3>1. PICK short : short = [m \in 0 .. k |-> cut[m]]
      OBVIOUS
    <3>2. /\ short \in Cuts(pattern, path, k) /\ cut[k] \in 0 .. n /\ cut[k] <= j
          /\ PartFits(pattern[k + 1], SubSeq(path, cut[k] + 1, j))
      BY <1>1, <2>1, <2>5, <3>1, CutShorter
    <3>3. short[k] = cut[k]
      BY <2>1, <3>1
    <3>4. cut[k] \in R[k + 1]
      BY <1>4, <3>2, <3>3
    <3> QED
      BY <2>3, <3>2, <3>4
  <2>6. k + 1 + 1 = k + 2
    BY <2>1
  <2> QED
    BY <2>4, <2>5, <2>6
<1>5. \A k \in 0 .. last : Good(k)
  <2> DEFINE T == {k \in 0 .. last : ~ Good(k)}
  <2>1. SUFFICES ASSUME T # {} PROVE FALSE
    OBVIOUS
  <2> HIDE DEF Good
  <2>2. T \in SUBSET Nat
    OBVIOUS
  <2>3. PICK m \in T : \A k \in T : m <= k
    BY <2>1, <2>2, LeastNumber
  <2>4. m # 0
    BY <1>3, <2>3
  <2>5. m - 1 \in 0 .. last /\ m - 1 + 1 <= last /\ m - 1 + 1 = m /\ ~ (m <= m - 1)
    BY <2>3, <2>4
  <2>6. Good(m - 1)
    BY <2>3, <2>5
  <2>7. Good(m - 1 + 1)
    BY <1>4, <2>5, <2>6
  <2> QED
    BY <2>3, <2>5, <2>7
<1> QED
  BY <1>5 DEF R, ByCuts

(* A pattern that GlobSet has wrapped fits what it means: glob after glob, *)
(* or a bare name.                                                         *)
Pattern(p) == p # <<>> /\ \E Part : p \in Seq(Part)
Path(p) == p # <<>> /\ \E Name : p \in Seq(Name)

LEMMA PathGlobs ==
  ASSUME NEW path, Path(path), NEW pattern, Pattern(pattern),
         Len(pattern) > 1 \/ pattern[Len(pattern)] = "**"
  PROVE  GlobMatches(Wrapped(pattern), path) <=> PathFits(pattern, path)
<1>1. PICK Name : path \in Seq(Name)
  BY DEF Path
<1>2. PICK Part : pattern \in Seq(Part)
  BY DEF Pattern
<1> DEFINE l == Len(pattern)
           n == Len(path)
<1>3. l \in Nat /\ l # 0 /\ n \in Nat /\ n # 0
  BY <1>1, <1>2, LenProperties, EmptySeq DEF Path, Pattern
<1>4. PICK parts : parts = <<"**">> \o pattern
  OBVIOUS
<1>5. Wrapped(pattern) = parts
  BY <1>4 DEF Wrapped
<1> PICK All : All = Part \cup {"**"}
  OBVIOUS
<1>6. /\ parts \in Seq(All) /\ Len(parts) = l + 1 /\ parts[1] = "**"
      /\ \A k \in 1 .. l : parts[k + 1] = pattern[k]
  <2>1. <<"**">> \in Seq(All) /\ pattern \in Seq(All)
    BY <1>2, SeqMonotonic
  <2>2. Len(<<"**">>) = 1 /\ <<"**">>[1] = "**"
    OBVIOUS
  <2>3. /\ parts \in Seq(All) /\ Len(parts) = 1 + l
        /\ \A k \in 1 .. 1 + l : parts[k] = IF k <= 1 THEN <<"**">>[k] ELSE pattern[k - 1]
    BY <1>4, <2>1, <2>2, ConcatProperties
  <2> QED
    BY <1>3, <2>2, <2>3
<1>7. PathFits(pattern, path) <=>
        \E cut \in Cuts(pattern, path, l) :
          cut[l] = n /\ (pattern[l] = "**" => cut[l - 1] < n)
  BY DEF PathFits, Cuts
<1>8. GlobMatches(parts, path) <=> IF pattern[l] = "**" THEN \E i \in Reach(parts, path)[l] : i < n
                                   ELSE n \in Reach(parts, path)[l + 1]
  <2>1. parts[l + 1] = pattern[l] /\ l + 1 - 1 = l
    BY <1>3, <1>6
  <2> QED
    BY <1>3, <1>6, <2>1 DEF GlobMatches
<1> HIDE DEF l, n
<1>9. CASE pattern[l] # "**"
  <2>1. ByCuts(parts, pattern, path, l)
    <3>1. Follows(parts, pattern, l)
      BY <1>3, <1>6 DEF Follows
    <3> QED
      BY <1>1, <1>3, <1>6, <3>1, ReachesByCuts
  <2>2. n \in Reach(parts, path)[l + 1] <=> \E cut \in Cuts(pattern, path, l) : cut[l] = n
    <3>1. l \in 0 .. l /\ n \in 0 .. Len(path)
      BY <1>3 DEF n
    <3> QED
      BY <2>1, <3>1 DEF ByCuts
  <2> QED
    BY <1>5, <1>7, <1>8, <1>9, <2>2
<1>10. CASE pattern[l] = "**"
  <2>1. PICK k \in Nat : k + 1 = l /\ l - 1 = k
    <3>1. l - 1 \in Nat /\ l - 1 + 1 = l
      BY <1>3
    <3> QED
      BY <3>1
  <2>2. ByCuts(parts, pattern, path, k)
    <3>1. k < Len(parts) /\ \A m \in 1 .. k : m \in 1 .. l
      BY <1>3, <1>6, <2>1
    <3>2. \A m \in 1 .. k : parts[m + 1] = pattern[m]
      BY <1>6, <3>1 DEF l
    <3>3. Follows(parts, pattern, k)
      BY <1>6, <3>1, <3>2 DEF Follows
    <3> QED
      BY <1>1, <1>6, <2>1, <3>3, ReachesByCuts
  <2>3. \A j \in 0 .. n :
          j \in Reach(parts, path)[l] <=> \E cut \in Cuts(pattern, path, k) : cut[k] = j
    <3>1. k \in 0 .. k
      BY <2>1
    <3> QED
      BY <2>1, <2>2, <3>1 DEF n, ByCuts
  <2>4. Reach(parts, path)[l] \in SUBSET (0 .. n)
    <3>1. Reach(parts, path) \in [0 .. Len(parts) -> SUBSET (0 .. Len(path))]
      BY <1>1, <1>6, ReachIs DEF IsReach
    <3>2. l \in 0 .. Len(parts)
      BY <1>3, <1>6 DEF l
    <3> QED
      BY <3>1, <3>2 DEF n
  <2>5. Len(path) \in Nat
    BY <1>3 DEF n
  <2>6. ASSUME NEW cut \in Cuts(pattern, path, l), cut[l - 1] < n
        PROVE  \E i \in Reach(parts, path)[l] : i < n
    <3>1. cut \in Cuts(pattern, path, k + 1) /\ cut[k] < n
      BY <2>1, <2>6
    <3>2. PICK short : short = [m \in 0 .. k |-> cut[m]]
      OBVIOUS
    <3>3. short \in Cuts(pattern, path, k) /\ cut[k] \in 0 .. n
      BY <2>1, <2>5, <3>1, <3>2, CutShorter DEF n
    <3>4. short[k] = cut[k]
      BY <2>1, <3>2
    <3> QED
      BY <2>3, <3>1, <3>3, <3>4
  <2>7. ASSUME NEW i \in Reach(parts, path)[l], i < n
        PROVE  \E cut \in Cuts(pattern, path, l) : cut[l] = n /\ cut[l - 1] < n
    <3>1. PICK cut \in Cuts(pattern, path, k) : cut[k] = i
      BY <2>3, <2>4, <2>7
    <3>2. n \in 0 .. Len(path) /\ i \in 0 .. n
      BY <1>3, <2>4 DEF n
    <3>3. cut[k] <= n
      BY <1>3, <2>7, <3>1, <3>2
    <3>4. PartFits(pattern[k + 1], SubSeq(path, cut[k] + 1, n))
      BY <1>10, <2>1 DEF PartFits
    <3>5. \E longer \in Cuts(pattern, path, k + 1) : longer[k] = cut[k] /\ longer[k + 1] = n
      BY <2>1, <2>5, <3>1, <3>2, <3>3, <3>4, CutLonger
    <3> QED
      BY <2>1, <2>7, <3>1, <3>5
  <2> QED
    BY <1>5, <1>7, <1>8, <1>10, <2>6, <2>7
<1> QED
  BY <1>9, <1>10

LEMMA FitsOne ==
  ASSUME NEW part, NEW name
  PROVE  PartFits(part, <<name>>) <=>
           \/ part = "**"
           \/ part \in DOMAIN Starting /\ name \in Starting[part]
           \/ part \in DOMAIN Ending /\ name \in Ending[part]
           \/ part \notin DOMAIN Starting \cup DOMAIN Ending /\ name = part
<1>1. /\ <<name>> # <<>> /\ Head(<<name>>) = name /\ <<name>>[Len(<<name>>)] = name
      /\ <<name>> = <<part>> <=> name = part
  OBVIOUS
<1> QED
  BY <1>1 DEF PartFits

LEMMA BareGlobs ==
  ASSUME NEW path, Path(path), NEW pattern, Pattern(pattern),
         Len(pattern) = 1, pattern[1] # "**"
  PROVE  GlobMatches(Wrapped(pattern), path) <=>
           \E i \in 1 .. Len(path) - 1 : PartFits(pattern[1], <<path[i]>>)
<1>1. PICK Name : path \in Seq(Name)
  BY DEF Path
<1>2. PICK Part : pattern \in Seq(Part)
  BY DEF Pattern
<1> DEFINE n == Len(path)
<1>3. n \in Nat /\ n # 0
  BY <1>1, LenProperties, EmptySeq DEF Path
<1>0. PICK All : All = Part \cup {"**"}
  OBVIOUS
<1>4. PICK parts, first : first = <<"**">> \o pattern /\ parts = first \o <<"**">>
  OBVIOUS
<1>5. Wrapped(pattern) = parts
  BY <1>4 DEF Wrapped
<1>6. /\ parts \in Seq(All) /\ Len(parts) = 3
      /\ parts[1] = "**" /\ parts[2] = pattern[1] /\ parts[3] = "**"
  <2>1. <<"**">> \in Seq(All) /\ pattern \in Seq(All)
    BY <1>0, <1>2, SeqMonotonic
  <2>2. Len(<<"**">>) = 1 /\ <<"**">>[1] = "**"
    OBVIOUS
  <2>3. /\ first \in Seq(All) /\ Len(first) = 1 + 1
        /\ \A k \in 1 .. 1 + 1 : first[k] = IF k <= 1 THEN <<"**">>[k] ELSE pattern[k - 1]
    BY <1>4, <2>1, <2>2, ConcatProperties
  <2>4. first[1] = "**" /\ first[2] = pattern[1]
    BY <2>2, <2>3
  <2>5. /\ parts \in Seq(All) /\ Len(parts) = 2 + 1
        /\ \A k \in 1 .. 2 + 1 : parts[k] = IF k <= 2 THEN first[k] ELSE <<"**">>[k - 2]
    BY <1>4, <2>1, <2>2, <2>3, ConcatProperties
  <2> QED
    BY <2>2, <2>4, <2>5
<1>7. GlobMatches(parts, path) <=> \E i \in Reach(parts, path)[2] : i < n
  BY <1>6 DEF GlobMatches
<1>8. PICK R : R = Reach(parts, path)
  OBVIOUS
<1>9. R \in [0 .. 3 -> SUBSET (0 .. n)] /\ \A k \in 1 .. 3 : R[k] = After(path, R[k - 1], parts[k])
  <2>1. IsReach(R, parts, path)
    BY <1>1, <1>6, <1>8, ReachIs
  <2> QED
    BY <1>6, <2>1 DEF IsReach
<1>10. R[0] = {0}
  <2>1. IsReach(R, parts, path)
    BY <1>1, <1>6, <1>8, ReachIs
  <2> QED
    BY <2>1 DEF IsReach
<1>11. R[1] \in SUBSET (0 .. n) /\ R[2] \in SUBSET (0 .. n) /\ R[1] = After(path, {0}, "**")
       /\ R[2] = After(path, R[1], pattern[1])
  <2>1. 1 \in 0 .. 3 /\ 2 \in 0 .. 3 /\ 1 \in 1 .. 3 /\ 2 \in 1 .. 3 /\ 1 - 1 = 0 /\ 2 - 1 = 1
    OBVIOUS
  <2> QED
    BY <1>6, <1>9, <1>10, <2>1
<1>12. ASSUME NEW j \in 0 .. n PROVE j \in R[1]
  BY <1>11, StarsReach
<1> HIDE DEF n
<1>13. ASSUME NEW j \in 0 .. n
       PROVE  j \in R[2] <=>
                \E i \in R[1] : i <= j /\ PartFits(pattern[1], SubSeq(path, i + 1, j))
  <2>1. PICK from, part : from = R[1] /\ part = pattern[1]
    OBVIOUS
  <2>2. from \in SUBSET (0 .. Len(path)) /\ j \in 0 .. Len(path)
    BY <1>11, <2>1 DEF n
  <2>3. j \in After(path, from, part) <=>
          \E i \in from : i <= j /\ PartFits(part, SubSeq(path, i + 1, j))
    BY <1>1, <2>2, AfterIs
  <2> QED
    BY <1>11, <2>1, <2>3
<1>14. ASSUME NEW i \in 1 .. n - 1, PartFits(pattern[1], <<path[i]>>) PROVE i \in R[2]
  <2>1. /\ i - 1 \in 0 .. n /\ i \in 0 .. n /\ i - 1 <= i /\ i - 1 + 1 = i /\ i \in Int /\ 1 <= i
        /\ i <= i + 1 /\ i + 1 - i = 1 /\ i + 1 - 1 = i
    BY <1>3
  <2>2. PICK s : s = SubSeq(path, i, i)
    OBVIOUS
  <2>3. i <= Len(path)
    BY <1>3 DEF n
  <2>4. s \in Seq(Name) /\ Len(s) = i + 1 - i /\ \A k \in 1 .. i + 1 - i : s[k] = path[i + k - 1]
    BY <1>1, <2>1, <2>2, <2>3, NamesBetween
  <2>5. Len(s) = 1 /\ s[1] = path[i]
    BY <2>1, <2>4
  <2>6. s = <<path[i]>>
    BY <2>4, <2>5, OneName
  <2> QED
    BY <1>12, <1>13, <1>14, <2>1, <2>2, <2>6
<1>15. ASSUME NEW j \in R[2], j < n
       PROVE  \E i \in 1 .. n - 1 : PartFits(pattern[1], <<path[i]>>)
  <2>1. j \in 0 .. n
    BY <1>11, <1>15
  <2>2. PICK i \in R[1] : i <= j /\ PartFits(pattern[1], SubSeq(path, i + 1, j))
    BY <1>13, <1>15, <2>1
  <2>3. i \in 0 .. n
    BY <1>11, <2>2
  <2>4. PICK s, a : s = SubSeq(path, a, j) /\ a = i + 1
    OBVIOUS
  <2>5. a \in Int /\ j \in Int /\ 1 <= a /\ a <= j + 1 /\ j <= Len(path)
    BY <1>3, <2>1, <2>2, <2>3, <2>4 DEF n
  <2>6. /\ s \in Seq(Name) /\ Len(s) = j + 1 - a
        /\ \A k \in 1 .. j + 1 - a : s[k] = path[a + k - 1]
    BY <1>1, <2>4, <2>5, NamesBetween
  <2>7. /\ s # <<>> <=> a <= j
        /\ a <= j => Head(s) = path[a] /\ s[Len(s)] = path[j]
    BY <1>1, <2>4, <2>5, EndsBetween
  <2>8. PartFits(pattern[1], s)
    BY <2>2, <2>4
  <2>9. s # <<>> => a \in 1 .. n - 1 /\ j \in 1 .. n - 1
    BY <1>3, <1>15, <2>1, <2>5, <2>7
  <2>10. CASE s # <<>> /\ pattern[1] \in DOMAIN Starting /\ Head(s) \in Starting[pattern[1]]
    BY <2>7, <2>9, <2>10, FitsOne
  <2>11. CASE s # <<>> /\ pattern[1] \in DOMAIN Ending /\ s[Len(s)] \in Ending[pattern[1]]
    BY <2>7, <2>9, <2>11, FitsOne
  <2>12. CASE pattern[1] \notin DOMAIN Starting \cup DOMAIN Ending /\ s = <<pattern[1]>>
    <3>1. Len(s) = 1 /\ s[1] = pattern[1] /\ s # <<>>
      BY <2>6, <2>12, OneName
    <3>2. Head(s) = s[1]
      BY <2>12
    <3>3. pattern[1] = path[a] /\ a \in 1 .. n - 1
      BY <2>7, <2>9, <3>1, <3>2
    <3> QED
      BY <2>12, <3>3, FitsOne
  <2> QED
    BY <2>8, <2>10, <2>11, <2>12 DEF PartFits
<1>16. \A i \in 1 .. n - 1 : i < n
  BY <1>3 DEF n
<1>17. (\E i \in R[2] : i < n) <=> \E i \in 1 .. n - 1 : PartFits(pattern[1], <<path[i]>>)
  BY <1>14, <1>15, <1>16
<1> QED
  BY <1>5, <1>7, <1>8, <1>17 DEF n

LEMMA GlobMeans ==
  ASSUME NEW path, Path(path), NEW pattern, Pattern(pattern)
  PROVE  GlobMatches(Wrapped(pattern), path) <=> Means(pattern, path)
<1>1. PICK Part : pattern \in Seq(Part)
  BY DEF Pattern
<1>2. Len(pattern) \in Nat /\ Len(pattern) # 0
  BY <1>1, LenProperties, EmptySeq DEF Pattern
<1>3. pattern = <<"**">> <=> Len(pattern) = 1 /\ pattern[1] = "**"
  BY <1>1, OneName
<1>4. CASE Len(pattern) = 1 /\ pattern[1] # "**"
  BY <1>3, <1>4, BareGlobs DEF Means
<1>5. CASE Len(pattern) > 1 \/ pattern[Len(pattern)] = "**"
  <2>1. ~ (Len(pattern) = 1 /\ pattern # <<"**">>)
    <3>1. Len(pattern) = 1 => pattern[1] = "**"
      BY <1>5
    <3> QED
      BY <1>3, <3>1
  <2> QED
    BY <1>5, <2>1, PathGlobs DEF Means
<1>6. Len(pattern) = 1 => pattern[Len(pattern)] = pattern[1]
  OBVIOUS
<1>7. Len(pattern) = 1 \/ Len(pattern) > 1
  <2>1. \A l \in Nat : l # 0 => l = 1 \/ l > 1
    OBVIOUS
  <2> QED
    BY <1>2, <2>1
<1> QED
  BY <1>4, <1>5, <1>6, <1>7

(* Patterns are lists of names, and so are the paths of a vault.           *)
Lists(patterns) == \A p \in patterns : \E Part : p \in Seq(Part)
Vault(files) == \A f \in files : Path(f.path)

LEMMA ExcludingMeans ==
  ASSUME NEW patterns, Lists(patterns), NEW path, Path(path)
  PROVE  \A p : p \in Excluding(patterns, path) <=>
           p \in patterns /\ p # <<>> /\ Unclosed \notin ToSet(p) /\ Means(p, path)
<1>1. \A p \in patterns : p # <<>> => Pattern(p)
  BY DEF Lists, Pattern
<1>2. \A p \in patterns : p # <<>> => (GlobMatches(Wrapped(p), path) <=> Means(p, path))
  BY <1>1, GlobMeans
<1> QED
  BY <1>2 DEF Excluding, Compiled

LEMMA InDirectories ==
  ASSUME NEW path, Path(path)
  PROVE  /\ \A x : x \in ToSet(Directories(path)) <=> \E i \in 1 .. Len(path) - 1 : path[i] = x
         /\ Len(Directories(path)) = Len(path) - 1 /\ Len(path) \in Nat \ {0}
         /\ \A i \in 1 .. Len(path) - 1 : Directories(path)[i] = path[i]
<1>1. PICK Name : path \in Seq(Name)
  BY DEF Path
<1>2. Len(path) \in Nat /\ Len(path) # 0
  BY <1>1, LenProperties, EmptySeq DEF Path
<1>3. PICK s, b : s = SubSeq(path, 1, b) /\ b = Len(path) - 1
  OBVIOUS
<1>4. 1 \in Int /\ b \in Int /\ 1 <= 1 /\ 1 <= b + 1 /\ b <= Len(path)
  BY <1>2, <1>3
<1>5. /\ s \in Seq(Name) /\ Len(s) = b + 1 - 1
      /\ \A k \in 1 .. b + 1 - 1 : s[k] = path[1 + k - 1]
  BY <1>1, <1>3, <1>4, NamesBetween
<1>6. b + 1 - 1 = b /\ \A k \in 1 .. b : 1 + k - 1 = k
  BY <1>4
<1>7. Len(s) = b /\ DOMAIN s = 1 .. b /\ \A k \in 1 .. b : s[k] = path[k]
  BY <1>5, <1>6, LenProperties
<1>8. Directories(path) = s
  BY <1>3 DEF Directories, Front
<1> QED
  BY <1>2, <1>3, <1>7, <1>8 DEF ToSet

-----------------------------------------------------------------------------
(***************************************************************************)
(* What the walk finds.                                                    *)
(***************************************************************************)
(* "Bare names match directories at any depth", patterns with a slash a    *)
(* path, and "vault boundary protection" (ref/cli.md), of walk_vault for   *)
(* every vault, every set of patterns and every setting: a note is indexed *)
(* unless a pattern means it, it is hidden, or it lies outside and links   *)
(* are followed.                                                           *)
THEOREM WalksExactly ==
  ASSUME NEW files, Vault(files), NEW patterns, Lists(patterns),
         NEW hide \in BOOLEAN, NEW follow \in BOOLEAN
  PROVE  WalkIsExact(files, patterns, hide, follow)
<1> SUFFICES ASSUME NEW f \in files
             PROVE  LET meant == {p \in patterns : p # <<>> /\ Unclosed \notin ToSet(p)
                                                    /\ Means(p, f.path)}
                    IN  f \in Walked(files, patterns, hide, follow) <=>
                          /\ meant = {}
                          /\ ~ (hide /\ \E i \in 1 .. Len(f.path) - 1 : f.path[i] \in DotName)
                          /\ f.via = "directory" => follow
                          /\ ~ (follow /\ f.outside)
                          /\ f.path[Len(f.path)] \in Included
  BY DEF WalkIsExact
<1> DEFINE meant == {p \in patterns : p # <<>> /\ Unclosed \notin ToSet(p)
                                       /\ Means(p, f.path)}
<1>1. Excluding(patterns, f.path) = meant
  BY ExcludingMeans DEF Vault
<1>2. Concealed(f.path) <=> \E i \in 1 .. Len(f.path) - 1 : f.path[i] \in DotName
  BY InDirectories DEF Vault, Concealed
<1>3. f \in Walked(files, patterns, hide, follow) <=>
        /\ hide => ~ Concealed(f.path)
        /\ IF follow THEN ~ f.outside ELSE f.via # "directory"
        /\ f.path[Len(f.path)] \in Included
        /\ Excluding(patterns, f.path) = {}
  BY DEF Walked
<1> HIDE DEF meant
<1>4. f \in Walked(files, patterns, hide, follow) <=>
                          /\ meant = {}
                          /\ ~ (hide /\ \E i \in 1 .. Len(f.path) - 1 : f.path[i] \in DotName)
                          /\ f.via = "directory" => follow
                          /\ ~ (follow /\ f.outside)
                          /\ f.path[Len(f.path)] \in Included
  BY <1>1, <1>2, <1>3
<1> QED
  BY <1>4 DEF meant

(* handle_read gives every note that walk_vault has found, from the disk   *)
(* as long as the file is there and inside the vault, else from the index, *)
(* and only under the name of its vault.                                   *)
THEOREM ReadsWhatIsFound ==
  ASSUME NEW files, NEW patterns, NEW hide \in BOOLEAN, NEW follow \in BOOLEAN
  PROVE  FoundIsRead(files, patterns, hide, follow)
<1> SUFFICES ASSUME NEW indexed, indexed = Walked(files, patterns, hide, follow),
                    NEW gone \in SUBSET files, NEW f \in files
             PROVE  LET read(name) == HandleRead([work |-> files], name, f, files \ gone, indexed)
                    IN  /\ f \in indexed => read("work") # "not found"
                        /\ read("work") = "disk" <=> f \notin gone /\ ~ f.outside
                        /\ read("default") = "not found"
  BY DEF FoundIsRead
<1> DEFINE vaults == [work |-> files]
<1>1. "work" \in DOMAIN vaults /\ vaults["work"] = files /\ "default" \notin DOMAIN vaults
  OBVIOUS
<1> HIDE DEF vaults
<1>2. Resolves(vaults, "work", f, files \ gone) <=> f \notin gone /\ ~ f.outside
  BY <1>1 DEF Resolves
<1>3. ~ Resolves(vaults, "default", f, files \ gone)
  BY <1>1 DEF Resolves
<1>4. /\ f \in indexed => HandleRead(vaults, "work", f, files \ gone, indexed) # "not found"
      /\ HandleRead(vaults, "work", f, files \ gone, indexed) = "disk" <=>
           f \notin gone /\ ~ f.outside
      /\ HandleRead(vaults, "default", f, files \ gone, indexed) = "not found"
  BY <1>1, <1>2, <1>3 DEF HandleRead
<1> QED
  BY <1>4 DEF vaults

LEMMA MinIsLeast ==
  ASSUME NEW T \in SUBSET Nat, T # {}
  PROVE  Min(T) \in T /\ \A k \in T : Min(T) <= k
<1>1. PICK m \in T : \A k \in T : m <= k
  BY LeastNumber
<1>2. Min(T) = CHOOSE x \in T : \A y \in T : x <= y
  BY DEF Min
<1> QED
  BY <1>1, <1>2

LEMMA SetOfBoth ==
  ASSUME NEW S, NEW s \in Seq(S), NEW t \in Seq(S)
  PROVE  ToSet(s \o t) = ToSet(s) \cup ToSet(t)
<1>1. PICK u : u = s \o t
  OBVIOUS
<1>2. /\ u \in Seq(S) /\ Len(u) = Len(s) + Len(t)
      /\ \A k \in 1 .. Len(s) + Len(t) : u[k] = IF k <= Len(s) THEN s[k] ELSE t[k - Len(s)]
  BY <1>1, ConcatProperties
<1>3. /\ Len(s) \in Nat /\ Len(t) \in Nat /\ DOMAIN s = 1 .. Len(s) /\ DOMAIN t = 1 .. Len(t)
      /\ DOMAIN u = 1 .. Len(s) + Len(t)
  BY <1>2, LenProperties
<1>4. ASSUME NEW k \in DOMAIN u PROVE u[k] \in ToSet(s) \cup ToSet(t)
  <2>1. k <= Len(s) => k \in DOMAIN s /\ u[k] = s[k]
    BY <1>2, <1>3
  <2>2. ~ (k <= Len(s)) => k - Len(s) \in DOMAIN t /\ u[k] = t[k - Len(s)]
    BY <1>2, <1>3
  <2> QED
    BY <2>1, <2>2 DEF ToSet
<1>5. ASSUME NEW k \in DOMAIN s PROVE s[k] \in ToSet(u)
  <2>1. k \in DOMAIN u /\ u[k] = s[k]
    BY <1>2, <1>3
  <2> QED
    BY <2>1 DEF ToSet
<1>6. ASSUME NEW k \in DOMAIN t PROVE t[k] \in ToSet(u)
  <2>1. /\ k + Len(s) \in 1 .. Len(s) + Len(t) /\ ~ (k + Len(s) <= Len(s))
        /\ k + Len(s) - Len(s) = k
    BY <1>3
  <2>2. k + Len(s) \in DOMAIN u /\ u[k + Len(s)] = t[k]
    BY <1>2, <1>3, <2>1
  <2> QED
    BY <2>2 DEF ToSet
<1>7. ToSet(u) \subseteq ToSet(s) \cup ToSet(t)
  <2>1. ToSet(u) = {u[k] : k \in DOMAIN u}
    BY DEF ToSet
  <2> QED
    BY <1>4, <2>1
<1>8. ToSet(s) \subseteq ToSet(u)
  <2>1. ToSet(s) = {s[k] : k \in DOMAIN s}
    BY DEF ToSet
  <2> QED
    BY <1>5, <2>1
<1>9. ToSet(t) \subseteq ToSet(u)
  <2>1. ToSet(t) = {t[k] : k \in DOMAIN t}
    BY SMTT(40) DEF ToSet
  <2> QED
    BY <1>6, <2>1
<1> QED
  BY <1>1, <1>7, <1>8, <1>9

(* check-ignore, asked of a vault whose patterns are config and ignore.    *)
Reason(config, ignore, path) ==
  LET patterns == config \o ignore
      fits     == {k \in DOMAIN patterns : Excluding({patterns[k]}, path) # {}}
  IN  IF fits = {} THEN "indexed"
      ELSE IF patterns[Min(fits)] \in ToSet(ignore) THEN "ignore file"
      ELSE "config"

LEMMA AskedOne ==
  ASSUME NEW vaults, NEW named, NEW config, NEW path, NEW i \in Nat, NEW asked \in SUBSET Nat,
         asked = {k \in DOMAIN vaults : named \in {vaults[k].name, "first"}},
         i \in asked, \A k \in asked : i <= k
  PROVE  CheckIgnore(vaults, named, config, path) = Reason(config, vaults[i].ignore, path)
<1>1. asked # {} /\ Min(asked) = i
  <2>1. Min(asked) \in asked /\ \A k \in asked : Min(asked) <= k
    BY MinIsLeast
  <2>2. Min(asked) \in Nat /\ Min(asked) <= i /\ i <= Min(asked)
    BY <2>1
  <2> QED
    BY <2>1, <2>2
<1> QED
  BY <1>1 DEF CheckIgnore, Reason

Reasons(says, config, ignore, path) ==
  LET meant(patterns) == \E p \in ToSet(patterns) :
                           p # <<>> /\ Unclosed \notin ToSet(p) /\ Means(p, path)
  IN  /\ says \in {"indexed", "ignore file", "config"}
      /\ says = "indexed" <=> ~ meant(config) /\ ~ meant(ignore)
      /\ says = "ignore file" => meant(ignore)
      /\ says = "config" => meant(config)

LEMMA ReasonIs ==
  ASSUME NEW Part, NEW config \in Seq(Seq(Part)), NEW ignore \in Seq(Seq(Part)),
         NEW path, Path(path)
  PROVE  Reasons(Reason(config, ignore, path), config, ignore, path)
<1> DEFINE says == Reason(config, ignore, path)
           fit(p) == p # <<>> /\ Unclosed \notin ToSet(p) /\ Means(p, path)
           meant(patterns) == \E p \in ToSet(patterns) : fit(p)
           patterns == config \o ignore
           fits == {k \in DOMAIN patterns : Excluding({patterns[k]}, path) # {}}
<1>2. says = IF fits = {} THEN "indexed"
             ELSE IF patterns[Min(fits)] \in ToSet(ignore) THEN "ignore file"
             ELSE "config"
  BY DEF Reason
<1> HIDE DEF says
<1>3. /\ patterns \in Seq(Seq(Part)) /\ Len(patterns) = Len(config) + Len(ignore)
      /\ \A k \in 1 .. Len(config) + Len(ignore) :
           patterns[k] = IF k <= Len(config) THEN config[k] ELSE ignore[k - Len(config)]
  BY ConcatProperties
<1>4. /\ Len(config) \in Nat /\ Len(ignore) \in Nat /\ DOMAIN config = 1 .. Len(config)
      /\ DOMAIN ignore = 1 .. Len(ignore) /\ DOMAIN patterns = 1 .. Len(patterns)
  BY <1>3, LenProperties
<1>5. \A k \in DOMAIN patterns : patterns[k] \in Seq(Part)
  BY <1>3, <1>4, ElementOfSeq
<1> HIDE DEF patterns
<1>6. \A k \in DOMAIN patterns : Excluding({patterns[k]}, path) # {} <=> fit(patterns[k])
  <2>1. SUFFICES ASSUME NEW k \in DOMAIN patterns
                 PROVE  Excluding({patterns[k]}, path) # {} <=> fit(patterns[k])
    OBVIOUS
  <2>2. PICK single, p : p = patterns[k] /\ single = {p}
    OBVIOUS
  <2>3. Lists(single)
    BY <1>5, <2>2 DEF Lists
  <2>4. \A q : q \in Excluding(single, path) <=> q \in single /\ fit(q)
    BY <2>3, ExcludingMeans
  <2> QED
    BY <2>2, <2>4
<1> HIDE DEF fit
<1>7. \A k \in DOMAIN patterns :
        \/ k \in DOMAIN config /\ patterns[k] = config[k]
        \/ k - Len(config) \in DOMAIN ignore /\ patterns[k] = ignore[k - Len(config)]
  BY <1>3, <1>4
<1>8. /\ \A k \in DOMAIN config : k \in DOMAIN patterns /\ patterns[k] = config[k]
      /\ \A k \in DOMAIN ignore : /\ k + Len(config) \in DOMAIN patterns
                                   /\ patterns[k + Len(config)] = ignore[k]
  <2>1. \A k \in 1 .. Len(ignore) :
          /\ k + Len(config) \in 1 .. Len(config) + Len(ignore) /\ ~ (k + Len(config) <= Len(config))
          /\ k + Len(config) - Len(config) = k
    BY <1>4
  <2> QED
    BY <1>3, <1>4, <2>1, SMTT(40)
<1>9. fits = {} <=> ~ meant(config) /\ ~ meant(ignore)
  <2>1. ASSUME NEW k \in fits PROVE meant(config) \/ meant(ignore)
    BY <1>6, <1>7 DEF ToSet
  <2>2. meant(config) => fits # {}
    BY <1>6, <1>8 DEF ToSet
  <2>3. meant(ignore) => fits # {}
    BY <1>6, <1>8 DEF ToSet
  <2> QED
    BY <2>1, <2>2, <2>3
<1>10. ASSUME fits # {}
       PROVE  /\ fit(patterns[Min(fits)])
              /\ patterns[Min(fits)] \notin ToSet(ignore) => patterns[Min(fits)] \in ToSet(config)
  <2>1. fits \in SUBSET Nat
    BY <1>4
  <2>2. Min(fits) \in fits
    <3> HIDE DEF fits
    <3> QED
      BY <1>10, <2>1, MinIsLeast
  <2> QED
    BY <1>6, <1>7, <2>2 DEF ToSet
<1> HIDE DEF fits
<1>11. /\ says \in {"indexed", "ignore file", "config"}
       /\ says = "indexed" <=> ~ meant(config) /\ ~ meant(ignore)
       /\ says = "ignore file" => meant(ignore)
       /\ says = "config" => meant(config)
  BY <1>2, <1>9, <1>10
<1> QED
  BY <1>11 DEF fit, says, Reasons

(* What cmd_check_ignore says of a note is what walk_vault does with it,   *)
(* in the vault it is asked of; and the place it names, the configuration  *)
(* or the vault's ignore file, has a pattern that means the note: for      *)
(* every vault and any two lists of patterns.                              *)
THEOREM SaysWhy ==
  ASSUME NEW files, Vault(files), NEW Part,
         NEW config \in Seq(Seq(Part)), NEW ignore \in Seq(Seq(Part))
  PROVE  CheckSaysWhy(files, config, ignore)
<1> DEFINE vaults == <<[name |-> "work", ignore |-> ignore], [name |-> "other", ignore |-> <<>>]>>
           says(named, f) == CheckIgnore(vaults, named, config, f.path)
           meant(patterns, f) == \E p \in Compiled(ToSet(patterns)) : Means(p, f.path)
<1> SUFFICES ASSUME NEW f \in files
             PROVE  /\ f \in Walked({f}, ToSet(config \o ignore), FALSE, TRUE) =>
                         says("first", f) = "indexed"
                    /\ says("work", f) = says("first", f)
                    /\ says("first", f) = "ignore file" => meant(ignore, f)
                    /\ says("first", f) = "config" => meant(config, f)
                    /\ says("other", f) = "indexed" <=> ~ meant(config, f)
                    /\ says("first", f) = "indexed" <=> ~ meant(config \o ignore, f)
  BY DEF CheckSaysWhy
<1>1. /\ DOMAIN vaults = {1, 2} /\ vaults[1].name = "work" /\ vaults[2].name = "other"
      /\ vaults[1].ignore = ignore /\ vaults[2].ignore = <<>>
  OBVIOUS
<1>2. <<>> \in Seq(Seq(Part)) /\ Path(f.path)
  BY DEF Vault
<1> HIDE DEF vaults
<1>3. \A patterns : meant(patterns, f) <=>
        \E p \in ToSet(patterns) : p # <<>> /\ Unclosed \notin ToSet(p) /\ Means(p, f.path)
  BY DEF Compiled
<1> HIDE DEF meant
<1>4. \A named \in {"work", "first"} : says(named, f) = Reason(config, ignore, f.path)
  <2>1. SUFFICES ASSUME NEW named \in {"work", "first"}
                 PROVE  says(named, f) = Reason(config, ignore, f.path)
    OBVIOUS
  <2>2. PICK asked : asked = {k \in DOMAIN vaults : named \in {vaults[k].name, "first"}}
    OBVIOUS
  <2>3. PICK i \in Nat : i = 1
    OBVIOUS
  <2>4. asked \in SUBSET Nat /\ i \in asked /\ \A k \in asked : i <= k
    BY <1>1, <2>1, <2>2, <2>3
  <2>5. CheckIgnore(vaults, named, config, f.path) = Reason(config, vaults[i].ignore, f.path)
    BY <2>2, <2>3, <2>4, AskedOne
  <2> QED
    BY <1>1, <2>3, <2>5
<1>5. says("other", f) = Reason(config, <<>>, f.path)
  <2>1. PICK asked : asked = {k \in DOMAIN vaults : "other" \in {vaults[k].name, "first"}}
    OBVIOUS
  <2>2. PICK i, named : i \in Nat /\ i = 2 /\ named = "other"
    OBVIOUS
  <2>3. asked \in SUBSET Nat /\ i \in asked /\ \A k \in asked : i <= k
    BY <1>1, <2>1, <2>2
  <2>4. asked = {k \in DOMAIN vaults : named \in {vaults[k].name, "first"}}
    BY <2>1, <2>2
  <2>5. CheckIgnore(vaults, named, config, f.path) = Reason(config, vaults[i].ignore, f.path)
    BY <2>2, <2>3, <2>4, AskedOne
  <2> QED
    BY <1>1, <2>2, <2>5
<1> HIDE DEF says
<1>6. /\ Reasons(says("first", f), config, ignore, f.path)
      /\ says("work", f) = says("first", f)
      /\ Reasons(says("other", f), config, <<>>, f.path)
  BY <1>2, <1>4, <1>5, ReasonIs
<1>7. /\ says("first", f) \in {"indexed", "ignore file", "config"}
      /\ says("first", f) = "indexed" <=> ~ meant(config, f) /\ ~ meant(ignore, f)
      /\ says("first", f) = "ignore file" => meant(ignore, f)
      /\ says("first", f) = "config" => meant(config, f)
      /\ says("other", f) = "indexed" <=> ~ meant(config, f) /\ ~ meant(<<>>, f)
  BY <1>3, <1>6 DEF Reasons
<1>8. ~ meant(<<>>, f)
  <2>1. ToSet(<<>>) = {}
    BY DEF ToSet
  <2> QED
    BY <1>3, <2>1
<1>9. meant(config \o ignore, f) <=> meant(config, f) \/ meant(ignore, f)
  <2>1. ToSet(config \o ignore) = ToSet(config) \cup ToSet(ignore)
    BY SetOfBoth
  <2> QED
    BY <1>3, <2>1
<1>10. f \in Walked({f}, ToSet(config \o ignore), FALSE, TRUE) => ~ meant(config \o ignore, f)
  <2>1. PICK all : all = ToSet(config \o ignore)
    OBVIOUS
  <2>2. Lists(all)
    <3>1. ToSet(config) \cup ToSet(ignore) \subseteq Seq(Part)
      BY LenProperties, ElementOfSeq DEF ToSet
    <3>2. all \subseteq Seq(Part)
      BY <2>1, <3>1, SetOfBoth
    <3> QED
      BY <3>2 DEF Lists
  <2>3. f \in Walked({f}, all, FALSE, TRUE) => Excluding(all, f.path) = {}
    BY DEF Walked
  <2>4. \A p : p \in Excluding(all, f.path) <=>
          p \in all /\ p # <<>> /\ Unclosed \notin ToSet(p) /\ Means(p, f.path)
    BY <1>2, <2>2, ExcludingMeans
  <2> QED
    BY <1>3, <2>1, <2>3, <2>4
<1> QED
  BY <1>6, <1>7, <1>8, <1>9, <1>10

(* A name that is no pattern.                                              *)
PlainName(name) == name \notin {"**", Unclosed} \cup DOMAIN Starting \cup DOMAIN Ending

(* A directory in the vault's root that the user chooses in `init` is not  *)
(* indexed any more, nor is anything below it (run_init writes its name as *)
(* a pattern), in every vault whose directories have names that are no     *)
(* patterns; no file has the name of a directory.                          *)
THEOREM ExcludesRootChoice ==
  ASSUME NEW files, Vault(files), NEW patterns, Lists(patterns), NEW hide \in BOOLEAN,
         \A f \in files : \A i \in 1 .. Len(f.path) - 1 : PlainName(f.path[i]),
         \A f \in files, g \in files :
           Len(f.path) = 1 /\ Len(g.path) > 1 => f.path[1] # g.path[1]
  PROVE  RootChoiceIsExcluded(files, patterns, hide)
<1> SUFFICES ASSUME NEW d \in Candidates(files, hide, FALSE), Len(d) = 1,
                    NEW f \in Walked(files, PatternsOfInit(patterns, {d}), hide, FALSE),
                    f.path[1] = d[1]
             PROVE  FALSE
  BY DEF RootChoiceIsExcluded
<1>1. PICK g \in files : d = Directories(g.path) /\ d # <<>>
  BY DEF Candidates
<1>2. f \in files /\ Path(f.path) /\ Path(g.path)
  BY <1>1 DEF Walked, Vault
<1>3. Len(g.path) = 2 /\ d[1] = g.path[1]
  <2>1. /\ Len(d) = Len(g.path) - 1 /\ Len(g.path) \in Nat \ {0}
        /\ \A i \in 1 .. Len(g.path) - 1 : d[i] = g.path[i]
    BY <1>1, <1>2, InDirectories
  <2>2. PICK l : l = Len(g.path)
    OBVIOUS
  <2>3. \A k \in Nat \ {0} : k - 1 = 1 => k = 2 /\ 1 \in 1 .. k - 1
    OBVIOUS
  <2>4. l \in Nat \ {0} /\ l - 1 = 1
    BY <2>1, <2>2
  <2> QED
    BY <2>1, <2>2, <2>3, <2>4
<1>4. PlainName(d[1])
  <2>1. 1 \in 1 .. Len(g.path) - 1
    BY <1>3
  <2> QED
    BY <1>1, <1>3, <2>1
<1>5. d = <<d[1]>> /\ \E Part : d \in Seq(Part)
  <2>1. PICK Name : g.path \in Seq(Name)
    BY <1>2 DEF Path
  <2>2. PICK p, b : p = g.path /\ b = Len(p) - 1
    OBVIOUS
  <2>3. p \in Seq(Name) /\ b \in Int /\ 1 <= 1 /\ 1 <= b + 1 /\ b <= Len(p) /\ 1 \in Int
    BY <1>3, <2>1, <2>2
  <2>4. d = SubSeq(p, 1, b)
    BY <1>1, <2>2 DEF Directories, Front
  <2>5. d \in Seq(Name)
    BY <2>3, <2>4, NamesBetween
  <2> QED
    BY <2>5, OneName
<1>6. PICK all : all = PatternsOfInit(patterns, {d})
  OBVIOUS
<1>7. d \in all /\ Lists(all)
  BY <1>5, <1>6 DEF PatternsOfInit, Lists
<1>8. Unclosed \notin ToSet(d)
  <2>1. PICK x : x = d[1]
    OBVIOUS
  <2>2. ToSet(<<x>>) = {x}
    BY DEF ToSet
  <2> QED
    BY <1>4, <1>5, <2>1, <2>2 DEF PlainName
<1>9. Means(d, f.path)
  <2>1. Len(f.path) # 1
    BY <1>1, <1>2, <1>3
  <2>2. Len(f.path) \in Nat \ {0}
    BY <1>2, InDirectories
  <2>3. 1 \in 1 .. Len(f.path) - 1
    <3>1. \A l \in Nat \ {0} : l # 1 => 1 \in 1 .. l - 1
      OBVIOUS
    <3> QED
      BY <2>1, <2>2, <3>1
  <2>4. PICK x : x = d[1]
    OBVIOUS
  <2>5. PartFits(x, <<x>>)
    BY <1>4, <2>4, FitsOne DEF PlainName
  <2>6. d # <<"**">>
    BY <1>4, <1>5, <2>4 DEF PlainName
  <2>7. \E i \in 1 .. Len(f.path) - 1 : PartFits(d[1], <<f.path[i]>>)
    BY <2>3, <2>4, <2>5
  <2> QED
    BY <2>6, <2>7 DEF Means
<1>10. d \in Excluding(all, f.path)
  BY <1>1, <1>2, <1>7, <1>8, <1>9, ExcludingMeans
<1>11. Excluding(all, f.path) = {}
  BY <1>6 DEF Walked
<1> QED
  BY <1>10, <1>11

-----------------------------------------------------------------------------
(***************************************************************************)
(* Where wikilinks lead: the paths that build_path_map has seen, and where *)
(* their names lead.  It keeps the first of the shortest.                  *)
(***************************************************************************)
Stemmed(p) == p[Len(p)] \in DOMAIN Stem
Maps(paths) == UNION {[D -> paths] : D \in SUBSET {Stem[n] : n \in DOMAIN Stem}}
Leads(map, paths, size) ==
  /\ map \in Maps(paths)
  /\ DOMAIN map = {Stem[p[Len(p)]] : p \in {q \in paths : Stemmed(q)}}
  /\ \A s \in DOMAIN map :
       /\ map[s] \in paths /\ Stemmed(map[s]) /\ Stem[map[s][Len(map[s])]] = s
       /\ \A p \in paths : Stemmed(p) /\ Stem[p[Len(p)]] = s => size[map[s]] <= size[p]

StemOf(p) == Stem[p[Len(p)]]
Leading(map, p, size) ==
  Stemmed(p) /\ (StemOf(p) \in DOMAIN map => size[p] < size[map[StemOf(p)]])
IsNextMap(after, map, p, paths, size) ==
  /\ after \in Maps(paths)
  /\ ~ Leading(map, p, size) => after = map
  /\ Leading(map, p, size) =>
       /\ DOMAIN after = DOMAIN map \cup {StemOf(p)} /\ after[StemOf(p)] = p
       /\ \A t \in DOMAIN map \ {StemOf(p)} : after[t] = map[t]

LEMMA WithPathMaps ==
  ASSUME NEW paths, NEW size, NEW map \in Maps(paths), NEW p \in paths
  PROVE  IsNextMap(WithPath(map, p, size), map, p, paths, size)
<1> DEFINE s == StemOf(p)
           new == Leading(map, p, size)
           after == WithPath(map, p, size)
           Q == {Stem[n] : n \in DOMAIN Stem}
<1>1. PICK D \in SUBSET Q : map \in [D -> paths]
  BY DEF Maps
<1>2. after = IF new THEN [t \in DOMAIN map \cup {s} |-> IF t = s THEN p ELSE map[t]] ELSE map
  BY DEF WithPath, Stemmed, Leading, StemOf
<1>3. new => s \in Q
  BY DEF Stemmed, Leading, StemOf
<1> HIDE DEF s, new, after, Q
<1> DEFINE Goal == /\ after \in Maps(paths)
                   /\ ~ new => after = map
                   /\ new => /\ DOMAIN after = DOMAIN map \cup {s} /\ after[s] = p
                             /\ \A t \in DOMAIN map \ {s} : after[t] = map[t]
<1>4. ASSUME new PROVE Goal
  <2>1. D \cup {s} \in SUBSET Q /\ after \in [D \cup {s} -> paths]
    BY <1>1, <1>2, <1>3, <1>4
  <2>2. after \in Maps(paths)
    BY <2>1 DEF Maps, Q
  <2>3. /\ DOMAIN after = DOMAIN map \cup {s} /\ after[s] = p
        /\ \A t \in DOMAIN map \ {s} : after[t] = map[t]
    BY <1>2, <1>4
  <2> QED
    BY <1>4, <2>2, <2>3
<1>5. ASSUME ~ new PROVE Goal
  <2>1. after = map
    BY <1>2, <1>5
  <2>2. after \in Maps(paths)
    BY <2>1
  <2> QED
    BY <1>5, <2>1, <2>2
<1> QED
  BY <1>4, <1>5 DEF s, new, after, IsNextMap

LEMMA WithPathLeads ==
  ASSUME NEW done, NEW all, done \subseteq all, NEW size \in [all -> Nat],
         NEW map, Leads(map, done, size), NEW p \in all
  PROVE  Leads(WithPath(map, p, size), done \cup {p}, size)
<1> DEFINE s == StemOf(p)
           new == Stemmed(p) /\ (s \in DOMAIN map => size[p] < size[map[s]])
           after == WithPath(map, p, size)
           now == done \cup {p}
<1>1. map \in Maps(now)
  <2>1. map \in Maps(done)
    BY DEF Leads
  <2>2. PICK D \in SUBSET {Stem[x] : x \in DOMAIN Stem} : map \in [D -> done]
    BY <2>1 DEF Maps
  <2>3. map \in [D -> now]
    BY <2>2
  <2> QED
    BY <2>3 DEF Maps
<1>2. /\ after \in Maps(now)
      /\ ~ new => after = map
      /\ new => /\ DOMAIN after = DOMAIN map \cup {s} /\ after[s] = p
                /\ \A t \in DOMAIN map \ {s} : after[t] = map[t]
  <2>1. PICK q : q = now
    OBVIOUS
  <2>2. map \in Maps(q) /\ p \in q
    BY <1>1, <2>1
  <2>3. IsNextMap(after, map, p, q, size)
    BY <2>2, WithPathMaps
  <2> HIDE DEF now, after
  <2>4. /\ after \in Maps(q)
        /\ ~ new => after = map
        /\ new => /\ DOMAIN after = DOMAIN map \cup {s} /\ after[s] = p
                  /\ \A t \in DOMAIN map \ {s} : after[t] = map[t]
    BY <2>3 DEF IsNextMap, Leading
  <2> QED
    BY <2>1, <2>4
<1> HIDE DEF after
<1>3. /\ DOMAIN map = {Stem[q[Len(q)]] : q \in {r \in done : Stemmed(r)}}
      /\ \A t \in DOMAIN map :
           /\ map[t] \in done /\ Stemmed(map[t]) /\ Stem[map[t][Len(map[t])]] = t
           /\ \A q \in done : Stemmed(q) /\ Stem[q[Len(q)]] = t => size[map[t]] <= size[q]
  BY DEF Leads
<1> DEFINE Of(q) == StemOf(q)
<1>4. /\ \A t : t \in DOMAIN map <=> \E q \in done : Stemmed(q) /\ Of(q) = t
      /\ \A t \in DOMAIN map :
           /\ map[t] \in done /\ Stemmed(map[t]) /\ Of(map[t]) = t
           /\ \A q \in done : Stemmed(q) /\ Of(q) = t => size[map[t]] <= size[q]
  BY <1>3 DEF StemOf
<1>5. s = Of(p) /\ \A q \in now : size[q] \in Nat
  OBVIOUS
<1> HIDE DEF Of, s
<1>6. \A t : t \in DOMAIN after <=> \E q \in now : Stemmed(q) /\ Of(q) = t
  <2>1. CASE new
    BY <1>2, <1>4, <1>5, <2>1
  <2>2. CASE ~ new
    <3>1. after = map /\ (Stemmed(p) => s \in DOMAIN map)
      BY <1>2, <2>2
    <3> QED
      BY <1>4, <1>5, <3>1
  <2> QED
    BY <2>1, <2>2
<1>7. ASSUME NEW t \in DOMAIN after
      PROVE  /\ after[t] \in now /\ Stemmed(after[t]) /\ Of(after[t]) = t
             /\ \A q \in now : Stemmed(q) /\ Of(q) = t => size[after[t]] <= size[q]
  <2>1. CASE new /\ t = s
    <3>1. after[t] = p /\ Stemmed(p) /\ Of(p) = t /\ size[p] \in Nat
      BY <1>2, <1>5, <2>1
    <3>2. ASSUME NEW q \in now, Stemmed(q), Of(q) = t PROVE size[p] <= size[q]
      <4>1. CASE q = p
        BY <1>5, <4>1
      <4>2. CASE q \in done
        <5>1. s \in DOMAIN map /\ size[map[s]] <= size[q] /\ map[s] \in done
          BY <1>4, <2>1, <3>2, <4>2
        <5>2. size[p] < size[map[s]]
          BY <2>1, <5>1
        <5>3. size[p] \in Nat /\ size[q] \in Nat /\ size[map[s]] \in Nat
          BY <1>5, <3>2, <5>1
        <5> QED
          BY <5>1, <5>2, <5>3
      <4> QED
        BY <4>1, <4>2
    <3> QED
      BY <3>1, <3>2
  <2>2. CASE ~ (new /\ t = s)
    <3>1. t \in DOMAIN map /\ after[t] = map[t]
      BY <1>2, <2>2
    <3>2. ASSUME Stemmed(p), Of(p) = t PROVE size[map[t]] <= size[p]
      <4>1. t = s /\ s \in DOMAIN map /\ ~ new
        BY <1>5, <2>2, <3>1, <3>2
      <4>2. ~ (size[p] < size[map[s]])
        BY <3>2, <4>1
      <4>3. map[s] \in done /\ size[map[s]] \in Nat /\ size[p] \in Nat
        BY <1>4, <1>5, <4>1
      <4> QED
        BY <4>1, <4>2, <4>3
    <3> QED
      BY <1>4, <3>1, <3>2
  <2> QED
    BY <2>1, <2>2
<1>8. DOMAIN after = {Of(q) : q \in {r \in now : Stemmed(r)}}
  BY <1>6
<1> QED
  BY <1>2, <1>7, <1>8 DEF Leads, Of, after, StemOf

(* A wikilink leads to a note of that name, and to one with a shortest     *)
(* such path, whatever the notes are and in whatever order build_path_map  *)
(* sees them; and every name of a note leads somewhere.                    *)
THEOREM LinksLead ==
  ASSUME NEW Name, NEW paths \in Seq(Seq(Name)), NEW size \in [ToSet(paths) -> Nat]
  PROVE  LinksLeadToNotes(paths, size)
<1> DEFINE all == ToSet(paths)
           S == Maps(all)
           n == Len(paths)
           step == [k \in 1 .. n |-> [map \in S |-> WithPath(map, paths[k], size)]]
<1>1. n \in Nat /\ DOMAIN paths = 1 .. n /\ \A k \in 1 .. n : paths[k] \in all
  BY LenProperties DEF ToSet
<1>2. <<>> \in S
  <2>1. <<>> \in [{} -> all]
    OBVIOUS
  <2> QED
    BY <2>1 DEF Maps
<1> HIDE DEF all
<1>3. step \in [1 .. n -> [S -> S]]
  <2>1. ASSUME NEW k \in 1 .. n, NEW map \in S PROVE WithPath(map, paths[k], size) \in S
    <3>1. PICK p \in all : p = paths[k]
      BY <1>1
    <3> QED
      BY <3>1, WithPathMaps DEF IsNextMap
  <2> QED
    BY <2>1
<1>4. PICK run \in [0 .. n -> S] :
        run[0] = <<>> /\ \A k \in 1 .. n : run[k] = step[k][run[k - 1]]
  <2>1. PICK a : a = <<>>
    OBVIOUS
  <2>2. \E run : IsRun(run, S, n, a, step)
    <3> HIDE DEF S, step, n
    <3> QED
      BY <1>1, <1>2, <1>3, <2>1, RunsExist
  <2> QED
    BY <2>1, <2>2 DEF IsRun
<1>5. \A k \in 1 .. n : run[k] = WithPath(run[k - 1], paths[k], size)
  <2> HIDE DEF S
  <2>1. \A k \in 1 .. n : k - 1 \in 0 .. n
    BY <1>1
  <2>2. \A k \in 1 .. n : run[k - 1] \in S
    BY <1>4, <2>1
  <2> QED
    BY <1>1, <1>4, <2>2
<1> HIDE DEF step, S
<1> DEFINE F(x) == [k \in 0 .. n |-> IF k = 0 THEN <<>> ELSE WithPath(x[k - 1], paths[k], size)]
<1>6. run = F(run)
  <2>1. \A k \in 0 .. n : run[k] = IF k = 0 THEN <<>> ELSE WithPath(run[k - 1], paths[k], size)
    BY <1>1, <1>4, <1>5
  <2>2. run = [k \in 0 .. n |-> run[k]]
    BY <1>4
  <2> QED
    BY <2>1, <2>2
<1> DEFINE maps == CHOOSE x : x = F(x)
<1>7. PathMap(paths, size) = maps[n]
  BY DEF PathMap
<1>8. maps = F(maps)
  BY <1>6
<1> HIDE DEF maps
<1>9. maps[0] = <<>> /\ \A k \in 1 .. n : maps[k] = WithPath(maps[k - 1], paths[k], size)
  <2>1. \A k \in 0 .. n : maps[k] = IF k = 0 THEN <<>> ELSE WithPath(maps[k - 1], paths[k], size)
    BY <1>8
  <2>2. maps[0] = <<>>
    BY <1>1, <2>1
  <2>3. \A k \in 1 .. n : k \in 0 .. n /\ k # 0
    BY <1>1
  <2>4. \A k \in 1 .. n : maps[k] = WithPath(maps[k - 1], paths[k], size)
    BY <2>1, <2>3
  <2> QED
    BY <2>2, <2>4
<1> HIDE DEF F
<1> DEFINE Done(k) == {paths[i] : i \in 1 .. k}
           Good(k) == Leads(maps[k], Done(k), size)
<1>10. Good(0)
  <2>1. Done(0) = {}
    OBVIOUS
  <2>2. <<>> \in [{} -> {}] /\ DOMAIN <<>> = {}
    OBVIOUS
  <2>3. <<>> \in Maps({})
    BY <2>2 DEF Maps
  <2>4. Leads(<<>>, {}, size)
    BY <2>2, <2>3 DEF Leads
  <2> QED
    BY <1>9, <2>1, <2>4
<1>11. ASSUME NEW k \in 1 .. n, Good(k - 1) PROVE Good(k)
  <2>1. PICK done, map, p : done = Done(k - 1) /\ map = maps[k - 1] /\ p = paths[k]
    OBVIOUS
  <2>2. done \subseteq all /\ p \in all /\ Leads(map, done, size)
    BY <1>1, <1>11, <2>1
  <2>3. Leads(WithPath(map, p, size), done \cup {p}, size)
    <3> size \in [all -> Nat]
      BY DEF all
    <3> QED
      BY <2>2, WithPathLeads
  <2>4. Done(k) = done \cup {p}
    <3>1. \A i : i \in 1 .. k <=> i \in 1 .. k - 1 \/ i = k
      OBVIOUS
    <3> QED
      BY <2>1, <3>1
  <2>5. maps[k] = WithPath(map, p, size)
    BY <1>9, <2>1
  <2> QED
    BY <2>3, <2>4, <2>5
<1>12. \A k \in 0 .. n : Good(k)
  <2> DEFINE T == {k \in 0 .. n : ~ Good(k)}
  <2>1. SUFFICES ASSUME T # {} PROVE FALSE
    OBVIOUS
  <2> HIDE DEF Good
  <2>2. T \in SUBSET Nat
    OBVIOUS
  <2>3. PICK m \in T : \A k \in T : m <= k
    BY <2>1, <2>2, LeastNumber
  <2>4. m # 0
    BY <1>10, <2>3
  <2>5. m \in 1 .. n /\ m - 1 \in 0 .. n /\ ~ (m <= m - 1)
    BY <1>1, <2>3, <2>4
  <2>6. Good(m - 1)
    BY <2>3, <2>5
  <2>7. Good(m)
    BY <1>11, <2>5, <2>6
  <2> QED
    BY <2>3, <2>7
<1>13. Done(n) = all
  BY <1>1 DEF all, ToSet
<1>14. PICK map : map = PathMap(paths, size)
  OBVIOUS
<1>15. Leads(map, all, size)
  BY <1>1, <1>7, <1>12, <1>13, <1>14
<1>16. DOMAIN map = {Stem[x] : x \in {p[Len(p)] : p \in all} \cap DOMAIN Stem}
  <2>1. DOMAIN map = {Stem[p[Len(p)]] : p \in {q \in all : q[Len(q)] \in DOMAIN Stem}}
    BY <1>15 DEF Leads, Stemmed
  <2> QED
    BY <2>1
<1>17. \A s \in DOMAIN map :
         /\ map[s] \in {p \in all : p[Len(p)] \in DOMAIN Stem /\ Stem[p[Len(p)]] = s}
         /\ \A p \in {q \in all : q[Len(q)] \in DOMAIN Stem /\ Stem[q[Len(q)]] = s} :
              size[map[s]] <= size[p]
  BY <1>15 DEF Leads, Stemmed
<1> QED
  BY <1>14, <1>16, <1>17 DEF LinksLeadToNotes, all

-----------------------------------------------------------------------------
(***************************************************************************)
(* Where things are: what the environment and config.toml can say.         *)
(***************************************************************************)
MaybePath == Seq(PathName) \cup {Unset}
Named(vaults) == \A v, w \in vaults : v[1] = w[1] => v = w
VaultSets == SUBSET (PathName \X Seq(PathName))
EnvKinds ==
  [home : MaybePath, macos : BOOLEAN, xdgData : MaybePath, xdgConfig : MaybePath,
   embedModel : MaybePath, dbPath : MaybePath, notesDir : MaybePath, present : SUBSET Seq(PathName)]
FileKinds ==
  [database : MaybePath, legacyNotes : MaybePath, legacyDb : MaybePath,
   vaults : {vaults \in VaultSets : Named(vaults)}, flatNotes : MaybePath, flatDb : MaybePath,
   unknown : BOOLEAN, onnx : MaybePath]

LEMMA FilesAre ==
  ASSUME NEW file \in FileKinds
  PROVE  /\ file.vaults \in VaultSets /\ Named(file.vaults)
         /\ file = [database |-> file.database, legacyNotes |-> file.legacyNotes,
                    legacyDb |-> file.legacyDb, vaults |-> file.vaults,
                    flatNotes |-> file.flatNotes, flatDb |-> file.flatDb,
                    unknown |-> file.unknown, onnx |-> file.onnx]
  BY DEF FileKinds

LEMMA LoadedIs ==
  ASSUME NEW file \in FileKinds
  PROVE  /\ Loaded(file) \in FileKinds
         /\ ~ file.unknown => Loaded(file) = file
         /\ Loaded(file).legacyNotes # Unset => file.legacyNotes # Unset
<1>1. NoFile \in FileKinds
  <2>1. {} \in {vaults \in VaultSets : Named(vaults)}
    BY DEF VaultSets, Named
  <2> QED
    BY <2>1 DEF NoFile, FileKinds, MaybePath
<1>2. NoFile.legacyNotes = Unset
  BY DEF NoFile
<1> QED
  BY <1>1, <1>2 DEF Loaded

(* With another default, vaults have names of their own. *)
LEMMA DefaultNamed ==
  ASSUME NEW vaults, Named(vaults), NEW others, others \subseteq vaults, NEW path,
         \A v \in others : v[1] # "default"
  PROVE  Named(others \cup {<<"default", path>>})
  BY DEF Named

LEMMA ResolvedNamed ==
  ASSUME NEW cfg, cfg.legacyNotes = Unset, Named(cfg.vaults)
  PROVE  /\ Named(ResolvedVaults(cfg))
         /\ ResolvedVaults(cfg) = IF cfg.vaults = {} THEN {<<"default", Cwd>>} ELSE cfg.vaults
<1>1. ResolvedVaults(cfg) = IF cfg.vaults = {} THEN {<<"default", Cwd>>} ELSE cfg.vaults
  BY DEF ResolvedVaults
<1>2. Named({<<"default", Cwd>>})
  BY DEF Named
<1> QED
  BY <1>1, <1>2

LEMMA CliIs ==
  ASSUME NEW env, NEW file \in FileKinds
  PROVE  LET cfg == Loaded(file)
             cli == CliConfig(env, file)
         IN  /\ cli.vaults = IF env.notesDir = Unset THEN cfg.vaults
                             ELSE {v \in cfg.vaults : v[1] # "default"}
                                  \cup {<<"default", env.notesDir>>}
             /\ cli.database = Else(env.dbPath, cfg.database)
             /\ cli.legacyNotes = cfg.legacyNotes /\ cli.legacyDb = cfg.legacyDb
<1>1. PICK cfg \in FileKinds : cfg = Loaded(file)
  BY LoadedIs
<1> QED
  BY <1>1 DEF CliConfig, FileKinds

LEMMA CoreIs ==
  ASSUME NEW env, NEW file \in FileKinds
  PROVE  LET named == \E v \in file.vaults : v[1] = "default"
             core == ToCoreConfig(env, file)
         IN  /\ core.vaults = IF file.flatNotes \in {Unset, Cwd} \/ named THEN file.vaults
                              ELSE file.vaults \cup {<<"default", file.flatNotes>>}
             /\ core.database = IF file.database = Unset /\ file.flatDb # DefaultDbPath(env)
                                THEN file.flatDb ELSE file.database
             /\ core.legacyNotes = file.legacyNotes /\ core.legacyDb = file.legacyDb
  BY DEF ToCoreConfig, FileKinds

(* Names of vaults are names of one vault. *)
LEMMA VaultsNamed ==
  ASSUME NEW env, NEW file \in FileKinds, file.legacyNotes = Unset
  PROVE  /\ Named(ResolvedVaults(CliConfig(env, file)))
         /\ \A vaults \in McpVaults(env, file) : Named(vaults)
<1>1. Named(ResolvedVaults(CliConfig(env, file)))
  <2>1. PICK cfg, cli : cfg = Loaded(file) /\ cli = CliConfig(env, file)
    OBVIOUS
  <2>2. cfg \in FileKinds /\ cfg.legacyNotes = Unset
    BY <2>1, LoadedIs DEF NoFile, Loaded
  <2>3. Named(cfg.vaults)
    BY <2>2, FilesAre
  <2>4. /\ cli.vaults = IF env.notesDir = Unset THEN cfg.vaults
                        ELSE {v \in cfg.vaults : v[1] # "default"}
                             \cup {<<"default", env.notesDir>>}
        /\ cli.legacyNotes = Unset
    BY <2>1, <2>2, CliIs
  <2>5. Named(cli.vaults)
    <3>1. PICK others, n : others = {v \in cfg.vaults : v[1] # "default"} /\ n = env.notesDir
      OBVIOUS
    <3>2. Named(others \cup {<<"default", n>>})
      BY <2>3, <3>1, DefaultNamed
    <3> QED
      BY <2>3, <2>4, <3>1, <3>2
  <2> QED
    BY <2>1, <2>4, <2>5, ResolvedNamed
<1>2. ASSUME NEW vaults \in McpVaults(env, file) PROVE Named(vaults)
  <2>1. PICK cfg, all, notes : /\ cfg = ToCoreConfig(env, file) /\ all = ResolvedVaults(cfg)
                               /\ notes = PathFromEnv(env.notesDir, Unset)
    OBVIOUS
  <2>2. Named(file.vaults)
    BY FilesAre
  <2>3. /\ cfg.vaults = IF file.flatNotes \in {Unset, Cwd} \/ (\E v \in file.vaults : v[1] = "default")
                        THEN file.vaults ELSE file.vaults \cup {<<"default", file.flatNotes>>}
        /\ cfg.legacyNotes = Unset
    BY <2>1, CoreIs
  <2>4. Named(cfg.vaults)
    BY <2>2, <2>3, DefaultNamed, ZenonT(60)
  <2>5. Named(all)
    BY <2>1, <2>3, <2>4, ResolvedNamed
  <2>6. vaults = all \/ \E v \in all : vaults = (all \ {v}) \cup {<<v[1], notes>>}
    BY <1>2, <2>1, <2>3 DEF McpVaults
  <2> QED
    BY <2>5, <2>6 DEF Named
<1> QED
  BY <1>1, <1>2

(* CLI and MCP server read one config.toml, and they work on the same      *)
(* index of the same vaults: for every file the CLI can read that has no   *)
(* flat fields, every environment and paths without `..`; and a name is a  *)
(* name of one vault.                                                      *)
THEOREM IndexesAgree ==
  ASSUME NEW env, NEW file \in FileKinds
  PROVE  OneIndex(env, file)
<1> DEFINE plain(path) == path = Unset \/ ".." \notin ToSet(path)
<1>1. DefaultConfigPath(env) = McpConfigPath(env)
  BY DEF DefaultConfigPath, McpConfigPath, Else
<1>2. ASSUME file.legacyNotes = Unset,
             NEW vaults \in McpVaults(env, file) \cup {ResolvedVaults(CliConfig(env, file))}
      PROVE  \A v, w \in vaults : v[1] = w[1] => v = w
  BY <1>2, VaultsNamed DEF Named
<1>3. PICK cli, core : cli = CliConfig(env, file) /\ core = ToCoreConfig(env, file)
  OBVIOUS
<1>4. ASSUME ~ file.unknown, plain(env.dbPath), plain(env.notesDir),
             file.flatNotes = Unset, file.flatDb = Unset
      PROVE  /\ McpDbPath(env, file) = ResolvedDbPath(env, cli)
             /\ (env.notesDir = Unset \/ (file.vaults = {} /\ file.legacyNotes = Unset))
                => McpVaults(env, file) = {ResolvedVaults(cli)}
  <2>1. /\ cli.vaults = IF env.notesDir = Unset THEN file.vaults
                        ELSE {v \in file.vaults : v[1] # "default"}
                             \cup {<<"default", env.notesDir>>}
        /\ cli.database = Else(env.dbPath, file.database)
        /\ cli.legacyNotes = file.legacyNotes /\ cli.legacyDb = file.legacyDb
    <3>1. Loaded(file) = file
      BY <1>4, LoadedIs
    <3> QED
      BY <1>3, <3>1, CliIs
  <2>2. /\ core.vaults = file.vaults /\ core.database = file.database
        /\ core.legacyNotes = file.legacyNotes /\ core.legacyDb = file.legacyDb
    BY <1>3, <1>4, CoreIs
  <2>3. McpDbPath(env, file) = ResolvedDbPath(env, cli)
    BY <1>3, <1>4, <2>1, <2>2 DEF McpDbPath, PathFromEnv, ResolvedDbPath, Else
  <2>4. PathFromEnv(env.notesDir, Unset) = env.notesDir
    BY <1>4 DEF PathFromEnv
  <2>5. ASSUME env.notesDir = Unset PROVE McpVaults(env, file) = {ResolvedVaults(cli)}
    <3>1. McpVaults(env, file) = {ResolvedVaults(core)}
      BY <1>3, <2>4, <2>5 DEF McpVaults
    <3>2. ResolvedVaults(core) = ResolvedVaults(cli)
      BY <2>1, <2>2, <2>5 DEF ResolvedVaults
    <3> QED
      BY <3>1, <3>2
  <2>6. ASSUME env.notesDir # Unset, file.vaults = {}, file.legacyNotes = Unset
        PROVE  McpVaults(env, file) = {ResolvedVaults(cli)}
    <3>1. PICK all, here : here = <<"default", Cwd>> /\ all = {here}
      OBVIOUS
    <3>2. ResolvedVaults(core) = all
      BY <2>2, <2>6, <3>1 DEF ResolvedVaults
    <3>3. McpVaults(env, file) = {(all \ {v}) \cup {<<v[1], env.notesDir>>} : v \in all}
      BY <1>3, <2>2, <2>4, <2>6, <3>2 DEF McpVaults
    <3>4. McpVaults(env, file) = {{<<"default", env.notesDir>>}}
      <4>1. (all \ {here}) \cup {<<here[1], env.notesDir>>} = {<<"default", env.notesDir>>}
        BY <3>1
      <4> QED
        BY <3>1, <3>3, <4>1
    <3>5. cli.vaults = {<<"default", env.notesDir>>}
      BY <2>1, <2>6
    <3>6. ResolvedVaults(cli) = {<<"default", env.notesDir>>}
      BY <2>1, <2>6, <3>5 DEF ResolvedVaults
    <3> QED
      BY <3>4, <3>6
  <2> QED
    BY <2>3, <2>5, <2>6
<1> QED
  BY <1>1, <1>2, <1>3, <1>4 DEF OneIndex

LEMMA FlatOnly ==
  ASSUME NEW env, NEW only \in FileKinds, only.vaults = {}, only.database = Unset,
         only.legacyDb = Unset, only.legacyNotes = Unset,
         env.notesDir = Unset, env.dbPath = Unset
  PROVE  /\ McpVaults(env, only) = {{<<"default", Else(only.flatNotes, Cwd)>>}}
         /\ McpDbPath(env, only) = Else(only.flatDb, DefaultDbPath(env))
<1>2. PICK core : core = ToCoreConfig(env, only)
  OBVIOUS
<1>3. /\ core.vaults = IF only.flatNotes \in {Unset, Cwd} THEN {} ELSE {<<"default", only.flatNotes>>}
      /\ core.database = IF only.flatDb # DefaultDbPath(env) THEN only.flatDb ELSE Unset
      /\ core.legacyNotes = Unset /\ core.legacyDb = Unset
  <2>1. /\ core.vaults = IF only.flatNotes \in {Unset, Cwd} \/ (\E v \in only.vaults : v[1] = "default")
                         THEN only.vaults ELSE only.vaults \cup {<<"default", only.flatNotes>>}
        /\ core.database = IF only.database = Unset /\ only.flatDb # DefaultDbPath(env)
                           THEN only.flatDb ELSE only.database
        /\ core.legacyNotes = only.legacyNotes /\ core.legacyDb = only.legacyDb
    BY <1>2, CoreIs
  <2>2. PICK vaults, default : vaults = only.vaults /\ default = <<"default", only.flatNotes>>
    OBVIOUS
  <2>3. vaults = {} /\ vaults \cup {default} = {default} /\ ~ \E v \in vaults : v[1] = "default"
    BY <2>2
  <2>4. core.vaults = IF only.flatNotes \in {Unset, Cwd} THEN {} ELSE {default}
    BY <2>1, <2>2, <2>3
  <2> QED
    BY <2>1, <2>2, <2>4
<1>4. McpVaults(env, only) = {ResolvedVaults(core)}
  BY <1>2 DEF McpVaults, PathFromEnv
<1>5. ResolvedVaults(core) = {<<"default", Else(only.flatNotes, Cwd)>>}
  BY <1>3 DEF ResolvedVaults, Else
<1>6. McpDbPath(env, only) = Else(only.flatDb, DefaultDbPath(env))
  BY <1>2, <1>3 DEF McpDbPath, PathFromEnv, ResolvedDbPath, Else
<1> QED
  BY <1>4, <1>5, <1>6

(* "Backward-compat" (McpFileConfig): the flat fields of an old            *)
(* config.toml count for the MCP server, and their defaults, where nothing *)
(* newer is said.                                                          *)
THEOREM OldFieldsCount ==
  ASSUME NEW env, NEW file \in FileKinds
  PROVE  FlatFieldsCount(env, file)
<1> DEFINE only == [NoFile EXCEPT !.flatNotes = file.flatNotes, !.flatDb = file.flatDb]
<1>1. /\ only \in FileKinds /\ only.flatNotes = file.flatNotes /\ only.flatDb = file.flatDb
      /\ only.vaults = {} /\ only.database = Unset /\ only.legacyDb = Unset /\ only.legacyNotes = Unset
  <2>1. {} \in {vaults \in VaultSets : Named(vaults)}
    BY DEF VaultSets, Named
  <2>2. file.flatNotes \in MaybePath /\ file.flatDb \in MaybePath
    BY DEF FileKinds
  <2> QED
    BY <2>1, <2>2 DEF NoFile, FileKinds, MaybePath
<1> HIDE DEF only
<1>2. ASSUME env.notesDir = Unset, env.dbPath = Unset
      PROVE  /\ McpVaults(env, only) = {{<<"default", Else(file.flatNotes, Cwd)>>}}
             /\ McpDbPath(env, only) = Else(file.flatDb, DefaultDbPath(env))
  BY <1>1, <1>2, FlatOnly
<1> QED
  BY <1>2 DEF FlatFieldsCount, only

(* The first of the model files that exist. *)
LEMMA FirstOfTwo ==
  ASSUME NEW env, NEW a, NEW b
  PROVE  FirstPresent(env, <<a, b>>) =
           IF a \in env.present THEN a ELSE IF b \in env.present THEN b ELSE Unset
<1> DEFINE list == <<a, b>>
           those == {k \in DOMAIN list : list[k] \in env.present}
<1>1. DOMAIN list = {1, 2} /\ list[1] = a /\ list[2] = b
  OBVIOUS
<1>2. FirstPresent(env, list) = IF those = {} THEN Unset ELSE list[Min(those)]
  BY DEF FirstPresent
<1> HIDE DEF list
<1>3. those \in SUBSET Nat
  BY <1>1
<1>4. those # {} => Min(those) \in those /\ \A k \in those : Min(those) <= k
  <2> HIDE DEF those
  <2> QED
    BY <1>3, MinIsLeast
<1>5. CASE a \in env.present
  <2>1. 1 \in those
    BY <1>1, <1>5
  <2>2. Min(those) \in {1, 2} /\ Min(those) <= 1
    BY <1>1, <1>4, <2>1
  <2>3. Min(those) = 1
    BY <2>2
  <2> QED
    BY <1>1, <1>2, <1>5, <2>1, <2>3 DEF list
<1>6. CASE a \notin env.present /\ b \in env.present
  <2>1. those = {2}
    BY <1>1, <1>6
  <2>2. Min(those) = 2 /\ those # {}
    BY <1>4, <2>1
  <2> QED
    BY <1>1, <1>2, <1>6, <2>2 DEF list
<1>7. CASE a \notin env.present /\ b \notin env.present
  <2>1. those = {}
    BY <1>1, <1>7
  <2> QED
    BY <1>2, <1>7, <2>1 DEF list
<1> QED
  BY <1>5, <1>6, <1>7

LEMMA FirstOfThree ==
  ASSUME NEW env, NEW a, NEW b, NEW c, a \notin env.present
  PROVE  FirstPresent(env, <<a, b, c>>) =
           IF b \in env.present THEN b ELSE IF c \in env.present THEN c ELSE Unset
<1> DEFINE list == <<a, b, c>>
           those == {k \in DOMAIN list : list[k] \in env.present}
<1>1. DOMAIN list = {1, 2, 3} /\ list[1] = a /\ list[2] = b /\ list[3] = c
  OBVIOUS
<1>2. FirstPresent(env, list) = IF those = {} THEN Unset ELSE list[Min(those)]
  BY DEF FirstPresent
<1> HIDE DEF list
<1>3. those \in SUBSET Nat /\ 1 \notin those
  BY <1>1
<1>4. those # {} => Min(those) \in those /\ \A k \in those : Min(those) <= k
  <2> HIDE DEF those
  <2> QED
    BY <1>3, MinIsLeast
<1>5. CASE b \in env.present
  <2>1. 2 \in those
    BY <1>1, <1>5
  <2>2. Min(those) \in {2, 3} /\ Min(those) <= 2
    BY <1>1, <1>3, <1>4, <2>1
  <2>3. Min(those) = 2
    BY <2>2
  <2> QED
    BY <1>1, <1>2, <1>5, <2>1, <2>3 DEF list
<1>6. CASE b \notin env.present /\ c \in env.present
  <2>1. those = {3}
    BY <1>1, <1>6
  <2>2. Min(those) = 3 /\ those # {}
    BY <1>4, <2>1
  <2> QED
    BY <1>1, <1>2, <1>6, <2>2 DEF list
<1>7. CASE b \notin env.present /\ c \notin env.present
  <2>1. those = {}
    BY <1>1, <1>7
  <2> QED
    BY <1>2, <1>7, <2>1 DEF list
<1> QED
  BY <1>5, <1>6, <1>7

LEMMA OwnNames ==
  /\ "." \in PathName /\ "shiotsuchi" \in PathName /\ "config.toml" \in PathName
  /\ "model.onnx" \in PathName /\ "usage.json" \in PathName
  /\ ".config" \in PathName /\ ".local" \in PathName /\ "share" \in PathName
BY PlacesAssumption DEF OwnName

LEMMA OwnIs ==
  ASSUME NEW dir \in Seq(PathName), NEW name \in PathName
  PROVE  /\ Own(dir, name) \in Seq(PathName) /\ Own(dir, name) # Unset
         /\ Own(dir, name) = dir \o <<"shiotsuchi", name>>
         /\ \A other \in PathName : Front(Own(dir, name)) \o <<other>> = Own(dir, other)
<1>1. \A n \in PathName : <<"shiotsuchi", n>> \in Seq(PathName)
  BY OwnNames
<1>2. \A n \in PathName : Own(dir, n) \in Seq(PathName)
  BY <1>1, ConcatProperties DEF Own
<1>3. ASSUME NEW other \in PathName
      PROVE  Front(Own(dir, name)) \o <<other>> = Own(dir, other)
  <2>1. PICK s, t, f, l : /\ s = Own(dir, name) /\ t = Own(dir, other) /\ l = Len(dir)
                          /\ f = SubSeq(s, 1, Len(s) - 1)
    OBVIOUS
  <2>2. l \in Nat
    BY <2>1, LenProperties
  <2>3. \A n \in PathName : /\ Len(Own(dir, n)) = l + 2
                          /\ \A k \in 1 .. l + 2 : Own(dir, n)[k] =
                               IF k <= l THEN dir[k] ELSE <<"shiotsuchi", n>>[k - l]
    <3>1. SUFFICES ASSUME NEW n \in PathName
                   PROVE  /\ Len(Own(dir, n)) = l + 2
                          /\ \A k \in 1 .. l + 2 : Own(dir, n)[k] =
                               IF k <= l THEN dir[k] ELSE <<"shiotsuchi", n>>[k - l]
      OBVIOUS
    <3>2. PICK b : b = <<"shiotsuchi", n>>
      OBVIOUS
    <3>3. b \in Seq(PathName) /\ Len(b) = 2
      BY <1>1, <3>2
    <3>4. /\ Len(dir \o b) = Len(dir) + Len(b)
          /\ \A k \in 1 .. Len(dir) + Len(b) : (dir \o b)[k] =
               IF k <= Len(dir) THEN dir[k] ELSE b[k - Len(dir)]
      BY <3>3, ConcatProperties
    <3> QED
      BY <2>1, <3>2, <3>3, <3>4 DEF Own
  <2>4. /\ s \in Seq(PathName) /\ t \in Seq(PathName) /\ Len(s) = l + 2 /\ Len(t) = l + 2
        /\ \A k \in 1 .. l : s[k] = dir[k] /\ t[k] = dir[k]
        /\ s[l + 1] = "shiotsuchi" /\ t[l + 1] = "shiotsuchi" /\ t[l + 2] = other
    <3>1. /\ \A k \in 1 .. l : k \in 1 .. l + 2 /\ k <= l
          /\ l + 1 \in 1 .. l + 2 /\ l + 2 \in 1 .. l + 2 /\ ~ (l + 1 <= l) /\ ~ (l + 2 <= l)
          /\ l + 1 - l = 1 /\ l + 2 - l = 2
      BY <2>2
    <3>2. <<"shiotsuchi", name>>[1] = "shiotsuchi" /\ <<"shiotsuchi", other>>[1] = "shiotsuchi"
          /\ <<"shiotsuchi", other>>[2] = other
      OBVIOUS
    <3>3. /\ Len(s) = l + 2
          /\ \A k \in 1 .. l + 2 : s[k] = IF k <= l THEN dir[k] ELSE <<"shiotsuchi", name>>[k - l]
      BY <2>1, <2>3
    <3>4. /\ Len(t) = l + 2
          /\ \A k \in 1 .. l + 2 : t[k] = IF k <= l THEN dir[k] ELSE <<"shiotsuchi", other>>[k - l]
      BY <2>1, <2>3
    <3>5. \A k \in 1 .. l : s[k] = dir[k] /\ t[k] = dir[k]
      BY <3>1, <3>3, <3>4
    <3>6. \A d, k : k \in 1 .. l + 2 /\ ~ (k <= l) /\ k - l = d =>
            s[k] = <<"shiotsuchi", name>>[d] /\ t[k] = <<"shiotsuchi", other>>[d]
      BY <3>3, <3>4
    <3>7. PICK a, b, one, two : a = l + 1 /\ b = l + 2 /\ one = 1 /\ two = 2
      OBVIOUS
    <3>8. /\ a \in 1 .. l + 2 /\ ~ (a <= l) /\ a - l = one
          /\ b \in 1 .. l + 2 /\ ~ (b <= l) /\ b - l = two
      BY <2>2, <3>7
    <3>9. /\ s[a] = <<"shiotsuchi", name>>[one] /\ t[a] = <<"shiotsuchi", other>>[one]
           /\ t[b] = <<"shiotsuchi", other>>[two]
      BY <3>6, <3>8
    <3>10. s[l + 1] = "shiotsuchi" /\ t[l + 1] = "shiotsuchi" /\ t[l + 2] = other
      BY <3>2, <3>7, <3>9
    <3> QED
      BY <1>2, <2>1, <3>3, <3>4, <3>5, <3>10
  <2>5. f \in Seq(PathName) /\ Len(f) = l + 1 /\ \A k \in 1 .. l + 1 : f[k] = s[k]
    <3>1. /\ Len(s) - 1 = l + 1 /\ 1 \in Int /\ l + 1 \in Int /\ l + 1 <= Len(s)
      BY <2>2, <2>4
    <3>2. \A k \in 1 .. l + 1 : s[k] \in PathName
      BY <2>2, <2>4, ElementOfSeq
    <3>3. f = SubSeq(s, 1, l + 1)
      BY <2>1, <3>1
    <3>4. PICK b : b = l + 1
      OBVIOUS
    <3>5. /\ f = SubSeq(s, 1, b) /\ 1 \in Int /\ b \in Int /\ 1 <= 1 /\ 1 <= b + 1 /\ b <= Len(s)
      BY <2>2, <3>1, <3>3, <3>4
    <3>6. /\ f \in Seq(PathName) /\ Len(f) = b + 1 - 1
          /\ \A k \in 1 .. b + 1 - 1 : f[k] = s[1 + k - 1]
      BY <2>4, <3>5, NamesBetween
    <3>7. b + 1 - 1 = b /\ \A k \in 1 .. b : 1 + k - 1 = k
      BY <3>5
    <3> QED
      BY <3>4, <3>6, <3>7
  <2>6. PICK one : one = <<other>>
    OBVIOUS
  <2>7. one \in Seq(PathName) /\ Len(one) = 1 /\ one[1] = other
    BY <2>6
  <2>8. PICK u : u = f \o one
    OBVIOUS
  <2>9. /\ u \in Seq(PathName) /\ Len(u) = l + 2
        /\ \A k \in 1 .. l + 2 : u[k] = IF k <= l + 1 THEN f[k] ELSE one[k - (l + 1)]
    <3>1. /\ u \in Seq(PathName) /\ Len(u) = Len(f) + Len(one)
          /\ \A k \in 1 .. Len(f) + Len(one) :
               u[k] = IF k <= Len(f) THEN f[k] ELSE one[k - Len(f)]
      BY <2>5, <2>7, <2>8, ConcatProperties
    <3>2. l + 1 + 1 = l + 2
      BY <2>2
    <3> QED
      BY <2>5, <2>7, <3>1, <3>2
  <2>10. \A k \in 1 .. l + 2 : u[k] = t[k]
    <3>1. SUFFICES ASSUME NEW k \in 1 .. l + 2 PROVE u[k] = t[k]
      OBVIOUS
    <3>2. k \in 1 .. l \/ k = l + 1 \/ k = l + 2
      BY <2>2
    <3>3. k \in 1 .. l => k \in 1 .. l + 1 /\ k <= l + 1
      BY <2>2
    <3>4. l + 1 \in 1 .. l + 1 /\ l + 1 <= l + 1 /\ ~ (l + 2 <= l + 1) /\ l + 2 - (l + 1) = 1
      BY <2>2
    <3>5. k \in 1 .. l => u[k] = t[k]
      BY <2>4, <2>5, <2>9, <3>3
    <3>6. k = l + 1 => u[k] = t[k]
      BY <2>4, <2>5, <2>9, <3>4
    <3>7. k = l + 2 => u[k] = t[k]
      <4>1. \A d : ~ (k <= l + 1) /\ k - (l + 1) = d => u[k] = one[d]
        BY <2>9
      <4>2. k = l + 2 => ~ (k <= l + 1) /\ k - (l + 1) = 1
        BY <2>2
      <4> QED
        BY <2>4, <2>7, <4>1, <4>2
    <3> QED
      BY <3>2, <3>5, <3>6, <3>7
  <2>11. u = t
    BY <2>4, <2>9, <2>10, SeqEqual
  <2> QED
    BY <2>1, <2>6, <2>8, <2>11 DEF Front
<1> QED
  BY <1>2, <1>3, PlacesAssumption DEF Own

(* Notes are embedded with the model that queries are embedded with, the   *)
(* model that was put where `setup` says is found, and `tide` shows the    *)
(* file that create_embedder counts in, unless on macOS or below a         *)
(* relative XDG_CONFIG_HOME: for every environment and every config.toml.  *)
THEOREM ModelsAgree ==
  ASSUME NEW env \in EnvKinds, NEW file \in FileKinds
  PROVE  OneModel(env, file)
<1>1. /\ env.home \in MaybePath /\ env.xdgData \in MaybePath /\ env.xdgConfig \in MaybePath
      /\ env.present \subseteq Seq(PathName) /\ env.embedModel \in MaybePath
  BY DEF EnvKinds
<1>2. Unset \notin env.present /\ Cwd \in Seq(PathName)
  <2>1. <<".">> \in Seq(PathName)
    BY OwnNames
  <2> QED
    BY <1>1, <2>1, PlacesAssumption DEF Cwd
<1>3. <<".local", "share">> \in Seq(PathName) /\ <<".config">> \in Seq(PathName)
  BY OwnNames
<1>4. ASSUME env.home # Unset
      PROVE  /\ env.home \in Seq(PathName) /\ env.home \o <<".local", "share">> \in Seq(PathName)
             /\ env.home \o <<".config">> \in Seq(PathName)
  BY <1>1, <1>3, <1>4, ConcatProperties DEF MaybePath
<1>5. DefaultDataDir(env) \in Seq(PathName)
  BY <1>1, <1>2, <1>4 DEF DefaultDataDir, Else, MaybePath
<1>6. PICK own : own = Own(DefaultDataDir(env), "model.onnx")
  OBVIOUS
<1>7. own \in Seq(PathName) /\ own # Unset
  <2>1. PICK dir \in Seq(PathName), name \in PathName :
          dir = DefaultDataDir(env) /\ name = "model.onnx"
    BY <1>5, OwnNames
  <2> QED
    BY <1>6, <2>1, OwnIs
<1>8. ASSUME file.onnx = Unset
      PROVE  ConfiguredModel(env, file) = ResolveModelPath(env, Unset)
  <2>1. ConfiguredModel(env, file) = FirstPresent(env, <<env.embedModel, own>>)
    BY <1>6, <1>8 DEF ConfiguredModel, BuiltInModelPath, DefaultDataDir, Else
  <2>2. ResolveModelPath(env, Unset) = FirstPresent(env, <<Unset, env.embedModel, own>>)
    BY <1>6 DEF ResolveModelPath
  <2> QED
    BY <1>2, <2>1, <2>2, FirstOfTwo, FirstOfThree
<1>9. ASSUME env.home # Unset PROVE ResolveModelPath(AfterSetup(env), Unset) # Unset
  <2>1. CASE ResolveModelPath(env, Unset) # Unset
    BY <2>1 DEF AfterSetup
  <2>2. CASE ResolveModelPath(env, Unset) = Unset
    <3>1. SetupModelPath(env) = own
      BY <1>6, <1>9 DEF SetupModelPath, DefaultDataDir, Else
    <3>2. PICK after : after = AfterSetup(env)
      OBVIOUS
    <3>3. after = [env EXCEPT !.present = env.present \cup {own}]
      BY <2>2, <3>1, <3>2 DEF AfterSetup
    <3>4. /\ after.present = env.present \cup {own} /\ after.embedModel = env.embedModel
          /\ after.home = env.home /\ after.xdgData = env.xdgData
      BY <3>3 DEF EnvKinds
    <3>5. DefaultDataDir(after) = DefaultDataDir(env)
      BY <3>4 DEF DefaultDataDir
    <3>6. ResolveModelPath(after, Unset) = FirstPresent(after, <<Unset, env.embedModel, own>>)
      BY <1>6, <3>4, <3>5 DEF ResolveModelPath
    <3>7. Unset \notin after.present /\ own \in after.present
      BY <1>2, <1>7, <3>4
    <3>8. FirstPresent(after, <<Unset, env.embedModel, own>>) # Unset
      BY <3>7, FirstOfThree
    <3> QED
      BY <3>2, <3>6, <3>8
  <2> QED
    BY <2>1, <2>2
<1>10. ASSUME ~ env.macos,
              IF env.xdgConfig = Unset THEN env.home # Unset ELSE Absolute(env.xdgConfig)
       PROVE  UsagePath(env) = UsageShown(env)
  <2>1. PICK dir : dir = OsDir(env, env.xdgConfig, <<".config">>)
    OBVIOUS
  <2>2. dir \in Seq(PathName) /\ dir = Else(env.xdgConfig, Else(env.home, Cwd) \o <<".config">>)
    BY <1>1, <1>4, <1>10, <2>1 DEF OsDir, Absolute, Else, MaybePath
  <2>3. UsagePath(env) = Own(dir, "usage.json") /\ DefaultConfigPath(env) = Own(dir, "config.toml")
    BY <2>1, <2>2 DEF UsagePath, DefaultConfigPath
  <2>4. PICK name \in PathName, other \in PathName : name = "config.toml" /\ other = "usage.json"
    BY OwnNames
  <2>5. Front(Own(dir, name)) \o <<other>> = Own(dir, other)
    BY <2>2, OwnIs
  <2> QED
    BY <2>3, <2>4, <2>5 DEF UsageShown
<1> QED
  BY <1>8, <1>9, <1>10 DEF OneModel

-----------------------------------------------------------------------------
(***************************************************************************)
(* Results are sorted in one order, so that every result of a finite set   *)
(* has its place, and First(n, S) has n results or all of them.            *)
(***************************************************************************)
LEMMA NumbersAre == Rank \subseteq Int /\ RowId \subseteq Nat /\ IsFiniteSet(RowId)
  BY PagingAssumption

LEMMA ResultNumbers ==
  ASSUME NEW r \in Result
  PROVE  r.score \in Int /\ r.rank \in Int /\ r.id \in Nat
<1>1. r.score \in Int /\ r.rank \in Rank /\ r.id \in RowId
  BY DEF Result
<1>2. r.rank \in Int
  BY <1>1, NumbersAre
<1>3. r.id \in Nat
  BY <1>1, NumbersAre
<1> QED
  BY <1>1, <1>2, <1>3

LEMMA ResultsAre ==
  ASSUME NEW a \in Result, NEW b \in Result,
         a.score = b.score, a.rank = b.rank, a.id = b.id
  PROVE  a = b
  BY DEF Result

LEMMA BeforeOrders ==
  ASSUME NEW a \in Result, NEW b \in Result
  PROVE  /\ ~ Before(a, a)
         /\ Before(a, b) => ~ Before(b, a)
         /\ a = b \/ Before(a, b) \/ Before(b, a)
         /\ \A c \in Result : Before(a, b) /\ Before(b, c) => Before(a, c)
<1>1. \A r \in Result : r.score \in Int /\ r.rank \in Int /\ r.id \in Int
  BY ResultNumbers
<1>2. a.score = b.score /\ a.rank = b.rank /\ a.id = b.id => a = b
  BY ResultsAre
<1> QED
  BY <1>1, <1>2 DEF Before

Ahead(S, r) == {s \in S : Before(s, r)}

LEMMA PlaceInOrder ==
  ASSUME NEW S \in SUBSET Result, IsFiniteSet(S), NEW r \in S
  PROVE  /\ Ahead(S, r) \in SUBSET S /\ IsFiniteSet(Ahead(S, r))
         /\ Cardinality(Ahead(S, r)) \in Nat
         /\ Cardinality(Ahead(S, r)) < Cardinality(S)
         /\ \A q \in S : Before(q, r) =>
              /\ Ahead(S, q) \subseteq Ahead(S, r)
              /\ Cardinality(Ahead(S, q)) < Cardinality(Ahead(S, r))
<1>1. ASSUME NEW q \in S
      PROVE  /\ Ahead(S, q) \in SUBSET S /\ q \notin Ahead(S, q)
             /\ IsFiniteSet(Ahead(S, q)) /\ Cardinality(Ahead(S, q)) \in Nat
  <2>1. Ahead(S, q) \in SUBSET S
    BY DEF Ahead
  <2>2. IsFiniteSet(Ahead(S, q))
    BY <2>1, FS_Subset
  <2>3. q \notin Ahead(S, q)
    BY BeforeOrders DEF Ahead
  <2> QED
    BY <2>1, <2>2, <2>3, FS_CardinalityType
<1>2. Cardinality(Ahead(S, r)) < Cardinality(S)
  <2>1. Cardinality(Ahead(S, r)) <= Cardinality(S) /\ Cardinality(S) # Cardinality(Ahead(S, r))
    BY <1>1, FS_Subset
  <2>2. Cardinality(S) \in Nat
    BY FS_CardinalityType
  <2> QED
    BY <1>1, <2>1, <2>2
<1>3. ASSUME NEW q \in S, Before(q, r)
      PROVE  /\ Ahead(S, q) \subseteq Ahead(S, r)
             /\ Cardinality(Ahead(S, q)) < Cardinality(Ahead(S, r))
  <2>1. Ahead(S, q) \in SUBSET Ahead(S, r)
    BY <1>3, BeforeOrders DEF Ahead
  <2>2. q \in Ahead(S, r) /\ q \notin Ahead(S, q)
    BY <1>1, <1>3 DEF Ahead
  <2>3. IsFiniteSet(Ahead(S, r))
    BY <1>1
  <2>4. /\ Cardinality(Ahead(S, q)) <= Cardinality(Ahead(S, r))
        /\ Cardinality(Ahead(S, r)) = Cardinality(Ahead(S, q)) => Ahead(S, r) = Ahead(S, q)
    BY <2>1, <2>3, FS_Subset
  <2> QED
    BY <1>1, <2>1, <2>2, <2>4
<1> QED
  BY <1>1, <1>2, <1>3

LEMMA FirstIs ==
  ASSUME NEW S, NEW n
  PROVE  First(n, S) = {r \in S : Cardinality(Ahead(S, r)) < n}
  BY DEF First, Ahead

(* First is a beginning of the order. *)
LEMMA FirstBegins ==
  ASSUME NEW S \in SUBSET Result, IsFiniteSet(S), NEW n \in Nat
  PROVE  /\ First(n, S) \in SUBSET S /\ IsFiniteSet(First(n, S))
         /\ \A r \in First(n, S), q \in S : Before(q, r) => q \in First(n, S)
         /\ \A r \in First(n, S), q \in S \ First(n, S) : Before(r, q)
<1>1. First(n, S) \in SUBSET S
  BY FirstIs
<1>2. IsFiniteSet(First(n, S))
  BY <1>1, FS_Subset
<1>3. ASSUME NEW r \in First(n, S), NEW q \in S, Before(q, r)
      PROVE  q \in First(n, S)
  <2>1. r \in S /\ Cardinality(Ahead(S, r)) < n
    BY FirstIs
  <2>2. /\ Cardinality(Ahead(S, q)) < Cardinality(Ahead(S, r))
        /\ Cardinality(Ahead(S, r)) \in Nat
    BY <1>3, <2>1, PlaceInOrder
  <2>3. Cardinality(Ahead(S, q)) \in Nat
    BY PlaceInOrder
  <2>4. Cardinality(Ahead(S, q)) < n
    BY <2>1, <2>2, <2>3
  <2> QED
    BY <2>4, FirstIs
<1>4. ASSUME NEW r \in First(n, S), NEW q \in S \ First(n, S)
      PROVE  Before(r, q)
  BY <1>1, <1>3, <1>4, BeforeOrders
<1> QED
  BY <1>1, <1>2, <1>3, <1>4

LEMMA FirstOfAll ==
  ASSUME NEW S \in SUBSET Result, IsFiniteSet(S), NEW n \in Nat, Cardinality(S) <= n
  PROVE  First(n, S) = S
<1>1. Cardinality(S) \in Nat
  BY FS_CardinalityType
<1>2. ASSUME NEW r \in S PROVE Cardinality(Ahead(S, r)) < n
  <2>1. Cardinality(Ahead(S, r)) \in Nat /\ Cardinality(Ahead(S, r)) < Cardinality(S)
    BY PlaceInOrder
  <2> QED
    BY <1>1, <2>1
<1> QED
  BY <1>2, FirstIs

(* The places of a finite set of results are 0 .. its size - 1.            *)
LEMMA PlacesAreAll ==
  ASSUME NEW S \in SUBSET Result, IsFiniteSet(S)
  PROVE  LET place == [r \in S |-> Cardinality(Ahead(S, r))]
         IN  /\ place \in [S -> 0 .. Cardinality(S) - 1]
             /\ \A q, r \in S : place[q] = place[r] => q = r
             /\ \A k \in 0 .. Cardinality(S) - 1 : \E r \in S : place[r] = k
<1> DEFINE place == [r \in S |-> Cardinality(Ahead(S, r))]
           T == 0 .. Cardinality(S) - 1
<1>1. Cardinality(S) \in Nat
  BY FS_CardinalityType
<1>2. \A r \in S : Cardinality(Ahead(S, r)) \in T
  <2> SUFFICES ASSUME NEW r \in S PROVE Cardinality(Ahead(S, r)) \in T
    OBVIOUS
  <2>1. Cardinality(Ahead(S, r)) \in Nat /\ Cardinality(Ahead(S, r)) < Cardinality(S)
    BY PlaceInOrder
  <2> QED
    BY <1>1, <2>1
<1>3. place \in [S -> T]
  BY <1>2
<1>4. ASSUME NEW q \in S, NEW r \in S, Cardinality(Ahead(S, q)) = Cardinality(Ahead(S, r))
      PROVE  q = r
  <2>1. ~ Before(q, r)
    <3>1. Before(q, r) => Cardinality(Ahead(S, q)) < Cardinality(Ahead(S, r))
      BY PlaceInOrder
    <3>2. Cardinality(Ahead(S, q)) \in Nat
      BY PlaceInOrder
    <3> QED
      BY <1>4, <3>1, <3>2
  <2>2. ~ Before(r, q)
    <3>1. Before(r, q) => Cardinality(Ahead(S, r)) < Cardinality(Ahead(S, q))
      BY PlaceInOrder
    <3>2. Cardinality(Ahead(S, q)) \in Nat
      BY PlaceInOrder
    <3> QED
      BY <1>4, <3>1, <3>2
  <2> QED
    BY <2>1, <2>2, BeforeOrders
<1>5. \A q, r \in S : place[q] = place[r] => q = r
  BY <1>4
<1>6. place \in Injection(S, T)
  BY <1>3, <1>5 DEF Injection, IsInjective
<1>7. IsFiniteSet(T) /\ Cardinality(T) = Cardinality(S)
  <2>1. /\ IsFiniteSet(T)
        /\ Cardinality(T) = IF 0 > Cardinality(S) - 1 THEN 0 ELSE (Cardinality(S) - 1) - 0 + 1
    BY <1>1, FS_Interval
  <2> QED
    BY <1>1, <2>1
<1> HIDE DEF place, T
<1>8. place \in Surjection(S, T)
  BY <1>6, <1>7, FS_Injection
<1>9. \A k \in T : \E r \in S : place[r] = k
  BY <1>8 DEF Surjection
<1> QED
  BY <1>3, <1>5, <1>9 DEF place, T

(* First(n, S) has n results, or it is S. *)
LEMMA FirstCounts ==
  ASSUME NEW S \in SUBSET Result, IsFiniteSet(S), NEW n \in Nat
  PROVE  /\ Cardinality(First(n, S)) \in Nat /\ Cardinality(First(n, S)) <= n
         /\ Cardinality(S) > n => Cardinality(First(n, S)) = n
         /\ Cardinality(First(n, S)) < n => First(n, S) = S
<1>1. Cardinality(S) \in Nat
  BY FS_CardinalityType
<1>2. CASE Cardinality(S) <= n
  <2>1. First(n, S) = S
    BY <1>2, FirstOfAll
  <2> QED
    BY <1>1, <1>2, <2>1
<1>3. CASE Cardinality(S) > n
  <2> DEFINE place == [r \in S |-> Cardinality(Ahead(S, r))]
             F == First(n, S)
             T == 0 .. n - 1
             g == [r \in F |-> Cardinality(Ahead(S, r))]
  <2>1. /\ place \in [S -> 0 .. Cardinality(S) - 1]
        /\ \A q, r \in S : place[q] = place[r] => q = r
        /\ \A k \in 0 .. Cardinality(S) - 1 : \E r \in S : place[r] = k
    BY PlacesAreAll
  <2>2. F = {r \in S : Cardinality(Ahead(S, r)) < n}
    BY FirstIs
  <2>3. \A r \in F : Cardinality(Ahead(S, r)) \in T
    BY <1>1, <2>1, <2>2
  <2>4. \A k \in T : \E r \in F : Cardinality(Ahead(S, r)) = k
    BY <1>1, <1>3, <2>1, <2>2
  <2>5. \A q, r \in F : Cardinality(Ahead(S, q)) = Cardinality(Ahead(S, r)) => q = r
    BY <2>1, <2>2
  <2> HIDE DEF F, T, place
  <2>6. g \in Injection(F, T)
    BY <2>3, <2>5 DEF Injection, IsInjective
  <2>7. g \in Surjection(F, T)
    BY <2>3, <2>4 DEF Surjection
  <2>8. IsFiniteSet(T) /\ Cardinality(T) = n
    <3>1. /\ IsFiniteSet(0 .. n - 1)
          /\ Cardinality(0 .. n - 1) = IF 0 > n - 1 THEN 0 ELSE (n - 1) - 0 + 1
      BY FS_Interval
    <3> QED
      BY <3>1 DEF T
  <2> HIDE DEF g
  <2>9. Cardinality(F) = n
    BY <2>6, <2>7, <2>8, FS_Injection
  <2> QED
    BY <2>9 DEF F
<1> QED
  BY <1>1, <1>2, <1>3

(* The beginning of a beginning. *)
LEMMA FirstOfFirst ==
  ASSUME NEW S \in SUBSET Result, IsFiniteSet(S), NEW n \in Nat, NEW m \in Nat, n <= m
  PROVE  First(n, First(m, S)) = First(n, S)
<1> DEFINE F == First(m, S)
<1>1. /\ F \in SUBSET S
      /\ \A r \in F, q \in S : Before(q, r) => q \in F
  BY FirstBegins
<1>2. F = {r \in S : Cardinality(Ahead(S, r)) < m}
  BY FirstIs
<1> HIDE DEF F
<1>3. \A r \in F : Ahead(F, r) = Ahead(S, r)
  BY <1>1 DEF Ahead
<1>4. First(n, F) = {r \in F : Cardinality(Ahead(F, r)) < n}
  BY FirstIs
<1>5. First(n, S) = {r \in S : Cardinality(Ahead(S, r)) < n}
  BY FirstIs
<1>6. \A r \in S : Cardinality(Ahead(S, r)) \in Nat
  BY PlaceInOrder
<1>7. \A r \in S : Cardinality(Ahead(S, r)) < n => r \in F
  BY <1>2, <1>6
<1>8. First(n, F) = First(n, S)
  BY <1>1, <1>3, <1>4, <1>5, <1>7
<1> QED
  BY <1>8 DEF F

(* A finite set of results that is not empty has a last one. *)
LEMMA LastIs ==
  ASSUME NEW S \in SUBSET Result, IsFiniteSet(S), S # {}
  PROVE  /\ LastOf(S) \in S
         /\ \A s \in S : s = LastOf(S) \/ Before(s, LastOf(S))
<1>1. Cardinality(S) \in Nat /\ Cardinality(S) # 0
  BY FS_CardinalityType, FS_EmptySet
<1> DEFINE place == [r \in S |-> Cardinality(Ahead(S, r))]
<1>2. /\ place \in [S -> 0 .. Cardinality(S) - 1]
      /\ \A k \in 0 .. Cardinality(S) - 1 : \E r \in S : place[r] = k
  BY PlacesAreAll
<1>3. PICK r \in S : place[r] = Cardinality(S) - 1
  BY <1>1, <1>2
<1>4. ASSUME NEW s \in S PROVE ~ Before(r, s)
  <2>1. Before(r, s) => Cardinality(Ahead(S, r)) < Cardinality(Ahead(S, s))
    BY PlaceInOrder
  <2>2. Cardinality(Ahead(S, s)) \in 0 .. Cardinality(S) - 1
    BY <1>2
  <2>3. Cardinality(Ahead(S, r)) = Cardinality(S) - 1
    BY <1>3
  <2> QED
    BY <1>1, <2>1, <2>2, <2>3
<1>5. \A s \in S : s = r \/ Before(s, r)
  BY <1>4, BeforeOrders
<1> HIDE DEF place
<1>6. LastOf(S) = CHOOSE x \in S : \A s \in S : s = x \/ Before(s, x)
  BY DEF LastOf
<1>7. \E x \in S : \A s \in S : s = x \/ Before(s, x)
  BY <1>5
<1> QED
  BY <1>6, <1>7

-----------------------------------------------------------------------------
(***************************************************************************)
(* The types, and what the two ways to turn pages leave alone.             *)
(***************************************************************************)
ResultOf(id) == [score |-> rows[id].rank, rank |-> rows[id].rank, id |-> id]
Matching(c) == {ResultOf(id) : id \in {h \in Hits : Beyond(h, c)}}

PagingInv ==
  /\ PagingTypeOK
  /\ IsFiniteSet(found)
  /\ how = "cursor" => offset = 0
  /\ how # "cursor" => cursor = NoCursor

LEMMA HitsAre ==
  ASSUME rows \in [RowId -> Chunk \cup {NoChunk}], NEW id \in Hits
  PROVE  /\ id \in RowId /\ rows[id] \in Chunk /\ Present(id) /\ rows[id].rank \in Rank
         /\ rows[id].rank \in Int /\ ResultOf(id) \in Result
         /\ ResultOf(id).id = id /\ ResultOf(id).score = rows[id].rank
         /\ ResultOf(id).rank = rows[id].rank
<1>1. id \in RowId /\ rows[id] # NoChunk /\ rows[id] \in Chunk
  BY DEF Hits, Counted, Present
<1>2. rows[id].rank \in Rank
  BY <1>1, PagingAssumption
<1>3. rows[id].rank \in Int
  BY <1>2, NumbersAre
<1>4. /\ ResultOf(id) \in Result
      /\ ResultOf(id).id = id /\ ResultOf(id).score = rows[id].rank
      /\ ResultOf(id).rank = rows[id].rank
  BY <1>1, <1>2, <1>3 DEF ResultOf, Result
<1> QED
  BY <1>1, <1>2, <1>3, <1>4 DEF Present

(* Rows give as many results as there are. *)
LEMMA RowsMatch ==
  ASSUME rows \in [RowId -> Chunk \cup {NoChunk}], NEW T \in SUBSET Hits
  PROVE  LET M == {ResultOf(id) : id \in T}
         IN  /\ M \in SUBSET Result /\ IsFiniteSet(M)
             /\ IsFiniteSet(T) /\ Cardinality(M) = Cardinality(T)
<1> DEFINE M == {ResultOf(id) : id \in T}
           f == [id \in T |-> ResultOf(id)]
<1>1. M \in SUBSET Result /\ \A id \in T : ResultOf(id).id = id
  BY HitsAre
<1>2. T \in SUBSET RowId
  BY DEF Hits, Counted
<1>3. IsFiniteSet(T)
  BY <1>2, NumbersAre, FS_Subset
<1>4. \A a, b \in T : ResultOf(a) = ResultOf(b) => a = b
  BY <1>1
<1>5. f \in Surjection(T, M)
  BY DEF Surjection
<1>6. f \in Injection(T, M)
  BY <1>4 DEF Injection, IsInjective
<1> HIDE DEF f, M
<1>7. IsFiniteSet(M) /\ Cardinality(M) = Cardinality(T)
  BY <1>3, <1>5, <1>6, FS_Surjection
<1> QED
  BY <1>1, <1>3, <1>7 DEF M

LEMMA MatchesAre ==
  ASSUME rows \in [RowId -> Chunk \cup {NoChunk}], NEW c
  PROVE  Matching(c) \in SUBSET Result /\ IsFiniteSet(Matching(c))
<1>1. {h \in Hits : Beyond(h, c)} \in SUBSET Hits
  OBVIOUS
<1> QED
  BY <1>1, RowsMatch DEF Matching

LEMMA QueryFinds ==
  ASSUME PagingTypeOK, QueryIndex
  PROVE  /\ Wanted + 1 \in Nat /\ Matching(cursor) \in SUBSET Result
         /\ IsFiniteSet(Matching(cursor))
         /\ found' = First(Wanted + 1, Matching(cursor))
         /\ found' \in SUBSET Matching(cursor) /\ IsFiniteSet(found')
<1>1. Matching(cursor) \in SUBSET Result /\ IsFiniteSet(Matching(cursor))
  BY MatchesAre DEF PagingTypeOK
<1>2. Wanted + 1 \in Nat
  BY PagingAssumption DEF Wanted, PagingTypeOK
<1>3. found' = First(Wanted + 1, Matching(cursor))
  BY DEF QueryIndex, Matching, ResultOf
<1>4. found' \in SUBSET Matching(cursor) /\ IsFiniteSet(found')
  BY <1>1, <1>2, <1>3, FirstBegins
<1> QED
  BY <1>1, <1>2, <1>3, <1>4

(* What is fetched of what was found: as it was, or boosted. *)
LEMMA FetchedAre ==
  ASSUME PagingInv
  PROVE  /\ Fetched \in SUBSET Result /\ IsFiniteSet(Fetched)
         /\ \A r \in Fetched : \E f \in found :
              /\ f.id = r.id /\ f.rank = r.rank
              /\ f.score = r.score \/ boosting
<1> DEFINE S == {f \in found : Present(f.id) /\ (boosting => rows[f.id].keep)}
           g == [f \in S |-> [score |-> f.score - (IF boosting THEN rows[f.id].boost ELSE 0),
                              rank |-> f.rank, id |-> f.id]]
<1>1. S \in SUBSET found /\ found \in SUBSET Result /\ IsFiniteSet(S)
  BY FS_Subset DEF PagingInv, PagingTypeOK
<1>2. ASSUME NEW f \in S
      PROVE  /\ g[f] \in Result /\ g[f].id = f.id /\ g[f].rank = f.rank
             /\ ~ boosting => g[f].score = f.score
  <2>1. f.score \in Int /\ f.rank \in Rank /\ f.id \in RowId
    BY <1>1 DEF Result
  <2>2. rows[f.id] \in Chunk
    BY <2>1 DEF PagingInv, PagingTypeOK, Present
  <2>3. rows[f.id].boost \in Nat
    BY <2>2, PagingAssumption
  <2>4. PICK n : n = f.score - (IF boosting THEN rows[f.id].boost ELSE 0)
    OBVIOUS
  <2>5. n \in Int /\ (~ boosting => n = f.score)
    BY <2>1, <2>3, <2>4
  <2>6. g[f] = [score |-> n, rank |-> f.rank, id |-> f.id]
    BY <2>4
  <2> QED
    BY <2>1, <2>5, <2>6 DEF Result
<1>3. Fetched = {g[f] : f \in S}
  BY DEF Fetched
<1>4. g \in [S -> Fetched]
  BY <1>3
<1>5. g \in Surjection(S, Fetched)
  BY <1>3, <1>4 DEF Surjection
<1> HIDE DEF g
<1>6. IsFiniteSet(Fetched)
  BY <1>1, <1>5, FS_Surjection
<1> QED
  BY <1>1, <1>2, <1>3, <1>6

(* A page, of all that is fetched. *)
LEMMA PageIs ==
  ASSUME PagingInv
  PROVE  /\ Truncation \in Nat \ {0}
         /\ Page.results = First(Truncation, Fetched)
         /\ Page.results \in SUBSET Fetched /\ IsFiniteSet(Page.results)
         /\ \/ Page.next = NoCursor /\ Cardinality(Fetched) <= Truncation
               /\ Page.results = Fetched
            \/ \E r \in Page.results :
                 /\ Cardinality(Fetched) > Truncation
                 /\ Page.next = [score |-> r.score, id |-> r.id]
                 /\ \A s \in Page.results : s = r \/ Before(s, r)
<1> DEFINE P == First(Truncation, Fetched)
<1>1. Truncation \in Nat \ {0}
  BY PagingAssumption DEF Truncation, Wanted, PagingInv, PagingTypeOK
<1>2. /\ Fetched \in SUBSET Result /\ IsFiniteSet(Fetched)
  BY FetchedAre
<1>3. P \in SUBSET Fetched /\ IsFiniteSet(P)
  BY <1>1, <1>2, FirstBegins
<1>4. Page.results = P
  BY DEF Page
<1>5. Cardinality(Fetched) \in Nat
  BY <1>2, FS_CardinalityType
<1>6. CASE Cardinality(Fetched) <= Truncation
  <2>1. P = Fetched
    BY <1>1, <1>2, <1>6, FirstOfAll
  <2>2. ~ (Cardinality(Fetched) > Truncation)
    BY <1>1, <1>5, <1>6
  <2>3. Page.next = NoCursor
    BY <2>2 DEF Page
  <2> QED
    BY <1>1, <1>3, <1>4, <1>6, <2>1, <2>3
<1>7. CASE Cardinality(Fetched) > Truncation
  <2>1. Cardinality(P) = Truncation
    BY <1>1, <1>2, <1>7, FirstCounts
  <2>2. P # {}
    BY <1>1, <2>1, FS_EmptySet
  <2>3. LastOf(P) \in P /\ \A s \in P : s = LastOf(P) \/ Before(s, LastOf(P))
    BY <1>2, <1>3, <2>2, LastIs
  <2>4. Page.next = [score |-> LastOf(P).score, id |-> LastOf(P).id]
    BY <1>7 DEF Page
  <2> HIDE DEF P
  <2> QED
    BY <1>1, <1>3, <1>4, <1>7, <2>3, <2>4 DEF P
<1> QED
  BY <1>1, <1>5, <1>6, <1>7

(* What Respond shows. *)
Shows == IF cursor # NoCursor
         THEN Page.results
         ELSE First(offset + Limit, Page.results) \ First(offset, Page.results)

LEMMA ShowsAPage ==
  ASSUME PagingInv
  PROVE  /\ Shows \in SUBSET Page.results /\ Shows \in SUBSET Result
         /\ IsFiniteSet(Shows) /\ Cardinality(Shows) <= Limit
<1> DEFINE P == Page.results
<1>1. /\ P \in SUBSET Result /\ IsFiniteSet(P)
      /\ P = First(Truncation, Fetched) /\ Truncation \in Nat
      /\ Fetched \in SUBSET Result /\ IsFiniteSet(Fetched)
  BY PageIs, FetchedAre
<1>2. offset \in Nat /\ Limit \in Nat /\ offset + Limit \in Nat
  BY PagingAssumption DEF PagingInv, PagingTypeOK
<1> HIDE DEF P
<1>3. CASE cursor # NoCursor
  <2>1. Shows = P
    BY <1>3 DEF Shows, P
  <2>2. offset = 0
    BY <1>3 DEF PagingInv, PagingTypeOK
  <2>3. Truncation = Limit
    BY <1>2, <2>2 DEF Truncation, Wanted
  <2>4. Cardinality(P) <= Limit
    BY <1>1, <2>3, FirstCounts
  <2> QED
    BY <1>1, <2>1, <2>4 DEF P
<1>4. CASE cursor = NoCursor
  <2> DEFINE W == First(offset + Limit, P)
             B == First(offset, P)
  <2>1. Shows = W \ B
    BY <1>4 DEF Shows, P
  <2>2. W \in SUBSET P /\ B \in SUBSET P /\ IsFiniteSet(W) /\ IsFiniteSet(B)
    BY <1>1, <1>2, FirstBegins
  <2>3. /\ Cardinality(W) \in Nat /\ Cardinality(W) <= offset + Limit
        /\ Cardinality(B) \in Nat /\ Cardinality(B) <= offset
        /\ Cardinality(B) < offset => B = P
    BY <1>1, <1>2, FirstCounts
  <2>4. B \in SUBSET W
    <3>1. B = First(offset, W)
      BY <1>1, <1>2, FirstOfFirst
    <3> QED
      BY <1>2, <2>2, <1>1, <3>1, FirstBegins
  <2> HIDE DEF W, B
  <2>5. IsFiniteSet(W \ B)
    <3>1. W \ B \in SUBSET W
      OBVIOUS
    <3> QED
      BY <2>2, <3>1, FS_Subset
  <2>6. Cardinality(W \ B) \in Nat
    BY <2>5, FS_CardinalityType
  <2>7. Cardinality(W) = Cardinality(W \ B) + Cardinality(B)
    <3>1. (W \ B) \cup B = W /\ (W \ B) \cap B = {}
      BY <2>4
    <3>2. Cardinality((W \ B) \cup B) =
            Cardinality(W \ B) + Cardinality(B) - Cardinality((W \ B) \cap B)
      BY <2>2, <2>5, FS_Union
    <3>3. Cardinality((W \ B) \cap B) = 0
      BY <3>1, FS_EmptySet
    <3>4. Cardinality(W) = Cardinality(W \ B) + Cardinality(B) - 0
      BY <3>1, <3>2, <3>3, Zenon
    <3>5. PICK a, b, c : a = Cardinality(W) /\ b = Cardinality(W \ B) /\ c = Cardinality(B)
      OBVIOUS
    <3>6. a = b + c
      BY <2>3, <2>6, <3>4, <3>5
    <3> QED
      BY <3>5, <3>6
  <2>8. Cardinality(W \ B) <= Limit
    <3>1. CASE B = P
      <4>1. W \ B = {}
        BY <2>2, <3>1
      <4>2. Cardinality(W \ B) = 0
        BY <4>1, FS_EmptySet
      <4> QED
        BY <1>2, <4>2
    <3>2. CASE B # P
      <4>1. Cardinality(B) = offset
        BY <1>2, <2>3, <3>2
      <4> QED
        BY <1>2, <2>3, <2>6, <2>7, <4>1
    <3> QED
      BY <3>1, <3>2
  <2>9. W \ B \in SUBSET P
    BY <2>2
  <2> QED
    BY <1>1, <2>1, <2>5, <2>8, <2>9 DEF P
<1> QED
  BY <1>3, <1>4

-----------------------------------------------------------------------------
(***************************************************************************)
(* The cursor advances.  Where no score is boosted the cursor is a place   *)
(* in the order of results: what was shown comes up to it, what is found   *)
(* comes after it.                                                         *)
(***************************************************************************)
UpTo(r, c) == r.score < c.score \/ (r.score = c.score /\ r.id <= c.id)
Past(r, c) == r.score > c.score \/ (r.score = c.score /\ r.id > c.id)

Ascends ==
  \A i, j \in 1 .. Len(shown) : i < j =>
    \A a \in shown[i], b \in shown[j] : Before(a, b)
ShownUpTo(c) == \A i \in 1 .. Len(shown) : \A a \in shown[i] : UpTo(a, c)

AdvanceInv ==
  /\ PagingInv
  /\ how = "cursor" /\ stage = "fetch" =>
       \A r \in found : r.score = r.rank /\ (cursor # NoCursor => Past(r, cursor))
  /\ (how = "cursor" /\ NothingBoosted) =>
       /\ Ascends
       /\ stage \in {"query", "fetch"} =>
            IF cursor = NoCursor THEN shown = <<>> ELSE ShownUpTo(cursor)
       /\ stage = "turn" /\ next # NoCursor => ShownUpTo(next)

LEMMA InitAdvanceInv == PagingInit => AdvanceInv
<1> SUFFICES ASSUME PagingInit PROVE AdvanceInv
  OBVIOUS
<1>1. shown \in Seq(SUBSET Result) /\ Len(shown) = 0 /\ shown = <<>>
  BY EmptySeq DEF PagingInit
<1>2. PagingTypeOK
  BY <1>1, PagingAssumption DEF PagingInit, PagingTypeOK
<1>3. IsFiniteSet(found)
  BY FS_EmptySet DEF PagingInit
<1>4. PagingInv
  BY <1>2, <1>3 DEF PagingInit, PagingInv
<1>5. Ascends
  BY <1>1 DEF Ascends
<1> QED
  BY <1>1, <1>4, <1>5 DEF PagingInit, AdvanceInv

(* Past a page the pages ascend and end at the next cursor. *)
LEMMA ShownThen ==
  ASSUME PagingInv, NEW page \in SUBSET Result, shown' = Append(shown, page)
  PROVE  /\ shown' \in Seq(SUBSET Result) /\ Len(shown) \in Nat
         /\ Len(shown') = Len(shown) + 1
         /\ \A i \in 1 .. Len(shown) : shown'[i] = shown[i]
         /\ shown'[Len(shown) + 1] = page
         /\ \A i \in 1 .. Len(shown) + 1 : i \in 1 .. Len(shown) \/ i = Len(shown) + 1
<1>1. shown \in Seq(SUBSET Result)
  BY DEF PagingInv, PagingTypeOK
<1>2. Len(shown) \in Nat
  BY <1>1, LenProperties
<1> QED
  BY <1>1, <1>2, AppendProperties

LEMMA RespondTypes ==
  ASSUME PagingInv, Respond
  PROVE  /\ PagingInv' /\ Shows \in SUBSET Result /\ shown' = Append(shown, Shows)
<1>1. Shows \in SUBSET Result /\ Cardinality(Shows) <= Limit
  BY ShowsAPage
<1>2. shown' = Append(shown, Shows)
  BY DEF Respond, Shows
<1>3. \A i \in 1 .. Len(shown') : Cardinality(shown'[i]) <= Limit
  BY <1>1, <1>2, ShownThen DEF PagingInv, PagingTypeOK
<1>4. shown' \in Seq(SUBSET Result)
  BY <1>1, <1>2, ShownThen
<1>5. next' \in Cursor \cup {NoCursor}
  <2>1. CASE Page.next = NoCursor
    BY <2>1 DEF Respond
  <2>2. CASE \E r \in Page.results : Page.next = [score |-> r.score, id |-> r.id]
    <3>1. PICK r \in Page.results : Page.next = [score |-> r.score, id |-> r.id]
      BY <2>2
    <3>2. r \in Result
      BY PageIs, FetchedAre
    <3>3. [score |-> r.score, id |-> r.id] \in Cursor
      BY <3>2 DEF Result, Cursor
    <3> QED
      BY <3>1, <3>3 DEF Respond
  <2> QED
    BY <2>1, <2>2, PageIs
<1>6. UNCHANGED <<rows, changes, how, boosting, cursor, offset, found>> /\ stage' = "turn"
  BY DEF Respond
<1>7. PagingTypeOK'
  BY <1>3, <1>4, <1>5, <1>6 DEF PagingInv, PagingTypeOK
<1>8. PagingInv'
  BY <1>6, <1>7 DEF PagingInv
<1> QED
  BY <1>1, <1>2, <1>8

LEMMA QueryTypes ==
  ASSUME PagingInv, QueryIndex
  PROVE  PagingInv'
<1>1. found' \subseteq Result /\ IsFiniteSet(found')
  BY QueryFinds DEF PagingInv
<1>2. UNCHANGED <<rows, changes, how, boosting, cursor, offset, next, shown>> /\ stage' = "fetch"
  BY DEF QueryIndex
<1>3. PagingTypeOK'
  BY <1>1, <1>2 DEF PagingInv, PagingTypeOK
<1> QED
  BY <1>1, <1>2, <1>3 DEF PagingInv

LEMMA TurnTypes ==
  ASSUME PagingInv, TurnPage
  PROVE  PagingInv'
<1>1. UNCHANGED <<rows, changes, how, boosting, found, next, shown>>
  BY DEF TurnPage
<1>2. CASE how = "cursor"
  <2>1. stage' \in {"query", "done"} /\ cursor' = next /\ offset' = offset
    BY <1>2 DEF TurnPage
  <2>2. PagingTypeOK'
    BY <1>1, <2>1 DEF PagingInv, PagingTypeOK
  <2> QED
    BY <1>1, <1>2, <2>1, <2>2 DEF PagingInv
<1>3. CASE how # "cursor"
  <2>1. /\ stage' \in {"query", "done"} /\ offset' = offset + Limit /\ cursor' = cursor
    BY <1>3 DEF TurnPage
  <2>2. offset' \in Nat
    BY <2>1, PagingAssumption DEF PagingInv, PagingTypeOK
  <2>3. PagingTypeOK'
    BY <1>1, <2>1, <2>2 DEF PagingInv, PagingTypeOK
  <2> QED
    BY <1>1, <1>3, <2>1, <2>3 DEF PagingInv
<1> QED
  BY <1>2, <1>3

LEMMA ChangeTypes ==
  ASSUME PagingInv, Change
  PROVE  PagingInv' /\ changes' # 0
<1>1. PICK id \in RowId, c \in Chunk \cup {NoChunk} : rows' = [rows EXCEPT ![id] = c]
  BY DEF Change
<1>2. rows' \in [RowId -> Chunk \cup {NoChunk}]
  BY <1>1 DEF PagingInv, PagingTypeOK
<1>3. changes' \in 0 .. MaxChanges /\ changes' # 0
  BY PagingAssumption DEF Change, PagingInv, PagingTypeOK
<1>4. UNCHANGED <<how, boosting, cursor, offset, stage, found, next, shown>>
  BY DEF Change
<1>5. PagingTypeOK'
  BY <1>2, <1>3, <1>4 DEF PagingInv, PagingTypeOK
<1> QED
  BY <1>3, <1>4, <1>5 DEF PagingInv

LEMMA PagingInvStays == PagingInv /\ [PagingNext]_pagingVars => PagingInv'
<1> SUFFICES ASSUME PagingInv, [PagingNext]_pagingVars PROVE PagingInv'
  OBVIOUS
<1>1. CASE UNCHANGED pagingVars
  BY <1>1 DEF pagingVars, PagingInv, PagingTypeOK
<1> QED
  BY <1>1, QueryTypes, RespondTypes, TurnTypes, ChangeTypes DEF PagingNext

LEMMA RespondAdvances ==
  ASSUME AdvanceInv, Respond
  PROVE  AdvanceInv'
<1>1. /\ PagingInv /\ PagingInv' /\ Shows \in SUBSET Result
      /\ shown' = Append(shown, Shows)
  BY RespondTypes DEF AdvanceInv
<1>2. /\ UNCHANGED <<how, cursor>> /\ stage = "fetch" /\ stage' = "turn"
      /\ next' = Page.next
  BY DEF Respond
<1>3. /\ Len(shown) \in Nat /\ Len(shown') = Len(shown) + 1
      /\ \A i \in 1 .. Len(shown) : shown'[i] = shown[i]
      /\ shown'[Len(shown) + 1] = Shows
      /\ \A i \in 1 .. Len(shown) + 1 : i \in 1 .. Len(shown) \/ i = Len(shown) + 1
  BY <1>1, ShownThen
<1>4. ASSUME how = "cursor", NothingBoosted'
      PROVE  Ascends' /\ (next' # NoCursor => ShownUpTo(next)')
  <2>1. NothingBoosted /\ \A r \in Shows : r.score = r.rank
    BY <1>3, <1>4 DEF NothingBoosted
  <2>2. /\ Ascends
        /\ IF cursor = NoCursor THEN shown = <<>> ELSE ShownUpTo(cursor)
    BY <1>2, <1>4, <2>1 DEF AdvanceInv
  <2>3. Shows \in SUBSET Page.results /\ Page.results \in SUBSET Fetched
    BY <1>1, ShowsAPage, PageIs
  <2>4. ASSUME NEW b \in Shows, cursor # NoCursor
        PROVE  Past(b, cursor)
    <3>1. PICK f \in found : f.id = b.id /\ f.rank = b.rank
      BY <1>1, <2>3, FetchedAre
    <3>2. f.score = f.rank /\ Past(f, cursor)
      BY <1>2, <1>4, <2>4, <3>1 DEF AdvanceInv
    <3>3. b.score = f.score /\ b.id = f.id
      BY <2>1, <3>1, <3>2
    <3> QED
      BY <3>2, <3>3 DEF Past
  <2>5. cursor # NoCursor => cursor \in Cursor /\ cursor.score \in Int /\ cursor.id \in Int
    <3>1. cursor # NoCursor => cursor \in Cursor
      BY <1>1 DEF PagingInv, PagingTypeOK
    <3>2. \A c \in Cursor : c.score \in Int /\ c.id \in RowId
      BY DEF Cursor
    <3>3. \A id \in RowId : id \in Int
      BY NumbersAre
    <3> QED
      BY <3>1, <3>2, <3>3
  <2>6. ASSUME NEW i \in 1 .. Len(shown), NEW a \in shown[i], NEW b \in Shows
        PROVE  Before(a, b)
    <3>1. cursor # NoCursor /\ UpTo(a, cursor) /\ Past(b, cursor)
      BY <1>3, <2>2, <2>4 DEF ShownUpTo
    <3>2. a \in Result /\ b \in Result
      BY <1>1, ElementOfSeq DEF PagingInv, PagingTypeOK
    <3>3. /\ a.score \in Int /\ a.rank \in Int /\ a.id \in Nat
          /\ b.score \in Int /\ b.rank \in Int /\ b.id \in Nat
      BY <3>2, ResultNumbers
    <3>4. a.score = a.rank /\ b.score = b.rank
      BY <2>1 DEF NothingBoosted
    <3> QED
      BY <2>5, <3>1, <3>3, <3>4 DEF UpTo, Past, Before
  <2>7. Ascends'
    <3> SUFFICES ASSUME NEW i \in 1 .. Len(shown'), NEW j \in 1 .. Len(shown'), i < j,
                        NEW a \in shown'[i], NEW b \in shown'[j]
                 PROVE  Before(a, b)
      BY DEF Ascends
    <3>1. i \in 1 .. Len(shown) /\ a \in shown[i]
      BY <1>3
    <3>2. CASE j \in 1 .. Len(shown)
      BY <1>3, <2>2, <3>1, <3>2 DEF Ascends
    <3>3. CASE j = Len(shown) + 1
      BY <1>3, <2>6, <3>1, <3>3
    <3> QED
      BY <1>3, <3>2, <3>3
  <2>8. ASSUME Page.next # NoCursor
        PROVE  ShownUpTo(next)'
    <3>1. PICK last \in Page.results :
            /\ Page.next = [score |-> last.score, id |-> last.id]
            /\ \A s \in Page.results : s = last \/ Before(s, last)
            /\ Cardinality(Fetched) > Truncation
      BY <1>1, <2>8, PageIs
    <3>2. Shows = Page.results
      <4>1. CASE cursor # NoCursor
        BY <4>1 DEF Shows
      <4>2. CASE cursor = NoCursor
        <5>1. offset = 0 /\ Truncation = Limit /\ Limit \in Nat
          BY <1>1, <1>4, PagingAssumption DEF PagingInv, Truncation, Wanted
        <5>2. /\ Page.results = First(Limit, Fetched) /\ Fetched \in SUBSET Result
              /\ IsFiniteSet(Fetched)
          BY <1>1, <5>1, PageIs, FetchedAre
        <5>3. First(Limit, Page.results) = Page.results
          BY <5>1, <5>2, FirstOfFirst
        <5>4. First(0, Page.results) = {}
          <6>1. Page.results \in SUBSET Result /\ IsFiniteSet(Page.results)
            BY <1>1, <5>2, PageIs
          <6>2. \A r \in Page.results : Cardinality(Ahead(Page.results, r)) \in Nat
            BY <6>1, PlaceInOrder
          <6>3. First(0, Page.results) =
                  {r \in Page.results : Cardinality(Ahead(Page.results, r)) < 0}
            BY FirstIs
          <6> QED
            BY <6>2, <6>3
        <5> QED
          BY <4>2, <5>1, <5>3, <5>4 DEF Shows
      <4> QED
        BY <4>1, <4>2
    <3>3. last \in Result /\ last.score \in Int /\ last.rank \in Int /\ last.id \in Nat
          /\ last.score = last.rank
      BY <1>1, <2>1, <3>2, ResultNumbers
    <3>4. /\ next'.score = last.score /\ next'.id = last.id
      BY <1>2, <3>1
    <3>5. ASSUME NEW i \in 1 .. Len(shown'), NEW a \in shown'[i]
          PROVE  UpTo(a, next')
      <4>1. a = last \/ Before(a, last)
        <5>1. CASE i \in 1 .. Len(shown)
          BY <1>3, <2>6, <3>2, <3>5, <5>1
        <5>2. CASE i = Len(shown) + 1
          BY <1>3, <3>1, <3>2, <3>5, <5>2
        <5> QED
          BY <1>3, <5>1, <5>2
      <4>2. a \in Result
        BY <1>1, <3>5, ElementOfSeq DEF PagingInv, PagingTypeOK
      <4>3. a.score \in Int /\ a.rank \in Int /\ a.id \in Nat /\ a.score = a.rank
        BY <1>4, <3>5, <4>2, ResultNumbers DEF NothingBoosted
      <4> QED
        BY <3>3, <3>4, <4>1, <4>3 DEF UpTo, Before
    <3> QED
      BY <3>5 DEF ShownUpTo
  <2> QED
    BY <1>2, <2>7, <2>8
<1> QED
  BY <1>1, <1>2, <1>4 DEF AdvanceInv

LEMMA NextAdvanceInv == AdvanceInv /\ [PagingNext]_pagingVars => AdvanceInv'
<1> SUFFICES ASSUME AdvanceInv, [PagingNext]_pagingVars PROVE AdvanceInv'
  OBVIOUS
<1>0. PagingInv /\ PagingInv'
  BY PagingInvStays DEF AdvanceInv
<1>1. CASE QueryIndex
  <2>1. UNCHANGED <<how, cursor, shown>> /\ stage = "query" /\ stage' = "fetch"
    BY <1>1 DEF QueryIndex
  <2>2. found' \in SUBSET Matching(cursor)
    BY <1>0, <1>1, QueryFinds DEF PagingInv
  <2>3. ASSUME NEW r \in found'
        PROVE  r.score = r.rank /\ (cursor # NoCursor => Past(r, cursor))
    <3>1. PICK id \in Hits : Beyond(id, cursor) /\ r = ResultOf(id)
      BY <2>2, <2>3 DEF Matching
    <3>2. r.id = id /\ r.score = rows[id].rank /\ r.rank = rows[id].rank
      BY <1>0, <3>1, HitsAre DEF PagingInv, PagingTypeOK
    <3> QED
      BY <3>1, <3>2 DEF Beyond, Past
  <2> QED
    BY <1>0, <2>1, <2>3 DEF AdvanceInv, NothingBoosted, Ascends, ShownUpTo
<1>2. CASE Respond
  BY <1>2, RespondAdvances
<1>3. CASE TurnPage
  <2>1. /\ UNCHANGED <<how, next, shown>> /\ stage = "turn" /\ stage' # "turn" /\ stage' # "fetch"
        /\ how = "cursor" => /\ cursor' = next
                             /\ stage' = IF next = NoCursor THEN "done" ELSE "query"
    BY <1>3 DEF TurnPage, More
  <2> QED
    BY <1>0, <2>1 DEF AdvanceInv, NothingBoosted, Ascends, ShownUpTo
<1>4. CASE Change \/ UNCHANGED pagingVars
  <2>1. UNCHANGED <<how, boosting, cursor, offset, stage, found, next, shown>>
    BY <1>4 DEF Change, pagingVars
  <2> QED
    BY <1>0, <2>1 DEF AdvanceInv, NothingBoosted, Ascends, ShownUpTo, UpTo, Past
<1> QED
  BY <1>1, <1>2, <1>3, <1>4 DEF PagingNext

(* "Cursor uses composite keyset pagination with (rank, rowid) tiebreaker  *)
(* for deterministic order" (ref/core.md): where no score is boosted every *)
(* page starts behind the one before it, whatever is written to the index  *)
(* between the queries.                                                    *)
THEOREM CursorsAdvance == PagingSpec => []CursorAdvances
<1>1. PagingInit => AdvanceInv
  BY InitAdvanceInv
<1>2. AdvanceInv /\ [PagingNext]_pagingVars => AdvanceInv'
  BY NextAdvanceInv
<1>3. AdvanceInv => CursorAdvances
  BY DEF AdvanceInv, PagingInv, CursorAdvances, Ascends
<1> QED
  BY <1>1, <1>2, <1>3, PTL DEF PagingSpec

-----------------------------------------------------------------------------
(***************************************************************************)
(* The pages hold every hit.  What is still to show is what comes after    *)
(* the cursor, or after the first offset results; a page is the beginning  *)
(* of that, and what is left is what the next request starts from.         *)
(***************************************************************************)
All == {ResultOf(id) : id \in Hits}
Collected == UNION {shown[i] : i \in 1 .. Len(shown)}

ToShow == IF how = "cursor" THEN Matching(cursor) ELSE All \ First(offset, All)
ToShowAfter(n) ==
  IF how = "cursor"
  THEN IF n = NoCursor THEN {} ELSE Matching(n)
  ELSE All \ First(offset + Limit, All)

(* By offset, only the last page has fewer results than the limit. *)
LastIsShort ==
  how # "cursor" /\ Cardinality(All) > offset + Limit =>
    Cardinality(shown[Len(shown)]) = Limit

Distinct ==
  \A i, j \in 1 .. Len(shown) : i # j => shown[i] \cap shown[j] = {}

PlainInv ==
  /\ Distinct
  /\ stage \in {"query", "fetch"} => Collected = All \ ToShow
  /\ stage = "fetch" => found = First(Wanted + 1, Matching(cursor))
  /\ stage = "turn" => Collected = All \ ToShowAfter(next)
  /\ stage = "turn" => LastIsShort
  /\ stage = "done" => Collected = All

(* The total that a client goes by is not below the number of hits. *)
Reaches == how = "total" => Total >= Cardinality(Hits)

PagesInv == PagingInv /\ (changes = 0 /\ PlainPaging /\ Reaches => PlainInv)

LEMMA TotalIs == Total \in Nat
<1>1. Counted \in SUBSET RowId
  BY DEF Counted
<1>2. IsFiniteSet(Counted)
  BY <1>1, NumbersAre, FS_Subset
<1> QED
  BY <1>2, FS_CardinalityType DEF Total

LEMMA AllIs ==
  ASSUME PagingInv
  PROVE  /\ All \in SUBSET Result /\ IsFiniteSet(All)
         /\ Cardinality(All) = Cardinality(Hits)
         /\ Cardinality(Hits) \in Nat
         /\ Matching(NoCursor) = All
         /\ \A r \in All : r.score = r.rank /\ r.id \in Hits
         /\ \A id \in Hits : \E r \in All : r.id = id
<1>1. rows \in [RowId -> Chunk \cup {NoChunk}]
  BY DEF PagingInv, PagingTypeOK
<1>2. Hits \in SUBSET Hits
  OBVIOUS
<1>3. All \in SUBSET Result /\ IsFiniteSet(All) /\ Cardinality(All) = Cardinality(Hits)
  BY <1>1, <1>2, RowsMatch DEF All
<1>4. Cardinality(Hits) \in Nat
  BY <1>3, FS_CardinalityType
<1>5. {h \in Hits : Beyond(h, NoCursor)} = Hits
  BY DEF Beyond
<1>6. Matching(NoCursor) = All
  BY <1>5 DEF Matching, All
<1>7. \A r \in All : r.score = r.rank /\ r.id \in Hits
  BY <1>1, HitsAre DEF All
<1>8. \A id \in Hits : \E r \in All : r.id = id
  BY <1>1, HitsAre DEF All
<1> QED
  BY <1>3, <1>4, <1>6, <1>7, <1>8

LEMMA MatchesAfter ==
  ASSUME PagingInv, NEW c \in Cursor
  PROVE  Matching(c) = {r \in All : Past(r, c)}
<1>1. c # NoCursor
  BY PagingAssumption
<1>2. \A id \in Hits : /\ ResultOf(id).id = id /\ ResultOf(id).score = rows[id].rank
  BY HitsAre DEF PagingInv, PagingTypeOK
<1>3. \A id \in Hits : Beyond(id, c) <=> Past(ResultOf(id), c)
  BY <1>1, <1>2 DEF Beyond, Past
<1> QED
  BY <1>3 DEF Matching, All

LEMMA FirstOfNone ==
  ASSUME NEW S \in SUBSET Result, IsFiniteSet(S)
  PROVE  First(0, S) = {}
<1>1. \A r \in S : Cardinality(Ahead(S, r)) \in Nat
  BY PlaceInOrder
<1>2. First(0, S) = {r \in S : Cardinality(Ahead(S, r)) < 0}
  BY FirstIs
<1> QED
  BY <1>1, <1>2

(* Of plain hits everything that is found is fetched as it was. *)
LEMMA PlainFetched ==
  ASSUME PagingInv, PlainPaging, found \in SUBSET All
  PROVE  Fetched = found
<1>1. ASSUME NEW f \in found
      PROVE  /\ Present(f.id) /\ (boosting => rows[f.id].keep)
             /\ [score |-> f.score - (IF boosting THEN rows[f.id].boost ELSE 0),
                 rank |-> f.rank, id |-> f.id] = f
  <2>1. f.id \in Hits
    BY AllIs
  <2>2. Present(f.id) /\ (boosting => rows[f.id].keep /\ rows[f.id].boost = 0)
    BY <2>1 DEF Hits, Counted, Present, PlainPaging
  <2>3. f \in Result /\ f.score \in Int
    BY ResultNumbers DEF PagingInv, PagingTypeOK
  <2>4. PICK n : n = f.score - (IF boosting THEN rows[f.id].boost ELSE 0)
    OBVIOUS
  <2>5. n = f.score
    BY <2>2, <2>3, <2>4
  <2>6. [score |-> f.score, rank |-> f.rank, id |-> f.id] = f
    BY <2>3 DEF Result
  <2> QED
    BY <2>2, <2>4, <2>5, <2>6
<1> DEFINE g(f) == [score |-> f.score - (IF boosting THEN rows[f.id].boost ELSE 0),
                    rank |-> f.rank, id |-> f.id]
           S == {f \in found : Present(f.id) /\ (boosting => rows[f.id].keep)}
<1>2. S = found
  BY <1>1
<1>3. \A f \in found : g(f) = f
  BY <1>1
<1>4. Fetched = {g(f) : f \in S}
  BY DEF Fetched
<1> HIDE DEF g, S
<1> QED
  BY <1>2, <1>3, <1>4

(* A page by cursor: the first of what comes after the cursor. *)
LEMMA CursorShows ==
  ASSUME PagingInv, PlainPaging, how = "cursor",
         found = First(Wanted + 1, Matching(cursor))
  PROVE  /\ Shows \in SUBSET Matching(cursor)
         /\ ToShowAfter(Page.next) = Matching(cursor) \ Shows
<1> DEFINE M == Matching(cursor)
<1>1. /\ M \in SUBSET Result /\ IsFiniteSet(M) /\ M \in SUBSET All
      /\ cursor # NoCursor => M = {r \in All : Past(r, cursor)}
      /\ cursor = NoCursor => M = All
  <2>1. M \in SUBSET Result /\ IsFiniteSet(M)
    BY MatchesAre DEF PagingInv, PagingTypeOK
  <2>2. cursor = NoCursor => M = All
    BY AllIs
  <2>3. cursor # NoCursor => M = {r \in All : Past(r, cursor)}
    BY MatchesAfter DEF PagingInv, PagingTypeOK
  <2>4. M \in SUBSET All
    <3>1. cursor # NoCursor => M \in SUBSET All
      BY <2>3
    <3> QED
      BY <2>2, <3>1
  <2> QED
    BY <2>1, <2>2, <2>3, <2>4
<1>2. /\ offset = 0 /\ Truncation = Limit /\ Wanted = Limit /\ Limit \in Nat
      /\ Limit + 1 \in Nat /\ Limit <= Limit + 1 /\ 0 \in Nat
  BY PagingAssumption DEF PagingInv, Truncation, Wanted
<1>3. found = First(Limit + 1, M)
  BY <1>2
<1> HIDE DEF M
<1>4. found \in SUBSET M /\ IsFiniteSet(found)
  BY <1>1, <1>2, <1>3, FirstBegins
<1>5. Fetched = found
  BY <1>1, <1>4, PlainFetched
<1>6. /\ Page.results = First(Limit, M)
      /\ IsFiniteSet(Page.results) /\ Page.results \in SUBSET M
      /\ \A r \in Page.results, q \in M \ Page.results : Before(r, q)
  <2>1. Page.results = First(Limit, First(Limit + 1, M))
    BY <1>2, <1>3, <1>5, PageIs
  <2>2. Page.results = First(Limit, M)
    BY <1>1, <1>2, <2>1, FirstOfFirst
  <2> QED
    BY <1>1, <1>2, <2>2, FirstBegins
<1>7. Shows = Page.results
  <2>1. Page.results \in SUBSET Result
    BY <1>1, <1>6
  <2>2. First(0, Page.results) = {}
    BY <1>6, <2>1, FirstOfNone
  <2>3. First(Limit, Page.results) = Page.results
    BY <1>1, <1>2, <1>6, FirstOfFirst
  <2>4. offset + Limit = Limit
    BY <1>2
  <2> QED
    BY <1>2, <2>2, <2>3, <2>4 DEF Shows
<1>8. CASE Page.next = NoCursor
  <2>1. Cardinality(Fetched) <= Limit
    <3>1. \/ Cardinality(Fetched) <= Truncation
          \/ \E r \in Page.results : Page.next = [score |-> r.score, id |-> r.id]
      BY PageIs
    <3>2. \A r \in Page.results : [score |-> r.score, id |-> r.id] \in Cursor
      BY <1>1, <1>6 DEF Result, Cursor
    <3>3. NoCursor \notin Cursor
      BY PagingAssumption
    <3> QED
      BY <1>2, <1>8, <3>1, <3>2, <3>3
  <2>2. found = M
    <3>1. /\ Cardinality(First(Limit + 1, M)) \in Nat
          /\ Cardinality(First(Limit + 1, M)) < Limit + 1 => First(Limit + 1, M) = M
      BY <1>1, <1>2, FirstCounts
    <3> QED
      BY <1>2, <1>3, <1>5, <2>1, <3>1
  <2>3. Page.results = found
    <3>1. First(Limit, found) = found
      BY <1>1, <1>2, <1>4, <1>5, <2>1, FirstOfAll
    <3> QED
      BY <1>6, <2>2, <3>1
  <2>4. ToShowAfter(Page.next) = {}
    BY <1>8 DEF ToShowAfter
  <2> QED
    BY <1>6, <1>7, <2>2, <2>3, <2>4 DEF M
<1>9. CASE Page.next # NoCursor
  <2>1. PICK last \in Page.results :
          /\ Page.next = [score |-> last.score, id |-> last.id]
          /\ \A s \in Page.results : s = last \/ Before(s, last)
    BY <1>9, PageIs
  <2> DEFINE c == Page.next
  <2>2. c \in Cursor /\ c.score = last.score /\ c.id = last.id
    BY <1>1, <1>6, <2>1 DEF Result, Cursor
  <2>3. ToShowAfter(c) = {r \in All : Past(r, c)}
    BY <1>9, <2>2, MatchesAfter DEF ToShowAfter
  <2> HIDE DEF c
  <2>4. \A r \in All : /\ r.score \in Int /\ r.rank \in Int /\ r.id \in Int
                       /\ r.score = r.rank
    <3>1. All \in SUBSET Result /\ \A r \in All : r.score = r.rank
      BY AllIs
    <3> QED
      BY <3>1, ResultNumbers
  <2>5. last \in All /\ last \in M
    BY <1>1, <1>6, <2>1
  <2>6. ASSUME NEW r \in All, Past(r, c)
        PROVE  r \in M \ Page.results
    <3>1. r \in M
      <4>1. CASE cursor = NoCursor
        BY <1>1, <4>1
      <4>2. CASE cursor # NoCursor
        <5>1. cursor \in Cursor
          BY <4>2 DEF PagingInv, PagingTypeOK
        <5>2. cursor.score \in Int /\ cursor.id \in Int
          <6>1. cursor.score \in Int /\ cursor.id \in RowId
            BY <5>1 DEF Cursor
          <6>2. \A id \in RowId : id \in Int
            BY NumbersAre
          <6> QED
            BY <6>1, <6>2
        <5>3. Past(last, cursor)
          BY <1>1, <2>5, <4>2
        <5>4. Past(r, cursor)
          BY <2>2, <2>4, <2>5, <2>6, <5>2, <5>3 DEF Past
        <5> QED
          BY <1>1, <4>2, <5>4
      <4> QED
        BY <4>1, <4>2
    <3>2. r # last /\ ~ Before(r, last)
      BY <2>2, <2>4, <2>5, <2>6 DEF Past, Before
    <3> QED
      BY <2>1, <3>1, <3>2
  <2>7. ASSUME NEW r \in M \ Page.results
        PROVE  r \in All /\ Past(r, c)
    <3>1. r \in All /\ Before(last, r)
      BY <1>1, <1>6, <2>1
    <3> QED
      BY <2>2, <2>4, <2>5, <3>1 DEF Past, Before
  <2>8. ToShowAfter(c) = M \ Page.results
    BY <2>3, <2>6, <2>7
  <2> QED
    BY <1>6, <1>7, <2>8 DEF M, c
<1> QED
  BY <1>8, <1>9

(* A page by offset: the first offset + limit but the first offset. *)
LEMMA OffsetShows ==
  ASSUME PagingInv, PlainPaging, how # "cursor",
         found = First(Wanted + 1, Matching(cursor))
  PROVE  /\ First(offset, All) \in SUBSET First(offset + Limit, All)
         /\ First(offset + Limit, All) \in SUBSET All
         /\ Shows = First(offset + Limit, All) \ First(offset, All)
         /\ Cardinality(All) > offset + Limit => Cardinality(Shows) = Limit
<1>1. All \in SUBSET Result /\ IsFiniteSet(All) /\ Matching(NoCursor) = All
  BY AllIs
<1>2. cursor = NoCursor /\ boosting
  BY DEF PagingInv, PlainPaging
<1>3. /\ offset \in Nat /\ Limit \in Nat /\ offset + Limit \in Nat
      /\ offset + Limit + 1 \in Nat /\ offset <= offset + Limit
      /\ offset + Limit <= offset + Limit + 1 /\ offset + Limit <= offset + Limit
      /\ Wanted = offset + Limit
  BY PagingAssumption DEF PagingInv, PagingTypeOK, Wanted
<1>4. found = First(offset + Limit + 1, All)
  BY <1>1, <1>2, <1>3
<1>5. found \in SUBSET All
  BY <1>1, <1>3, <1>4, FirstBegins
<1>6. Fetched = found
  BY <1>5, PlainFetched
<1>7. Truncation = offset + Limit
  BY <1>2, <1>3 DEF Truncation
<1>8. Page.results = First(offset + Limit, All)
  <2>1. Page.results = First(offset + Limit, First(offset + Limit + 1, All))
    BY <1>4, <1>6, <1>7, PageIs
  <2> QED
    BY <1>1, <1>3, <2>1, FirstOfFirst
<1>9. First(offset + Limit, First(offset + Limit, All)) = First(offset + Limit, All)
  BY <1>1, <1>3, FirstOfFirst
<1>10. First(offset, First(offset + Limit, All)) = First(offset, All)
  BY <1>1, <1>3, FirstOfFirst
<1>11. First(offset + Limit, All) \in SUBSET All
  BY <1>1, <1>3, FirstBegins
<1>12. First(offset, All) \in SUBSET First(offset + Limit, All)
  <2>1. /\ First(offset + Limit, All) \in SUBSET Result
        /\ IsFiniteSet(First(offset + Limit, All))
    BY <1>1, <1>3, FirstBegins
  <2> QED
    BY <1>3, <1>10, <2>1, FirstBegins
<1>13. Shows = First(offset + Limit, All) \ First(offset, All)
  BY <1>2, <1>8, <1>9, <1>10 DEF Shows
<1>14. ASSUME Cardinality(All) > offset + Limit
       PROVE  Cardinality(Shows) = Limit
  <2> DEFINE W == First(offset, All)
             B == First(offset + Limit, All)
  <2>1. Cardinality(All) \in Nat
    BY <1>1, FS_CardinalityType
  <2>2. Cardinality(W) = offset /\ Cardinality(B) = offset + Limit
    BY <1>1, <1>3, <1>14, <2>1, FirstCounts
  <2>3. IsFiniteSet(B) /\ W \in SUBSET B
    BY <1>1, <1>3, <1>12, FirstBegins
  <2> HIDE DEF W, B
  <2>4. Cardinality(B \ W) = Cardinality(B) - Cardinality(B \cap W)
    BY <2>3, FS_Difference
  <2>5. B \cap W = W
    BY <2>3
  <2>6. Cardinality(B \ W) = (offset + Limit) - offset
    BY <2>2, <2>4, <2>5
  <2>7. Cardinality(B \ W) = Limit
    BY <1>3, <2>6
  <2> QED
    BY <1>13, <2>7 DEF W, B
<1> QED
  BY <1>11, <1>12, <1>13, <1>14

(* Either way a page is of what is still to show, and leaves the rest. *)
LEMMA ShowsOfTheRest ==
  ASSUME PagingInv, PlainPaging, found = First(Wanted + 1, Matching(cursor))
  PROVE  /\ Shows \in SUBSET ToShow /\ ToShow \in SUBSET All
         /\ ToShowAfter(Page.next) = ToShow \ Shows
<1>1. CASE how = "cursor"
  <2>1. Matching(cursor) \in SUBSET All
    BY DEF Matching, All
  <2> QED
    BY <1>1, <2>1, CursorShows DEF ToShow
<1>2. CASE how # "cursor"
  <2> DEFINE W == First(offset, All)
             B == First(offset + Limit, All)
  <2>2. W \in SUBSET B /\ B \in SUBSET All /\ Shows = B \ W
    BY <1>2, OffsetShows
  <2>3. ToShow = All \ W /\ ToShowAfter(Page.next) = All \ B
    BY <1>2 DEF ToShow, ToShowAfter
  <2> HIDE DEF W, B
  <2> QED
    BY <2>2, <2>3
<1> QED
  BY <1>1, <1>2

LEMMA RespondPages ==
  ASSUME PagesInv, Respond, changes = 0, PlainPaging, Reaches
  PROVE  PlainInv'
<1>1. /\ PagingInv /\ Shows \in SUBSET Result /\ shown' = Append(shown, Shows)
  BY RespondTypes DEF PagesInv
<1>2. /\ UNCHANGED <<rows, changes, how, boosting, cursor, offset, found>>
      /\ stage = "fetch" /\ stage' = "turn" /\ next' = Page.next
  BY DEF Respond
<1>3. /\ Len(shown) \in Nat /\ Len(shown') = Len(shown) + 1
      /\ \A i \in 1 .. Len(shown) : shown'[i] = shown[i]
      /\ shown'[Len(shown) + 1] = Shows
      /\ \A i \in 1 .. Len(shown) + 1 : i \in 1 .. Len(shown) \/ i = Len(shown) + 1
  BY <1>1, ShownThen
<1>4. /\ Distinct /\ Collected = All \ ToShow
      /\ found = First(Wanted + 1, Matching(cursor))
  BY <1>2 DEF PagesInv, PlainInv
<1>5. /\ Shows \in SUBSET ToShow /\ ToShow \in SUBSET All
      /\ ToShowAfter(Page.next) = ToShow \ Shows
  BY <1>1, <1>4, ShowsOfTheRest
<1>6. \A i \in 1 .. Len(shown) : shown[i] \cap Shows = {}
  BY <1>4, <1>5 DEF Collected
<1>7. Distinct'
  <2> SUFFICES ASSUME NEW i \in 1 .. Len(shown'), NEW j \in 1 .. Len(shown'), i # j
               PROVE  shown'[i] \cap shown'[j] = {}
    BY DEF Distinct
  <2>1. CASE i \in 1 .. Len(shown) /\ j \in 1 .. Len(shown)
    BY <1>3, <1>4, <2>1 DEF Distinct
  <2>2. CASE i \in 1 .. Len(shown) /\ j = Len(shown) + 1
    BY <1>3, <1>6, <2>2
  <2>3. CASE i = Len(shown) + 1 /\ j \in 1 .. Len(shown)
    BY <1>3, <1>6, <2>3
  <2> QED
    BY <1>3, <2>1, <2>2, <2>3
<1>8. Collected' = Collected \cup Shows
  <2>1. ASSUME NEW r PROVE r \in Collected' <=> r \in Collected \cup Shows
    <3>1. r \in Collected' <=> \E i \in 1 .. Len(shown) + 1 : r \in shown'[i]
      BY <1>3 DEF Collected
    <3>2. r \in Collected <=> \E i \in 1 .. Len(shown) : r \in shown[i]
      BY DEF Collected
    <3>3. \A i \in 1 .. Len(shown) : i \in 1 .. Len(shown) + 1
      BY <1>3
    <3>4. Len(shown) + 1 \in 1 .. Len(shown) + 1
      BY <1>3
    <3> QED
      BY <1>3, <3>1, <3>2, <3>3, <3>4
  <2> QED
    BY <2>1
<1>9. ToShowAfter(next)' = ToShow \ Shows /\ All' = All
  <2>1. All' = All /\ ToShowAfter(next)' = ToShowAfter(Page.next)
    BY <1>2 DEF All, ToShowAfter, Matching, ResultOf, Hits, Counted, Beyond, Present, First, Before
  <2> QED
    BY <1>5, <2>1
<1>10. Collected' = All' \ ToShowAfter(next)'
  BY <1>4, <1>5, <1>8, <1>9
<1>11. LastIsShort'
  <2>1. All' = All /\ shown'[Len(shown')] = Shows
    BY <1>2, <1>3 DEF All, ResultOf, Hits, Counted, Present
  <2>2. how # "cursor" /\ Cardinality(All) > offset + Limit => Cardinality(Shows) = Limit
    BY <1>1, <1>4, OffsetShows
  <2> QED
    BY <1>2, <2>1, <2>2 DEF LastIsShort
<1> QED
  BY <1>2, <1>7, <1>10, <1>11 DEF PlainInv

LEMMA TurnKeeps ==
  ASSUME PagesInv, TurnPage, changes = 0, PlainPaging, Reaches
  PROVE  PlainInv'
<1>1. /\ UNCHANGED <<rows, changes, how, boosting, found, next, shown>> /\ stage = "turn"
      /\ PagingInv
  BY DEF TurnPage, PagesInv
<1>2. Distinct /\ Collected = All \ ToShowAfter(next)
  BY <1>1 DEF PagesInv, PlainInv
<1>3. Distinct' /\ Collected' = Collected /\ All' = All
  BY <1>1, <1>2 DEF Distinct, Collected, All, ResultOf, Hits, Counted, Present
<1>4. CASE how = "cursor"
  <2>1. cursor' = next /\ stage' = IF next = NoCursor THEN "done" ELSE "query"
    BY <1>4 DEF TurnPage, More
  <2>2. CASE next = NoCursor
    <3>1. Collected = All
      BY <1>2, <1>4, <2>2 DEF ToShowAfter
    <3> QED
      BY <1>3, <2>1, <2>2, <3>1 DEF PlainInv
  <2>3. CASE next # NoCursor
    <3>1. ToShow' = ToShowAfter(next)
      BY <1>1, <1>4, <2>1, <2>3
         DEF ToShow, ToShowAfter, Matching, ResultOf, Hits, Counted, Beyond, Present
    <3> QED
      BY <1>2, <1>3, <2>1, <2>3, <3>1 DEF PlainInv
  <2> QED
    BY <2>2, <2>3
<1>5. CASE how # "cursor"
  <2>1. offset' = offset + Limit /\ stage' = IF More THEN "query" ELSE "done"
    BY <1>5 DEF TurnPage
  <2>2. CASE More
    <3>1. ToShow' = ToShowAfter(next)
      BY <1>1, <1>3, <1>5, <2>1 DEF ToShow, ToShowAfter, First, Before
    <3> QED
      BY <1>2, <1>3, <2>1, <2>2, <3>1 DEF PlainInv
  <2>3. CASE ~ More
    <3>1. offset + Limit \in Nat
      BY <1>1, PagingAssumption DEF PagingInv, PagingTypeOK
    <3>2. /\ All \in SUBSET Result /\ IsFiniteSet(All)
          /\ Cardinality(All) = Cardinality(Hits) /\ Cardinality(Hits) \in Nat
      BY <1>1, AllIs
    <3>3. Cardinality(All) <= offset + Limit
      <4>1. CASE how = "total"
        <5>1. Total >= Cardinality(Hits) /\ ~ (offset + Limit < Total)
          BY <2>3, <4>1 DEF Reaches, More
        <5> QED
          BY <3>1, <3>2, <5>1, TotalIs
      <4>2. CASE how = "short"
        <5>1. Cardinality(shown[Len(shown)]) # Limit
          BY <2>3, <4>2 DEF More
        <5>2. LastIsShort
          BY <1>1 DEF PagesInv, PlainInv
        <5>3. ~ (Cardinality(All) > offset + Limit)
          BY <1>5, <5>1, <5>2 DEF LastIsShort
        <5> QED
          BY <3>1, <3>2, <5>3
      <4> QED
        BY <1>1, <1>5, <4>1, <4>2 DEF PagingInv, PagingTypeOK
    <3>4. First(offset + Limit, All) = All
      BY <3>1, <3>2, <3>3, FirstOfAll
    <3>5. Collected = All
      BY <1>2, <1>5, <3>4 DEF ToShowAfter
    <3> QED
      BY <1>3, <2>1, <2>3, <3>5 DEF PlainInv
  <2> QED
    BY <2>2, <2>3
<1> QED
  BY <1>4, <1>5

LEMMA InitPagesInv == PagingInit => PagesInv
<1> SUFFICES ASSUME PagingInit PROVE PagesInv
  OBVIOUS
<1>1. PagingInv
  BY InitAdvanceInv DEF AdvanceInv
<1>2. shown = <<>> /\ Len(shown) = 0 /\ stage = "query" /\ cursor = NoCursor /\ offset = 0
  BY EmptySeq DEF PagingInit
<1>3. Distinct /\ Collected = {}
  BY <1>2 DEF Distinct, Collected
<1>4. ToShow = All
  <2>1. Matching(NoCursor) = All /\ All \in SUBSET Result /\ IsFiniteSet(All)
    BY <1>1, AllIs
  <2>2. First(0, All) = {}
    BY <2>1, FirstOfNone
  <2> QED
    BY <1>2, <2>1, <2>2 DEF ToShow
<1> QED
  BY <1>1, <1>2, <1>3, <1>4 DEF PagesInv, PlainInv

LEMMA NextPagesInv == PagesInv /\ [PagingNext]_pagingVars => PagesInv'
<1> SUFFICES ASSUME PagesInv, [PagingNext]_pagingVars PROVE PagesInv'
  OBVIOUS
<1>0. PagingInv /\ PagingInv'
  BY PagingInvStays DEF PagesInv
<1>1. CASE QueryIndex
  <2>1. UNCHANGED <<rows, changes, how, boosting, cursor, offset, next, shown>>
        /\ stage = "query" /\ stage' = "fetch"
    BY <1>1 DEF QueryIndex
  <2>2. found' = First(Wanted + 1, Matching(cursor))
    BY <1>0, <1>1, QueryFinds DEF PagingInv
  <2>3. /\ PlainPaging' <=> PlainPaging
        /\ Reaches' <=> Reaches
        /\ Distinct' <=> Distinct
        /\ Collected' = Collected /\ All' = All /\ ToShow' = ToShow
        /\ First(Wanted + 1, Matching(cursor))' = First(Wanted + 1, Matching(cursor))
    BY <2>1 DEF PlainPaging, Reaches, Total, LastIsShort, Distinct, Collected, All, ToShow, Wanted, Matching, ResultOf, Hits, Counted,
                Beyond, Present, First, Before
  <2> QED
    BY <1>0, <2>1, <2>2, <2>3 DEF PagesInv, PlainInv
<1>2. CASE Respond
  <2>1. UNCHANGED <<rows, changes, how, boosting>>
    BY <1>2 DEF Respond
  <2>2. (PlainPaging' <=> PlainPaging) /\ (Reaches' <=> Reaches)
    BY <2>1 DEF PlainPaging, Reaches, Total, Hits, Counted, Present
  <2> QED
    BY <1>0, <1>2, <2>1, <2>2, RespondPages DEF PagesInv
<1>3. CASE TurnPage
  <2>1. UNCHANGED <<rows, changes, how, boosting>>
    BY <1>3 DEF TurnPage
  <2>2. (PlainPaging' <=> PlainPaging) /\ (Reaches' <=> Reaches)
    BY <2>1 DEF PlainPaging, Reaches, Total, Hits, Counted, Present
  <2> QED
    BY <1>0, <1>3, <2>1, <2>2, TurnKeeps DEF PagesInv
<1>4. CASE Change
  BY <1>0, <1>4, ChangeTypes DEF PagesInv
<1>5. CASE UNCHANGED pagingVars
  <2>1. UNCHANGED <<rows, changes, how, boosting, cursor, offset, stage, found, next, shown>>
    BY <1>5 DEF pagingVars
  <2>2. /\ PlainPaging' <=> PlainPaging
        /\ Reaches' <=> Reaches
        /\ Distinct' <=> Distinct
        /\ Collected' = Collected /\ All' = All /\ ToShow' = ToShow
        /\ ToShowAfter(next)' = ToShowAfter(next)
        /\ LastIsShort' <=> LastIsShort
        /\ First(Wanted + 1, Matching(cursor))' = First(Wanted + 1, Matching(cursor))
    BY <2>1 DEF PlainPaging, Reaches, Total, LastIsShort, Distinct, Collected, All, ToShow, ToShowAfter, Wanted, Matching,
                ResultOf, Hits, Counted, Beyond, Present, First, Before
  <2> QED
    BY <1>0, <2>1, <2>2 DEF PagesInv, PlainInv
<1> QED
  BY <1>1, <1>2, <1>3, <1>4, <1>5 DEF PagingNext

(* "Correct FTS5 pagination" (search.rs): while the index is not written   *)
(* to and nothing is boosted or filtered out, the pages a client gets, by  *)
(* cursor or by offset, hold every hit, and none twice - as long as the    *)
(* total it goes by is not below the number of hits.                       *)
THEOREM PagesHoldAll == PagingSpec => []PagesAreAll
<1>1. PagingInit => PagesInv
  BY InitPagesInv
<1>2. PagesInv /\ [PagingNext]_pagingVars => PagesInv'
  BY NextPagesInv
<1>3. PagesInv => PagesAreAll
  <2> SUFFICES ASSUME PagesInv, stage = "done", changes = 0, PlainPaging, Reaches
               PROVE  /\ {r.id : r \in Collected} = Hits
                      /\ \A i, j \in 1 .. Len(shown) : i # j => shown[i] \cap shown[j] = {}
    BY DEF PagesAreAll, Collected, Reaches
  <2>1. Collected = All /\ Distinct
    BY DEF PagesInv, PlainInv
  <2>2. {r.id : r \in All} = Hits
    BY AllIs DEF PagesInv
  <2> QED
    BY <2>1, <2>2 DEF Distinct
<1> QED
  BY <1>1, <1>2, <1>3, PTL DEF PagingSpec

-----------------------------------------------------------------------------
(***************************************************************************)
(* The inputs that MCAlgorithms builds, of any length: vaults and patterns *)
(* the theorems above are about, and settings of the right kinds.          *)
(***************************************************************************)
InVault == {"a", "dist", ".git", "draft_1", "n.md", "m.markdown", "draft_1.md", "w.tmp", "n.txt"}
IsVaultPath(p) ==
  /\ p \in Seq(InVault) /\ p # <<>>
  /\ Len(p) = 1 => p[1] = "n.md"
  /\ Len(p) > 1 => p[1] # "n.md"

LEMMA ShortPaths ==
  ASSUME NEW a \in InVault, NEW b \in InVault, NEW c \in InVault, a # "n.md"
  PROVE  /\ IsVaultPath(<<"n.md">>) /\ IsVaultPath(<<a, b>>) /\ IsVaultPath(<<a, b, c>>)
<1>1. "n.md" \in InVault
  BY DEF InVault
<1> HIDE DEF InVault
<1> QED
  BY <1>1 DEF IsVaultPath

LEMMA AtIs ==
  ASSUME NEW p
  PROVE  /\ At(p).path = p
         /\ [At(p) EXCEPT !.via = "file", !.outside = TRUE].path = p
         /\ [At(p) EXCEPT !.via = "directory"].path = p
BY DEF At

LEMMA FilesAtPaths ==
  /\ IsVaultPath(At(<<"n.md">>).path)
  /\ \A x, y \in InVault : x # "n.md" =>
       /\ IsVaultPath(At(<<x, y>>).path)
       /\ IsVaultPath([At(<<x, y>>) EXCEPT !.via = "file", !.outside = TRUE].path)
       /\ IsVaultPath([At(<<x, y>>) EXCEPT !.via = "directory"].path)
  /\ \A x, y, z \in InVault : x # "n.md" => IsVaultPath(At(<<x, y, z>>).path)
<1>1. \A x, y, z \in InVault : x # "n.md" =>
        IsVaultPath(<<"n.md">>) /\ IsVaultPath(<<x, y>>) /\ IsVaultPath(<<x, y, z>>)
  BY ShortPaths
<1>2. "a" \in InVault /\ "a" # "n.md"
  BY DEF InVault
<1>3. IsVaultPath(<<"n.md">>)
  BY <1>1, <1>2
<1>4. \A x, y \in InVault : x # "n.md" => IsVaultPath(<<x, y>>)
  BY <1>1
<1>5. \A p : IsVaultPath(p) => /\ IsVaultPath(At(p).path)
                              /\ IsVaultPath([At(p) EXCEPT !.via = "file", !.outside = TRUE].path)
                              /\ IsVaultPath([At(p) EXCEPT !.via = "directory"].path)
  <2>1. SUFFICES ASSUME NEW p, IsVaultPath(p)
                 PROVE  /\ IsVaultPath(At(p).path)
                        /\ IsVaultPath([At(p) EXCEPT !.via = "file", !.outside = TRUE].path)
                        /\ IsVaultPath([At(p) EXCEPT !.via = "directory"].path)
    OBVIOUS
  <2> QED
    BY <2>1, AtIs
<1> QED
  BY Zenon, <1>1, <1>3, <1>4, <1>5

LEMMA VaultFilesAre ==
  \A f \in MCVaultFile : IsVaultPath(f.path)
<1>0. /\ "a" \in InVault /\ "dist" \in InVault /\ ".git" \in InVault /\ "draft_1" \in InVault
      /\ "n.md" \in InVault /\ "m.markdown" \in InVault /\ "draft_1.md" \in InVault
      /\ "w.tmp" \in InVault /\ "n.txt" \in InVault
  BY DEF InVault
<1>1. IsVaultPath(At(<<"n.md">>).path)
  BY Zenon, <1>0, FilesAtPaths
<1>2. IsVaultPath(At(<<"dist", "n.md">>).path)
  BY Zenon, <1>0, FilesAtPaths
<1>3. IsVaultPath(At(<<"a", "dist", "n.md">>).path)
  BY Zenon, <1>0, FilesAtPaths
<1>4. IsVaultPath(At(<<"a", "dist", "m.markdown">>).path)
  BY Zenon, <1>0, FilesAtPaths
<1>5. IsVaultPath(At(<<"dist", "n.txt">>).path)
  BY Zenon, <1>0, FilesAtPaths
<1>6. IsVaultPath(At(<<"dist", "a", "n.md">>).path)
  BY Zenon, <1>0, FilesAtPaths
<1>7. IsVaultPath(At(<<"dist", "w.tmp", "n.md">>).path)
  BY Zenon, <1>0, FilesAtPaths
<1>8. IsVaultPath(At(<<".git", "n.md">>).path)
  BY Zenon, <1>0, FilesAtPaths
<1>9. IsVaultPath(At(<<"a", "draft_1", "n.md">>).path)
  BY Zenon, <1>0, FilesAtPaths
<1>10. IsVaultPath(At(<<"a", "draft_1.md">>).path)
  BY Zenon, <1>0, FilesAtPaths
<1>11. IsVaultPath([At(<<"a", "n.md">>) EXCEPT !.via = "file", !.outside = TRUE].path)
  BY Zenon, <1>0, FilesAtPaths
<1>12. IsVaultPath([At(<<"w.tmp", "n.md">>) EXCEPT !.via = "directory"].path)
  BY Zenon, <1>0, FilesAtPaths
<1> QED
  BY Zenon, <1>1, <1>2, <1>3, <1>4, <1>5, <1>6, <1>7, <1>8, <1>9, <1>10, <1>11, <1>12
     DEF MCVaultFile

InPatterns == {"dist", "draft", "tmp", "unclosed", "a", "star", "**", "n.md"}

LEMMA PatternsAre == MCPattern \subseteq Seq(InPatterns)
<1>0. /\ "dist" \in InPatterns /\ "draft" \in InPatterns /\ "tmp" \in InPatterns
      /\ "unclosed" \in InPatterns /\ "a" \in InPatterns /\ "star" \in InPatterns
      /\ "**" \in InPatterns /\ "n.md" \in InPatterns
  BY DEF InPatterns
<1>1. <<>> \in Seq(InPatterns)
  OBVIOUS
<1>2. \A x \in InPatterns : <<x>> \in Seq(InPatterns)
  OBVIOUS
<1>3. \A x, y \in InPatterns : <<x, y>> \in Seq(InPatterns)
  OBVIOUS
<1>4. \A x, y, z \in InPatterns : <<x, y, z>> \in Seq(InPatterns)
  OBVIOUS
<1> QED
  BY Zenon, <1>0, <1>1, <1>2, <1>3, <1>4 DEF MCPattern

(* A list of some of the symbols of a list.                                *)
LEMMA OnlyIs ==
  ASSUME NEW set, NEW Symbols, NEW list \in Seq(Symbols)
  PROVE  Only(set, list) \in Seq(set)
<1> DEFINE S == Seq(set)
           n == Len(list)
           Step(k, kept) == IF list[k] \in set THEN Append(kept, list[k]) ELSE kept
           step == [k \in 1 .. n |-> [kept \in S |-> Step(k, kept)]]
<1>1. n \in Nat /\ <<>> \in S
  BY LenProperties
<1>2. \A k \in 1 .. n : \A kept \in S : Step(k, kept) \in S
  BY AppendProperties
<1> HIDE DEF Step, S
<1>3. step \in [1 .. n -> [S -> S]]
  BY <1>2
<1>4. PICK run \in [0 .. n -> S] :
        run[0] = <<>> /\ \A k \in 1 .. n : run[k] = step[k][run[k - 1]]
  <2>1. PICK a : a = <<>>
    OBVIOUS
  <2>2. \E run : IsRun(run, S, n, a, step)
    <3> HIDE DEF step, n
    <3> QED
      BY <1>1, <1>3, <2>1, RunsExist
  <2> QED
    BY <2>1, <2>2 DEF IsRun
<1>5. \A k \in 1 .. n : run[k] = Step(k, run[k - 1])
  <2>1. \A k \in 1 .. n : k - 1 \in 0 .. n
    BY <1>1
  <2>2. \A k \in 1 .. n : run[k - 1] \in S
    BY <1>4, <2>1
  <2> QED
    BY <1>1, <1>4, <2>2
<1> HIDE DEF step
<1> DEFINE F(x) == [k \in 0 .. n |->
                      IF k = 0 THEN <<>>
                      ELSE IF list[k] \in set THEN Append(x[k - 1], list[k])
                      ELSE x[k - 1]]
<1>6. run = F(run)
  <2>1. \A k \in 0 .. n : run[k] = IF k = 0 THEN <<>> ELSE Step(k, run[k - 1])
    BY <1>1, <1>4, <1>5
  <2>2. run = [k \in 0 .. n |-> run[k]]
    BY <1>4
  <2>3. run = [k \in 0 .. n |-> IF k = 0 THEN <<>> ELSE Step(k, run[k - 1])]
    BY <2>1, <2>2
  <2> QED
    BY <2>3 DEF Step
<1> DEFINE lists == CHOOSE x : x = F(x)
<1>7. Only(set, list) = lists[n]
  BY SMTT(40) DEF Only
<1>8. lists = F(lists)
  BY <1>6
<1> HIDE DEF lists
<1>9. lists[0] = <<>> /\ \A k \in 1 .. n : lists[k] = Step(k, lists[k - 1])
  <2>1. \A k \in 0 .. n : lists[k] = IF k = 0 THEN <<>> ELSE Step(k, lists[k - 1])
    BY <1>8 DEF Step
  <2>2. lists[0] = <<>>
    BY <1>1, <2>1
  <2>3. \A k \in 1 .. n : k \in 0 .. n /\ k # 0
    BY <1>1
  <2>4. \A k \in 1 .. n : lists[k] = Step(k, lists[k - 1])
    BY <2>1, <2>3
  <2> QED
    BY <2>2, <2>4
<1> HIDE DEF F
<1>10. \A k \in 0 .. n : lists[k] \in S
  <2> DEFINE T == {k \in 0 .. n : lists[k] \notin S}
  <2>1. SUFFICES ASSUME T # {} PROVE FALSE
    OBVIOUS
  <2>2. T \in SUBSET Nat
    BY <1>1
  <2>3. PICK m \in T : \A k \in T : m <= k
    BY <2>1, <2>2, LeastNumber
  <2>4. m # 0
    BY <1>1, <1>9, <2>3
  <2>5. m - 1 \in 0 .. n /\ m \in 1 .. n /\ ~ (m <= m - 1)
    BY <1>1, <2>3, <2>4
  <2>6. lists[m - 1] \in S
    BY <2>3, <2>5
  <2>7. lists[m] \in S
    BY <1>2, <1>9, <2>5, <2>6
  <2> QED
    BY <2>3, <2>7
<1>11. n \in 0 .. n
  BY <1>1
<1> QED
  BY <1>7, <1>10, <1>11 DEF S

LEMMA BytesAre ==
  ASSUME NEW path \in Seq(InVault)
  PROVE  Bytes(path) \in Nat
<1> DEFINE n == Len(path)
           step == [k \in 1 .. n |-> [b \in Nat |-> b + 1 + NameBytes[path[k]]]]
<1>1. n \in Nat /\ \A k \in 1 .. n : path[k] \in InVault
  BY LenProperties, ElementOfSeq
<1>2. \A x \in InVault : NameBytes[x] \in Nat
  BY DEF InVault, NameBytes
<1>3. step \in [1 .. n -> [Nat -> Nat]]
  BY <1>1, <1>2
<1>4. PICK run \in [0 .. n -> Nat] :
        run[0] = 0 /\ \A k \in 1 .. n : run[k] = step[k][run[k - 1]]
  <2>1. PICK a, S : a = 0 /\ S = Nat
    OBVIOUS
  <2>2. \E run : IsRun(run, S, n, a, step)
    <3> HIDE DEF step, n
    <3> QED
      BY <1>1, <1>3, <2>1, RunsExist
  <2> QED
    BY <2>1, <2>2 DEF IsRun
<1>5. \A k \in 1 .. n : run[k] = run[k - 1] + 1 + NameBytes[path[k]]
  <2>1. \A k \in 1 .. n : k - 1 \in 0 .. n
    BY <1>1
  <2>2. \A k \in 1 .. n : run[k - 1] \in Nat
    BY <1>4, <2>1
  <2> QED
    BY <1>1, <1>4, <2>2
<1> HIDE DEF step
<1> DEFINE F(x) == [k \in 0 .. n |-> IF k = 0 THEN 0 ELSE x[k - 1] + 1 + NameBytes[path[k]]]
<1>6. run = F(run)
  <2>1. \A k \in 0 .. n : run[k] = IF k = 0 THEN 0 ELSE run[k - 1] + 1 + NameBytes[path[k]]
    BY <1>1, <1>4, <1>5
  <2>2. run = [k \in 0 .. n |-> run[k]]
    BY <1>4
  <2> QED
    BY <2>1, <2>2
<1> DEFINE sums == CHOOSE x : x = F(x)
<1>7. Bytes(path) = sums[n]
  BY DEF Bytes
<1>8. sums = F(sums)
  BY <1>6
<1> HIDE DEF sums
<1>9. sums[0] = 0 /\ \A k \in 1 .. n : sums[k] = sums[k - 1] + 1 + NameBytes[path[k]]
  <2>1. \A k \in 0 .. n : sums[k] = IF k = 0 THEN 0 ELSE sums[k - 1] + 1 + NameBytes[path[k]]
    BY <1>8
  <2>2. sums[0] = 0
    BY <1>1, <2>1
  <2>3. \A k \in 1 .. n : k \in 0 .. n /\ k # 0
    BY <1>1
  <2>4. \A k \in 1 .. n : sums[k] = sums[k - 1] + 1 + NameBytes[path[k]]
    BY <2>1, <2>3
  <2> QED
    BY <2>2, <2>4
<1> HIDE DEF F
<1>10. \A k \in 0 .. n : sums[k] \in Nat
  <2> DEFINE T == {k \in 0 .. n : sums[k] \notin Nat}
  <2>1. SUFFICES ASSUME T # {} PROVE FALSE
    OBVIOUS
  <2>2. T \in SUBSET Nat
    BY <1>1
  <2>3. PICK m \in T : \A k \in T : m <= k
    BY <2>1, <2>2, LeastNumber
  <2>4. m # 0
    BY <1>1, <1>9, <2>3
  <2>5. m - 1 \in 0 .. n /\ m \in 1 .. n /\ ~ (m <= m - 1)
    BY <1>1, <2>3, <2>4
  <2>6. sums[m - 1] \in Nat
    BY <2>3, <2>5
  <2>7. sums[m] \in Nat
    BY <1>1, <1>2, <1>9, <2>5, <2>6
  <2> QED
    BY <2>3, <2>7
<1>11. n \in 0 .. n
  BY <1>1
<1> QED
  BY <1>7, <1>10, <1>11

LEMMA VaultOfInput ==
  ASSUME NEW Symbols, input \in Seq(Symbols)
  PROVE  /\ Vault(Files) /\ Files \subseteq MCVaultFile /\ Lists(Patterns)
         /\ PatternList \in Seq(Seq(InPatterns))
         /\ Paths \in Seq(Seq(InVault))
         /\ [p \in ToSet(Paths) |-> Bytes(p)] \in [ToSet(Paths) -> Nat]
<1>1. Files \subseteq MCVaultFile
  BY DEF Files
<1>2. Vault(Files)
  BY <1>1, VaultFilesAre DEF Vault, Path, IsVaultPath
<1>3. Lists(Patterns)
  <2>1. \A s \in [pattern : MCPattern] : s.pattern \in Seq(InPatterns)
    BY PatternsAre
  <2> QED
    BY <2>1 DEF Patterns, Lists
<1>4. PatternList \in Seq(Seq(InPatterns))
  <2>1. PICK set, list : set = [pattern : MCPattern] /\ list = Only(set, input)
    OBVIOUS
  <2>2. list \in Seq(set)
    BY <2>1, OnlyIs
  <2>3. Len(list) \in Nat /\ DOMAIN list = 1 .. Len(list) /\ \A k \in 1 .. Len(list) : list[k] \in set
    BY <2>2, LenProperties, ElementOfSeq
  <2>4. \A s \in set : s.pattern \in Seq(InPatterns)
    BY <2>1, PatternsAre
  <2>5. [k \in DOMAIN list |-> list[k].pattern] \in Seq(Seq(InPatterns))
    BY <2>3, <2>4, IsASeq
  <2> QED
    BY <2>1, <2>5 DEF PatternList
<1>5. Paths \in Seq(Seq(InVault))
  <2>1. PICK set, list : set = MCVaultFile /\ list = Only(set, input)
    OBVIOUS
  <2>2. list \in Seq(set)
    BY <2>1, OnlyIs
  <2>3. Len(list) \in Nat /\ DOMAIN list = 1 .. Len(list) /\ \A k \in 1 .. Len(list) : list[k] \in set
    BY <2>2, LenProperties, ElementOfSeq
  <2>4. \A f \in set : f.path \in Seq(InVault)
    BY <2>1, VaultFilesAre DEF IsVaultPath
  <2>5. [k \in DOMAIN list |-> list[k].path] \in Seq(Seq(InVault))
    BY <2>3, <2>4, IsASeq
  <2> QED
    BY <2>1, <2>5 DEF Paths
<1>6. \A p \in ToSet(Paths) : Bytes(p) \in Nat
  <2>1. \A p \in ToSet(Paths) : p \in Seq(InVault)
    BY <1>5, LenProperties, ElementOfSeq DEF ToSet
  <2> QED
    BY <2>1, BytesAre
<1> QED
  BY <1>1, <1>2, <1>3, <1>4, <1>5, <1>6

LEMMA WalkOfInput ==
  ASSUME NEW Symbols, input \in Seq(Symbols)
  PROVE  /\ \A hide, follow \in BOOLEAN :
               /\ WalkIsExact(Files, Patterns, hide, follow)
               /\ FoundIsRead(Files, Patterns, hide, follow)
         /\ \A cut \in 0 .. Len(PatternList) :
               CheckSaysWhy(Files, SubSeq(PatternList, 1, cut),
                            SubSeq(PatternList, cut + 1, Len(PatternList)))
         /\ LinksLeadToNotes(Paths, [p \in ToSet(Paths) |-> Bytes(p)])
         /\ \A hide \in BOOLEAN : RootChoiceIsExcluded(Files, Patterns, hide)
<1>1. /\ Vault(Files) /\ Files \subseteq MCVaultFile /\ Lists(Patterns)
      /\ PatternList \in Seq(Seq(InPatterns))
      /\ Paths \in Seq(Seq(InVault))
      /\ [p \in ToSet(Paths) |-> Bytes(p)] \in [ToSet(Paths) -> Nat]
  BY VaultOfInput
<1>2. \A hide, follow \in BOOLEAN : WalkIsExact(Files, Patterns, hide, follow)
  BY <1>1, WalksExactly
<1>3. \A hide, follow \in BOOLEAN : FoundIsRead(Files, Patterns, hide, follow)
  BY ReadsWhatIsFound
<1>4. ASSUME NEW cut \in 0 .. Len(PatternList)
      PROVE  CheckSaysWhy(Files, SubSeq(PatternList, 1, cut),
                          SubSeq(PatternList, cut + 1, Len(PatternList)))
  <2>1. PICK list, l, next2, S : /\ list = PatternList /\ l = Len(list) /\ next2 = cut + 1
                                 /\ S = Seq(InPatterns)
    OBVIOUS
  <2>2. list \in Seq(S) /\ l \in Nat /\ cut \in 0 .. l
    BY <1>1, <2>1, LenProperties
  <2>3. SubSeq(list, 1, cut) \in Seq(S)
    <3>1. 1 \in Int /\ cut \in Int /\ 1 <= 1 /\ 1 <= cut + 1 /\ cut <= Len(list)
      BY <2>1, <2>2
    <3> QED
      BY <2>2, <3>1, NamesBetween
  <2>4. SubSeq(list, next2, l) \in Seq(S)
    <3>1. next2 \in Int /\ l \in Int /\ 1 <= next2 /\ next2 <= l + 1 /\ l <= Len(list)
      BY <2>1, <2>2
    <3> QED
      BY <2>2, <3>1, NamesBetween
  <2>5. PICK config, ignore : config = SubSeq(list, 1, cut) /\ ignore = SubSeq(list, next2, l)
    OBVIOUS
  <2>6. CheckSaysWhy(Files, config, ignore)
    <3>1. config \in Seq(Seq(InPatterns)) /\ ignore \in Seq(Seq(InPatterns))
      BY <2>1, <2>3, <2>4, <2>5
    <3> QED
      BY <1>1, <3>1, SaysWhy
  <2> QED
    BY <2>1, <2>5, <2>6
<1>5. LinksLeadToNotes(Paths, [p \in ToSet(Paths) |-> Bytes(p)])
  <2>1. PICK paths, size : paths = Paths /\ size = [p \in ToSet(Paths) |-> Bytes(p)]
    OBVIOUS
  <2>2. paths \in Seq(Seq(InVault)) /\ size \in [ToSet(paths) -> Nat]
    BY <1>1, <2>1
  <2>3. LinksLeadToNotes(paths, size)
    BY <2>2, LinksLead
  <2> QED
    BY <2>1, <2>3
<1>6. ASSUME NEW hide \in BOOLEAN PROVE RootChoiceIsExcluded(Files, Patterns, hide)
  <2>1. \A f \in Files : \A i \in 1 .. Len(f.path) - 1 : PlainName(f.path[i])
    BY <1>1, VaultAssumption DEF PlainName
  <2>2. \A f \in Files, g \in Files :
          Len(f.path) = 1 /\ Len(g.path) > 1 => f.path[1] # g.path[1]
    BY <1>1, VaultFilesAre DEF IsVaultPath
  <2> QED
    BY <1>1, <2>1, <2>2, ExcludesRootChoice
<1> QED
  BY <1>2, <1>3, <1>4, <1>5, <1>6

(* What is set is of the kind that is read.                                *)
EnvKind ==
  [home |-> MaybePath, macos |-> BOOLEAN, xdgData |-> MaybePath, xdgConfig |-> MaybePath,
   embedModel |-> MaybePath, dbPath |-> MaybePath, notesDir |-> MaybePath,
   present |-> SUBSET Seq(PathName)]
FileKind ==
  [database |-> MaybePath, legacyNotes |-> MaybePath, legacyDb |-> MaybePath,
   vaults |-> {vaults \in VaultSets : Named(vaults)}, flatNotes |-> MaybePath,
   flatDb |-> MaybePath, unknown |-> BOOLEAN, onnx |-> MaybePath]
IsSetting(s) ==
  /\ s.in = "env" => s.value \in EnvKind[s.name]
  /\ s.in = "file" => s.value \in FileKind[s.name]

LEMMA SettingsBy ==
  /\ \A name, value : value \in EnvKind[name] => IsSetting(EnvSetting(name, value))
  /\ \A name, value : value \in FileKind[name] => IsSetting(FileSetting(name, value))
BY DEF IsSetting, EnvSetting, FileSetting

LEMMA KindsAre ==
  /\ EnvKind["home"] = MaybePath /\ EnvKind["macos"] = BOOLEAN
  /\ EnvKind["xdgData"] = MaybePath /\ EnvKind["xdgConfig"] = MaybePath
  /\ EnvKind["embedModel"] = MaybePath /\ EnvKind["dbPath"] = MaybePath
  /\ EnvKind["notesDir"] = MaybePath /\ EnvKind["present"] = SUBSET Seq(PathName)
  /\ FileKind["database"] = MaybePath /\ FileKind["legacyNotes"] = MaybePath
  /\ FileKind["legacyDb"] = MaybePath
  /\ FileKind["vaults"] = {vaults \in VaultSets : Named(vaults)}
  /\ FileKind["flatNotes"] = MaybePath /\ FileKind["flatDb"] = MaybePath
  /\ FileKind["unknown"] = BOOLEAN /\ FileKind["onnx"] = MaybePath
BY DEF EnvKind, FileKind

LEMMA SettingsAre == \A s \in MCSetting : IsSetting(s)
<1>1. \A x \in MCPathName : x \in PathName
  BY SettingAssumption
<1>2. /\ "." \in MCPathName /\ "default" \in MCPathName /\ "home" \in MCPathName
      /\ "data" \in MCPathName /\ "conf" \in MCPathName /\ "m" \in MCPathName
      /\ "d" \in MCPathName /\ ".." \in MCPathName /\ "e" \in MCPathName
      /\ "n" \in MCPathName /\ "o" \in MCPathName /\ "b" \in MCPathName
      /\ "l" \in MCPathName /\ "ldb" \in MCPathName /\ "v" \in MCPathName
      /\ "w" \in MCPathName /\ "work" \in MCPathName /\ "f" \in MCPathName
      /\ "fdb" \in MCPathName
  BY DEF MCPathName, OwnName
<1>3. /\ "shiotsuchi" \in PathName /\ "model.onnx" \in PathName
      /\ ".local" \in PathName /\ "share" \in PathName
  BY OwnNames
<1>4. \A x \in PathName : <<x>> \in MaybePath /\ <<x>> \in Seq(PathName)
  BY DEF MaybePath
<1>5. \A x, y \in PathName : <<x, y>> \in MaybePath
  BY DEF MaybePath
<1>6. \A x, y, z \in PathName : <<x, y, z>> \in MaybePath
  BY DEF MaybePath
<1>7. \A v, w, x, y, z \in PathName : <<v, w, x, y, z>> \in Seq(PathName)
  OBVIOUS
<1>8. HomeModel \in Seq(PathName)
  BY Zenon, <1>1, <1>2, <1>3, <1>7 DEF HomeModel
<1>9. Unset \in MaybePath /\ TRUE \in BOOLEAN
  BY DEF MaybePath
<1>10. \A x \in PathName : \A p \in Seq(PathName) :
         /\ {<<x>>} \in SUBSET Seq(PathName) /\ {p} \in SUBSET Seq(PathName)
         /\ {<<x>>, p} \in SUBSET Seq(PathName)
  BY <1>4
<1>11. \A x, n \in PathName : {<<n, <<x>>>>} \in {vaults \in VaultSets : Named(vaults)}
  <2>1. SUFFICES ASSUME NEW x \in PathName, NEW n \in PathName
                 PROVE  {<<n, <<x>>>>} \in {vaults \in VaultSets : Named(vaults)}
    OBVIOUS
  <2>2. <<n, <<x>>>> \in PathName \X Seq(PathName)
    BY <1>4
  <2>3. PICK v : v = <<n, <<x>>>>
    OBVIOUS
  <2>4. Named({v})
    BY DEF Named
  <2> QED
    BY <2>2, <2>3, <2>4 DEF VaultSets
<1>12. \A x, y, n, m \in PathName :
         n # m => {<<n, <<x>>>>, <<m, <<y>>>>} \in {vaults \in VaultSets : Named(vaults)}
  <2>1. SUFFICES ASSUME NEW x \in PathName, NEW y \in PathName, NEW n \in PathName,
                        NEW m \in PathName, n # m
                 PROVE  {<<n, <<x>>>>, <<m, <<y>>>>} \in {vaults \in VaultSets : Named(vaults)}
    OBVIOUS
  <2>2. <<n, <<x>>>> \in PathName \X Seq(PathName) /\ <<m, <<y>>>> \in PathName \X Seq(PathName)
    BY <1>4
  <2>3. PICK v, w : v = <<n, <<x>>>> /\ w = <<m, <<y>>>>
    OBVIOUS
  <2>4. v[1] = n /\ w[1] = m
    BY <2>3
  <2>5. Named({v, w})
    BY <2>1, <2>4 DEF Named
  <2> QED
    BY <2>2, <2>3, <2>5 DEF VaultSets
<1>13. "default" # "work"
  OBVIOUS
<1>21. /\ IsSetting(EnvSetting("home", Unset)) /\ IsSetting(EnvSetting("macos", TRUE))
  BY Zenon, <1>9, SettingsBy, KindsAre
<1>22. /\ IsSetting(EnvSetting("xdgData", <<"data">>))
       /\ IsSetting(EnvSetting("xdgData", <<".", "data">>))
  BY Zenon, <1>1, <1>2, <1>4, <1>5, SettingsBy, KindsAre
<1>23. /\ IsSetting(EnvSetting("xdgConfig", <<"conf">>))
       /\ IsSetting(EnvSetting("xdgConfig", <<".", "conf">>))
  BY Zenon, <1>1, <1>2, <1>4, <1>5, SettingsBy, KindsAre
<1>24. /\ IsSetting(EnvSetting("embedModel", <<"m">>)) /\ IsSetting(EnvSetting("dbPath", <<"d">>))
       /\ IsSetting(EnvSetting("dbPath", <<"d", "..", "e">>))
  BY Zenon, <1>1, <1>2, <1>4, <1>6, SettingsBy, KindsAre
<1>25. /\ IsSetting(EnvSetting("notesDir", <<"n">>))
       /\ IsSetting(EnvSetting("notesDir", <<"n", "..", "o">>))
  BY Zenon, <1>1, <1>2, <1>4, <1>6, SettingsBy, KindsAre
<1>26. /\ IsSetting(EnvSetting("present", {<<"m">>}))
       /\ IsSetting(EnvSetting("present", {HomeModel}))
       /\ IsSetting(EnvSetting("present", {<<"m">>, HomeModel}))
  BY Zenon, <1>1, <1>2, <1>8, <1>10, SettingsBy, KindsAre
<1>27. /\ IsSetting(FileSetting("database", <<"b">>)) /\ IsSetting(FileSetting("legacyNotes", <<"l">>))
       /\ IsSetting(FileSetting("legacyDb", <<"ldb">>)) /\ IsSetting(FileSetting("unknown", TRUE))
  BY Zenon, <1>1, <1>2, <1>4, <1>9, SettingsBy, KindsAre
<1>28. /\ IsSetting(FileSetting("vaults", {<<"default", <<"v">>>>}))
       /\ IsSetting(FileSetting("vaults", {<<"default", <<"v">>>>, <<"work", <<"w">>>>}))
  BY Zenon, <1>1, <1>2, <1>11, <1>12, <1>13, SettingsBy, KindsAre
<1>29. /\ IsSetting(FileSetting("flatNotes", <<"f">>)) /\ IsSetting(FileSetting("flatDb", <<"fdb">>))
       /\ IsSetting(FileSetting("onnx", <<"m">>))
  BY Zenon, <1>1, <1>2, <1>4, SettingsBy, KindsAre
<1> QED
  BY Zenon, <1>21, <1>22, <1>23, <1>24, <1>25, <1>26, <1>27, <1>28, <1>29 DEF MCSetting

LEMMA MaxIsMember ==
  ASSUME NEW n \in Nat, NEW T \in SUBSET (1 .. n), T # {}
  PROVE  Max(T) \in T
<1> DEFINE D == {n - k : k \in T}
<1>0. \A k \in T : k \in 1 .. n /\ k \in Int
  OBVIOUS
<1>1. D \in SUBSET Nat /\ D # {}
  <2>1. \A k \in 1 .. n : n - k \in Nat
    OBVIOUS
  <2> QED
    BY <1>0, <2>1
<1>2. PICK d \in D : \A k \in D : d <= k
  <2> HIDE DEF D
  <2> QED
    BY <1>1, LeastNumber
<1>3. PICK m \in T : d = n - m
  BY <1>2
<1>4. \A k \in T : m >= k
  <2>1. SUFFICES ASSUME NEW k \in T PROVE m >= k
    OBVIOUS
  <2>2. d <= n - k
    BY <1>2
  <2>3. m \in Int /\ k \in Int
    BY <1>0
  <2> QED
    BY <1>3, <2>2, <2>3
<1>5. Max(T) = CHOOSE x \in T : \A y \in T : x >= y
  BY DEF Max
<1> QED
  BY <1>4, <1>5

LEMMA SetIs ==
  ASSUME NEW settings \in Seq(MCSetting), NEW in, NEW from, NEW name \in DOMAIN from
  PROVE  \/ Set(settings, in, from)[name] = from[name]
         \/ \E s \in MCSetting : /\ s.in = in /\ s.name = name
                               /\ Set(settings, in, from)[name] = s.value
<1> DEFINE at == {k \in DOMAIN settings : settings[k].in = in /\ settings[k].name = name}
<1>1. Set(settings, in, from)[name] = IF at = {} THEN from[name] ELSE settings[Max(at)].value
  BY DEF Set
<1>2. /\ Len(settings) \in Nat /\ DOMAIN settings = 1 .. Len(settings)
      /\ \A k \in 1 .. Len(settings) : settings[k] \in MCSetting
  BY LenProperties, ElementOfSeq
<1>3. at \in SUBSET (1 .. Len(settings))
  BY <1>2
<1>4. at # {} => Max(at) \in at
  <2> HIDE DEF at
  <2> QED
    BY <1>2, <1>3, MaxIsMember
<1> QED
  BY <1>1, <1>2, <1>4

LEMMA EnvIs ==
  ASSUME NEW settings \in Seq(MCSetting)
  PROVE  Set(settings, "env", Env) \in EnvKinds
<1> DEFINE env == Set(settings, "env", Env)
<1>1. DOMAIN Env = {"home", "macos", "xdgData", "xdgConfig", "embedModel", "dbPath",
                    "notesDir", "present"}
  BY DEF Env
<1>2. env = [name \in DOMAIN Env |-> env[name]]
  BY DEF Set
<1>3. \A name \in DOMAIN Env : env[name] = Env[name] \/ env[name] \in EnvKind[name]
  BY SetIs, SettingsAre DEF IsSetting
<1>4. \A name \in DOMAIN Env : Env[name] \in EnvKind[name]
  <2>1. <<"home">> \in MaybePath /\ Unset \in MaybePath /\ FALSE \in BOOLEAN
    BY SettingAssumption DEF MCPathName, MaybePath
  <2>2. {} \in SUBSET Seq(PathName)
    OBVIOUS
  <2>3. /\ Env["home"] = <<"home">> /\ Env["macos"] = FALSE /\ Env["xdgData"] = Unset
        /\ Env["xdgConfig"] = Unset /\ Env["embedModel"] = Unset /\ Env["dbPath"] = Unset
        /\ Env["notesDir"] = Unset /\ Env["present"] = {}
    BY DEF Env
  <2> QED
    BY Zenon, <1>1, <2>1, <2>2, <2>3, KindsAre
<1>5. \A name \in DOMAIN Env : env[name] \in EnvKind[name]
  BY <1>3, <1>4
<1> HIDE DEF env
<1>6. /\ env.home \in MaybePath /\ env.macos \in BOOLEAN /\ env.xdgData \in MaybePath
      /\ env.xdgConfig \in MaybePath /\ env.embedModel \in MaybePath /\ env.dbPath \in MaybePath
      /\ env.notesDir \in MaybePath /\ env.present \in SUBSET Seq(PathName)
  BY <1>1, <1>5, KindsAre
<1>7. env = [home |-> env.home, macos |-> env.macos, xdgData |-> env.xdgData,
             xdgConfig |-> env.xdgConfig, embedModel |-> env.embedModel,
             dbPath |-> env.dbPath, notesDir |-> env.notesDir, present |-> env.present]
  BY <1>1, <1>2
<1> QED
  BY <1>6, <1>7 DEF EnvKinds, env

LEMMA FileIs ==
  ASSUME NEW settings \in Seq(MCSetting)
  PROVE  Set(settings, "file", NoFile) \in FileKinds
<1> DEFINE file == Set(settings, "file", NoFile)
<1>1. DOMAIN NoFile = {"database", "legacyNotes", "legacyDb", "vaults", "flatNotes",
                       "flatDb", "unknown", "onnx"}
  BY DEF NoFile
<1>2. file = [name \in DOMAIN NoFile |-> file[name]]
  BY DEF Set
<1>3. \A name \in DOMAIN NoFile : file[name] = NoFile[name] \/ file[name] \in FileKind[name]
  BY SetIs, SettingsAre DEF IsSetting
<1>4. \A name \in DOMAIN NoFile : NoFile[name] \in FileKind[name]
  <2>1. {} \in {vaults \in VaultSets : Named(vaults)}
    BY DEF VaultSets, Named
  <2>2. Unset \in MaybePath /\ FALSE \in BOOLEAN
    BY DEF MaybePath
  <2>3. /\ NoFile["database"] = Unset /\ NoFile["legacyNotes"] = Unset
        /\ NoFile["legacyDb"] = Unset /\ NoFile["vaults"] = {} /\ NoFile["flatNotes"] = Unset
        /\ NoFile["flatDb"] = Unset /\ NoFile["unknown"] = FALSE /\ NoFile["onnx"] = Unset
    BY DEF NoFile
  <2> QED
    BY Zenon, <1>1, <2>1, <2>2, <2>3, KindsAre
<1>5. \A name \in DOMAIN NoFile : file[name] \in FileKind[name]
  BY <1>3, <1>4
<1> HIDE DEF file
<1>6. /\ file.database \in MaybePath /\ file.legacyNotes \in MaybePath
      /\ file.legacyDb \in MaybePath
      /\ file.vaults \in {vaults \in VaultSets : Named(vaults)}
      /\ file.flatNotes \in MaybePath /\ file.flatDb \in MaybePath
      /\ file.unknown \in BOOLEAN /\ file.onnx \in MaybePath
  BY <1>1, <1>5, KindsAre
<1>7. file = [database |-> file.database, legacyNotes |-> file.legacyNotes,
              legacyDb |-> file.legacyDb, vaults |-> file.vaults,
              flatNotes |-> file.flatNotes, flatDb |-> file.flatDb,
              unknown |-> file.unknown, onnx |-> file.onnx]
  BY <1>1, <1>2
<1> QED
  BY <1>6, <1>7 DEF FileKinds, file

-----------------------------------------------------------------------------
(***************************************************************************)
(* The lines of a note.                                                    *)
(***************************************************************************)
(* A list of numbers in ascending order.                                   *)
Rising(lines) == \A k, l \in DOMAIN lines : k < l => lines[k] < lines[l]

IsBody(note, first, body) ==
  /\ first \in 1 .. Len(note) + 1 /\ body \in Seq(Nat)
  /\ Len(body) = Len(note) + 1 - first
  /\ \A k \in 1 .. Len(body) : body[k] = first + k - 1
  /\ ToSet(body) = first .. Len(note)

LEMMA LinesFromIs ==
  ASSUME NEW note \in Seq(Line), NEW first \in 1 .. Len(note) + 1
  PROVE  IsBody(note, first, LinesFrom(note, first))
<1> DEFINE n == Len(note) + 1 - first
           body == LinesFrom(note, first)
<1>1. Len(note) \in Nat /\ n \in Nat
  BY LenProperties
<1>2. body = [k \in 1 .. n |-> first + k - 1]
  BY DEF LinesFrom
<1>3. body \in Seq(Nat) /\ Len(body) = n
  BY <1>1, <1>2
<1>4. ToSet(body) = first .. Len(note)
  <2>1. ASSUME NEW i \in first .. Len(note) PROVE i \in ToSet(body)
    <3>1. i + 1 - first \in 1 .. n /\ body[i + 1 - first] = i
      BY <1>1, <1>2
    <3> QED
      BY <1>2, <3>1 DEF ToSet
  <2>2. \A k \in 1 .. n : body[k] \in first .. Len(note)
    BY <1>1, <1>2
  <2> QED
    BY <1>2, <2>1, <2>2 DEF ToSet
<1> QED
  BY <1>1, <1>2, <1>3, <1>4 DEF IsBody

LEMMA OpenerIs ==
  ASSUME NEW note \in Seq(Line)
  PROVE  /\ Opener(note) \in 0 .. Len(note)
         /\ Closer(note) \in 0 .. Len(note)
         /\ Closer(note) # 0 => Opener(note) < Closer(note)
<1> DEFINE T == {i \in 1 .. Len(note) : note[i].kind # "blank"}
           o == Opener(note)
           U == {i \in o + 1 .. Len(note) : note[i].kind \in Delimiter}
<1>1. Len(note) \in Nat
  BY LenProperties
<1>2. o \in 0 .. Len(note)
  <2>1. o = 0 \/ (T # {} /\ o = Min(T))
    BY DEF Opener, SelectInSeq
  <2>2. T # {} => Min(T) \in T
    BY MinIsLeast, SMTT(40)
  <2> QED
    BY <1>1, <2>1, <2>2
<1>3. Closer(note) = 0 \/ (U # {} /\ Closer(note) = Min(U))
  BY DEF Closer, SelectInSubSeq
<1>4. U # {} => Min(U) \in U
  <2>1. U \in SUBSET Nat
    BY <1>1, <1>2
  <2> QED
    BY <2>1, MinIsLeast
<1> QED
  BY <1>1, <1>2, <1>3, <1>4

LEMMA BodyIs ==
  ASSUME NEW note \in Seq(Line)
  PROVE  \E first : IsBody(note, first, BodyOf(note))
<1>1. /\ Len(note) \in Nat /\ Closer(note) \in 0 .. Len(note)
  BY LenProperties, OpenerIs
<1>2. PICK first \in {1, Closer(note), Closer(note) + 1} :
        first # 0 /\ BodyOf(note) = LinesFrom(note, first)
  <2>1. CASE Closer(note) = 0
    BY <2>1 DEF BodyOf
  <2>2. CASE Closer(note) # 0 /\ LeavesRest(note)
    BY <2>2 DEF BodyOf
  <2>3. CASE Closer(note) # 0 /\ ~ LeavesRest(note)
    <3>1. BodyOf(note) = LinesFrom(note, Closer(note) + 1)
      BY <2>3, Zenon DEF BodyOf
    <3>2. Closer(note) + 1 # 0
      BY <1>1
    <3> QED
      BY <3>1, <3>2
  <2> QED
    BY <2>1, <2>2, <2>3
<1>3. first \in 1 .. Len(note) + 1
  BY <1>1, <1>2
<1> QED
  BY <1>2, <1>3, LinesFromIs

(* Code, by the parity of the fences before.                               *)
IsCoded(note, first, code) ==
  /\ code \in [first .. Len(note) + 1 -> BOOLEAN] /\ code[first] = FALSE
  /\ \A i \in first .. Len(note) :
       code[i + 1] = IF note[i].kind = "fence" THEN ~ code[i] ELSE code[i]

LEMMA CodeIs ==
  ASSUME NEW note \in Seq(Line), NEW first, NEW body, IsBody(note, first, body)
  PROVE  \E code : /\ IsCoded(note, first, code)
                   /\ \A i \in first .. Len(note) : InCode(note, body, i) = code[i]
<1> DEFINE N == Len(note)
           F(i) == Fences(note, body, i)
           code == [i \in first .. N + 1 |-> InCode(note, body, i)]
<1>1. N \in Nat /\ first \in 1 .. N + 1 /\ DOMAIN body = 1 .. N + 1 - first
      /\ \A k \in DOMAIN body : body[k] = first + k - 1
  BY LenProperties DEF IsBody
<1>2. F(first) = {}
  BY <1>1 DEF Fences
<1>3. \A i \in first .. N + 1 : IsFiniteSet(F(i)) /\ Cardinality(F(i)) \in Nat
  <2>1. IsFiniteSet(1 .. N + 1 - first)
    BY <1>1, FS_Interval
  <2>2. \A i : F(i) \in SUBSET (1 .. N + 1 - first)
    BY <1>1 DEF Fences
  <2> QED
    BY <2>1, <2>2, FS_Subset, FS_CardinalityType
<1>4. ASSUME NEW i \in first .. N
      PROVE  code[i + 1] = IF note[i].kind = "fence" THEN ~ code[i] ELSE code[i]
  <2> DEFINE k == i + 1 - first
  <2>1. k \in DOMAIN body /\ body[k] = i /\ i + 1 \in first .. N + 1 /\ i \in first .. N + 1
    BY <1>1
  <2>2. \A l \in DOMAIN body : body[l] < i + 1 <=> body[l] < i \/ l = k
    BY <1>1
  <2>3. k \notin F(i)
    BY <1>1, <2>1 DEF Fences
  <2>4. F(i + 1) = IF note[i].kind = "fence" THEN F(i) \cup {k} ELSE F(i)
    BY <2>1, <2>2 DEF Fences, Is
  <2>5. CASE note[i].kind = "fence"
    <3>1. Cardinality(F(i + 1)) = Cardinality(F(i)) + 1
      BY <1>3, <2>1, <2>3, <2>4, <2>5, FS_AddElement
    <3>2. PICK c \in Nat : c = Cardinality(F(i))
      BY <1>3, <2>1
    <3>3. (c + 1) % 2 = 1 <=> ~ (c % 2 = 1)
      BY <3>2
    <3> QED
      BY <2>1, <2>5, <3>1, <3>2, <3>3 DEF InCode
  <2>6. CASE note[i].kind # "fence"
    BY <2>1, <2>4, <2>6 DEF InCode
  <2> QED
    BY <2>5, <2>6
<1>5. code[first] = FALSE
  <2>1. Cardinality({}) = 0
    BY FS_EmptySet
  <2>2. ~ (0 % 2 = 1)
    OBVIOUS
  <2>3. first \in first .. N + 1
    BY <1>1
  <2>4. ~ InCode(note, body, first)
    BY <1>2, <2>1, <2>2 DEF InCode
  <2>5. InCode(note, body, first) \in BOOLEAN
    BY DEF InCode
  <2>6. code[first] = InCode(note, body, first)
    BY <2>3
  <2> QED
    BY <2>4, <2>5, <2>6
<1>6. code \in [first .. N + 1 -> BOOLEAN]
  BY DEF InCode
<1>7. \A i \in first .. N : InCode(note, body, i) = code[i]
  BY <1>1
<1>8. IsCoded(note, first, code)
  BY <1>4, <1>5, <1>6 DEF IsCoded
<1> QED
  BY <1>7, <1>8

-----------------------------------------------------------------------------
(***************************************************************************)
(* The sections of a note, as sets of lines: W are the lines of headings,  *)
(* X those with text, P[1 .. m] the sections so far, up to line e.         *)
(***************************************************************************)
AreLines(W, X, code, first, N) ==
  /\ first \in Nat /\ N \in Nat /\ W \in SUBSET Nat
  /\ \A i \in first .. N : /\ i \notin X => code[i + 1] = code[i]
                           /\ i \in W => code[i] = FALSE /\ code[i + 1] = FALSE

(* The sections are apart and in order, and no heading is inside of one.   *)
AreApart(W, X, P, m) ==
  /\ m \in Nat \ {0} /\ P \in [1 .. m -> SUBSET Nat]
  /\ \A j, l \in 1 .. m : j < l => \A x \in P[j], y \in P[l] : x < y
  /\ \A j, l \in 1 .. m : j < l =>
       \A x \in P[j] \cap X, y \in P[l] \cap X : \E h \in W : x < h /\ h < y
  /\ \A j \in 1 .. m : \A x, y \in P[j] \cap X : \A h \in W : ~ (x < h /\ h < y)

HoldAll(W, P, m, first, e) ==
  /\ \A j \in 1 .. m : \A x \in P[j] : x \in first .. e - 1 /\ x \notin W
  /\ \A x \in first .. e - 1 : x \notin W => \E j \in 1 .. m : x \in P[j]

(* The last one is open, the others are over.                              *)
IsLastOpen(W, X, code, P, m, e) ==
  /\ \A j \in 1 .. m : j < m => \A x \in P[j] \cap X : \E h \in W : x < h /\ h < e
  /\ \A x \in P[m] \cap X : \A h \in W : ~ (x < h /\ h < e)
  /\ P[m] \cap X = {} => code[e] = FALSE

(* Their text begins outside of code.                                      *)
BeginOutside(X, code, P, m) ==
  \A j \in 1 .. m : \A x \in P[j] \cap X :
    (\A y \in P[j] \cap X : x <= y) => code[x] = FALSE

IsNoteCut(W, X, code, P, m, first, e) ==
  /\ AreApart(W, X, P, m) /\ HoldAll(W, P, m, first, e)
  /\ IsLastOpen(W, X, code, P, m, e) /\ BeginOutside(X, code, P, m)

LEMMA CutByText ==
  ASSUME NEW W, NEW X, NEW code, NEW first, NEW N, AreLines(W, X, code, first, N),
         NEW P, NEW m, NEW e \in first .. N, IsNoteCut(W, X, code, P, m, first, e), e \notin W,
         NEW Q, Q = [P EXCEPT ![m] = P[m] \cup {e}]
  PROVE  IsNoteCut(W, X, code, Q, m, first, e + 1)
<1>1. /\ first \in Nat /\ N \in Nat /\ e \in Nat /\ m \in Nat \ {0} /\ m \in 1 .. m
      /\ P \in [1 .. m -> SUBSET Nat] /\ W \in SUBSET Nat
  BY DEF AreLines, IsNoteCut, AreApart
<1>2. /\ Q \in [1 .. m -> SUBSET Nat] /\ Q[m] = P[m] \cup {e}
      /\ \A j \in 1 .. m : j # m => Q[j] = P[j]
  BY <1>1
<1>3. \A j \in 1 .. m : \A x \in P[j] : x \in Nat /\ x < e /\ first <= x /\ x \notin W
  BY <1>1 DEF IsNoteCut, HoldAll
<1>4. AreApart(W, X, Q, m)
  <2>1. ASSUME NEW j \in 1 .. m, NEW l \in 1 .. m, j < l, NEW x \in Q[j], NEW y \in Q[l]
        PROVE  x < y
    <3>1. x \in P[j]
      BY <1>1, <1>2, <2>1
    <3>2. CASE y = e
      BY <1>3, <3>1, <3>2
    <3>3. CASE y \in P[l]
      BY <2>1, <3>1, <3>3 DEF IsNoteCut, AreApart
    <3> QED
      BY <1>2, <3>2, <3>3
  <2>2. ASSUME NEW j \in 1 .. m, NEW l \in 1 .. m, j < l, NEW x \in Q[j] \cap X, NEW y \in Q[l] \cap X
        PROVE  \E h \in W : x < h /\ h < y
    <3>1. x \in P[j] /\ j < m
      BY <1>1, <1>2, <2>2
    <3>2. CASE y = e
      BY <2>2, <3>1, <3>2 DEF IsNoteCut, IsLastOpen
    <3>3. CASE y \in P[l]
      BY <2>2, <3>1, <3>3 DEF IsNoteCut, AreApart
    <3> QED
      BY <1>2, <3>2, <3>3
  <2>3. ASSUME NEW j \in 1 .. m, NEW x \in Q[j] \cap X, NEW y \in Q[j] \cap X, NEW h \in W, x < h, h < y
        PROVE  FALSE
    <3>1. h \in Nat
      BY <1>1
    <3>2. CASE x \in P[j] /\ y \in P[j]
      BY <2>3, <3>2 DEF IsNoteCut, AreApart
    <3>3. CASE x \in P[j] /\ j = m /\ y = e
      BY <2>3, <3>3 DEF IsNoteCut, IsLastOpen
    <3>4. CASE x = e
      <4>1. y <= e /\ y \in Nat
        BY <1>1, <1>2, <1>3
      <4> QED
        BY <1>1, <2>3, <3>1, <3>4, <4>1
    <3> QED
      BY <1>2, <3>2, <3>3, <3>4
  <2> QED
    BY <1>1, <1>2, <2>1, <2>2, <2>3 DEF AreApart
<1>5. HoldAll(W, Q, m, first, e + 1)
  <2>1. ASSUME NEW j \in 1 .. m, NEW x \in Q[j] PROVE x \in first .. (e + 1) - 1 /\ x \notin W
    <3>1. x \in P[j] \/ x = e
      BY <1>2
    <3> QED
      BY <1>1, <1>3, <3>1
  <2>2. ASSUME NEW x \in first .. (e + 1) - 1, x \notin W PROVE \E j \in 1 .. m : x \in Q[j]
    <3>1. CASE x = e
      BY <1>1, <1>2, <3>1
    <3>2. CASE x # e
      <4>1. x \in first .. e - 1
        BY <1>1, <3>2
      <4>2. PICK j \in 1 .. m : x \in P[j]
        BY <2>2, <4>1 DEF IsNoteCut, HoldAll
      <4> QED
        BY <1>2, <4>2
    <3> QED
      BY <3>1, <3>2
  <2> QED
    BY <2>1, <2>2 DEF HoldAll
<1>6. IsLastOpen(W, X, code, Q, m, e + 1)
  <2>1. ASSUME NEW j \in 1 .. m, j < m, NEW x \in Q[j] \cap X PROVE \E h \in W : x < h /\ h < e + 1
    <3>1. x \in P[j] \cap X
      BY <1>1, <1>2, <2>1
    <3>2. PICK h \in W : x < h /\ h < e
      BY <2>1, <3>1 DEF IsNoteCut, IsLastOpen
    <3>3. h < e + 1
      BY <1>1, <3>2
    <3> QED
      BY <3>2, <3>3
  <2>2. ASSUME NEW x \in Q[m] \cap X, NEW h \in W, x < h, h < e + 1 PROVE FALSE
    <3>1. h \in Nat /\ h < e
      BY <1>1, <2>2
    <3>2. x # e
      BY <1>1, <2>2, <3>1
    <3>3. x \in P[m] \cap X
      BY <1>2, <3>2
    <3> QED
      BY <2>2, <3>1, <3>3 DEF IsNoteCut, IsLastOpen
  <2>3. Q[m] \cap X = {} => code[e + 1] = FALSE
    BY <1>2 DEF IsNoteCut, IsLastOpen, AreLines
  <2> QED
    BY <2>1, <2>2, <2>3 DEF IsLastOpen
<1>7. BeginOutside(X, code, Q, m)
  <2>1. ASSUME NEW j \in 1 .. m, NEW x \in Q[j] \cap X, \A y \in Q[j] \cap X : x <= y
        PROVE  code[x] = FALSE
    <3>1. CASE x \in P[j]
      BY <1>2, <2>1, <3>1 DEF IsNoteCut, BeginOutside
    <3>2. CASE x = e /\ j = m
      <4>1. P[m] \cap X = {}
        <5>1. SUFFICES ASSUME NEW y \in P[m] \cap X PROVE FALSE
          OBVIOUS
        <5>2. y < e /\ y \in Nat /\ e <= y
          BY <1>1, <1>2, <1>3, <2>1, <3>2
        <5> QED
          BY <1>1, <5>2
      <4> QED
        BY <3>2, <4>1 DEF IsNoteCut, IsLastOpen
    <3> QED
      BY <1>2, <3>1, <3>2
  <2> QED
    BY <2>1 DEF BeginOutside
<1> QED
  BY <1>4, <1>5, <1>6, <1>7 DEF IsNoteCut

LEMMA CutByHeading ==
  ASSUME NEW W, NEW X, NEW code, NEW first, NEW N, AreLines(W, X, code, first, N),
         NEW P, NEW m, NEW e \in first .. N, IsNoteCut(W, X, code, P, m, first, e), e \in W,
         NEW Q, Q = [j \in 1 .. m + 1 |-> IF j = m + 1 THEN {} ELSE P[j]]
  PROVE  IsNoteCut(W, X, code, Q, m + 1, first, e + 1)
<1>1. /\ first \in Nat /\ N \in Nat /\ e \in Nat /\ m \in Nat \ {0} /\ m \in 1 .. m
      /\ m + 1 \in Nat \ {0} /\ m + 1 \in 1 .. m + 1
      /\ P \in [1 .. m -> SUBSET Nat] /\ W \in SUBSET Nat
  BY DEF AreLines, IsNoteCut, AreApart
<1>2. /\ Q \in [1 .. m + 1 -> SUBSET Nat] /\ Q[m + 1] = {}
      /\ \A j \in 1 .. m : Q[j] = P[j]
      /\ \A j \in 1 .. m + 1 : j \in 1 .. m \/ j = m + 1
  BY <1>1
<1>3. \A j \in 1 .. m : \A x \in P[j] : x \in Nat /\ x < e /\ first <= x /\ x \notin W
  BY <1>1 DEF IsNoteCut, HoldAll
<1>4. \A j \in 1 .. m + 1 : \A x \in Q[j] : j \in 1 .. m /\ x \in P[j]
  BY <1>2
<1>5. AreApart(W, X, Q, m + 1)
  <2>1. ASSUME NEW j \in 1 .. m + 1, NEW l \in 1 .. m + 1, j < l, NEW x \in Q[j], NEW y \in Q[l]
        PROVE  x < y
    BY <1>4, <2>1 DEF IsNoteCut, AreApart
  <2>2. ASSUME NEW j \in 1 .. m + 1, NEW l \in 1 .. m + 1, j < l, NEW x \in Q[j] \cap X, NEW y \in Q[l] \cap X
        PROVE  \E h \in W : x < h /\ h < y
    BY <1>4, <2>2 DEF IsNoteCut, AreApart
  <2>3. ASSUME NEW j \in 1 .. m + 1, NEW x \in Q[j] \cap X, NEW y \in Q[j] \cap X, NEW h \in W
        PROVE  ~ (x < h /\ h < y)
    BY <1>4, <2>3 DEF IsNoteCut, AreApart
  <2> QED
    BY <1>1, <1>2, <2>1, <2>2, <2>3 DEF AreApart
<1>6. HoldAll(W, Q, m + 1, first, e + 1)
  <2>1. ASSUME NEW j \in 1 .. m + 1, NEW x \in Q[j] PROVE x \in first .. (e + 1) - 1 /\ x \notin W
    <3>1. x \in Nat /\ x < e /\ first <= x /\ x \notin W
      BY <1>3, <1>4
    <3> QED
      BY <1>1, <3>1
  <2>2. ASSUME NEW x \in first .. (e + 1) - 1, x \notin W PROVE \E j \in 1 .. m + 1 : x \in Q[j]
    <3>1. x \in first .. e - 1
      BY <1>1, <2>2
    <3>2. PICK j \in 1 .. m : x \in P[j]
      BY <2>2, <3>1 DEF IsNoteCut, HoldAll
    <3>3. j \in 1 .. m + 1
      BY <1>1
    <3> QED
      BY <1>2, <3>2, <3>3
  <2> QED
    BY <2>1, <2>2 DEF HoldAll
<1>7. IsLastOpen(W, X, code, Q, m + 1, e + 1)
  <2>1. ASSUME NEW j \in 1 .. m + 1, j < m + 1, NEW x \in Q[j] \cap X PROVE \E h \in W : x < h /\ h < e + 1
    <3>1. x < e /\ e < e + 1
      BY <1>1, <1>3, <1>4
    <3> QED
      BY <3>1
  <2>2. code[e + 1] = FALSE
    BY DEF AreLines
  <2> QED
    BY <1>2, <2>1, <2>2 DEF IsLastOpen
<1>8. BeginOutside(X, code, Q, m + 1)
  BY <1>2, <1>4 DEF IsNoteCut, BeginOutside
<1> QED
  BY <1>5, <1>6, <1>7, <1>8 DEF IsNoteCut

LEMMA CutByFirstHeading ==
  ASSUME NEW W, NEW X, NEW code, NEW first, NEW N, AreLines(W, X, code, first, N),
         NEW P, NEW m, NEW e \in first .. N, IsNoteCut(W, X, code, P, m, first, e), e \in W,
         P[m] \cap X = {}
  PROVE  IsNoteCut(W, X, code, P, m, first, e + 1)
<1>1. /\ first \in Nat /\ N \in Nat /\ e \in Nat /\ m \in Nat \ {0} /\ m \in 1 .. m
      /\ P \in [1 .. m -> SUBSET Nat] /\ W \in SUBSET Nat
  BY DEF AreLines, IsNoteCut, AreApart
<1>2. \A j \in 1 .. m : \A x \in P[j] : x \in Nat /\ x < e /\ first <= x /\ x \notin W
  BY <1>1 DEF IsNoteCut, HoldAll
<1>3. HoldAll(W, P, m, first, e + 1)
  <2>1. ASSUME NEW j \in 1 .. m, NEW x \in P[j] PROVE x \in first .. (e + 1) - 1 /\ x \notin W
    <3>1. x \in Nat /\ x < e /\ first <= x /\ x \notin W
      BY <1>2
    <3> QED
      BY <1>1, <3>1
  <2>2. ASSUME NEW x \in first .. (e + 1) - 1, x \notin W PROVE \E j \in 1 .. m : x \in P[j]
    <3>1. x \in first .. e - 1
      BY <1>1, <2>2
    <3> QED
      BY <2>2, <3>1 DEF IsNoteCut, HoldAll
  <2> QED
    BY <2>1, <2>2 DEF HoldAll
<1>4. IsLastOpen(W, X, code, P, m, e + 1)
  <2>1. ASSUME NEW j \in 1 .. m, j < m, NEW x \in P[j] \cap X PROVE \E h \in W : x < h /\ h < e + 1
    <3>1. x < e /\ e < e + 1
      BY <1>1, <1>2
    <3> QED
      BY <3>1
  <2>2. code[e + 1] = FALSE
    BY DEF AreLines
  <2> QED
    BY <2>1, <2>2 DEF IsLastOpen
<1> QED
  BY <1>3, <1>4 DEF IsNoteCut

LEMMA CutAtFirst ==
  ASSUME NEW W, NEW X, NEW code, NEW first, NEW N, AreLines(W, X, code, first, N),
         first <= N + 1, code[first] = FALSE
  PROVE  IsNoteCut(W, X, code, [j \in 1 .. 1 |-> {}], 1, first, first)
<1> DEFINE P == [j \in 1 .. 1 |-> {}]
<1>1. P[1] = {} /\ P \in [1 .. 1 -> SUBSET Nat] /\ \A j \in 1 .. 1 : P[j] = {}
  OBVIOUS
<1>2. AreApart(W, X, P, 1)
  BY <1>1 DEF AreApart
<1>3. HoldAll(W, P, 1, first, first)
  <2>1. first .. first - 1 = {}
    BY DEF AreLines
  <2> QED
    BY <1>1, <2>1 DEF HoldAll
<1>4. IsLastOpen(W, X, code, P, 1, first)
  BY <1>1 DEF IsLastOpen
<1>5. BeginOutside(X, code, P, 1)
  BY <1>1 DEF BeginOutside
<1> QED
  BY <1>2, <1>3, <1>4, <1>5 DEF IsNoteCut

(* Lists of lines.                                                         *)
IsAppended(longer, lines, e) ==
  /\ longer \in Seq(Nat) /\ Rising(longer) /\ ToSet(longer) = ToSet(lines) \cup {e}

LEMMA AppendedIs ==
  ASSUME NEW lines \in Seq(Nat), Rising(lines), NEW e \in Nat, \A x \in ToSet(lines) : x < e
  PROVE  IsAppended(Append(lines, e), lines, e)
<1>1. PICK longer : longer = Append(lines, e)
  OBVIOUS
<1>2. /\ Len(lines) \in Nat /\ DOMAIN lines = 1 .. Len(lines)
      /\ \A k \in 1 .. Len(lines) : lines[k] \in Nat
  BY LenProperties, ElementOfSeq
<1>3. /\ longer \in Seq(Nat) /\ Len(longer) = Len(lines) + 1
      /\ \A k \in 1 .. Len(lines) : longer[k] = lines[k]
      /\ longer[Len(lines) + 1] = e
  BY <1>1, AppendProperties
<1>4. DOMAIN longer = 1 .. Len(lines) + 1
  BY <1>3, LenProperties
<1>5. \A k \in 1 .. Len(lines) : lines[k] < e
  BY <1>2 DEF ToSet
<1>6. Rising(longer)
  <2>1. ASSUME NEW k \in 1 .. Len(lines) + 1, NEW l \in 1 .. Len(lines) + 1, k < l
        PROVE  longer[k] < longer[l]
    <3>1. k \in 1 .. Len(lines)
      BY <1>2, <2>1
    <3>2. CASE l \in 1 .. Len(lines)
      BY <1>2, <1>3, <2>1, <3>1, <3>2 DEF Rising
    <3>3. CASE l = Len(lines) + 1
      BY <1>3, <1>5, <3>1, <3>3
    <3> QED
      BY <1>2, <3>2, <3>3
  <2> QED
    BY <1>4, <2>1 DEF Rising
<1>7. ToSet(longer) = ToSet(lines) \cup {e}
  <2>1. \A k \in 1 .. Len(lines) + 1 : k \in 1 .. Len(lines) \/ k = Len(lines) + 1
    BY <1>2
  <2>2. \A k \in 1 .. Len(lines) : k \in 1 .. Len(lines) + 1
    BY <1>2
  <2>3. Len(lines) + 1 \in 1 .. Len(lines) + 1
    BY <1>2
  <2> QED
    BY <1>2, <1>3, <1>4, <2>1, <2>2, <2>3 DEF ToSet
<1> QED
  BY <1>1, <1>3, <1>6, <1>7 DEF IsAppended

LEMMA NoLines ==
  <<>> \in Seq(Nat) /\ Rising(<<>>) /\ ToSet(<<>>) = {} /\ Len(<<>>) = 0
BY EmptySeq DEF Rising, ToSet

IsRetained(kept, note, path, level) ==
  /\ kept \in Seq(Nat) /\ Rising(kept)
  /\ ToSet(kept) = {h \in ToSet(path) : note[h].level < level}

LEMMA RetainedIs ==
  ASSUME NEW note, NEW path \in Seq(Nat), Rising(path), NEW level
  PROVE  IsRetained(Retained(note, path, level), note, path, level)
<1> DEFINE S == Seq(Nat)
           n == Len(path)
           Step(k, kept) == IF note[path[k]].level < level THEN Append(kept, path[k]) ELSE kept
           step == [k \in 1 .. n |-> [kept \in S |-> Step(k, kept)]]
<1>1. /\ n \in Nat /\ <<>> \in S /\ DOMAIN path = 1 .. n
      /\ \A k \in 1 .. n : path[k] \in Nat
  BY LenProperties, ElementOfSeq
<1>2. \A k \in 1 .. n : \A kept \in S : Step(k, kept) \in S
  BY <1>1, AppendProperties
<1> HIDE DEF Step, S
<1>3. step \in [1 .. n -> [S -> S]]
  BY <1>2
<1>4. PICK run \in [0 .. n -> S] :
        run[0] = <<>> /\ \A k \in 1 .. n : run[k] = step[k][run[k - 1]]
  <2>1. PICK a : a = <<>>
    OBVIOUS
  <2>2. \E run : IsRun(run, S, n, a, step)
    <3> HIDE DEF step, n
    <3> QED
      BY <1>1, <1>3, <2>1, RunsExist
  <2> QED
    BY <2>1, <2>2 DEF IsRun
<1>5. \A k \in 1 .. n : run[k] = Step(k, run[k - 1])
  <2>1. \A k \in 1 .. n : k - 1 \in 0 .. n
    BY <1>1
  <2>2. \A k \in 1 .. n : run[k - 1] \in S
    BY <1>4, <2>1
  <2> QED
    BY <1>1, <1>4, <2>2
<1> HIDE DEF step
<1> DEFINE F(x) == [k \in 0 .. n |->
                      IF k = 0 THEN <<>>
                      ELSE IF note[path[k]].level < level THEN Append(x[k - 1], path[k])
                      ELSE x[k - 1]]
<1>6. run = F(run)
  <2>1. \A k \in 0 .. n : run[k] = IF k = 0 THEN <<>> ELSE Step(k, run[k - 1])
    BY <1>1, <1>4, <1>5
  <2>2. run = [k \in 0 .. n |-> run[k]]
    BY <1>4
  <2>3. run = [k \in 0 .. n |-> IF k = 0 THEN <<>> ELSE Step(k, run[k - 1])]
    BY <2>1, <2>2, SMTT(40)
  <2> QED
    BY <2>3 DEF Step
<1> DEFINE lists == CHOOSE x : x = F(x)
<1>7. Retained(note, path, level) = lists[n]
  BY DEF Retained
<1>8. lists = F(lists)
  BY <1>6
<1> HIDE DEF lists
<1>9. lists[0] = <<>> /\ \A k \in 1 .. n : lists[k] = Step(k, lists[k - 1])
  <2>1. \A k \in 0 .. n : lists[k] = IF k = 0 THEN <<>> ELSE Step(k, lists[k - 1])
    BY <1>8 DEF Step
  <2>2. lists[0] = <<>>
    BY <1>1, <2>1
  <2>3. \A k \in 1 .. n : k \in 0 .. n /\ k # 0
    BY <1>1
  <2>4. \A k \in 1 .. n : lists[k] = Step(k, lists[k - 1])
    BY <2>1, <2>3
  <2> QED
    BY <2>2, <2>4
<1> HIDE DEF F
<1> DEFINE Low(k) == {path[l] : l \in {i \in 1 .. k : note[path[i]].level < level}}
           Good(k) == lists[k] \in Seq(Nat) /\ Rising(lists[k]) /\ ToSet(lists[k]) = Low(k)
           T == {k \in 0 .. n : ~ Good(k)}
<1>10. Good(0)
  <2>1. Low(0) = {}
    OBVIOUS
  <2> QED
    BY <1>9, <2>1, NoLines
<1>11. ASSUME NEW k \in 1 .. n, Good(k - 1) PROVE Good(k)
  <2>1. lists[k] = Step(k, lists[k - 1])
    BY <1>9
  <2>2. \A i \in 1 .. k : i \in 1 .. k - 1 \/ i = k
    BY <1>1
  <2>3. k \in 1 .. k /\ \A i \in 1 .. k - 1 : i \in 1 .. k /\ i \in 1 .. n /\ i < k
    BY <1>1
  <2>4. CASE ~ (note[path[k]].level < level)
    <3>1. Low(k) = Low(k - 1)
      BY <2>2, <2>3, <2>4
    <3> QED
      BY <1>11, <2>1, <2>4, <3>1 DEF Step
  <2>5. CASE note[path[k]].level < level
    <3>1. Low(k) = Low(k - 1) \cup {path[k]}
      BY <2>2, <2>3, <2>5
    <3>2. \A x \in Low(k - 1) : x < path[k]
      <4>1. \A i \in 1 .. k - 1 : path[i] < path[k]
        BY <1>1, <2>3 DEF Rising
      <4> QED
        BY <4>1
    <3>3. lists[k] = Append(lists[k - 1], path[k])
      BY <2>1, <2>5 DEF Step
    <3> HIDE DEF Low
    <3>4. IsAppended(Append(lists[k - 1], path[k]), lists[k - 1], path[k])
      BY <1>1, <1>11, <3>2, AppendedIs
    <3> QED
      BY <1>11, <3>1, <3>3, <3>4 DEF IsAppended
  <2> QED
    BY <2>4, <2>5
<1>12. Good(n)
  <2> HIDE DEF Good
  <2>1. SUFFICES ASSUME T # {} PROVE FALSE
    <3>1. n \in 0 .. n
      BY <1>1
    <3> QED
      BY <3>1
  <2>2. T \in SUBSET Nat
    BY <1>1
  <2>3. PICK k \in T : \A l \in T : k <= l
    BY <2>1, <2>2, LeastNumber
  <2>4. k # 0
    BY <1>10, <2>3
  <2>5. k \in 1 .. n /\ k - 1 \in 0 .. n /\ ~ (k <= k - 1)
    BY <1>1, <2>3, <2>4
  <2>6. Good(k - 1)
    BY <2>3, <2>5
  <2>7. Good(k)
    BY <1>11, <2>5, <2>6
  <2> QED
    BY <2>3, <2>7
<1>13. Low(n) = {h \in ToSet(path) : note[h].level < level}
  BY <1>1 DEF ToSet
<1> HIDE DEF Low
<1> QED
  BY <1>7, <1>12, <1>13 DEF IsRetained

WithText(note) == {i \in DOMAIN note : note[i].kind # "blank"}

LEMMA HasTextIs ==
  ASSUME NEW note \in Seq(Line), NEW lines, ToSet(lines) \subseteq DOMAIN note
  PROVE  HasText(note, lines) <=> ToSet(lines) \cap WithText(note) # {}
<1>1. ASSUME NEW k \in DOMAIN lines PROVE lines[k] \in ToSet(lines) /\ lines[k] \in DOMAIN note
  BY DEF ToSet
<1>2. ASSUME HasText(note, lines) PROVE ToSet(lines) \cap WithText(note) # {}
  <2>1. PICK k \in DOMAIN lines : note[lines[k]].kind # "blank"
    BY <1>2 DEF HasText, Is
  <2> QED
    BY <1>1, <2>1 DEF WithText
<1>3. ASSUME NEW x \in ToSet(lines) \cap WithText(note) PROVE HasText(note, lines)
  <2>1. PICK k \in DOMAIN lines : x = lines[k]
    BY DEF ToSet
  <2> QED
    BY <2>1 DEF HasText, Is, WithText
<1> QED
  BY <1>2, <1>3

(* The headings of a note, and those that are open at a line.              *)
HeadsOf(note, first, code) ==
  {i \in first .. Len(note) : IsHeader(note, i) /\ code[i] = FALSE}
OpenAt(note, W, x) ==
  {h \in W : h < x /\ \A g \in W : (h < g /\ g < x) => note[g].level > note[h].level}

LEMMA LinesAre ==
  ASSUME NEW note \in Seq(Line), NEW first \in 1 .. Len(note) + 1, NEW code,
         IsCoded(note, first, code)
  PROVE  /\ AreLines(HeadsOf(note, first, code), WithText(note), code, first, Len(note))
         /\ \A i \in HeadsOf(note, first, code) : i \in Nat /\ i \in WithText(note)
         /\ \A i \in DOMAIN note : note[i].level \in Nat
<1>1. Len(note) \in Nat /\ DOMAIN note = 1 .. Len(note) /\ first \in Nat
  BY LenProperties
<1>2. \A i \in first .. Len(note) : i \in DOMAIN note /\ i \in Nat
  BY <1>1
<1>3. \A i \in HeadsOf(note, first, code) :
        i \in first .. Len(note) /\ note[i].kind = "heading" /\ code[i] = FALSE
  BY DEF HeadsOf, IsHeader, Is
<1>4. \A i \in HeadsOf(note, first, code) : i \in Nat /\ i \in WithText(note)
  BY <1>2, <1>3 DEF WithText
<1>5. ASSUME NEW i \in first .. Len(note)
      PROVE  /\ i \notin WithText(note) => code[i + 1] = code[i]
             /\ i \in HeadsOf(note, first, code) => code[i] = FALSE /\ code[i + 1] = FALSE
  <2>1. code[i + 1] = IF note[i].kind = "fence" THEN ~ code[i] ELSE code[i]
    BY DEF IsCoded
  <2>2. i \notin WithText(note) => note[i].kind # "fence"
    BY <1>2 DEF WithText
  <2>3. i \in HeadsOf(note, first, code) => note[i].kind # "fence" /\ code[i] = FALSE
    BY <1>3
  <2> QED
    BY <2>1, <2>2, <2>3
<1>6. AreLines(HeadsOf(note, first, code), WithText(note), code, first, Len(note))
  BY <1>1, <1>4, <1>5 DEF AreLines, IsCoded
<1>7. \A i \in DOMAIN note : note[i].level \in Nat
  <2>1. ASSUME NEW i \in DOMAIN note PROVE note[i] \in Line
    BY <1>1, ElementOfSeq
  <2> QED
    BY <2>1 DEF Line
<1> QED
  BY <1>4, <1>6, <1>7

LEMMA OpenAtNext ==
  ASSUME NEW note, NEW W \in SUBSET Nat, NEW e \in Nat
  PROVE  /\ e \notin W => OpenAt(note, W, e + 1) = OpenAt(note, W, e)
         /\ (e \in W /\ \A h \in W : note[h].level \in Nat) =>
              OpenAt(note, W, e + 1)
                = {h \in OpenAt(note, W, e) : note[h].level < note[e].level} \cup {e}
<1>1. \A h \in W : h \in Nat /\ (h < e + 1 <=> h < e \/ h = e)
  OBVIOUS
<1>2. ASSUME e \notin W PROVE OpenAt(note, W, e + 1) = OpenAt(note, W, e)
  <2>1. \A h \in W : h < e + 1 <=> h < e
    BY <1>1, <1>2
  <2> QED
    BY <2>1 DEF OpenAt
<1>3. ASSUME e \in W, \A h \in W : note[h].level \in Nat
      PROVE  OpenAt(note, W, e + 1)
                = {h \in OpenAt(note, W, e) : note[h].level < note[e].level} \cup {e}
  <2>1. ASSUME NEW h \in OpenAt(note, W, e + 1), h # e
        PROVE  h \in OpenAt(note, W, e) /\ note[h].level < note[e].level
    <3>1. h \in W /\ h < e
      BY <1>1, <2>1 DEF OpenAt
    <3>2. \A g \in W : (h < g /\ g < e + 1) => note[g].level > note[h].level
      BY DEF OpenAt
    <3>3. \A g \in W : (h < g /\ g < e) => note[g].level > note[h].level
      BY <1>1, <3>2
    <3>4. note[e].level > note[h].level
      BY <1>1, <1>3, <3>1, <3>2
    <3> QED
      BY <1>3, <3>1, <3>3, <3>4 DEF OpenAt
  <2>2. ASSUME NEW h \in OpenAt(note, W, e), note[h].level < note[e].level
        PROVE  h \in OpenAt(note, W, e + 1)
    <3>1. h \in W /\ h < e /\ h < e + 1
      BY <1>1 DEF OpenAt
    <3>2. ASSUME NEW g \in W, h < g, g < e + 1 PROVE note[g].level > note[h].level
      <4>1. CASE g = e
        BY <1>3, <2>2, <3>1, <4>1
      <4>2. CASE g < e
        BY <3>2, <4>2 DEF OpenAt
      <4> QED
        BY <1>1, <3>2, <4>1, <4>2
    <3> QED
      BY <3>1, <3>2 DEF OpenAt
  <2>3. e \in OpenAt(note, W, e + 1)
    <3>1. e < e + 1 /\ \A g \in W : ~ (e < g /\ g < e + 1)
      BY <1>1
    <3> QED
      BY <1>3, <3>1 DEF OpenAt
  <2> QED
    BY <2>1, <2>2, <2>3
<1> QED
  BY <1>2, <1>3

Section == [path : Seq(Nat), body : Seq(Nat)]
Bodies(all) == [j \in 1 .. Len(all) |-> ToSet(all[j].body)]

HavePaths(note, W, all, e) ==
  /\ \A j \in 1 .. Len(all) : \A x \in ToSet(all[j].body) \cap WithText(note) :
       ToSet(all[j].path) = OpenAt(note, W, x)
  /\ ToSet(all[Len(all)].path) = OpenAt(note, W, e)

AreRising(all) ==
  \A j \in 1 .. Len(all) : Rising(all[j].path) /\ Rising(all[j].body)

AreSections(note, first, code, all, e) ==
  /\ all \in Seq(Section)
  /\ IsNoteCut(HeadsOf(note, first, code), WithText(note), code, Bodies(all), Len(all), first, e)
  /\ HavePaths(note, HeadsOf(note, first, code), all, e) /\ AreRising(all)

LEMMA SectionsAre ==
  ASSUME NEW note \in Seq(Line), NEW first \in 1 .. Len(note) + 1, NEW code,
         IsCoded(note, first, code), NEW all, NEW e, AreSections(note, first, code, all, e)
  PROVE  /\ Len(all) \in Nat \ {0} /\ Len(all) \in 1 .. Len(all)
         /\ HeadsOf(note, first, code) \in SUBSET Nat
         /\ \A h \in HeadsOf(note, first, code) : note[h].level \in Nat
         /\ \A i \in first .. Len(note) : i \in Nat /\ i \in DOMAIN note
<1>1. Len(all) \in Nat \ {0}
  BY DEF AreSections, IsNoteCut, AreApart
<1>2. HeadsOf(note, first, code) \in SUBSET Nat
  BY LinesAre
<1>3. \A i \in first .. Len(note) : i \in Nat /\ i \in DOMAIN note
  BY LenProperties
<1>4. \A h \in HeadsOf(note, first, code) : h \in DOMAIN note
  BY <1>3 DEF HeadsOf
<1>5. \A h \in HeadsOf(note, first, code) : note[h].level \in Nat
  BY <1>4, LinesAre
<1> QED
  BY <1>1, <1>2, <1>3, <1>5

LEMMA SectionsByText ==
  ASSUME NEW note \in Seq(Line), NEW first \in 1 .. Len(note) + 1, NEW code,
         IsCoded(note, first, code), NEW all, NEW e \in first .. Len(note),
         AreSections(note, first, code, all, e), e \notin HeadsOf(note, first, code),
         NEW more \in Seq(Section), NEW m, m = Len(all), Len(more) = m,
         \A j \in 1 .. m : j < m => more[j] = all[j],
         more[m].path = all[m].path, IsAppended(more[m].body, all[m].body, e)
  PROVE  AreSections(note, first, code, more, e + 1)
<1> DEFINE W == HeadsOf(note, first, code)
           X == WithText(note)
           N == Len(note)
           P == Bodies(all)
           Q == [P EXCEPT ![m] = P[m] \cup {e}]
<1>a. AreLines(W, X, code, first, N)
  BY LinesAre
<1>b. IsNoteCut(W, X, code, P, m, first, e)
  BY DEF AreSections
<1>1. m \in Nat \ {0} /\ m \in 1 .. m /\ e \in Nat /\ W \in SUBSET Nat
  BY SectionsAre
<1>2. IsNoteCut(W, X, code, Q, m, first, e + 1)
  <2>1. e \in first .. N /\ e \notin W
    OBVIOUS
  <2> HIDE DEF W, X, N, P
  <2> QED
    BY <1>a, <1>b, <2>1, CutByText
<1>3. Bodies(more) = Q
  <2>1. ToSet(more[m].body) = ToSet(all[m].body) \cup {e}
    BY DEF IsAppended
  <2>2. ASSUME NEW j \in 1 .. m PROVE ToSet(more[j].body) = Q[j]
    <3>1. P[j] = ToSet(all[j].body) /\ Q[j] = IF j = m THEN P[m] \cup {e} ELSE P[j]
      BY DEF Bodies
    <3>2. j < m \/ j = m
      BY <1>1
    <3> QED
      BY <2>1, <3>1, <3>2
  <2> QED
    BY <2>2 DEF Bodies
<1>4. OpenAt(note, W, e + 1) = OpenAt(note, W, e)
  BY <1>1, OpenAtNext
<1>5. HavePaths(note, W, more, e + 1)
  <2>1. ASSUME NEW j \in 1 .. m, NEW x \in ToSet(more[j].body) \cap X
        PROVE  ToSet(more[j].path) = OpenAt(note, W, x)
    <3>1. CASE x \in ToSet(all[j].body)
      <4>1. more[j].path = all[j].path
        BY <1>1
      <4> QED
        BY <3>1, <4>1 DEF AreSections, HavePaths
    <3>2. CASE j = m /\ x = e
      BY <3>2 DEF AreSections, HavePaths
    <3>3. x \in ToSet(all[j].body) \/ (j = m /\ x = e)
      BY <1>1 DEF IsAppended
    <3> QED
      BY <3>1, <3>2, <3>3
  <2>2. ToSet(more[m].path) = OpenAt(note, W, e + 1)
    BY <1>4 DEF AreSections, HavePaths
  <2> QED
    BY <2>1, <2>2 DEF HavePaths
<1>6. AreRising(more)
  <2>1. ASSUME NEW j \in 1 .. m PROVE Rising(more[j].path) /\ Rising(more[j].body)
    <3>1. j < m \/ j = m
      BY <1>1
    <3> QED
      BY <3>1 DEF AreSections, AreRising, IsAppended
  <2> QED
    BY <2>1 DEF AreRising
<1> QED
  BY <1>2, <1>3, <1>5, <1>6 DEF AreSections

OpenAfter(note, W, e) == OpenAt(note, W, e + 1)
AreSectionsAfter(note, first, code, all, e) == AreSections(note, first, code, all, e + 1)

(* With a section that a heading begins.                                   *)
IsBegun(more, all, note, W, e) ==
  /\ more \in Seq(Section) /\ Len(more) = Len(all) + 1
  /\ \A j \in 1 .. Len(all) : more[j] = all[j]
  /\ more[Len(more)].body = <<>> /\ Rising(more[Len(more)].path)
  /\ ToSet(more[Len(more)].path) = OpenAfter(note, W, e)

LEMMA SectionsByHeading ==
  ASSUME NEW note \in Seq(Line), NEW first \in 1 .. Len(note) + 1, NEW code,
         IsCoded(note, first, code), NEW all, NEW e \in first .. Len(note),
         AreSections(note, first, code, all, e), e \in HeadsOf(note, first, code),
         NEW more, IsBegun(more, all, note, HeadsOf(note, first, code), e)
  PROVE  AreSectionsAfter(note, first, code, more, e)
<1>0. PICK m : m = Len(all)
  OBVIOUS
<1>d. /\ more \in Seq(Section) /\ Len(more) = m + 1
      /\ \A j \in 1 .. m : more[j] = all[j]
      /\ more[m + 1].body = <<>> /\ Rising(more[m + 1].path)
      /\ ToSet(more[m + 1].path) = OpenAt(note, HeadsOf(note, first, code), e + 1)
  BY <1>0 DEF IsBegun, OpenAfter
<1> DEFINE W == HeadsOf(note, first, code)
           X == WithText(note)
           N == Len(note)
           P == Bodies(all)
           Q == [j \in 1 .. m + 1 |-> IF j = m + 1 THEN {} ELSE P[j]]
<1>a. AreLines(W, X, code, first, N)
  BY LinesAre
<1>b. IsNoteCut(W, X, code, P, m, first, e)
  BY <1>0 DEF AreSections
<1>c. m \in Nat \ {0} /\ m \in 1 .. m /\ e \in Nat /\ W \in SUBSET Nat
  BY <1>0, SectionsAre
<1>1. m \in Nat \ {0} /\ e \in Nat /\ \A j \in 1 .. m + 1 : j # m + 1 => j \in 1 .. m
  BY <1>c
<1>2. IsNoteCut(W, X, code, Q, m + 1, first, e + 1)
  <2>1. e \in first .. N /\ e \in W
    OBVIOUS
  <2> HIDE DEF W, X, N, P
  <2> QED
    BY <1>a, <1>b, <2>1, CutByHeading
<1>3. Bodies(more) = Q
  <2>1. \A j \in 1 .. m + 1 : ToSet(more[j].body) = Q[j]
    BY <1>0, <1>1, <1>d, NoLines DEF Bodies
  <2> QED
    BY <1>d, <2>1 DEF Bodies
<1>4. HavePaths(note, W, more, e + 1)
  <2>1. ASSUME NEW j \in 1 .. m + 1, NEW x \in ToSet(more[j].body) \cap X
        PROVE  ToSet(more[j].path) = OpenAt(note, W, x)
    <3>1. j # m + 1
      BY <1>d, <2>1, NoLines
    <3> QED
      BY <1>0, <1>1, <1>d, <2>1, <3>1 DEF AreSections, HavePaths
  <2> QED
    BY <1>d, <2>1 DEF HavePaths
<1>5. AreRising(more)
  <2>1. ASSUME NEW j \in 1 .. m + 1 PROVE Rising(more[j].path) /\ Rising(more[j].body)
    BY <1>0, <1>1, <1>d, NoLines DEF AreSections, AreRising
  <2> QED
    BY <1>d, <2>1 DEF AreRising
<1> QED
  BY <1>2, <1>3, <1>4, <1>5, <1>d DEF AreSections, AreSectionsAfter

LEMMA SectionsByFirst ==
  ASSUME NEW note \in Seq(Line), NEW first \in 1 .. Len(note) + 1, NEW code,
         IsCoded(note, first, code), NEW all, NEW e \in first .. Len(note),
         AreSections(note, first, code, all, e), e \in HeadsOf(note, first, code),
         NEW more \in Seq(Section), NEW m, m = Len(all), Len(more) = m,
         \A j \in 1 .. m : j < m => more[j] = all[j],
         more[m].body = all[m].body, ToSet(all[m].body) \cap WithText(note) = {},
         Rising(more[m].path),
         ToSet(more[m].path) = OpenAt(note, HeadsOf(note, first, code), e + 1)
  PROVE  AreSections(note, first, code, more, e + 1)
<1> DEFINE W == HeadsOf(note, first, code)
           X == WithText(note)
           N == Len(note)
           P == Bodies(all)
<1>a. AreLines(W, X, code, first, N)
  BY LinesAre
<1>b. IsNoteCut(W, X, code, P, m, first, e)
  BY DEF AreSections
<1>c. m \in Nat \ {0} /\ m \in 1 .. m /\ e \in Nat /\ W \in SUBSET Nat
  BY SectionsAre
<1>1. m \in 1 .. m /\ e \in Nat /\ \A j \in 1 .. m : j # m => j < m
  BY <1>c
<1>2. P[m] \cap X = {}
  BY <1>1 DEF Bodies
<1>3. IsNoteCut(W, X, code, P, m, first, e + 1)
  <2>1. e \in first .. N /\ e \in W
    OBVIOUS
  <2> HIDE DEF W, X, N, P
  <2> QED
    BY <1>a, <1>b, <1>2, <2>1, CutByFirstHeading
<1>4. Bodies(more) = P
  <2>1. \A j \in 1 .. m : ToSet(more[j].body) = ToSet(all[j].body)
    BY <1>1
  <2> QED
    BY <2>1 DEF Bodies
<1>5. HavePaths(note, W, more, e + 1)
  <2>1. ASSUME NEW j \in 1 .. m, NEW x \in ToSet(more[j].body) \cap X
        PROVE  ToSet(more[j].path) = OpenAt(note, W, x)
    <3>1. j # m
      BY <2>1
    <3> QED
      BY <1>1, <2>1, <3>1 DEF AreSections, HavePaths
  <2> QED
    BY <2>1 DEF HavePaths
<1>6. AreRising(more)
  <2>1. ASSUME NEW j \in 1 .. m PROVE Rising(more[j].path) /\ Rising(more[j].body)
    BY <1>1 DEF AreSections, AreRising
  <2> QED
    BY <2>1 DEF AreRising
<1> QED
  BY <1>3, <1>4, <1>5, <1>6 DEF AreSections

LEMMA StepByStep ==
  ASSUME NEW n \in Nat, NEW T, 0 \in T, \A k \in 1 .. n : k - 1 \in T => k \in T
  PROVE  \A k \in 0 .. n : k \in T
<1> DEFINE U == {k \in 0 .. n : k \notin T}
<1>1. SUFFICES ASSUME U # {} PROVE FALSE
  OBVIOUS
<1>2. U \in SUBSET Nat
  OBVIOUS
<1>3. PICK k \in U : \A l \in U : k <= l
  BY <1>1, <1>2, LeastNumber
<1>4. k # 0 /\ k \in 0 .. n /\ k \notin T
  BY <1>3
<1>5. k \in 1 .. n /\ k - 1 \in 0 .. n /\ ~ (k <= k - 1)
  BY <1>4
<1>6. k - 1 \in T
  BY <1>3, <1>5
<1> QED
  BY <1>4, <1>5, <1>6

SplitState == [sections : Seq(Section), path : Seq(Nat), body : Seq(Nat), inCode : BOOLEAN]
AllOf(s) == Append(s.sections, [path |-> s.path, body |-> s.body])

LEMMA AllOfIs ==
  ASSUME NEW s \in SplitState
  PROVE  /\ AllOf(s) \in Seq(Section) /\ Len(AllOf(s)) = Len(s.sections) + 1
         /\ Len(s.sections) \in Nat
         /\ \A j \in 1 .. Len(s.sections) : AllOf(s)[j] = s.sections[j]
         /\ AllOf(s)[Len(s.sections) + 1] = [path |-> s.path, body |-> s.body]
<1>1. s.sections \in Seq(Section) /\ [path |-> s.path, body |-> s.body] \in Section
  BY DEF SplitState, Section
<1>2. Len(s.sections) \in Nat
  BY <1>1, LenProperties
<1> QED
  BY <1>1, <1>2, AppendProperties DEF AllOf

LEMMA LastIsOpen ==
  ASSUME NEW note \in Seq(Line), NEW first \in 1 .. Len(note) + 1, NEW code,
         IsCoded(note, first, code), NEW s \in SplitState, NEW e \in first .. Len(note),
         AreSections(note, first, code, AllOf(s), e)
  PROVE  /\ s.path \in Seq(Nat) /\ Rising(s.path) /\ s.body \in Seq(Nat) /\ Rising(s.body)
         /\ ToSet(s.path) = OpenAt(note, HeadsOf(note, first, code), e)
         /\ \A x \in ToSet(s.body) : x \in first .. e - 1
         /\ ToSet(s.body) \subseteq DOMAIN note
<1> DEFINE all == AllOf(s)
           m == Len(all)
<1>1. m \in Nat \ {0} /\ m \in 1 .. m /\ \A i \in first .. Len(note) : i \in Nat /\ i \in DOMAIN note
  BY SectionsAre
<1>2. all[m].path = s.path /\ all[m].body = s.body
  <2>1. m = Len(s.sections) + 1 /\ all[Len(s.sections) + 1] = [path |-> s.path, body |-> s.body]
    BY AllOfIs
  <2> QED
    BY <2>1
<1>3. s.path \in Seq(Nat) /\ s.body \in Seq(Nat)
  BY DEF SplitState
<1>4. Rising(s.path) /\ Rising(s.body)
  BY <1>1, <1>2 DEF AreSections, AreRising
<1>5. ToSet(s.path) = OpenAt(note, HeadsOf(note, first, code), e)
  BY <1>2 DEF AreSections, HavePaths
<1>6. ASSUME NEW x \in ToSet(s.body) PROVE x \in first .. e - 1
  <2>1. Bodies(all)[m] = ToSet(s.body)
    BY <1>1, <1>2 DEF Bodies
  <2> QED
    BY <1>1, <2>1 DEF AreSections, IsNoteCut, HoldAll
<1>7. \A x \in first .. e - 1 : x \in first .. Len(note)
  BY <1>1, LenProperties
<1> QED
  BY <1>1, <1>3, <1>4, <1>5, <1>6, <1>7

IsPath(path, note, W, e) ==
  path \in Seq(Nat) /\ Rising(path) /\ ToSet(path) = OpenAfter(note, W, e)

LEMMA PathBelow ==
  ASSUME NEW note \in Seq(Line), NEW first \in 1 .. Len(note) + 1, NEW code,
         IsCoded(note, first, code), NEW s \in SplitState, NEW e \in first .. Len(note),
         AreSections(note, first, code, AllOf(s), e), e \in HeadsOf(note, first, code)
  PROVE  IsPath(Append(Retained(note, s.path, note[e].level), e),
                note, HeadsOf(note, first, code), e)
<1> DEFINE W == HeadsOf(note, first, code)
           level == note[e].level
<1>1. /\ s.path \in Seq(Nat) /\ Rising(s.path) /\ ToSet(s.path) = OpenAt(note, W, e)
  BY LastIsOpen
<1>2. /\ W \in SUBSET Nat /\ \A h \in W : note[h].level \in Nat
      /\ e \in Nat
  BY SectionsAre
<1>3. PICK kept : kept = Retained(note, s.path, level)
  OBVIOUS
<1>4. IsRetained(kept, note, s.path, level)
  BY <1>1, <1>3, RetainedIs
<1>5. kept \in Seq(Nat) /\ Rising(kept)
      /\ ToSet(kept) = {h \in OpenAt(note, W, e) : note[h].level < level}
  BY <1>1, <1>4 DEF IsRetained
<1>6. \A x \in ToSet(kept) : x < e
  BY <1>5 DEF OpenAt
<1>7. IsAppended(Append(kept, e), kept, e)
  BY <1>2, <1>5, <1>6, AppendedIs
<1>8. OpenAt(note, W, e + 1) = {h \in OpenAt(note, W, e) : note[h].level < level} \cup {e}
  BY <1>2, OpenAtNext
<1> QED
  BY <1>3, <1>5, <1>7, <1>8 DEF IsAppended, IsPath, OpenAfter

LEMMA HeaderStepOnText ==
  ASSUME NEW note \in Seq(Line), NEW first \in 1 .. Len(note) + 1, NEW code,
         IsCoded(note, first, code), NEW s \in SplitState, NEW e \in first .. Len(note),
         s.inCode = code[e], AreSections(note, first, code, AllOf(s), e),
         Is(note, e, "fence") \/ s.inCode \/ ~ IsHeader(note, e),
         NEW t, t = HeaderStep(note, s, e)
  PROVE  /\ t \in SplitState /\ t.inCode = code[e + 1]
         /\ AreSections(note, first, code, AllOf(t), e + 1)
<1> DEFINE W == HeadsOf(note, first, code)
           all == AllOf(s)
           n == Len(s.sections)
<1>1. t = [s EXCEPT !.body = Append(@, e),
                    !.inCode = IF Is(note, e, "fence") THEN ~ @ ELSE @]
  BY DEF HeaderStep
<1>2. /\ t.sections = s.sections /\ t.path = s.path /\ t.body = Append(s.body, e)
      /\ t.inCode = IF Is(note, e, "fence") THEN ~ s.inCode ELSE s.inCode
  BY <1>1 DEF SplitState
<1>3. /\ s.body \in Seq(Nat) /\ Rising(s.body) /\ \A x \in ToSet(s.body) : x \in first .. e - 1
  BY LastIsOpen
<1>4. e \in Nat /\ first \in Nat
  BY SectionsAre, LenProperties
<1>5. IsAppended(t.body, s.body, e)
  <2>1. \A x \in ToSet(s.body) : x < e
    BY <1>3, <1>4
  <2> QED
    BY <1>2, <1>3, <1>4, <2>1, AppendedIs
<1>6. t \in SplitState
  <2>1. t.body \in Seq(Nat)
    BY <1>5 DEF IsAppended
  <2>2. t.inCode \in BOOLEAN
    BY <1>2 DEF SplitState
  <2> QED
    BY <1>1, <1>2, <2>1, <2>2 DEF SplitState
<1>7. t.inCode = code[e + 1]
  BY <1>2 DEF IsCoded, Is
<1>8. e \notin W
  BY DEF HeadsOf, IsHeader, Is
<1>9. /\ AllOf(t) \in Seq(Section) /\ Len(AllOf(t)) = n + 1 /\ Len(all) = n + 1 /\ n \in Nat
      /\ \A j \in 1 .. n : AllOf(t)[j] = s.sections[j] /\ all[j] = s.sections[j]
      /\ AllOf(t)[n + 1] = [path |-> s.path, body |-> t.body]
      /\ all[n + 1] = [path |-> s.path, body |-> s.body]
  <2>1. t.sections = s.sections /\ t.path = s.path /\ t \in SplitState
    BY <1>2, <1>6
  <2>2. /\ AllOf(t) \in Seq(Section) /\ Len(AllOf(t)) = Len(t.sections) + 1
        /\ \A j \in 1 .. Len(t.sections) : AllOf(t)[j] = t.sections[j]
        /\ AllOf(t)[Len(t.sections) + 1] = [path |-> t.path, body |-> t.body]
    BY <2>1, AllOfIs
  <2>3. /\ Len(all) = n + 1 /\ n \in Nat /\ \A j \in 1 .. n : all[j] = s.sections[j]
        /\ all[n + 1] = [path |-> s.path, body |-> s.body]
    BY AllOfIs
  <2> QED
    BY <2>1, <2>2, <2>3
<1>10. /\ \A j \in 1 .. n + 1 : j < n + 1 => AllOf(t)[j] = all[j]
       /\ AllOf(t)[n + 1].path = all[n + 1].path
       /\ IsAppended(AllOf(t)[n + 1].body, all[n + 1].body, e)
  <2>1. \A j \in 1 .. n + 1 : j < n + 1 => j \in 1 .. n
    BY <1>9
  <2>2. \A j \in 1 .. n : AllOf(t)[j] = all[j]
    BY <1>9
  <2>3. AllOf(t)[n + 1].path = s.path /\ all[n + 1].path = s.path
        /\ AllOf(t)[n + 1].body = t.body /\ all[n + 1].body = s.body
    BY <1>9
  <2> QED
    BY <1>5, <2>1, <2>2, <2>3
<1>11. AreSections(note, first, code, AllOf(t), e + 1)
  <2>1. PICK m, more, b : m = n + 1 /\ more = AllOf(t) /\ b = all
    OBVIOUS
  <2>2. /\ AreSections(note, first, code, b, e) /\ e \notin HeadsOf(note, first, code)
        /\ more \in Seq(Section) /\ m = Len(b) /\ Len(more) = m
        /\ \A j \in 1 .. m : j < m => more[j] = b[j]
        /\ more[m].path = b[m].path /\ IsAppended(more[m].body, b[m].body, e)
    BY <1>8, <1>9, <1>10, <2>1
  <2>3. AreSections(note, first, code, more, e + 1)
    BY <2>2, SectionsByText
  <2> QED
    BY <2>1, <2>3
<1> QED
  BY <1>6, <1>7, <1>11

LEMMA HeaderStepOnHeading ==
  ASSUME NEW note \in Seq(Line), NEW first \in 1 .. Len(note) + 1, NEW code,
         IsCoded(note, first, code), NEW s \in SplitState, NEW e \in first .. Len(note),
         s.inCode = code[e], AreSections(note, first, code, AllOf(s), e),
         ~ (Is(note, e, "fence") \/ s.inCode \/ ~ IsHeader(note, e)),
         NEW t, t = HeaderStep(note, s, e)
  PROVE  /\ t \in SplitState /\ t.inCode = code[e + 1]
         /\ AreSections(note, first, code, AllOf(t), e + 1)
<1> DEFINE W == HeadsOf(note, first, code)
           all == AllOf(s)
           n == Len(s.sections)
           flush == HasText(note, s.body) \/ s.path # <<>>
<1>1. PICK path : path = Append(Retained(note, s.path, note[e].level), e)
  OBVIOUS
<1>2. t = [sections |-> IF flush
                        THEN Append(s.sections, [path |-> s.path, body |-> s.body])
                        ELSE s.sections,
           path |-> path, body |-> IF flush THEN <<>> ELSE s.body, inCode |-> FALSE]
  BY <1>1 DEF HeaderStep
<1>3. e \in W /\ code[e + 1] = FALSE
  BY DEF HeadsOf, IsHeader, Is, IsCoded
<1>4. IsPath(path, note, W, e)
  BY <1>1, <1>3, PathBelow
<1>5. /\ s.body \in Seq(Nat) /\ s.path \in Seq(Nat) /\ ToSet(s.body) \subseteq DOMAIN note
  BY LastIsOpen
<1>6. /\ all \in Seq(Section) /\ Len(all) = n + 1 /\ n \in Nat
      /\ \A j \in 1 .. n : all[j] = s.sections[j]
      /\ all[n + 1] = [path |-> s.path, body |-> s.body]
  BY AllOfIs
<1>7. s.sections \in Seq(Section)
  BY DEF SplitState
<1> HIDE DEF flush
<1>8. CASE flush
  <2>1. t = [sections |-> all, path |-> path, body |-> <<>>, inCode |-> FALSE]
    BY <1>2, <1>8 DEF AllOf
  <2>2. t \in SplitState
    BY <1>4, <1>6, <2>1, EmptySeq DEF SplitState, IsPath
  <2>3. /\ AllOf(t) \in Seq(Section) /\ Len(AllOf(t)) = Len(all) + 1
        /\ \A j \in 1 .. Len(all) : AllOf(t)[j] = all[j]
        /\ AllOf(t)[Len(all) + 1] = [path |-> path, body |-> <<>>]
    <3>1. t.sections = all /\ t.path = path /\ t.body = <<>>
      BY <2>1
    <3> QED
      BY <2>2, <3>1, AllOfIs
  <2>4. IsBegun(AllOf(t), all, note, W, e)
    <3>1. AllOf(t)[Len(AllOf(t))] = [path |-> path, body |-> <<>>]
      BY <2>3
    <3> QED
      BY <1>4, <2>3, <3>1 DEF IsBegun, IsPath
  <2>6. AreSectionsAfter(note, first, code, AllOf(t), e)
    <3> HIDE DEF all
    <3>1. PICK more, b : more = AllOf(t) /\ b = all
      OBVIOUS
    <3>2. AreSections(note, first, code, b, e) /\ IsBegun(more, b, note, W, e)
      BY <2>4, <3>1 DEF all
    <3>3. AreSectionsAfter(note, first, code, more, e)
      BY <1>3, <3>2, SectionsByHeading
    <3> QED
      BY <3>1, <3>3
  <2>7. t.inCode = code[e + 1]
    <3>1. t.inCode = FALSE
      BY <2>1
    <3> QED
      BY <1>3, <3>1, Zenon
  <2> QED
    BY <2>2, <2>6, <2>7 DEF AreSectionsAfter
<1>9. CASE ~ flush
  <2>1. t = [sections |-> s.sections, path |-> path, body |-> s.body, inCode |-> FALSE]
    BY <1>2, <1>9
  <2>2. t \in SplitState
    BY <1>4, <1>5, <1>7, <2>1 DEF SplitState, IsPath
  <2>3. /\ AllOf(t) \in Seq(Section) /\ Len(AllOf(t)) = n + 1
        /\ \A j \in 1 .. n : AllOf(t)[j] = s.sections[j]
        /\ AllOf(t)[n + 1] = [path |-> path, body |-> s.body]
    <3>1. t.sections = s.sections /\ t.path = path /\ t.body = s.body
      BY <2>1
    <3> QED
      BY <2>2, <3>1, AllOfIs
  <2>4. ToSet(s.body) \cap WithText(note) = {}
    BY <1>5, <1>9, HasTextIs DEF flush
  <2>5. PICK m, more, b : m = n + 1 /\ more = AllOf(t) /\ b = all
    OBVIOUS
  <2>6. /\ AreSections(note, first, code, b, e) /\ e \in HeadsOf(note, first, code)
        /\ more \in Seq(Section) /\ m = Len(b) /\ Len(more) = m
    BY <1>3, <1>6, <2>3, <2>5
  <2>7. \A j \in 1 .. m : j < m => more[j] = b[j]
    <3>1. \A j \in 1 .. m : j < m => j \in 1 .. n
      BY <1>6, <2>5
    <3> QED
      BY <1>6, <2>3, <2>5, <3>1
  <2>8. /\ more[m].body = b[m].body /\ ToSet(b[m].body) \cap WithText(note) = {}
        /\ Rising(more[m].path)
        /\ ToSet(more[m].path) = OpenAt(note, HeadsOf(note, first, code), e + 1)
    <3>1. more[m].path = path /\ more[m].body = s.body /\ b[m].body = s.body
      BY <1>6, <2>3, <2>5
    <3> QED
      BY <1>4, <2>4, <3>1 DEF IsPath, OpenAfter
  <2>9. AreSections(note, first, code, more, e + 1)
    BY <2>6, <2>7, <2>8, SectionsByFirst
  <2>10. t.inCode = code[e + 1]
    <3>1. t.inCode = FALSE
      BY <2>1
    <3> QED
      BY <1>3, <3>1, Zenon
  <2> QED
    BY <2>2, <2>5, <2>9, <2>10
<1> QED
  BY <1>8, <1>9

LEMMA BeforeFirst ==
  ASSUME NEW note \in Seq(Line), NEW first \in 1 .. Len(note) + 1, NEW code,
         IsCoded(note, first, code), NEW s,
         s = [sections |-> <<>>, path |-> <<>>, body |-> <<>>, inCode |-> FALSE]
  PROVE  /\ s \in SplitState /\ s.inCode = code[first]
         /\ AreSections(note, first, code, AllOf(s), first)
<1> DEFINE W == HeadsOf(note, first, code)
           X == WithText(note)
           all == AllOf(s)
<1>1. s \in SplitState
  BY EmptySeq DEF SplitState
<1>2. s.inCode = code[first]
  <2>1. s.inCode = FALSE
    OBVIOUS
  <2>2. code[first] = FALSE
    BY DEF IsCoded
  <2> QED
    BY <2>1, <2>2, Zenon
<1>3. /\ all \in Seq(Section) /\ Len(all) = 1
      /\ all[1].path = <<>> /\ all[1].body = <<>>
  <2>1. s.sections = <<>> /\ s.path = <<>> /\ s.body = <<>> /\ Len(<<>>) = 0
    OBVIOUS
  <2>2. /\ AllOf(s) \in Seq(Section) /\ Len(AllOf(s)) = 0 + 1
        /\ AllOf(s)[0 + 1] = [path |-> <<>>, body |-> <<>>]
    BY <1>1, <2>1, AllOfIs
  <2> QED
    BY <2>2
<1>4. Bodies(all) = [j \in 1 .. 1 |-> {}]
  <2>1. \A j \in 1 .. 1 : ToSet(all[j].body) = {}
    BY <1>3, NoLines
  <2> QED
    BY <1>3, <2>1 DEF Bodies
<1>5. IsNoteCut(W, X, code, Bodies(all), 1, first, first)
  <2>1. AreLines(W, X, code, first, Len(note))
    BY LinesAre
  <2>2. first <= Len(note) + 1 /\ code[first] = FALSE
    BY LenProperties DEF IsCoded
  <2> HIDE DEF W, X
  <2>3. IsNoteCut(W, X, code, [j \in 1 .. 1 |-> {}], 1, first, first)
    BY <2>1, <2>2, CutAtFirst
  <2> QED
    BY <1>4, <2>3
<1>6. OpenAt(note, W, first) = {}
  BY LenProperties DEF OpenAt, HeadsOf
<1>7. HavePaths(note, W, all, first)
  BY <1>3, <1>6, NoLines DEF HavePaths
<1>8. AreRising(all)
  BY <1>3, NoLines DEF AreRising
<1>9. AreSections(note, first, code, all, first)
  BY <1>3, <1>5, <1>7, <1>8 DEF AreSections
<1> QED
  BY <1>1, <1>2, <1>9

LEMMA HeaderStepKeeps ==
  ASSUME NEW note \in Seq(Line), NEW first \in 1 .. Len(note) + 1, NEW code,
         IsCoded(note, first, code), NEW s \in SplitState, NEW e \in first .. Len(note),
         s.inCode = code[e], AreSections(note, first, code, AllOf(s), e),
         NEW t, t = HeaderStep(note, s, e)
  PROVE  /\ t \in SplitState /\ t.inCode = code[e + 1]
         /\ AreSectionsAfter(note, first, code, AllOf(t), e)
<1>1. CASE Is(note, e, "fence") \/ s.inCode \/ ~ IsHeader(note, e)
  BY <1>1, HeaderStepOnText DEF AreSectionsAfter
<1>2. CASE ~ (Is(note, e, "fence") \/ s.inCode \/ ~ IsHeader(note, e))
  BY <1>2, HeaderStepOnHeading DEF AreSectionsAfter
<1> QED
  BY <1>1, <1>2

(* A loop that stays in what is good before each of its turns.             *)
IsLoop(run, S, n, a, good, succ) ==
  /\ run \in [0 .. n -> S] /\ run[0] = a
  /\ \A k \in 1 .. n : run[k - 1] \in good[k - 1] /\ run[k] = succ[k][run[k - 1]]

LEMMA LoopExists ==
  ASSUME NEW S, NEW n \in Nat, NEW good \in [0 .. n -> SUBSET S], NEW a \in good[0],
         NEW succ, \A k \in 1 .. n : \A s \in good[k - 1] : succ[k][s] \in good[k]
  PROVE  \E run : IsLoop(run, S, n, a, good, succ)
<1> DEFINE step == [k \in 1 .. n |-> [s \in S |-> IF succ[k][s] \in S THEN succ[k][s] ELSE s]]
<1>1. step \in [1 .. n -> [S -> S]]
  OBVIOUS
<1>2. a \in S /\ 0 \in 0 .. n /\ \A k \in 1 .. n : k \in 0 .. n /\ k - 1 \in 0 .. n
  OBVIOUS
<1>3. PICK run : IsRun(run, S, n, a, step)
  <2> HIDE DEF step
  <2> QED
    BY <1>1, <1>2, RunsExist
<1>4. run \in [0 .. n -> S] /\ run[0] = a /\ \A k \in 1 .. n : run[k] = step[k][run[k - 1]]
  BY <1>3 DEF IsRun
<1> DEFINE T == {k \in 0 .. n : run[k] \in good[k]}
<1>5. ASSUME NEW k \in 1 .. n, run[k - 1] \in good[k - 1]
      PROVE  run[k] = succ[k][run[k - 1]] /\ run[k] \in good[k]
  <2>1. run[k - 1] \in S /\ good[k] \in SUBSET S
    BY <1>2, <1>4
  <2>2. succ[k][run[k - 1]] \in good[k]
    BY <1>5
  <2>3. step[k][run[k - 1]] = succ[k][run[k - 1]]
    BY <2>1, <2>2
  <2> QED
    BY <1>4, <2>2, <2>3
<1>6. \A k \in 0 .. n : k \in T
  <2>1. 0 \in T
    BY <1>2, <1>4
  <2>2. \A k \in 1 .. n : k - 1 \in T => k \in T
    BY <1>2, <1>5
  <2> HIDE DEF T
  <2> QED
    BY <2>1, <2>2, StepByStep
<1>7. \A k \in 1 .. n : run[k - 1] \in good[k - 1]
  BY <1>2, <1>6
<1>8. \A k \in 1 .. n : run[k] = succ[k][run[k - 1]]
  BY <1>5, <1>7
<1> HIDE DEF step, T
<1> QED
  BY <1>4, <1>7, <1>8 DEF IsLoop

(* The sections of a note, all of it.                                      *)
LEMMA SectionsAreCut ==
  ASSUME NEW note \in Seq(Line), NEW first, NEW body, IsBody(note, first, body),
         NEW code, IsCoded(note, first, code)
  PROVE  AreSections(note, first, code, SplitByHeaders(note, body), Len(note) + 1)
<1> DEFINE n == Len(body)
           S == SplitState
           start == [sections |-> <<>>, path |-> <<>>, body |-> <<>>, inCode |-> FALSE]
           Good(s, e) == s.inCode = code[e] /\ AreSections(note, first, code, AllOf(s), e)
           good == [k \in 0 .. n |-> {s \in S : Good(s, first + k)}]
           succ == [k \in 1 .. n |-> [s \in S |-> HeaderStep(note, s, body[k])]]
<1>1. /\ n \in Nat /\ first \in 1 .. Len(note) + 1 /\ Len(note) \in Nat
      /\ \A k \in 1 .. n : body[k] = first + k - 1
      /\ n = Len(note) + 1 - first
  BY LenProperties DEF IsBody
<1>2. start \in good[0]
  <2>1. PICK s : s = start
    OBVIOUS
  <2>2. s \in S /\ Good(s, first)
    BY <1>1, <2>1, BeforeFirst
  <2>3. first + 0 = first /\ 0 \in 0 .. n
    BY <1>1
  <2> QED
    BY <2>1, <2>2, <2>3
<1>3. ASSUME NEW k \in 1 .. n, NEW s \in good[k - 1]
      PROVE  HeaderStep(note, s, body[k]) \in good[k] /\ s \in S
  <2>1. k - 1 \in 0 .. n /\ k \in 0 .. n
    BY <1>1
  <2>2. PICK e : e = first + (k - 1)
    OBVIOUS
  <2>3. e \in first .. Len(note) /\ e + 1 = first + k /\ body[k] = e
    BY <1>1, <2>2
  <2>4. s \in S /\ s.inCode = code[e] /\ AreSections(note, first, code, AllOf(s), e)
    BY <2>1, <2>2
  <2>5. PICK t : t = HeaderStep(note, s, e)
    OBVIOUS
  <2>6. t \in S /\ t.inCode = code[e + 1] /\ AreSectionsAfter(note, first, code, AllOf(t), e)
    BY <1>1, <2>3, <2>4, <2>5, HeaderStepKeeps
  <2>7. t \in S /\ Good(t, first + k)
    BY <2>3, <2>6 DEF AreSectionsAfter
  <2>8. t \in good[k]
    BY <2>1, <2>7
  <2> QED
    BY <2>3, <2>4, <2>5, <2>8
<1> HIDE DEF good
<1> DEFINE F(x) == [k \in 0 .. n |-> IF k = 0 THEN start ELSE HeaderStep(note, x[k - 1], body[k])]
<1>4. \E run : run = F(run)
  <2>1. good \in [0 .. n -> SUBSET S]
    BY DEF good
  <2>2. \A k \in 1 .. n : \A s \in good[k - 1] : succ[k][s] \in good[k]
    BY <1>3
  <2>a. PICK a, f : a = start /\ f = succ
    OBVIOUS
  <2>b. PICK run : IsLoop(run, S, n, a, good, f)
    <3> HIDE DEF succ, n, S, start
    <3> QED
      BY <1>1, <1>2, <2>1, <2>2, <2>a, LoopExists
  <2>3. /\ run \in [0 .. n -> S] /\ run[0] = start
        /\ \A k \in 1 .. n : run[k - 1] \in good[k - 1] /\ run[k] = f[k][run[k - 1]]
    BY <2>a, <2>b DEF IsLoop
  <2>4. \A k \in 1 .. n : run[k] = HeaderStep(note, run[k - 1], body[k])
    BY <1>3, <2>3, <2>a
  <2>5. \A k \in 0 .. n : k = 0 \/ k \in 1 .. n
    BY <1>1
  <2> HIDE DEF succ, n, S, start
  <2>6. run = F(run)
    BY <2>3, <2>4, <2>5
  <2> QED
    BY <2>6
<1> DEFINE state == CHOOSE x : x = F(x)
<1>5. SplitByHeaders(note, body) = AllOf(state[n])
  BY DEF SplitByHeaders, AllOf
<1>6. state = F(state)
  BY <1>4
<1> HIDE DEF state
<1>7. state[0] = start /\ \A k \in 1 .. n : state[k] = HeaderStep(note, state[k - 1], body[k])
  <2>1. \A k \in 0 .. n : state[k] = IF k = 0 THEN start ELSE HeaderStep(note, state[k - 1], body[k])
    BY <1>6
  <2>2. 0 \in 0 .. n /\ \A k \in 1 .. n : k \in 0 .. n /\ k # 0
    BY <1>1
  <2> HIDE DEF start, n, F
  <2> QED
    BY <2>1, <2>2
<1> DEFINE T == {k \in 0 .. n : state[k] \in good[k]}
<1>8. n \in T
  <2>1. 0 \in T
    BY <1>1, <1>2, <1>7
  <2>2. ASSUME NEW k \in 1 .. n, k - 1 \in T PROVE k \in T
    <3>1. state[k - 1] \in good[k - 1] /\ k \in 0 .. n
      BY <1>1, <2>2
    <3>2. HeaderStep(note, state[k - 1], body[k]) \in good[k]
      BY <1>3, <3>1
    <3> QED
      BY <1>7, <3>1, <3>2
  <2>3. n \in 0 .. n
    BY <1>1
  <2> HIDE DEF T, n
  <2> QED
    BY <1>1, <2>1, <2>2, <2>3, StepByStep
<1>9. state[n] \in S /\ AreSections(note, first, code, AllOf(state[n]), first + n)
  BY <1>8 DEF good
<1>10. first + n = Len(note) + 1
  BY <1>1
<1> QED
  BY <1>5, <1>9, <1>10

LEMMA MaxIsMost ==
  ASSUME NEW n \in Nat, NEW T \in SUBSET (1 .. n), T # {}
  PROVE  Max(T) \in T /\ \A k \in T : k <= Max(T)
<1> DEFINE D == {n - k : k \in T}
<1>1. \A k \in T : k \in Int /\ n - k \in Nat
  OBVIOUS
<1>2. D \in SUBSET Nat /\ D # {}
  BY <1>1
<1>3. PICK d \in D : \A k \in D : d <= k
  <2> HIDE DEF D
  <2> QED
    BY <1>2, LeastNumber
<1>4. PICK m \in T : d = n - m
  BY <1>3
<1>5. ASSUME NEW k \in T PROVE m >= k
  <2>1. d <= n - k
    BY <1>3
  <2>2. m \in Int /\ k \in Int
    BY <1>1
  <2> QED
    BY <1>4, <2>1, <2>2
<1>6. Max(T) \in T /\ \A k \in T : Max(T) >= k
  BY <1>5 DEF Max
<1>7. \A k \in T : k \in Int
  BY <1>1
<1> QED
  BY <1>6, <1>7

(* What trim leaves of lines in ascending order.                           *)
IsTrimmed(cut, note, lines) ==
  /\ cut \in Seq(Nat) /\ Rising(cut) /\ ToSet(cut) \subseteq ToSet(lines)
  /\ ToSet(cut) \cap WithText(note) = ToSet(lines) \cap WithText(note)
  /\ cut = <<>> <=> ToSet(lines) \cap WithText(note) = {}
  /\ cut # <<>> => /\ 1 \in DOMAIN cut /\ Len(cut) \in DOMAIN cut
                   /\ cut[1] \in WithText(note) /\ cut[Len(cut)] \in WithText(note)
                   /\ \A x \in ToSet(lines) :
                        (cut[1] <= x /\ x <= cut[Len(cut)]) => x \in ToSet(cut)

LEMMA TrimmedIs ==
  ASSUME NEW note \in Seq(Line), NEW lines \in Seq(Nat), Rising(lines),
         ToSet(lines) \subseteq DOMAIN note
  PROVE  IsTrimmed(Trimmed(note, lines), note, lines)
<1> DEFINE n == Len(lines)
           X == WithText(note)
           full == {k \in DOMAIN lines : ~ Is(note, lines[k], "blank")}
           cut == Trimmed(note, lines)
<1>1. /\ n \in Nat /\ DOMAIN lines = 1 .. n /\ \A k \in 1 .. n : lines[k] \in Nat
      /\ \A k \in 1 .. n : lines[k] \in ToSet(lines) /\ lines[k] \in DOMAIN note
  BY LenProperties, ElementOfSeq DEF ToSet
<1>2. \A k \in 1 .. n : k \in full <=> lines[k] \in X
  BY <1>1 DEF WithText, Is
<1>3. CASE full = {}
  <2>1. cut = <<>>
    BY <1>3 DEF Trimmed
  <2>2. ToSet(lines) \cap X = {}
    BY <1>1, <1>2, <1>3 DEF ToSet
  <2> QED
    BY <2>1, <2>2, NoLines DEF IsTrimmed
<1>4. CASE full # {}
  <2>1. full \in SUBSET (1 .. n) /\ full \in SUBSET Nat
    BY <1>1
  <2>2. PICK a, b : a = Min(full) /\ b = Max(full)
    OBVIOUS
  <2>3. a \in full /\ b \in full /\ \A k \in full : a <= k /\ k <= b
    <3> HIDE DEF full
    <3>1. a \in full /\ \A k \in full : a <= k
      BY <1>4, <2>1, <2>2, MinIsLeast
    <3>2. b \in full /\ \A k \in full : k <= b
      BY <1>1, <1>4, <2>1, <2>2, MaxIsMost
    <3> QED
      BY <3>1, <3>2
  <2>4. a \in 1 .. n /\ b \in 1 .. n /\ a <= b /\ a \in Int /\ b \in Int
    BY <2>1, <2>3
  <2>5. cut = SubSeq(lines, a, b)
    BY <1>4, <2>2 DEF Trimmed
  <2>6. /\ cut \in Seq(Nat) /\ Len(cut) = b + 1 - a
        /\ \A k \in 1 .. b + 1 - a : cut[k] = lines[a + k - 1]
    <3> HIDE DEF cut
    <3>1. 1 <= a /\ a <= b + 1 /\ b <= Len(lines)
      BY <1>1, <2>4
    <3> QED
      BY <2>4, <2>5, <3>1, NamesBetween
  <2> DEFINE l == b + 1 - a
  <2>7. l \in Nat \ {0} /\ DOMAIN cut = 1 .. l
    BY <2>4, <2>6, LenProperties
  <2>8. \A k \in 1 .. l : a + k - 1 \in 1 .. n /\ a + k - 1 \in a .. b
    BY <1>1, <2>4
  <2>9. \A k \in a .. b : k + 1 - a \in 1 .. l /\ cut[k + 1 - a] = lines[k] /\ k \in 1 .. n
    BY <1>1, <2>4, <2>6, SMTT(40)
  <2>10. ToSet(cut) = {lines[k] : k \in a .. b}
    <3>1. \A k \in 1 .. l : cut[k] \in {lines[i] : i \in a .. b}
      BY <2>6, <2>8
    <3>2. \A k \in a .. b : \E i \in 1 .. l : cut[i] = lines[k]
      BY <2>9
    <3> HIDE DEF cut
    <3> QED
      BY <2>7, <3>1, <3>2 DEF ToSet
  <2>11. cut[1] = lines[a] /\ cut[Len(cut)] = lines[b] /\ 1 \in DOMAIN cut /\ Len(cut) \in DOMAIN cut
    <3>1. a + 1 - 1 = a /\ a + l - 1 = b /\ 1 \in 1 .. l /\ l \in 1 .. l
      BY <2>4
    <3> QED
      BY <2>6, <2>7, <3>1
  <2>12. lines[a] \in X /\ lines[b] \in X /\ lines[a] \in ToSet(lines)
    BY <1>1, <1>2, <2>3, <2>4
  <2>13. Rising(cut)
    <3>1. ASSUME NEW k \in 1 .. l, NEW i \in 1 .. l, k < i PROVE cut[k] < cut[i]
      <4>1. a + k - 1 < a + i - 1
        BY <2>4, <3>1
      <4>2. lines[a + k - 1] < lines[a + i - 1]
        BY <1>1, <2>8, <4>1 DEF Rising
      <4> QED
        BY <2>6, <4>2
    <3> QED
      BY <2>7, <3>1 DEF Rising
  <2>14. ToSet(cut) \subseteq ToSet(lines)
    BY <1>1, <2>9, <2>10
  <2>15. ASSUME NEW x \in ToSet(lines) \cap X PROVE x \in ToSet(cut)
    <3>1. PICK k \in 1 .. n : x = lines[k]
      BY <1>1 DEF ToSet
    <3>2. k \in full
      BY <1>2, <3>1
    <3>3. k \in a .. b
      BY <2>3, <2>4, <3>1, <3>2
    <3> QED
      BY <2>10, <3>1, <3>3
  <2>16. ASSUME NEW x \in ToSet(lines), lines[a] <= x, x <= lines[b] PROVE x \in ToSet(cut)
    <3>1. PICK k \in 1 .. n : x = lines[k]
      BY <1>1 DEF ToSet
    <3>2. ~ (k < a) /\ ~ (b < k)
      <4>1. k < a => lines[k] < lines[a]
        BY <1>1, <2>4 DEF Rising
      <4>2. b < k => lines[b] < lines[k]
        BY <1>1, <2>4 DEF Rising
      <4>3. lines[k] \in Nat /\ lines[a] \in Nat /\ lines[b] \in Nat
        BY <1>1, <2>4
      <4> QED
        BY <2>16, <3>1, <4>1, <4>2, <4>3
    <3>3. k \in a .. b
      BY <2>4, <3>2
    <3> QED
      BY <2>10, <3>1, <3>3
  <2>17. cut # <<>> /\ ToSet(lines) \cap X # {}
    BY <2>6, <2>7, <2>12
  <2>18. ToSet(cut) \cap X = ToSet(lines) \cap X
    BY <2>14, <2>15
  <2>19. \A x \in ToSet(lines) : (cut[1] <= x /\ x <= cut[Len(cut)]) => x \in ToSet(cut)
    <3> HIDE DEF cut
    <3> QED
      BY <2>11, <2>16
  <2>20. cut[1] \in X /\ cut[Len(cut)] \in X
    <3> HIDE DEF cut, X
    <3> QED
      BY <2>11, <2>12
  <2>21. IsTrimmed(cut, note, lines)
    <3> HIDE DEF cut
    <3> QED
      BY <2>6, <2>11, <2>13, <2>14, <2>17, <2>18, <2>19, <2>20 DEF IsTrimmed
  <2> QED
    BY <2>21
<1> QED
  BY <1>3, <1>4

(* What begins and ends with text is left as it is.                        *)
LEMMA TrimmedTwice ==
  ASSUME NEW note \in Seq(Line), NEW lines \in Seq(Nat), lines # <<>>,
         ToSet(lines) \subseteq DOMAIN note,
         lines[1] \in WithText(note), lines[Len(lines)] \in WithText(note)
  PROVE  Trimmed(note, lines) = lines
<1> DEFINE n == Len(lines)
           full == {k \in DOMAIN lines : ~ Is(note, lines[k], "blank")}
<1>1. n \in Nat \ {0} /\ DOMAIN lines = 1 .. n
  BY LenProperties, EmptySeq
<1>2. 1 \in full /\ n \in full /\ full \in SUBSET (1 .. n) /\ full \in SUBSET Nat
  BY <1>1 DEF WithText, Is
<1>3. Min(full) = 1 /\ Max(full) = n
  <2> HIDE DEF full
  <2>1. Min(full) \in full /\ Min(full) <= 1
    BY <1>2, MinIsLeast
  <2>2. Max(full) \in full /\ n <= Max(full)
    BY <1>1, <1>2, MaxIsMost
  <2>3. Min(full) \in 1 .. n /\ Max(full) \in 1 .. n
    BY <1>2, <2>1, <2>2
  <2> QED
    BY <1>1, <2>1, <2>2, <2>3
<1>4. Trimmed(note, lines) = SubSeq(lines, 1, n)
  BY <1>2, <1>3 DEF Trimmed
<1>5. PICK cut : cut = SubSeq(lines, 1, n)
  OBVIOUS
<1>6. cut \in Seq(Nat) /\ Len(cut) = n /\ \A k \in 1 .. n : cut[k] = lines[k]
  <2>1. /\ cut \in Seq(Nat) /\ Len(cut) = n + 1 - 1
        /\ \A k \in 1 .. n + 1 - 1 : cut[k] = lines[1 + k - 1]
    <3>1. 1 <= 1 /\ 1 <= n + 1 /\ n <= Len(lines) /\ n \in Int /\ 1 \in Int
      BY <1>1
    <3> HIDE DEF n
    <3> QED
      BY <1>5, <3>1, NamesBetween
  <2>2. n + 1 - 1 = n /\ \A k \in 1 .. n : 1 + k - 1 = k
    BY <1>1
  <2> QED
    BY <2>1, <2>2
<1>7. cut = lines
  BY <1>1, <1>6, LenProperties
<1> QED
  BY <1>4, <1>5, <1>7

-----------------------------------------------------------------------------
(***************************************************************************)
(* The paragraphs of a section.  Its lines from the first to the last with *)
(* text are consecutive; a blank line outside of code parts paragraphs as  *)
(* a heading parts sections.                                               *)
(***************************************************************************)
LEMMA RisingIsCounting ==
  ASSUME NEW lines \in Seq(Nat), Rising(lines), NEW a \in Nat, NEW b \in Nat, a <= b,
         ToSet(lines) = a .. b
  PROVE  Len(lines) = b + 1 - a /\ \A k \in 1 .. Len(lines) : lines[k] = a + k - 1
<1> DEFINE n == Len(lines)
           T == {k \in 0 .. n : k = 0 \/ lines[k] = a + k - 1}
<1>1. /\ n \in Nat /\ DOMAIN lines = 1 .. n
      /\ \A k \in 1 .. n : lines[k] \in Nat /\ lines[k] \in a .. b
  BY LenProperties, ElementOfSeq DEF ToSet
<1>2. \A x \in a .. b : \E k \in 1 .. n : lines[k] = x
  BY <1>1 DEF ToSet
<1>3. ASSUME NEW k \in 1 .. n, k - 1 \in T PROVE k \in T
  <2>1. k = 1 \/ (k - 1 \in 1 .. n /\ lines[k - 1] = a + k - 2)
    BY <1>1, <1>3
  <2>2. lines[k] >= a + k - 1
    <3>1. CASE k = 1
      BY <1>1, <3>1
    <3>2. CASE k # 1
      <4>0. k - 1 \in 1 .. n /\ k - 1 < k
        BY <1>1, <3>2
      <4>1. lines[k - 1] < lines[k]
        BY <1>1, <4>0 DEF Rising
      <4> QED
        BY <1>1, <2>1, <3>2, <4>1
    <3> QED
      BY <3>1, <3>2
  <2>3. a + k - 1 \in a .. b
    BY <1>1, <2>2
  <2>4. PICK i \in 1 .. n : lines[i] = a + k - 1
    BY <1>2, <2>3
  <2>5. ~ (i < k)
    <3>1. CASE k = 1
      BY <1>1, <3>1
    <3>2. CASE k # 1
      <4>1. i < k - 1 => lines[i] < lines[k - 1]
        BY <1>1, <2>1, <3>2 DEF Rising
      <4>2. i < k => i < k - 1 \/ i = k - 1
        BY <1>1
      <4>3. lines[i] > lines[k - 1] /\ lines[i] \in Nat /\ lines[k - 1] \in Nat
        BY <1>1, <2>1, <2>4, <3>2
      <4> QED
        BY <4>1, <4>2, <4>3
    <3> QED
      BY <3>1, <3>2
  <2>6. ~ (k < i)
    <3>1. k < i => lines[k] < lines[i]
      BY <1>1 DEF Rising
    <3> QED
      BY <1>1, <2>2, <2>4, <3>1
  <2>7. i = k
    BY <1>1, <2>5, <2>6
  <2> QED
    BY <1>1, <2>4, <2>7
<1>4. \A k \in 0 .. n : k \in T
  <2>1. 0 \in T
    BY <1>1
  <2> HIDE DEF T, n
  <2> QED
    BY <1>1, <1>3, <2>1, StepByStep
<1>5. \A k \in 1 .. n : lines[k] = a + k - 1
  <2>1. \A k \in 1 .. n : k \in 0 .. n /\ k # 0
    BY <1>1
  <2> QED
    BY <1>4, <2>1
<1>6. n = b + 1 - a
  <2>1. n # 0
    <3>1. a \in a .. b
      OBVIOUS
    <3> QED
      BY <1>1, <1>2, <3>1
  <2>2. lines[n] = a + n - 1 /\ lines[n] \in a .. b
    BY <1>1, <1>5, <2>1
  <2>3. b \in a .. b
    OBVIOUS
  <2>4. PICK k \in 1 .. n : lines[k] = b
    BY <1>2, <2>3
  <2>5. b = a + k - 1
    BY <1>5, <2>4
  <2>6. a + n - 1 <= b /\ k <= n /\ k \in Int /\ n \in Int
    BY <1>1, <2>2
  <2> HIDE DEF n
  <2> QED
    BY <2>5, <2>6
<1> QED
  BY <1>5, <1>6

GapsOf(note, a, b, code) == {i \in a .. b : i \notin WithText(note) /\ code[i] = FALSE}
LinesOf(all) == [j \in 1 .. Len(all) |-> ToSet(all[j])]

IsStretch(note, first, code, a, b) ==
  /\ first \in 1 .. Len(note) + 1 /\ IsCoded(note, first, code)
  /\ a \in first .. Len(note) /\ b \in a .. Len(note) /\ code[a] = FALSE

AreParagraphs(note, a, b, code, all, e) ==
  /\ all \in Seq(Seq(Nat))
  /\ IsNoteCut(GapsOf(note, a, b, code), WithText(note), code, LinesOf(all), Len(all), a, e)
  /\ \A j \in 1 .. Len(all) : Rising(all[j])
  /\ \A j \in 1 .. Len(all) : j < Len(all) => ToSet(all[j]) \cap WithText(note) # {}

LEMMA GapsAre ==
  ASSUME NEW note \in Seq(Line), NEW first, NEW code, NEW a, NEW b,
         IsStretch(note, first, code, a, b)
  PROVE  /\ AreLines(GapsOf(note, a, b, code), WithText(note), code, a, b)
         /\ a \in Nat /\ b \in Nat /\ a <= b
         /\ \A i \in a .. b : i \in Nat /\ i \in DOMAIN note /\ i \in first .. Len(note)
<1>1. /\ Len(note) \in Nat /\ first \in 1 .. Len(note) + 1 /\ DOMAIN note = 1 .. Len(note)
      /\ a \in first .. Len(note) /\ b \in a .. Len(note)
  BY LenProperties DEF IsStretch
<1>2. a \in Nat /\ b \in Nat /\ a <= b
      /\ \A i \in a .. b : i \in Nat /\ i \in DOMAIN note /\ i \in first .. Len(note)
  BY <1>1
<1>3. ASSUME NEW i \in a .. b, i \notin WithText(note) PROVE code[i + 1] = code[i]
  <2>1. note[i].kind # "fence"
    BY <1>2, <1>3 DEF WithText
  <2> QED
    BY <1>2, <2>1 DEF IsStretch, IsCoded
<1>4. ASSUME NEW i \in a .. b, i \in GapsOf(note, a, b, code)
      PROVE  code[i] = FALSE /\ code[i + 1] = FALSE
  <2>1. i \notin WithText(note) /\ code[i] = FALSE
    BY <1>4 DEF GapsOf
  <2> QED
    BY <1>3, <2>1
<1>5. GapsOf(note, a, b, code) \in SUBSET Nat
  BY <1>2 DEF GapsOf
<1> QED
  BY <1>2, <1>3, <1>4, <1>5 DEF AreLines

ParagraphState == [paragraphs : Seq(Seq(Nat)), text : Seq(Nat), inCode : BOOLEAN]
AllTexts(s) == Append(s.paragraphs, s.text)

LEMMA AllTextsAre ==
  ASSUME NEW s \in ParagraphState
  PROVE  /\ AllTexts(s) \in Seq(Seq(Nat)) /\ Len(AllTexts(s)) = Len(s.paragraphs) + 1
         /\ Len(s.paragraphs) \in Nat
         /\ \A j \in 1 .. Len(s.paragraphs) : AllTexts(s)[j] = s.paragraphs[j]
         /\ AllTexts(s)[Len(s.paragraphs) + 1] = s.text
<1>1. s.paragraphs \in Seq(Seq(Nat)) /\ s.text \in Seq(Nat)
  BY DEF ParagraphState
<1>2. PICK S : S = Seq(Nat)
  OBVIOUS
<1>3. PICK list, x : list = s.paragraphs /\ x = s.text
  OBVIOUS
<1>4. list \in Seq(S) /\ x \in S
  BY <1>1, <1>2, <1>3
<1>5. /\ Append(list, x) \in Seq(S) /\ Len(Append(list, x)) = Len(list) + 1
      /\ Len(list) \in Nat
      /\ \A j \in 1 .. Len(list) : Append(list, x)[j] = list[j]
      /\ Append(list, x)[Len(list) + 1] = x
  BY <1>4, AppendProperties, LenProperties
<1> QED
  BY <1>2, <1>3, <1>5 DEF AllTexts

AreParagraphsAfter(note, a, b, code, all, e) == AreParagraphs(note, a, b, code, all, e + 1)

LEMMA ParagraphsByText ==
  ASSUME NEW note \in Seq(Line), NEW first, NEW code, NEW a, NEW b,
         IsStretch(note, first, code, a, b), NEW e \in a .. b,
         NEW all, AreParagraphs(note, a, b, code, all, e),
         e \notin GapsOf(note, a, b, code), NEW more \in Seq(Seq(Nat)),
         Len(more) = Len(all), \A j \in 1 .. Len(all) : j < Len(all) => more[j] = all[j],
         IsAppended(more[Len(all)], all[Len(all)], e)
  PROVE  AreParagraphsAfter(note, a, b, code, more, e)
<1> DEFINE B == GapsOf(note, a, b, code)
           X == WithText(note)
           P == LinesOf(all)
<1>0. PICK m : m = Len(all)
  OBVIOUS
<1> DEFINE Q == [P EXCEPT ![m] = P[m] \cup {e}]
<1>1. AreLines(B, X, code, a, b)
  BY GapsAre
<1>2. IsNoteCut(B, X, code, P, m, a, e)
  BY <1>0 DEF AreParagraphs
<1>3. m \in Nat \ {0} /\ m \in 1 .. m /\ \A j \in 1 .. m : j < m \/ j = m
  BY <1>2 DEF IsNoteCut, AreApart
<1>4. IsNoteCut(B, X, code, Q, m, a, e + 1)
  <2>1. e \in a .. b /\ e \notin B
    OBVIOUS
  <2> HIDE DEF B, X, P
  <2> QED
    BY <1>1, <1>2, <2>1, CutByText
<1>5. \A j \in 1 .. m : j < m => more[j] = all[j]
  BY <1>0
<1>6. /\ more[m] \in Seq(Nat) /\ Rising(more[m])
      /\ ToSet(more[m]) = ToSet(all[m]) \cup {e}
  BY <1>0 DEF IsAppended
<1>7. LinesOf(more) = Q
  <2>1. ASSUME NEW j \in 1 .. m PROVE ToSet(more[j]) = Q[j]
    <3>1. P[j] = ToSet(all[j]) /\ Q[j] = IF j = m THEN P[m] \cup {e} ELSE P[j]
      BY <1>0 DEF LinesOf
    <3> QED
      BY <1>3, <1>5, <1>6, <3>1
  <2> QED
    BY <1>0, <2>1 DEF LinesOf
<1>8. ASSUME NEW j \in 1 .. m PROVE Rising(more[j]) /\ (j < m => ToSet(more[j]) \cap X # {})
  <2>1. j < m \/ j = m
    BY <1>3
  <2> QED
    BY <1>0, <1>5, <1>6, <2>1 DEF AreParagraphs
<1> QED
  BY <1>0, <1>4, <1>7, <1>8 DEF AreParagraphs, AreParagraphsAfter

LEMMA ParagraphsByGap ==
  ASSUME NEW note \in Seq(Line), NEW first, NEW code, NEW a, NEW b,
         IsStretch(note, first, code, a, b), NEW e \in a .. b,
         NEW all, AreParagraphs(note, a, b, code, all, e),
         e \in GapsOf(note, a, b, code), NEW more \in Seq(Seq(Nat)),
         ToSet(all[Len(all)]) \cap WithText(note) # {},
         more = Append(all, <<>>)
  PROVE  AreParagraphsAfter(note, a, b, code, more, e)
<1> DEFINE B == GapsOf(note, a, b, code)
           X == WithText(note)
           P == LinesOf(all)
<1>0. PICK m : m = Len(all)
  OBVIOUS
<1> DEFINE Q == [j \in 1 .. m + 1 |-> IF j = m + 1 THEN {} ELSE P[j]]
<1>1. AreLines(B, X, code, a, b)
  BY GapsAre
<1>2. IsNoteCut(B, X, code, P, m, a, e)
  BY <1>0 DEF AreParagraphs
<1>3. m \in Nat \ {0} /\ \A j \in 1 .. m + 1 : j # m + 1 => j \in 1 .. m /\ (j < m \/ j = m)
  BY <1>2 DEF IsNoteCut, AreApart
<1>4. IsNoteCut(B, X, code, Q, m + 1, a, e + 1)
  <2>1. e \in a .. b /\ e \in B
    OBVIOUS
  <2> HIDE DEF B, X, P
  <2> QED
    BY <1>1, <1>2, <2>1, CutByHeading
<1>5. /\ Len(more) = m + 1 /\ \A j \in 1 .. m : more[j] = all[j]
      /\ more[m + 1] = <<>>
  <2>1. PICK S, x : S = Seq(Nat) /\ x = <<>>
    OBVIOUS
  <2>2. all \in Seq(S) /\ x \in S
    BY <2>1, NoLines DEF AreParagraphs
  <2>3. more = Append(all, x)
    BY <2>1
  <2>4. /\ Len(more) = Len(all) + 1 /\ \A j \in 1 .. Len(all) : more[j] = all[j]
        /\ more[Len(all) + 1] = x
    BY <2>2, <2>3, AppendProperties
  <2> QED
    BY <1>0, <2>1, <2>4
<1>6. LinesOf(more) = Q
  <2>1. ASSUME NEW j \in 1 .. m + 1 PROVE ToSet(more[j]) = Q[j]
    <3>1. CASE j = m + 1
      BY <1>5, <3>1, NoLines
    <3>2. CASE j # m + 1
      BY <1>0, <1>3, <1>5, <3>2 DEF LinesOf
    <3> QED
      BY <3>1, <3>2
  <2> QED
    BY <1>5, <2>1 DEF LinesOf
<1>7. ASSUME NEW j \in 1 .. m + 1
      PROVE  Rising(more[j]) /\ (j < m + 1 => ToSet(more[j]) \cap X # {})
  <2>1. CASE j = m + 1
    BY <1>3, <1>5, <2>1, NoLines
  <2>2. CASE j # m + 1
    BY <1>0, <1>3, <1>5, <2>2 DEF AreParagraphs
  <2> QED
    BY <2>1, <2>2
<1> QED
  BY <1>4, <1>5, <1>6, <1>7 DEF AreParagraphs, AreParagraphsAfter

LEMMA ParagraphsByNothing ==
  ASSUME NEW note \in Seq(Line), NEW first, NEW code, NEW a, NEW b,
         IsStretch(note, first, code, a, b), NEW e \in a .. b,
         NEW all, AreParagraphs(note, a, b, code, all, e),
         e \in GapsOf(note, a, b, code),
         ToSet(all[Len(all)]) \cap WithText(note) = {}
  PROVE  AreParagraphsAfter(note, a, b, code, all, e)
<1> DEFINE B == GapsOf(note, a, b, code)
           X == WithText(note)
           P == LinesOf(all)
           m == Len(all)
<1>1. AreLines(B, X, code, a, b)
  BY GapsAre
<1>2. IsNoteCut(B, X, code, P, m, a, e)
  BY DEF AreParagraphs
<1>3. P[m] \cap X = {}
  <2>1. m \in 1 .. m
    BY <1>2 DEF IsNoteCut, AreApart
  <2> QED
    BY <2>1 DEF LinesOf
<1>4. IsNoteCut(B, X, code, P, m, a, e + 1)
  <2>1. e \in a .. b /\ e \in B
    OBVIOUS
  <2> HIDE DEF B, X, P
  <2> QED
    BY <1>1, <1>2, <1>3, <2>1, CutByFirstHeading
<1> QED
  BY <1>4 DEF AreParagraphs, AreParagraphsAfter

LEMMA ParagraphStepKeeps ==
  ASSUME NEW note \in Seq(Line), NEW first, NEW code, NEW a, NEW b,
         IsStretch(note, first, code, a, b), NEW s \in ParagraphState, NEW e \in a .. b,
         s.inCode = code[e], AreParagraphs(note, a, b, code, AllTexts(s), e),
         NEW t, t = ParagraphStep(note, s, e)
  PROVE  /\ t \in ParagraphState /\ t.inCode = code[e + 1]
         /\ AreParagraphsAfter(note, a, b, code, AllTexts(t), e)
<1> DEFINE B == GapsOf(note, a, b, code)
           X == WithText(note)
           n == Len(s.paragraphs)
<1>1. e \in Nat /\ e \in DOMAIN note /\ e \in first .. Len(note) /\ a \in Nat
      /\ \A x \in a .. e - 1 : x \in DOMAIN note /\ x < e
  BY GapsAre
<1>2. code[e + 1] = IF note[e].kind = "fence" THEN ~ code[e] ELSE code[e]
  BY <1>1 DEF IsStretch, IsCoded
<1>3. PICK all, m : all = AllTexts(s) /\ m = n + 1
  OBVIOUS
<1>4. /\ all \in Seq(Seq(Nat)) /\ Len(all) = m /\ n \in Nat
      /\ \A j \in 1 .. n : all[j] = s.paragraphs[j] /\ all[m] = s.text
  BY <1>3, AllTextsAre
<1>5. AreParagraphs(note, a, b, code, all, e)
  BY <1>3
<1>6. /\ s.text \in Seq(Nat) /\ s.paragraphs \in Seq(Seq(Nat)) /\ s.inCode \in BOOLEAN
  BY DEF ParagraphState
<1>7. all[m] = s.text
  BY <1>3, AllTextsAre
<1>8. Rising(s.text) /\ ToSet(s.text) \subseteq DOMAIN note /\ \A x \in ToSet(s.text) : x < e
  <2>1. m \in 1 .. m
    BY <1>3, <1>4
  <2>2. Rising(s.text)
    BY <1>4, <1>5, <1>7, <2>1 DEF AreParagraphs
  <2>3. LinesOf(all)[m] = ToSet(s.text)
    BY <1>4, <1>7, <2>1 DEF LinesOf
  <2>4. \A x \in ToSet(s.text) : x \in a .. e - 1
    BY <1>4, <1>5, <2>1, <2>3 DEF AreParagraphs, IsNoteCut, HoldAll
  <2> QED
    BY <1>1, <2>2, <2>4
<1>9. CASE Is(note, e, "fence") \/ s.inCode \/ ~ Is(note, e, "blank")
  <2>1. t = [s EXCEPT !.text = Append(@, e),
                      !.inCode = IF Is(note, e, "fence") THEN ~ @ ELSE @]
    BY <1>9 DEF ParagraphStep
  <2>2. /\ t.paragraphs = s.paragraphs /\ t.text = Append(s.text, e)
        /\ t.inCode = IF Is(note, e, "fence") THEN ~ s.inCode ELSE s.inCode
    BY <2>1 DEF ParagraphState
  <2>3. IsAppended(t.text, s.text, e)
    BY <1>1, <1>6, <1>8, <2>2, AppendedIs
  <2>4. t \in ParagraphState
    <3>1. t.text \in Seq(Nat) /\ t.inCode \in BOOLEAN
      BY <1>6, <2>2, <2>3 DEF IsAppended
    <3> QED
      BY <1>6, <2>1, <2>2, <3>1 DEF ParagraphState
  <2>5. t.inCode = code[e + 1]
    BY <1>2, <2>2 DEF Is
  <2>6. e \notin B
    BY <1>1, <1>9 DEF GapsOf, WithText, Is
  <2>7. PICK more : more = AllTexts(t)
    OBVIOUS
  <2>8. /\ more \in Seq(Seq(Nat)) /\ Len(more) = m
        /\ \A j \in 1 .. n : more[j] = s.paragraphs[j] /\ more[m] = t.text
    BY <1>3, <2>2, <2>4, <2>7, AllTextsAre
  <2>9. more[m] = t.text
    BY <1>3, <2>2, <2>4, <2>7, AllTextsAre
  <2>10. \A j \in 1 .. m : j < m => more[j] = all[j]
    <3>1. \A j \in 1 .. m : j < m => j \in 1 .. n
      BY <1>3, <1>4
    <3> QED
      BY <1>4, <2>8, <3>1
  <2>11. IsAppended(more[m], all[m], e)
    BY <1>7, <2>3, <2>9
  <2>12. AreParagraphsAfter(note, a, b, code, more, e)
    BY <1>4, <1>5, <2>6, <2>8, <2>10, <2>11, ParagraphsByText
  <2> QED
    BY <2>4, <2>5, <2>7, <2>12
<1>10. CASE ~ (Is(note, e, "fence") \/ s.inCode \/ ~ Is(note, e, "blank"))
  <2>2. e \in B
    <3>1. e \notin X
      BY <1>10 DEF WithText, Is
    <3>2. code[e] = FALSE
      BY <1>10
    <3> QED
      BY <3>1, <3>2 DEF GapsOf
  <2>3. code[e + 1] = code[e]
    BY <1>2, <1>10 DEF Is
  <2>4. CASE HasText(note, s.text)
    <3>1. t = [s EXCEPT !.paragraphs = Append(@, s.text), !.text = <<>>]
      BY <1>10, <2>4 DEF ParagraphStep
    <3>2. t.paragraphs = all /\ t.text = <<>> /\ t.inCode = s.inCode
      BY <1>3, <3>1 DEF ParagraphState, AllTexts
    <3>3. t \in ParagraphState
      BY <1>4, <1>6, <3>1, <3>2, NoLines DEF ParagraphState
    <3>4. PICK more : more = AllTexts(t)
      OBVIOUS
    <3>5. more \in Seq(Seq(Nat)) /\ more = Append(all, <<>>)
      <4>1. more \in Seq(Seq(Nat))
        BY <3>3, <3>4, AllTextsAre
      <4> QED
        BY <3>2, <3>4, <4>1 DEF AllTexts
    <3>6. ToSet(all[m]) \cap X # {}
      BY <1>7, <1>8, <2>4, HasTextIs
    <3>7. AreParagraphsAfter(note, a, b, code, more, e)
      BY <1>4, <1>5, <2>2, <3>5, <3>6, ParagraphsByGap
    <3>8. t.inCode = code[e + 1]
      BY <2>3, <3>2
    <3> QED
      BY <3>3, <3>4, <3>7, <3>8
  <2>5. CASE ~ HasText(note, s.text)
    <3>1. t = s
      BY <1>10, <2>5 DEF ParagraphStep
    <3>2. ToSet(all[m]) \cap X = {}
      BY <1>7, <1>8, <2>5, HasTextIs
    <3>3. AreParagraphsAfter(note, a, b, code, all, e)
      BY <1>4, <1>5, <2>2, <3>2, ParagraphsByNothing
    <3>4. t.inCode = code[e + 1]
      BY <2>3, <3>1
    <3> QED
      BY <1>3, <3>1, <3>3, <3>4
  <2> QED
    BY <2>4, <2>5
<1> QED
  BY <1>9, <1>10

LEMMA BeforeParagraphs ==
  ASSUME NEW note \in Seq(Line), NEW first, NEW code, NEW a, NEW b,
         IsStretch(note, first, code, a, b), NEW s,
         s = [paragraphs |-> <<>>, text |-> <<>>, inCode |-> FALSE]
  PROVE  /\ s \in ParagraphState /\ s.inCode = code[a]
         /\ AreParagraphs(note, a, b, code, AllTexts(s), a)
<1> DEFINE B == GapsOf(note, a, b, code)
           X == WithText(note)
<1>1. s \in ParagraphState
  BY EmptySeq DEF ParagraphState
<1>2. s.inCode = code[a]
  <2>1. s.inCode = FALSE
    OBVIOUS
  <2>2. code[a] = FALSE
    BY DEF IsStretch
  <2> QED
    BY <2>1, <2>2, Zenon
<1>3. PICK all : all = AllTexts(s)
  OBVIOUS
<1>4. all \in Seq(Seq(Nat)) /\ Len(all) = 1 /\ all[1] = <<>>
  <2>1. s.paragraphs = <<>> /\ s.text = <<>> /\ Len(<<>>) = 0
    OBVIOUS
  <2>2. /\ AllTexts(s) \in Seq(Seq(Nat)) /\ Len(AllTexts(s)) = 0 + 1
        /\ AllTexts(s)[0 + 1] = <<>>
    BY <1>1, <2>1, AllTextsAre
  <2> QED
    BY <1>3, <2>2
<1>5. LinesOf(all) = [j \in 1 .. 1 |-> {}]
  <2>1. \A j \in 1 .. 1 : ToSet(all[j]) = {}
    BY <1>4, NoLines
  <2> QED
    BY <1>4, <2>1 DEF LinesOf
<1>6. IsNoteCut(B, X, code, LinesOf(all), 1, a, a)
  <2>1. AreLines(B, X, code, a, b) /\ a <= b + 1
    BY GapsAre
  <2>2. code[a] = FALSE
    BY DEF IsStretch
  <2> HIDE DEF B, X
  <2>3. IsNoteCut(B, X, code, [j \in 1 .. 1 |-> {}], 1, a, a)
    BY <2>1, <2>2, CutAtFirst
  <2> QED
    BY <1>5, <2>3
<1>7. \A j \in 1 .. 1 : Rising(all[j])
  BY <1>4, NoLines
<1>8. AreParagraphs(note, a, b, code, all, a)
  BY <1>4, <1>6, <1>7 DEF AreParagraphs
<1> QED
  BY <1>1, <1>2, <1>3, <1>8

LEMMA ParagraphsAreCut ==
  ASSUME NEW note \in Seq(Line), NEW first, NEW code, NEW a, NEW b,
         IsStretch(note, first, code, a, b), NEW lines,
         Len(lines) = b + 1 - a, \A k \in 1 .. Len(lines) : lines[k] = a + k - 1
  PROVE  \E s \in ParagraphState :
           /\ AreParagraphsAfter(note, a, b, code, AllTexts(s), b)
           /\ SplitOnBlankLines(note, lines)
                = IF HasText(note, s.text) THEN AllTexts(s) ELSE s.paragraphs
<1> DEFINE n == Len(lines)
           S == ParagraphState
           start == [paragraphs |-> <<>>, text |-> <<>>, inCode |-> FALSE]
           Good(s, e) == s.inCode = code[e] /\ AreParagraphs(note, a, b, code, AllTexts(s), e)
           good == [k \in 0 .. n |-> {s \in S : Good(s, a + k)}]
           succ == [k \in 1 .. n |-> [s \in S |-> ParagraphStep(note, s, lines[k])]]
<1>1. /\ n \in Nat /\ a \in Nat /\ b \in Nat /\ n = b + 1 - a
      /\ \A k \in 1 .. n : lines[k] = a + k - 1
  BY GapsAre
<1>2. start \in good[0]
  <2>1. PICK s : s = start
    OBVIOUS
  <2>2. s \in S /\ Good(s, a)
    <3>1. s \in ParagraphState
      BY <2>1, BeforeParagraphs
    <3>2. s.inCode = code[a]
      <4>1. s.inCode = FALSE
        BY <2>1
      <4>2. code[a] = FALSE
        BY DEF IsStretch
      <4> QED
        BY <4>1, <4>2, Zenon
    <3>3. AreParagraphs(note, a, b, code, AllTexts(s), a)
      BY <2>1, BeforeParagraphs
    <3> QED
      BY <3>1, <3>2, <3>3
  <2>3. a + 0 = a /\ 0 \in 0 .. n
    BY <1>1
  <2> QED
    BY <2>1, <2>2, <2>3
<1>3. ASSUME NEW k \in 1 .. n, NEW s \in good[k - 1]
      PROVE  ParagraphStep(note, s, lines[k]) \in good[k] /\ s \in S
  <2>1. k - 1 \in 0 .. n /\ k \in 0 .. n
    BY <1>1
  <2>2. PICK e : e = a + (k - 1)
    OBVIOUS
  <2>3. e \in a .. b /\ e + 1 = a + k /\ lines[k] = e
    BY <1>1, <2>2
  <2>4. s \in S /\ s.inCode = code[e] /\ AreParagraphs(note, a, b, code, AllTexts(s), e)
    BY <2>1, <2>2
  <2>5. PICK t : t = ParagraphStep(note, s, e)
    OBVIOUS
  <2>6. t \in S /\ t.inCode = code[e + 1] /\ AreParagraphsAfter(note, a, b, code, AllTexts(t), e)
    BY <2>3, <2>4, <2>5, ParagraphStepKeeps
  <2>7. t \in S /\ Good(t, a + k)
    BY <2>3, <2>6 DEF AreParagraphsAfter
  <2>8. t \in good[k]
    BY <2>1, <2>7
  <2> QED
    BY <2>3, <2>4, <2>5, <2>8
<1> HIDE DEF good
<1> DEFINE F(x) == [k \in 0 .. n |-> IF k = 0 THEN start ELSE ParagraphStep(note, x[k - 1], lines[k])]
<1>4. \E run : run = F(run)
  <2>1. good \in [0 .. n -> SUBSET S]
    BY DEF good
  <2>2. \A k \in 1 .. n : \A s \in good[k - 1] : succ[k][s] \in good[k]
    BY <1>3
  <2>3. PICK x, f : x = start /\ f = succ
    OBVIOUS
  <2>4. PICK run : IsLoop(run, S, n, x, good, f)
    <3> HIDE DEF succ, n, S, start
    <3> QED
      BY <1>1, <1>2, <2>1, <2>2, <2>3, LoopExists
  <2>5. /\ run \in [0 .. n -> S] /\ run[0] = start
        /\ \A k \in 1 .. n : run[k - 1] \in good[k - 1] /\ run[k] = f[k][run[k - 1]]
    BY <2>3, <2>4 DEF IsLoop
  <2>6. \A k \in 1 .. n : run[k] = ParagraphStep(note, run[k - 1], lines[k])
    BY <1>3, <2>3, <2>5
  <2>7. \A k \in 0 .. n : k = 0 \/ k \in 1 .. n
    BY <1>1
  <2> HIDE DEF succ, n, S, start
  <2>8. run = F(run)
    BY <2>5, <2>6, <2>7
  <2> QED
    BY <2>8
<1> DEFINE state == CHOOSE x : x = F(x)
<1>5. SplitOnBlankLines(note, lines)
        = IF HasText(note, state[n].text) THEN AllTexts(state[n]) ELSE state[n].paragraphs
  BY DEF SplitOnBlankLines, AllTexts
<1>6. state = F(state)
  BY <1>4
<1> HIDE DEF state
<1>7. state[0] = start /\ \A k \in 1 .. n : state[k] = ParagraphStep(note, state[k - 1], lines[k])
  <2>1. \A k \in 0 .. n : state[k] = IF k = 0 THEN start ELSE ParagraphStep(note, state[k - 1], lines[k])
    BY <1>6
  <2>2. 0 \in 0 .. n /\ \A k \in 1 .. n : k \in 0 .. n /\ k # 0
    BY <1>1
  <2> HIDE DEF start, n, F
  <2> QED
    BY <2>1, <2>2
<1> DEFINE T == {k \in 0 .. n : state[k] \in good[k]}
<1>8. n \in T
  <2>1. 0 \in T
    BY <1>1, <1>2, <1>7
  <2>2. ASSUME NEW k \in 1 .. n, k - 1 \in T PROVE k \in T
    <3>1. state[k - 1] \in good[k - 1] /\ k \in 0 .. n
      BY <1>1, <2>2
    <3>2. ParagraphStep(note, state[k - 1], lines[k]) \in good[k]
      BY <1>3, <3>1
    <3> QED
      BY <1>7, <3>1, <3>2
  <2>3. n \in 0 .. n
    BY <1>1
  <2> HIDE DEF T, n
  <2> QED
    BY <1>1, <2>1, <2>2, <2>3, StepByStep
<1>9. state[n] \in S /\ AreParagraphs(note, a, b, code, AllTexts(state[n]), a + n)
  BY <1>8 DEF good
<1>10. a + n = b + 1
  BY <1>1
<1>11. AreParagraphsAfter(note, a, b, code, AllTexts(state[n]), b)
  BY <1>9, <1>10 DEF AreParagraphsAfter
<1> QED
  BY <1>5, <1>9, <1>11

(* Pieces of the lines Y: all of their text, in order.                     *)
ArePieces(note, code, Y, C) ==
  /\ C \in Seq(Seq(Nat))
  /\ \A j \in 1 .. Len(C) : Rising(C[j]) /\ ToSet(C[j]) \subseteq Y
  /\ \A j \in 1 .. Len(C) : ToSet(C[j]) \cap WithText(note) # {}
  /\ \A x \in Y \cap WithText(note) : \E j \in 1 .. Len(C) : x \in ToSet(C[j])
  /\ \A j, l \in 1 .. Len(C) : j < l => \A x \in ToSet(C[j]), y \in ToSet(C[l]) : x < y
  /\ \A j \in 1 .. Len(C) : \A x \in ToSet(C[j]) \cap WithText(note) :
       (\A y \in ToSet(C[j]) \cap WithText(note) : x <= y) => code[x] = FALSE

HoldsCode(note, code, lines) ==
  \A x \in ToSet(lines) : x \notin WithText(note) => code[x] = TRUE

LEMMA ParagraphsArePieces ==
  ASSUME NEW note \in Seq(Line), NEW first, NEW code, NEW a, NEW b,
         IsStretch(note, first, code, a, b), NEW lines,
         Len(lines) = b + 1 - a, \A k \in 1 .. Len(lines) : lines[k] = a + k - 1
  PROVE  /\ ArePieces(note, code, a .. b, SplitOnBlankLines(note, lines))
         /\ \A j \in 1 .. Len(SplitOnBlankLines(note, lines)) :
              HoldsCode(note, code, SplitOnBlankLines(note, lines)[j])
<1> DEFINE B == GapsOf(note, a, b, code)
           X == WithText(note)
<1>1. PICK s \in ParagraphState :
        /\ AreParagraphsAfter(note, a, b, code, AllTexts(s), b)
        /\ SplitOnBlankLines(note, lines)
             = IF HasText(note, s.text) THEN AllTexts(s) ELSE s.paragraphs
  BY ParagraphsAreCut
<1>2. PICK all, C, m, n : /\ all = AllTexts(s) /\ C = SplitOnBlankLines(note, lines)
                          /\ m = Len(all) /\ n = Len(C)
  OBVIOUS
<1>3. /\ all \in Seq(Seq(Nat)) /\ m = Len(s.paragraphs) + 1 /\ Len(s.paragraphs) \in Nat
      /\ all[Len(s.paragraphs) + 1] = s.text
      /\ \A j \in 1 .. Len(s.paragraphs) : all[j] = s.paragraphs[j]
  BY <1>2, AllTextsAre
<1>4. AreParagraphs(note, a, b, code, all, b + 1)
  BY <1>1, <1>2 DEF AreParagraphsAfter
<1>5. /\ a \in Nat /\ b \in Nat /\ \A i \in a .. b : i \in DOMAIN note /\ i \in first .. Len(note)
  BY GapsAre
<1>6. /\ \A j, l \in 1 .. m : j < l => \A x \in ToSet(all[j]), y \in ToSet(all[l]) : x < y
      /\ \A j \in 1 .. m : \A x \in ToSet(all[j]) : x \in a .. b /\ x \notin B
      /\ \A x \in a .. b : x \notin B => \E j \in 1 .. m : x \in ToSet(all[j])
      /\ \A j \in 1 .. m : \A x \in ToSet(all[j]) \cap X :
           (\A y \in ToSet(all[j]) \cap X : x <= y) => code[x] = FALSE
  <2>1. IsNoteCut(B, X, code, LinesOf(all), m, a, b + 1)
    BY <1>2, <1>4 DEF AreParagraphs
  <2>2. \A j \in 1 .. m : LinesOf(all)[j] = ToSet(all[j])
    BY <1>2 DEF LinesOf
  <2>3. (b + 1) - 1 = b
    BY <1>5
  <2>4. \A j, l \in 1 .. m : j < l => \A x \in ToSet(all[j]), y \in ToSet(all[l]) : x < y
    BY <2>1, <2>2 DEF IsNoteCut, AreApart
  <2>5. /\ \A j \in 1 .. m : \A x \in ToSet(all[j]) : x \in a .. b /\ x \notin B
        /\ \A x \in a .. b : x \notin B => \E j \in 1 .. m : x \in ToSet(all[j])
    <3> HIDE DEF B
    <3>1. /\ \A j \in 1 .. m : \A x \in LinesOf(all)[j] : x \in a .. (b + 1) - 1 /\ x \notin B
          /\ \A x \in a .. (b + 1) - 1 : x \notin B => \E j \in 1 .. m : x \in LinesOf(all)[j]
      BY <2>1 DEF IsNoteCut, HoldAll
    <3>2. \A x \in a .. b : x \notin B => \E j \in 1 .. m : x \in LinesOf(all)[j]
      BY <2>3, <3>1
    <3> QED
      BY <2>2, <2>3, <3>1, <3>2
  <2>6. \A j \in 1 .. m : \A x \in ToSet(all[j]) \cap X :
           (\A y \in ToSet(all[j]) \cap X : x <= y) => code[x] = FALSE
    BY <2>1, <2>2 DEF IsNoteCut, BeginOutside
  <2> QED
    BY <2>4, <2>5, <2>6
<1>7. /\ C \in Seq(Seq(Nat)) /\ n \in Nat /\ \A j \in 1 .. n : j \in 1 .. m /\ C[j] = all[j]
      /\ \A j \in 1 .. m : j \in 1 .. n \/ ToSet(all[j]) \cap X = {}
      /\ \A j \in 1 .. n : j < m \/ ToSet(all[j]) \cap X # {}
  <2>1. ToSet(all[m]) \subseteq DOMAIN note /\ all[m] = s.text /\ m \in 1 .. m
    <3>1. m \in 1 .. m /\ all[m] = s.text
      BY <1>3
    <3>2. \A x \in ToSet(all[m]) : x \in a .. b
      BY <1>6, <3>1
    <3> QED
      BY <1>5, <3>1, <3>2
  <2>2. HasText(note, s.text) <=> ToSet(all[m]) \cap X # {}
    BY <2>1, HasTextIs
  <2>3. CASE HasText(note, s.text)
    <3>1. C = all /\ n = m
      BY <1>1, <1>2, <2>3
    <3>2. \A j \in 1 .. m : j < m \/ j = m
      BY <1>3
    <3> QED
      BY <1>3, <2>2, <2>3, <3>1, <3>2
  <2>4. CASE ~ HasText(note, s.text)
    <3>1. C = s.paragraphs /\ n = Len(s.paragraphs)
      BY <1>1, <1>2, <2>4
    <3>2. C \in Seq(Seq(Nat))
      BY <3>1 DEF ParagraphState
    <3>3. \A j \in 1 .. m : j \in 1 .. n \/ j = m
      BY <1>3, <3>1
    <3>4. \A j \in 1 .. n : j \in 1 .. m /\ j < m
      BY <1>3, <3>1
    <3> QED
      BY <1>3, <2>2, <2>4, <3>1, <3>2, <3>3, <3>4
  <2> QED
    BY <2>3, <2>4
<1>8. \A j \in 1 .. n : Rising(C[j]) /\ ToSet(C[j]) \subseteq a .. b /\ ToSet(C[j]) \cap X # {}
  BY <1>2, <1>4, <1>6, <1>7 DEF AreParagraphs
<1>9. \A x \in (a .. b) \cap X : \E j \in 1 .. n : x \in ToSet(C[j])
  <2>1. ASSUME NEW x \in (a .. b) \cap X PROVE \E j \in 1 .. n : x \in ToSet(C[j])
    <3>1. x \notin B
      BY DEF GapsOf
    <3>2. PICK j \in 1 .. m : x \in ToSet(all[j])
      BY <1>6, <3>1
    <3> QED
      BY <1>7, <3>2
  <2> QED
    BY <2>1
<1>10. \A j, l \in 1 .. n : j < l => \A x \in ToSet(C[j]), y \in ToSet(C[l]) : x < y
  BY <1>6, <1>7
<1>11. \A j \in 1 .. n : \A x \in ToSet(C[j]) \cap X :
         (\A y \in ToSet(C[j]) \cap X : x <= y) => code[x] = FALSE
  BY <1>6, <1>7
<1>12. ArePieces(note, code, a .. b, C)
  BY <1>2, <1>7, <1>8, <1>9, <1>10, <1>11 DEF ArePieces
<1>13. \A j \in 1 .. n : HoldsCode(note, code, C[j])
  <2>1. ASSUME NEW j \in 1 .. n, NEW x \in ToSet(C[j]), x \notin X PROVE code[x] = TRUE
    <3>1. x \in a .. b /\ x \notin B
      BY <1>6, <1>7
    <3>2. code[x] # FALSE
      BY <2>1, <3>1 DEF GapsOf
    <3>3. x \in first .. Len(note) + 1
      BY <1>5, <3>1, LenProperties
    <3>4. code[x] \in BOOLEAN
      BY <3>3 DEF IsStretch, IsCoded
    <3> QED
      BY <3>2, <3>4
  <2> QED
    BY <2>1 DEF HoldsCode
<1> QED
  BY <1>2, <1>12, <1>13

LEMMA TrimmedPieces ==
  ASSUME NEW note \in Seq(Line), NEW code, NEW Y \in SUBSET DOMAIN note, NEW C,
         ArePieces(note, code, Y, C), NEW D, D \in Seq(Seq(Nat)), Len(D) = Len(C),
         \A j \in 1 .. Len(C) : D[j] = Trimmed(note, C[j])
  PROVE  /\ ArePieces(note, code, Y, D)
         /\ \A j \in 1 .. Len(D) : 1 \in DOMAIN D[j] /\ D[j][1] \in WithText(note)
<1> DEFINE X == WithText(note)
<1>1. PICK n : n = Len(C)
  OBVIOUS
<1>2. \A j \in 1 .. n : C[j] \in Seq(Nat) /\ Rising(C[j]) /\ ToSet(C[j]) \subseteq DOMAIN note
  <2>1. PICK S : S = Seq(Nat)
    OBVIOUS
  <2>2. C \in Seq(S)
    BY <2>1 DEF ArePieces
  <2>3. \A j \in 1 .. n : C[j] \in S
    BY <1>1, <2>2, ElementOfSeq
  <2>4. \A j \in 1 .. n : Rising(C[j]) /\ ToSet(C[j]) \subseteq DOMAIN note
    BY <1>1 DEF ArePieces
  <2> QED
    BY <2>1, <2>3, <2>4
<1>3. \A j \in 1 .. n : IsTrimmed(D[j], note, C[j])
  BY <1>1, <1>2, TrimmedIs
<1>4. \A j \in 1 .. n : ToSet(C[j]) \subseteq Y /\ ToSet(C[j]) \cap X # {}
  BY <1>1 DEF ArePieces
<1>5. \A j \in 1 .. n : /\ Rising(D[j]) /\ ToSet(D[j]) \subseteq ToSet(C[j])
                        /\ ToSet(D[j]) \cap X = ToSet(C[j]) \cap X
                        /\ 1 \in DOMAIN D[j] /\ D[j][1] \in X
  BY <1>3, <1>4 DEF IsTrimmed
<1>6. \A x \in Y \cap X : \E j \in 1 .. n : x \in ToSet(D[j])
  <2>1. ASSUME NEW x \in Y \cap X PROVE \E j \in 1 .. n : x \in ToSet(D[j])
    <3>1. PICK j \in 1 .. n : x \in ToSet(C[j])
      BY <1>1 DEF ArePieces
    <3> QED
      BY <1>5, <3>1
  <2> QED
    BY <2>1
<1>7. \A j, l \in 1 .. n : j < l => \A x \in ToSet(D[j]), y \in ToSet(D[l]) : x < y
  <2>1. \A j, l \in 1 .. n : j < l => \A x \in ToSet(C[j]), y \in ToSet(C[l]) : x < y
    BY <1>1 DEF ArePieces
  <2> QED
    BY <1>5, <2>1
<1>8. \A j \in 1 .. n : \A x \in ToSet(D[j]) \cap X :
         (\A y \in ToSet(D[j]) \cap X : x <= y) => code[x] = FALSE
  <2>1. \A j \in 1 .. n : \A x \in ToSet(C[j]) \cap X :
         (\A y \in ToSet(C[j]) \cap X : x <= y) => code[x] = FALSE
    BY <1>1 DEF ArePieces
  <2> QED
    BY <1>5, <2>1
<1>9. \A j \in 1 .. n : Rising(D[j]) /\ ToSet(D[j]) \subseteq Y /\ ToSet(D[j]) \cap X # {}
  BY <1>4, <1>5
<1> HIDE DEF X
<1>10. ArePieces(note, code, Y, D)
  BY <1>1, <1>6, <1>7, <1>8, <1>9 DEF ArePieces, X
<1> QED
  BY <1>1, <1>5, <1>10 DEF X

LEMMA SectionIsStretch ==
  ASSUME NEW note \in Seq(Line), NEW first \in 1 .. Len(note) + 1, NEW code,
         IsCoded(note, first, code), NEW all,
         AreSectionsAfter(note, first, code, all, Len(note)), NEW j \in 1 .. Len(all),
         NEW text, text = Trimmed(note, all[j].body), text # <<>>
  PROVE  /\ IsStretch(note, first, code, text[1], text[Len(text)])
         /\ ToSet(text) = text[1] .. text[Len(text)]
         /\ text \in Seq(Nat) /\ Rising(text) /\ ToSet(text) \subseteq ToSet(all[j].body)
         /\ ToSet(text) \cap WithText(note) = ToSet(all[j].body) \cap WithText(note)
         /\ text[1] \in WithText(note) /\ text[Len(text)] \in WithText(note)
<1> DEFINE W == HeadsOf(note, first, code)
           X == WithText(note)
           N == Len(note)
           P == Bodies(all)
           m == Len(all)
           a == text[1]
           b == text[Len(text)]
<1>1. IsNoteCut(W, X, code, P, m, first, N + 1)
  BY DEF AreSectionsAfter, AreSections
<1>2. N \in Nat /\ DOMAIN note = 1 .. N /\ (N + 1) - 1 = N /\ first \in Nat /\ 1 <= first
  BY LenProperties
<1>3. \A l \in 1 .. m : P[l] = ToSet(all[l].body) /\ \A x \in P[l] : x \in first .. N /\ x \notin W
  <2>1. \A l \in 1 .. m : P[l] = ToSet(all[l].body)
    BY DEF Bodies
  <2>2. \A l \in 1 .. m : \A x \in P[l] : x \in first .. (N + 1) - 1 /\ x \notin W
    <3> HIDE DEF P, W
    <3> QED
      BY <1>1 DEF IsNoteCut, HoldAll
  <2> QED
    BY <1>2, <2>1, <2>2
<1>4. all[j].body \in Seq(Nat) /\ Rising(all[j].body)
  <2>1. AreRising(all) /\ all \in Seq(Section)
    BY DEF AreSectionsAfter, AreSections
  <2>2. all[j] \in Section
    BY <2>1, ElementOfSeq
  <2> QED
    BY <2>1, <2>2 DEF AreRising, Section
<1>5. IsTrimmed(text, note, all[j].body)
  <2>1. ToSet(all[j].body) \subseteq DOMAIN note
    BY <1>2, <1>3
  <2> QED
    BY <1>4, <2>1, TrimmedIs
<1>6. /\ text \in Seq(Nat) /\ Rising(text) /\ ToSet(text) \subseteq P[j]
      /\ ToSet(text) \cap X = P[j] \cap X
      /\ 1 \in DOMAIN text /\ Len(text) \in DOMAIN text /\ a \in X /\ b \in X
      /\ \A x \in P[j] : (a <= x /\ x <= b) => x \in ToSet(text)
  BY <1>3, <1>5 DEF IsTrimmed
<1>7. /\ Len(text) \in Nat /\ DOMAIN text = 1 .. Len(text)
      /\ \A k \in 1 .. Len(text) : text[k] \in Nat /\ text[k] \in ToSet(text)
  BY <1>6, LenProperties, ElementOfSeq DEF ToSet
<1>8. a \in P[j] /\ b \in P[j] /\ a \in first .. N /\ b \in first .. N
  BY <1>3, <1>6, <1>7
<1>9. \A x \in ToSet(text) : x \in Nat /\ a <= x /\ x <= b
  <2>1. ASSUME NEW k \in 1 .. Len(text) PROVE a <= text[k] /\ text[k] <= b
    <3>1. k = 1 \/ 1 < k
      BY <1>7
    <3>2. 1 < k => a < text[k]
      BY <1>6, <1>7 DEF Rising
    <3>3. k = Len(text) \/ k < Len(text)
      BY <1>7
    <3>4. k < Len(text) => text[k] < b
      BY <1>6, <1>7 DEF Rising
    <3>5. a \in Nat /\ b \in Nat /\ text[k] \in Nat
      BY <1>6, <1>7
    <3> QED
      BY <3>1, <3>2, <3>3, <3>4, <3>5
  <2> QED
    BY <1>7, <2>1 DEF ToSet
<1>10. a <= b
  BY <1>6, <1>7, <1>9
<1> HIDE DEF a, b, P, W
<1>11. ASSUME NEW x \in a .. b PROVE x \in P[j]
  <2>1. x \in Nat /\ x \in first .. N /\ a <= x /\ x <= b /\ a \in Nat /\ b \in Nat
    BY <1>2, <1>8
  <2>2. CASE x = a \/ x = b
    BY <1>8, <2>2
  <2>3. CASE x # a /\ x # b
    <3>1. a < x /\ x < b
      BY <2>1, <2>3
    <3>2. x \notin W
      BY <1>1, <1>6, <1>8, <3>1 DEF IsNoteCut, AreApart
    <3>3. x \in first .. (N + 1) - 1
      BY <1>2, <2>1
    <3>4. PICK l \in 1 .. m : x \in P[l]
      BY <1>1, <3>2, <3>3 DEF IsNoteCut, HoldAll
    <3>5. \A i, k \in 1 .. m : i < k => \A y \in P[i], z \in P[k] : y < z
      BY <1>1 DEF IsNoteCut, AreApart
    <3>6. ~ (l < j)
      BY <1>8, <2>1, <3>1, <3>4, <3>5
    <3>7. ~ (j < l)
      BY <1>8, <2>1, <3>1, <3>4, <3>5
    <3>8. l = j
      <4>1. m \in Nat
        BY <1>1 DEF IsNoteCut, AreApart
      <4> QED
        BY <3>6, <3>7, <4>1
    <3> QED
      BY <3>4, <3>8
  <2> QED
    BY <2>2, <2>3
<1>12. ToSet(text) = a .. b
  <2>1. \A x \in ToSet(text) : x \in a .. b
    BY <1>2, <1>8, <1>9
  <2>2. \A x \in a .. b : x \in ToSet(text)
    <3>1. \A x \in a .. b : a <= x /\ x <= b
      BY <1>2, <1>8
    <3> QED
      BY <1>6, <1>11, <3>1
  <2> QED
    BY <2>1, <2>2
<1>13. code[a] = FALSE
  <2>1. \A y \in P[j] \cap X : a <= y
    BY <1>6, <1>9
  <2> QED
    BY <1>1, <1>6, <1>8, <2>1 DEF IsNoteCut, BeginOutside
<1>14. IsStretch(note, first, code, a, b)
  BY <1>2, <1>8, <1>10, <1>13 DEF IsStretch
<1> QED
  BY <1>3, <1>6, <1>12, <1>14 DEF a, b

NoteChunk == [path : Seq(Nat), lines : Seq(Nat)]
TextsOf(D) == [j \in 1 .. Len(D) |-> D[j].lines]

AreChunksOf(note, code, Y, path, D) ==
  /\ D \in Seq(NoteChunk) /\ ArePieces(note, code, Y, TextsOf(D))
  /\ \A j \in 1 .. Len(D) :
       D[j].path = path /\ 1 \in DOMAIN D[j].lines /\ D[j].lines[1] \in WithText(note)
  /\ \A j \in 1 .. Len(D) :
       CharCount(note, D[j].lines) - 1 > Level2SplitThreshold => HoldsCode(note, code, D[j].lines)

LEMMA OnePiece ==
  ASSUME NEW note \in Seq(Line), NEW first, NEW code, NEW a, NEW b,
         IsStretch(note, first, code, a, b), NEW text \in Seq(Nat), Rising(text),
         ToSet(text) = a .. b, a \in WithText(note)
  PROVE  ArePieces(note, code, a .. b, <<text>>)
<1> DEFINE X == WithText(note)
<1>1. PICK C : C = <<text>>
  OBVIOUS
<1>2. C \in Seq(Seq(Nat)) /\ Len(C) = 1 /\ \A j \in 1 .. 1 : C[j] = text
  BY <1>1
<1>3. a \in Nat /\ b \in Nat /\ a \in a .. b
  BY GapsAre
<1>4. \A x \in a .. b : (\A y \in (a .. b) \cap X : x <= y) => code[x] = FALSE
  <2>1. ASSUME NEW x \in a .. b, \A y \in (a .. b) \cap X : x <= y PROVE code[x] = FALSE
    <3>1. x <= a
      BY <1>3, <2>1
    <3>2. x = a
      BY <1>3, <3>1
    <3> QED
      BY <3>2 DEF IsStretch
  <2> QED
    BY <2>1
<1>5. \A j, l \in 1 .. 1 : ~ (j < l)
  OBVIOUS
<1>6. 1 \in 1 .. 1 /\ (a .. b) \cap X # {}
  BY <1>3
<1> HIDE DEF X
<1> QED
  BY <1>1, <1>2, <1>4, <1>5, <1>6 DEF ArePieces, X

LEMMA SectionIsChunked ==
  ASSUME NEW note \in Seq(Line), NEW first \in 1 .. Len(note) + 1, NEW code,
         IsCoded(note, first, code), NEW all,
         AreSectionsAfter(note, first, code, all, Len(note)), NEW j \in 1 .. Len(all)
  PROVE  AreChunksOf(note, code, ToSet(all[j].body) \cap DOMAIN note, all[j].path,
                     SectionChunks(note, all[j]))
<1> DEFINE X == WithText(note)
           body == all[j].body
           path == all[j].path
           Y == ToSet(body) \cap DOMAIN note
<1>1. PICK text : text = Trimmed(note, body)
  OBVIOUS
<1>2. PICK pieces : pieces = IF text = <<>> THEN <<>> ELSE Pieces(note, text)
  OBVIOUS
<1>3. PICK D : D = SectionChunks(note, all[j])
  OBVIOUS
<1>4. D = [k \in DOMAIN pieces |-> [path |-> path, lines |-> Trimmed(note, pieces[k])]]
  BY <1>1, <1>2, <1>3 DEF SectionChunks
<1>5. body \in Seq(Nat) /\ Rising(body) /\ path \in Seq(Nat) /\ ToSet(body) \subseteq DOMAIN note
  <2>1. AreRising(all) /\ all \in Seq(Section)
    BY DEF AreSectionsAfter, AreSections
  <2>2. all[j] \in Section
    BY <2>1, ElementOfSeq
  <2>3. \A x \in Bodies(all)[j] : x \in first .. (Len(note) + 1) - 1
    BY DEF AreSectionsAfter, AreSections, IsNoteCut, HoldAll
  <2>4. \A x \in first .. (Len(note) + 1) - 1 : x \in DOMAIN note
    BY LenProperties
  <2>5. Bodies(all)[j] = ToSet(body)
    BY DEF Bodies
  <2> QED
    BY <2>1, <2>2, <2>3, <2>4, <2>5 DEF AreRising, Section
<1>6. CASE text = <<>>
  <2>1. D = <<>>
    BY <1>2, <1>4, <1>6
  <2>2. ToSet(body) \cap X = {}
    BY <1>1, <1>5, <1>6, TrimmedIs DEF IsTrimmed
  <2>3. D \in Seq(NoteChunk) /\ Len(D) = 0 /\ 1 .. 0 = {}
    BY <2>1
  <2>4. TextsOf(D) = <<>>
    BY <2>3 DEF TextsOf
  <2>5. ArePieces(note, code, Y, TextsOf(D))
    BY <2>2, <2>4, EmptySeq DEF ArePieces
  <2> QED
    BY <1>3, <2>3, <2>5 DEF AreChunksOf
<1>7. CASE text # <<>>
  <2> DEFINE a == text[1]
             b == text[Len(text)]
  <2>1. /\ IsStretch(note, first, code, a, b) /\ ToSet(text) = a .. b
        /\ text \in Seq(Nat) /\ Rising(text) /\ ToSet(text) \subseteq ToSet(body)
        /\ ToSet(text) \cap X = ToSet(body) \cap X /\ a \in X /\ b \in X
    <3>1. text = Trimmed(note, all[j].body) /\ text # <<>>
      BY <1>1, <1>7
    <3>2. IsStretch(note, first, code, text[1], text[Len(text)])
      BY <3>1, SectionIsStretch
    <3>3. ToSet(text) = text[1] .. text[Len(text)]
      BY <3>1, SectionIsStretch
    <3>4. /\ text \in Seq(Nat) /\ Rising(text) /\ ToSet(text) \subseteq ToSet(all[j].body)
          /\ ToSet(text) \cap WithText(note) = ToSet(all[j].body) \cap WithText(note)
          /\ text[1] \in WithText(note) /\ text[Len(text)] \in WithText(note)
      BY <3>1, SectionIsStretch
    <3> QED
      BY <3>2, <3>3, <3>4
  <2>2. a \in Nat /\ b \in Nat /\ a <= b
    BY <2>1, GapsAre
  <2>3. pieces = Pieces(note, text)
    BY <1>2, <1>7
  <2>4. /\ ArePieces(note, code, a .. b, pieces)
        /\ \A k \in 1 .. Len(pieces) : HoldsCode(note, code, pieces[k])
                \/ ~ (CharCount(note, Trimmed(note, pieces[k])) - 1 > Level2SplitThreshold)
    <3>1. CASE CharCount(note, text) - 1 > Level2SplitThreshold
      <4>1. pieces = SplitOnBlankLines(note, text)
        BY <2>3, <3>1 DEF Pieces
      <4>2. Len(text) = b + 1 - a /\ \A k \in 1 .. Len(text) : text[k] = a + k - 1
        BY <2>1, <2>2, RisingIsCounting
      <4>3. /\ ArePieces(note, code, a .. b, pieces)
            /\ \A k \in 1 .. Len(pieces) : HoldsCode(note, code, pieces[k])
        BY <2>1, <4>1, <4>2, ParagraphsArePieces
      <4> QED
        BY <4>3
    <3>2. CASE ~ (CharCount(note, text) - 1 > Level2SplitThreshold)
      <4>1. pieces = <<text>>
        BY <2>3, <3>2 DEF Pieces
      <4>2. ArePieces(note, code, a .. b, pieces)
        BY <2>1, <4>1, OnePiece
      <4>3. Trimmed(note, text) = text
        BY <1>5, <1>7, <2>1, TrimmedTwice
      <4>4. \A k \in 1 .. Len(pieces) : pieces[k] = text
        BY <4>1
      <4> QED
        BY <3>2, <4>2, <4>3, <4>4
    <3> QED
      BY <3>1, <3>2
  <2>5. PICK n, C : n = Len(pieces) /\ C = [k \in 1 .. n |-> Trimmed(note, pieces[k])]
    OBVIOUS
  <2>6. pieces \in Seq(Seq(Nat)) /\ n \in Nat /\ DOMAIN pieces = 1 .. n
    <3>1. PICK S : S = Seq(Nat)
      OBVIOUS
    <3>2. pieces \in Seq(S)
      BY <2>4, <3>1 DEF ArePieces
    <3>3. n \in Nat /\ DOMAIN pieces = 1 .. n
      BY <2>5, <3>2, LenProperties
    <3> QED
      BY <3>1, <3>2, <3>3
  <2>7. \A k \in 1 .. n : pieces[k] \in Seq(Nat) /\ Rising(pieces[k]) /\ ToSet(pieces[k]) \subseteq DOMAIN note
    <3>1. PICK S : S = Seq(Nat)
      OBVIOUS
    <3>2. \A k \in 1 .. n : pieces[k] \in S
      BY <2>5, <2>6, <3>1, ElementOfSeq
    <3>3. \A k \in 1 .. n : Rising(pieces[k]) /\ ToSet(pieces[k]) \subseteq a .. b
      BY <2>4, <2>5 DEF ArePieces
    <3> QED
      BY <1>5, <2>1, <3>1, <3>2, <3>3
  <2>8. \A k \in 1 .. n : IsTrimmed(C[k], note, pieces[k])
    BY <2>5, <2>7, TrimmedIs
  <2>9. C \in Seq(Seq(Nat)) /\ Len(C) = n
    <3>1. \A k \in 1 .. n : C[k] \in Seq(Nat)
      BY <2>8 DEF IsTrimmed
    <3>2. PICK S : S = Seq(Nat)
      OBVIOUS
    <3>3. C \in [1 .. n -> S]
      BY <2>5, <3>1, <3>2
    <3>4. C \in Seq(S) /\ Len(C) = n
      BY <2>6, <3>3
    <3> QED
      BY <3>2, <3>4
  <2>10. /\ ArePieces(note, code, a .. b, C)
         /\ \A k \in 1 .. n : 1 \in DOMAIN C[k] /\ C[k][1] \in X
    <3>1. a .. b \in SUBSET DOMAIN note
      BY <1>5, <2>1
    <3>2. \A k \in 1 .. Len(pieces) : C[k] = Trimmed(note, pieces[k])
      BY <2>5
    <3>3. PICK Z : Z = a .. b
      OBVIOUS
    <3>4. ArePieces(note, code, Z, pieces) /\ Z \in SUBSET DOMAIN note
      BY <2>4, <3>1, <3>3
    <3>5. /\ ArePieces(note, code, Z, C)
          /\ \A k \in 1 .. Len(C) : 1 \in DOMAIN C[k] /\ C[k][1] \in X
      BY <2>5, <2>9, <3>2, <3>4, TrimmedPieces
    <3> QED
      BY <2>9, <3>3, <3>5
  <2>11. ArePieces(note, code, Y, C)
    <3>1. (a .. b) \cap X = Y \cap X /\ (a .. b) \subseteq Y
      BY <1>5, <2>1
    <3> QED
      BY <2>10, <3>1 DEF ArePieces
  <2>12. /\ D \in Seq(NoteChunk) /\ Len(D) = n
         /\ \A k \in 1 .. n : D[k].path = path /\ D[k].lines = C[k]
    <3>1. D = [k \in 1 .. n |-> [path |-> path, lines |-> C[k]]]
      BY <1>4, <2>5, <2>6
    <3>2. \A k \in 1 .. n : [path |-> path, lines |-> C[k]] \in NoteChunk
      BY <1>5, <2>8 DEF NoteChunk, IsTrimmed
    <3>3. D \in [1 .. n -> NoteChunk]
      BY <3>1, <3>2
    <3>4. D \in Seq(NoteChunk) /\ Len(D) = n
      BY <2>6, <3>3
    <3> QED
      BY <3>1, <3>4
  <2>13. TextsOf(D) = C
    BY <2>5, <2>12 DEF TextsOf
  <2>14. \A k \in 1 .. n : CharCount(note, D[k].lines) - 1 > Level2SplitThreshold
           => HoldsCode(note, code, D[k].lines)
    <3>1. ASSUME NEW k \in 1 .. n, CharCount(note, C[k]) - 1 > Level2SplitThreshold
          PROVE  HoldsCode(note, code, C[k])
      <4>1. HoldsCode(note, code, pieces[k])
        BY <2>4, <2>5, <3>1
      <4>2. ToSet(C[k]) \subseteq ToSet(pieces[k])
        BY <2>8 DEF IsTrimmed
      <4> QED
        BY <4>1, <4>2 DEF HoldsCode
    <3> QED
      BY <2>12, <3>1
  <2> QED
    BY <1>3, <2>10, <2>11, <2>12, <2>13, <2>14 DEF AreChunksOf
<1> QED
  BY <1>6, <1>7

-----------------------------------------------------------------------------
(***************************************************************************)
(* Lists of lists, one after the other: at p is the I[p]-th of the J[p]-th *)
(* list.                                                                   *)
(***************************************************************************)
IsFlatBy(flat, seqs, n, J, I) ==
  /\ \A p \in 1 .. Len(flat) : /\ J[p] \in 1 .. n /\ I[p] \in 1 .. Len(seqs[J[p]])
                               /\ flat[p] = seqs[J[p]][I[p]]
  /\ \A p, q \in 1 .. Len(flat) : p < q => J[p] < J[q] \/ (J[p] = J[q] /\ I[p] < I[q])
  /\ \A j \in 1 .. n : \A k \in 1 .. Len(seqs[j]) :
       \E p \in 1 .. Len(flat) : J[p] = j /\ I[p] = k

IsFlat(flat, S, seqs, n) == flat \in Seq(S) /\ \E J, I : IsFlatBy(flat, seqs, n, J, I)

LEMMA FlatLonger ==
  ASSUME NEW S, NEW seqs \in Seq(Seq(S)), NEW n \in Nat, n + 1 <= Len(seqs),
         NEW flat, IsFlat(flat, S, seqs, n)
  PROVE  IsFlat(flat \o seqs[n + 1], S, seqs, n + 1)
<1>1. PICK J, I : IsFlatBy(flat, seqs, n, J, I)
  BY DEF IsFlat
<1>2. PICK last, all, l, m : /\ last = seqs[n + 1] /\ all = flat \o last
                             /\ l = Len(flat) /\ m = Len(last)
  OBVIOUS
<1>3. \A j \in 1 .. Len(seqs) : seqs[j] \in Seq(S)
  <2>1. PICK T : T = Seq(S)
    OBVIOUS
  <2>2. seqs \in Seq(T)
    BY <2>1
  <2> QED
    BY <2>1, <2>2, ElementOfSeq
<1>4. /\ flat \in Seq(S) /\ last \in Seq(S) /\ l \in Nat /\ m \in Nat
      /\ Len(seqs) \in Nat
  <2>1. flat \in Seq(S)
    BY DEF IsFlat
  <2>2. Len(seqs) \in Nat
    <3>1. PICK T : T = Seq(S)
      OBVIOUS
    <3> QED
      BY <3>1, LenProperties
  <2>3. n + 1 \in 1 .. Len(seqs)
    BY <2>2
  <2>4. last \in Seq(S)
    BY <1>2, <1>3, <2>3
  <2> QED
    BY <1>2, <2>1, <2>2, <2>4, LenProperties
<1>5. /\ all \in Seq(S) /\ Len(all) = l + m
      /\ \A p \in 1 .. l + m : all[p] = IF p <= l THEN flat[p] ELSE last[p - l]
  BY <1>2, <1>4, ConcatProperties
<1> DEFINE J1 == [p \in 1 .. l + m |-> IF p <= l THEN J[p] ELSE n + 1]
           K1 == [p \in 1 .. l + m |-> IF p <= l THEN I[p] ELSE p - l]
<1>6. ASSUME NEW p \in 1 .. l, NEW q \in 1 .. l
      PROVE  /\ J[p] \in 1 .. n /\ I[p] \in 1 .. Len(seqs[J[p]]) /\ flat[p] = seqs[J[p]][I[p]]
             /\ p < q => J[p] < J[q] \/ (J[p] = J[q] /\ I[p] < I[q])
  BY <1>1, <1>2 DEF IsFlatBy
<1>7. ASSUME NEW p \in 1 .. l + m
      PROVE  /\ J1[p] \in 1 .. n + 1 /\ K1[p] \in 1 .. Len(seqs[J1[p]])
             /\ all[p] = seqs[J1[p]][K1[p]]
  <2>1. CASE p <= l
    <3>1. p \in 1 .. l /\ J1[p] = J[p] /\ K1[p] = I[p] /\ all[p] = flat[p]
      BY <1>4, <1>5, <2>1
    <3>2. J[p] \in 1 .. n + 1
      BY <1>6, <3>1
    <3> QED
      BY <1>6, <3>1, <3>2
  <2>2. CASE ~ (p <= l)
    <3>1. J1[p] = n + 1 /\ K1[p] = p - l /\ all[p] = last[p - l] /\ p - l \in 1 .. m
      BY <1>4, <1>5, <2>2
    <3>2. n + 1 \in 1 .. n + 1
      OBVIOUS
    <3> QED
      BY <1>2, <3>1, <3>2
  <2> QED
    BY <2>1, <2>2
<1>8. ASSUME NEW p \in 1 .. l + m, NEW q \in 1 .. l + m, p < q
      PROVE  J1[p] < J1[q] \/ (J1[p] = J1[q] /\ K1[p] < K1[q])
  <2>1. CASE q <= l
    <3>1. /\ p \in 1 .. l /\ q \in 1 .. l /\ J1[p] = J[p] /\ K1[p] = I[p]
          /\ J1[q] = J[q] /\ K1[q] = I[q]
      BY <1>4, <1>8, <2>1
    <3> QED
      BY <1>6, <1>8, <3>1
  <2>2. CASE p <= l /\ ~ (q <= l)
    <3>1. p \in 1 .. l /\ J1[p] = J[p] /\ J1[q] = n + 1
      BY <1>4, <2>2
    <3>2. J[p] \in 1 .. n
      BY <1>6, <3>1
    <3> QED
      BY <3>1, <3>2
  <2>3. CASE ~ (p <= l) /\ ~ (q <= l)
    <3>1. J1[p] = n + 1 /\ J1[q] = n + 1 /\ K1[p] = p - l /\ K1[q] = q - l
      BY <2>3
    <3> QED
      BY <1>4, <1>8, <3>1
  <2> QED
    BY <1>4, <1>8, <2>1, <2>2, <2>3
<1>9. ASSUME NEW j \in 1 .. n + 1, NEW k \in 1 .. Len(seqs[j])
      PROVE  \E p \in 1 .. l + m : J1[p] = j /\ K1[p] = k
  <2>1. CASE j = n + 1
    <3>1. k \in 1 .. m
      BY <1>2, <2>1
    <3>2. l + k \in 1 .. l + m /\ ~ (l + k <= l) /\ (l + k) - l = k
      BY <1>4, <3>1
    <3>3. J1[l + k] = n + 1 /\ K1[l + k] = k
      BY <3>2
    <3> HIDE DEF J1, K1
    <3> QED
      BY <2>1, <3>2, <3>3
  <2>2. CASE j # n + 1
    <3>1. j \in 1 .. n
      BY <2>2
    <3>2. PICK p \in 1 .. l : J[p] = j /\ I[p] = k
      BY <1>1, <1>2, <3>1 DEF IsFlatBy
    <3>3. p \in 1 .. l + m /\ p <= l
      BY <1>4
    <3> QED
      BY <3>2, <3>3
  <2> QED
    BY <2>1, <2>2
<1> HIDE DEF J1, K1
<1>10. IsFlatBy(all, seqs, n + 1, J1, K1)
  <2>1. PICK N : N = l + m
    OBVIOUS
  <2>2. \A p \in 1 .. N : /\ J1[p] \in 1 .. n + 1 /\ K1[p] \in 1 .. Len(seqs[J1[p]])
                          /\ all[p] = seqs[J1[p]][K1[p]]
    BY <1>7, <2>1
  <2>3. \A p, q \in 1 .. N : p < q => J1[p] < J1[q] \/ (J1[p] = J1[q] /\ K1[p] < K1[q])
    BY <1>8, <2>1
  <2>4. \A j \in 1 .. n + 1 : \A k \in 1 .. Len(seqs[j]) :
          \E p \in 1 .. N : J1[p] = j /\ K1[p] = k
    BY <1>9, <2>1
  <2>5. Len(all) = N
    BY <1>5, <2>1
  <2> QED
    BY <2>2, <2>3, <2>4, <2>5, ZenonT(60) DEF IsFlatBy
<1>11. IsFlat(all, S, seqs, n + 1)
  BY <1>5, <1>10 DEF IsFlat
<1> QED
  BY <1>2, <1>11

LEMMA FlattenIs ==
  ASSUME NEW S, NEW seqs \in Seq(Seq(S))
  PROVE  IsFlat(FlattenSeq(seqs), S, seqs, Len(seqs))
<1> DEFINE n == Len(seqs)
           Q == Seq(S)
           step == [k \in 1 .. n |-> [s \in Q |-> s \o seqs[k]]]
<1>1. n \in Nat /\ \A k \in 1 .. n : seqs[k] \in Q
  <2>1. PICK T : T = Seq(S)
    OBVIOUS
  <2>2. seqs \in Seq(T)
    BY <2>1
  <2>3. Len(seqs) \in Nat /\ \A k \in 1 .. Len(seqs) : seqs[k] \in T
    BY <2>2, LenProperties, ElementOfSeq
  <2> QED
    BY <2>1, <2>3
<1>2. CASE n = 0
  <2>1. FlattenSeq(seqs) = seqs
    BY <1>2 DEF FlattenSeq
  <2>2. seqs = <<>>
    <3>1. PICK T : T = Seq(S)
      OBVIOUS
    <3>2. seqs \in Seq(T)
      BY <3>1
    <3> QED
      BY <1>2, <3>2, EmptySeq
  <2>3. seqs \in Seq(S)
    BY <2>2, EmptySeq
  <2>4. IsFlatBy(seqs, seqs, 0, <<>>, <<>>)
    BY <1>2 DEF IsFlatBy
  <2> QED
    BY <1>2, <2>1, <2>3, <2>4 DEF IsFlat
<1>3. CASE n # 0
  <2>1. \A k \in 1 .. n : \A s \in Q : s \o seqs[k] \in Q
    BY <1>1, ConcatProperties
  <2>2. step \in [1 .. n -> [Q -> Q]] /\ <<>> \in Q
    BY <2>1, EmptySeq
  <2>3. PICK run, x : x = <<>> /\ IsRun(run, Q, n, x, step)
    <3>1. PICK x : x = <<>>
      OBVIOUS
    <3> HIDE DEF Q, n, step
    <3> QED
      BY <1>1, <2>2, <3>1, RunsExist
  <2>4. /\ run \in [0 .. n -> Q] /\ run[0] = <<>>
        /\ \A k \in 1 .. n : run[k] = run[k - 1] \o seqs[k]
    <3>1. \A k \in 1 .. n : k - 1 \in 0 .. n
      BY <1>1
    <3>2. run \in [0 .. n -> Q] /\ run[0] = <<>> /\ \A k \in 1 .. n : run[k] = step[k][run[k - 1]]
      BY <2>3 DEF IsRun
    <3> QED
      BY <3>1, <3>2
  <2> DEFINE F(f) == [i \in 1 .. n |-> IF i = 1 THEN seqs[i] ELSE f[i - 1] \o seqs[i]]
             run1 == [i \in 1 .. n |-> run[i]]
  <2>5. run1 = F(run1)
    <3>1. ASSUME NEW i \in 1 .. n
          PROVE  run[i] = IF i = 1 THEN seqs[i] ELSE run1[i - 1] \o seqs[i]
      <4>1. CASE i = 1
        <5>0. 1 \in 1 .. n /\ 1 - 1 = 0
          BY <4>1
        <5>1. seqs[1] \in Seq(S) /\ run[1] = run[0] \o seqs[1]
          <6>1. run[1] = run[1 - 1] \o seqs[1]
            BY <2>4, <5>0
          <6> QED
            BY <1>1, <5>0, <6>1
        <5>2. <<>> \o seqs[1] = seqs[1]
          BY <5>1, ConcatEmptySeq
        <5> QED
          BY <2>4, <4>1, <5>1, <5>2
      <4>2. CASE i # 1
        <5>1. i - 1 \in 1 .. n
          BY <1>1, <4>2
        <5> QED
          BY <2>4, <4>2, <5>1
      <4> QED
        BY <4>1, <4>2
    <3> QED
      BY <3>1
  <2> DEFINE flatten == CHOOSE f : f = F(f)
  <2>6. FlattenSeq(seqs) = flatten[n]
    BY <1>3 DEF FlattenSeq
  <2>7. flatten = F(flatten)
    BY <2>5
  <2> HIDE DEF flatten
  <2>8. \A i \in 1 .. n : flatten[i] = IF i = 1 THEN seqs[i] ELSE flatten[i - 1] \o seqs[i]
    BY <2>7
  <2> HIDE DEF F
  <2> DEFINE T == {k \in 0 .. n : k = 0 \/ IsFlat(flatten[k], S, seqs, k)}
  <2>9. ASSUME NEW k \in 1 .. n, k - 1 \in T PROVE k \in T
    <3>1. k \in 0 .. n /\ k - 1 \in Nat /\ (k - 1) + 1 = k /\ k <= Len(seqs)
      BY <1>1
    <3>2. CASE k = 1
      <4>1. IsFlat(<<>>, S, seqs, 0)
        <5>1. IsFlatBy(<<>>, seqs, 0, <<>>, <<>>)
          BY DEF IsFlatBy
        <5> QED
          BY <2>2, <5>1 DEF IsFlat
      <4>2. PICK e, z : e = <<>> /\ z = 0
        OBVIOUS
      <4>a. z \in Nat /\ z + 1 <= Len(seqs) /\ IsFlat(e, S, seqs, z) /\ z + 1 = 1
        BY <3>1, <3>2, <4>1, <4>2
      <4>b. IsFlat(e \o seqs[z + 1], S, seqs, z + 1)
        BY <4>a, FlatLonger
      <4>3. IsFlat(e \o seqs[1], S, seqs, 1)
        BY <4>a, <4>b
      <4>4. flatten[1] = seqs[1] /\ seqs[1] \in Seq(S)
        BY <1>1, <2>8, <3>2
      <4>5. e \o seqs[1] = seqs[1]
        BY <4>2, <4>4, ConcatEmptySeq
      <4> QED
        BY <3>1, <3>2, <4>3, <4>4, <4>5
    <3>3. CASE k # 1
      <4>1. IsFlat(flatten[k - 1], S, seqs, k - 1)
        BY <2>9, <3>1, <3>3
      <4>2. PICK i, f : i = k - 1 /\ f = flatten[k - 1]
        OBVIOUS
      <4>3. IsFlat(f \o seqs[i + 1], S, seqs, i + 1)
        BY <3>1, <4>1, <4>2, FlatLonger
      <4>4. flatten[k] = f \o seqs[k]
        BY <2>8, <3>3, <4>2
      <4> QED
        BY <3>1, <4>2, <4>3, <4>4
    <3> QED
      BY <3>2, <3>3
  <2>10. n \in T
    <3>1. 0 \in T
      BY <1>1
    <3>2. n \in 0 .. n
      BY <1>1
    <3> HIDE DEF T, n
    <3> QED
      BY <1>1, <2>9, <3>1, <3>2, StepByStep
  <2> QED
    BY <1>3, <2>6, <2>10
<1> QED
  BY <1>2, <1>3

-----------------------------------------------------------------------------
(***************************************************************************)
(* The chunks of a note.                                                   *)
(***************************************************************************)
PlainOf(note, first, code) ==
  ((first .. Len(note)) \cap WithText(note)) \ HeadsOf(note, first, code)

HoldLines(note, first, code, C) ==
  /\ C \in Seq(NoteChunk)
  /\ \A p \in 1 .. Len(C) :
       /\ Rising(C[p].lines) /\ 1 \in DOMAIN C[p].lines /\ C[p].lines[1] \in WithText(note)
       /\ \A x \in ToSet(C[p].lines) : x \in first .. Len(note) /\ x \notin HeadsOf(note, first, code)
  /\ \A x \in PlainOf(note, first, code) : \E p \in 1 .. Len(C) : x \in ToSet(C[p].lines)
  /\ \A p, q \in 1 .. Len(C) : p < q =>
       \A x \in ToSet(C[p].lines), y \in ToSet(C[q].lines) : x < y

KeepCode(note, first, code, C) ==
  \A p \in 1 .. Len(C) :
    /\ \A x, y \in ToSet(C[p].lines) \cap WithText(note) :
         \A h \in HeadsOf(note, first, code) : ~ (x < h /\ h < y)
    /\ \A x \in ToSet(C[p].lines) \cap WithText(note) :
         (\A y \in ToSet(C[p].lines) \cap WithText(note) : x <= y) => code[x] = FALSE

KnowPaths(note, first, code, C) ==
  \A p \in 1 .. Len(C) :
    Rising(C[p].path)
    /\ ToSet(C[p].path) = OpenAt(note, HeadsOf(note, first, code), C[p].lines[1])

AreShort(note, code, C) ==
  \A p \in 1 .. Len(C) :
    CharCount(note, C[p].lines) - 1 > Level2SplitThreshold => HoldsCode(note, code, C[p].lines)

(* The chunks of the sections, and of each the text.                       *)
ChunksOfAll(note, all) == [j \in DOMAIN all |-> SectionChunks(note, all[j])]

AreCutBy(note, first, code, all, seqs) ==
  /\ IsNoteCut(HeadsOf(note, first, code), WithText(note), code, Bodies(all), Len(all), first,
           Len(note) + 1)
  /\ HavePaths(note, HeadsOf(note, first, code), all, Len(note) + 1) /\ AreRising(all)
  /\ seqs \in Seq(Seq(NoteChunk)) /\ Len(seqs) = Len(all) /\ Len(all) \in Nat \ {0}
  /\ \A j \in 1 .. Len(all) : /\ ToSet(all[j].body) \subseteq first .. Len(note)
                              /\ seqs[j] \in Seq(NoteChunk)
                              /\ AreChunksOf(note, code, ToSet(all[j].body), all[j].path, seqs[j])

LEMMA SectionsAreChunked ==
  ASSUME NEW note \in Seq(Line), NEW first \in 1 .. Len(note) + 1, NEW code,
         IsCoded(note, first, code), NEW all,
         AreSectionsAfter(note, first, code, all, Len(note))
  PROVE  AreCutBy(note, first, code, all, ChunksOfAll(note, all))
<1> DEFINE W == HeadsOf(note, first, code)
           N == Len(note)
<1>1. PICK seqs, m : seqs = ChunksOfAll(note, all) /\ m = Len(all)
  OBVIOUS
<1>2. /\ IsNoteCut(W, WithText(note), code, Bodies(all), m, first, N + 1)
      /\ HavePaths(note, W, all, N + 1) /\ AreRising(all) /\ all \in Seq(Section)
  BY <1>1 DEF AreSectionsAfter, AreSections
<1>3. m \in Nat \ {0} /\ DOMAIN all = 1 .. m
  BY <1>1, <1>2, LenProperties DEF IsNoteCut, AreApart
<1>4. N \in Nat /\ DOMAIN note = 1 .. N /\ first \in Nat /\ 1 <= first
  BY LenProperties
<1>5. ASSUME NEW j \in 1 .. m PROVE ToSet(all[j].body) \subseteq first .. N
  <2>1. \A x \in Bodies(all)[j] : x \in first .. (N + 1) - 1
    <3> HIDE DEF N, W
    <3> QED
      BY <1>2 DEF IsNoteCut, HoldAll
  <2>2. Bodies(all)[j] = ToSet(all[j].body)
    BY <1>1 DEF Bodies
  <2>3. (N + 1) - 1 = N
    BY <1>4
  <2> QED
    BY <2>1, <2>2, <2>3
<1>6. ASSUME NEW j \in 1 .. m
      PROVE  AreChunksOf(note, code, ToSet(all[j].body), all[j].path, seqs[j])
  <2>1. seqs[j] = SectionChunks(note, all[j])
    BY <1>1, <1>3 DEF ChunksOfAll
  <2>2. AreChunksOf(note, code, ToSet(all[j].body) \cap DOMAIN note, all[j].path,
                    SectionChunks(note, all[j]))
    <3>1. j \in 1 .. Len(all)
      BY <1>1
    <3> QED
      BY <3>1, SectionIsChunked
  <2>3. ToSet(all[j].body) \cap DOMAIN note = ToSet(all[j].body)
    BY <1>4, <1>5
  <2> QED
    BY <2>1, <2>2, <2>3
<1>7. \A j \in 1 .. m : seqs[j] \in Seq(NoteChunk)
  BY <1>6 DEF AreChunksOf
<1>8. seqs \in Seq(Seq(NoteChunk)) /\ Len(seqs) = m
  <2>1. PICK S : S = Seq(NoteChunk)
    OBVIOUS
  <2>2. seqs = [j \in 1 .. m |-> seqs[j]]
    BY <1>1, <1>3 DEF ChunksOfAll
  <2>3. seqs \in [1 .. m -> S]
    BY <1>7, <2>1, <2>2
  <2>4. seqs \in Seq(S) /\ Len(seqs) = m
    BY <1>3, <2>3
  <2> QED
    BY <2>1, <2>4
<1> QED
  BY <1>1, <1>2, <1>3, <1>5, <1>6, <1>7, <1>8 DEF AreCutBy

(* A chunk of a section is where its section is.                           *)
IsInPlace(note, code, all, seqs, j, k) ==
  LET c == seqs[j][k]  X == WithText(note) IN
  /\ c \in NoteChunk /\ c.path = all[j].path
  /\ Rising(c.lines) /\ ToSet(c.lines) \subseteq ToSet(all[j].body)
  /\ 1 \in DOMAIN c.lines /\ c.lines[1] \in X /\ c.lines[1] \in ToSet(c.lines)
  /\ \A x \in ToSet(c.lines) \cap X :
       (\A y \in ToSet(c.lines) \cap X : x <= y) => code[x] = FALSE
  /\ CharCount(note, c.lines) - 1 > Level2SplitThreshold => HoldsCode(note, code, c.lines)
  /\ \A l \in 1 .. Len(seqs[j]) : k < l =>
       \A x \in ToSet(c.lines), y \in ToSet(seqs[j][l].lines) : x < y

LEMMA ChunkIsIn ==
  ASSUME NEW note \in Seq(Line), NEW first, NEW code, NEW all, NEW seqs,
         AreCutBy(note, first, code, all, seqs),
         NEW j \in 1 .. Len(all), NEW k \in 1 .. Len(seqs[j])
  PROVE  IsInPlace(note, code, all, seqs, j, k)
<1>1. PICK D, Y, path : D = seqs[j] /\ Y = ToSet(all[j].body) /\ path = all[j].path
  OBVIOUS
<1>2. AreChunksOf(note, code, Y, path, D)
  BY <1>1 DEF AreCutBy
<1>3. /\ D \in Seq(NoteChunk) /\ ArePieces(note, code, Y, TextsOf(D)) /\ k \in 1 .. Len(D)
      /\ D[k].path = path /\ 1 \in DOMAIN D[k].lines /\ D[k].lines[1] \in WithText(note)
      /\ CharCount(note, D[k].lines) - 1 > Level2SplitThreshold
           => HoldsCode(note, code, D[k].lines)
  BY <1>1, <1>2 DEF AreChunksOf
<1>4. Len(TextsOf(D)) = Len(D) /\ \A l \in 1 .. Len(D) : TextsOf(D)[l] = D[l].lines
  <2>1. Len(D) \in Nat
    BY <1>3, LenProperties
  <2> QED
    BY <2>1 DEF TextsOf
<1>5. /\ Rising(D[k].lines) /\ ToSet(D[k].lines) \subseteq Y
      /\ \A x \in ToSet(D[k].lines) \cap WithText(note) :
           (\A y \in ToSet(D[k].lines) \cap WithText(note) : x <= y) => code[x] = FALSE
      /\ \A l \in 1 .. Len(D) : k < l =>
           \A x \in ToSet(D[k].lines), y \in ToSet(D[l].lines) : x < y
  BY <1>3, <1>4 DEF ArePieces
<1>6. D[k] \in NoteChunk
  BY <1>3, ElementOfSeq
<1>7. D[k].lines[1] \in ToSet(D[k].lines)
  BY <1>3 DEF ToSet
<1> QED
  BY <1>1, <1>3, <1>5, <1>6, <1>7 DEF IsInPlace

LEMMA ChunksHold ==
  ASSUME NEW note \in Seq(Line), NEW first, NEW code, NEW all, NEW seqs,
         AreCutBy(note, first, code, all, seqs), NEW C, IsFlat(C, NoteChunk, seqs, Len(all))
  PROVE  /\ HoldLines(note, first, code, C) /\ KeepCode(note, first, code, C)
         /\ KnowPaths(note, first, code, C) /\ AreShort(note, code, C)
<1> DEFINE W == HeadsOf(note, first, code)
           X == WithText(note)
           N == Len(note)
           P == Bodies(all)
<1>1. PICK J, I, m, n : IsFlatBy(C, seqs, m, J, I) /\ m = Len(all) /\ n = Len(C)
  BY DEF IsFlat
<1>2. /\ \A p \in 1 .. n : /\ J[p] \in 1 .. m /\ I[p] \in 1 .. Len(seqs[J[p]])
                           /\ C[p] = seqs[J[p]][I[p]]
      /\ \A p, q \in 1 .. n : p < q => J[p] < J[q] \/ (J[p] = J[q] /\ I[p] < I[q])
      /\ \A j \in 1 .. m : \A k \in 1 .. Len(seqs[j]) :
           \E p \in 1 .. n : J[p] = j /\ I[p] = k
  BY <1>1 DEF IsFlatBy
<1>3. /\ IsNoteCut(W, X, code, P, m, first, N + 1) /\ HavePaths(note, W, all, N + 1)
      /\ AreRising(all) /\ m \in Nat \ {0}
      /\ \A j \in 1 .. m : P[j] = ToSet(all[j].body) /\ P[j] \subseteq first .. N
  BY <1>1 DEF AreCutBy, Bodies
<1>4. ASSUME NEW p \in 1 .. n
      PROVE  /\ C[p] \in NoteChunk /\ Rising(C[p].lines) /\ ToSet(C[p].lines) \subseteq P[J[p]]
             /\ 1 \in DOMAIN C[p].lines /\ C[p].lines[1] \in X
             /\ C[p].lines[1] \in ToSet(C[p].lines) /\ C[p].path = all[J[p]].path
             /\ \A x \in ToSet(C[p].lines) \cap X :
                  (\A y \in ToSet(C[p].lines) \cap X : x <= y) => code[x] = FALSE
             /\ CharCount(note, C[p].lines) - 1 > Level2SplitThreshold
                  => HoldsCode(note, code, C[p].lines)
  <2>1. PICK j, k : j = J[p] /\ k = I[p]
    OBVIOUS
  <2>2. j \in 1 .. Len(all) /\ k \in 1 .. Len(seqs[j]) /\ C[p] = seqs[j][k] /\ j \in 1 .. m
    BY <1>1, <1>2, <2>1
  <2>3. IsInPlace(note, code, all, seqs, j, k)
    BY <2>2, ChunkIsIn
  <2>4. /\ C[p] \in NoteChunk /\ C[p].path = all[j].path
        /\ Rising(C[p].lines) /\ ToSet(C[p].lines) \subseteq ToSet(all[j].body)
        /\ 1 \in DOMAIN C[p].lines /\ C[p].lines[1] \in X
        /\ C[p].lines[1] \in ToSet(C[p].lines)
        /\ \A x \in ToSet(C[p].lines) \cap X :
             (\A y \in ToSet(C[p].lines) \cap X : x <= y) => code[x] = FALSE
        /\ CharCount(note, C[p].lines) - 1 > Level2SplitThreshold
             => HoldsCode(note, code, C[p].lines)
    BY <2>2, <2>3 DEF IsInPlace
  <2> HIDE DEF P
  <2> QED
    BY <1>3, <2>1, <2>2, <2>4
<1>5. \A p, q \in 1 .. n : p < q =>
        \A x \in ToSet(C[p].lines), y \in ToSet(C[q].lines) : x < y
  <2>1. ASSUME NEW p \in 1 .. n, NEW q \in 1 .. n, p < q,
               NEW x \in ToSet(C[p].lines), NEW y \in ToSet(C[q].lines)
        PROVE  x < y
    <3> HIDE DEF P, W
    <3>1. J[p] \in 1 .. m /\ J[q] \in 1 .. m /\ x \in P[J[p]] /\ y \in P[J[q]]
      BY <1>2, <1>4
    <3>2. CASE J[p] < J[q]
      BY <1>3, <3>1, <3>2 DEF IsNoteCut, AreApart
    <3>3. CASE J[p] = J[q] /\ I[p] < I[q]
      <4>1. PICK j, k, l : j = J[p] /\ k = I[p] /\ l = I[q]
        OBVIOUS
      <4>2. /\ j \in 1 .. Len(all) /\ k \in 1 .. Len(seqs[j]) /\ l \in 1 .. Len(seqs[j])
            /\ k < l /\ C[p] = seqs[j][k] /\ C[q] = seqs[j][l]
        BY <1>1, <1>2, <3>3, <4>1
      <4>3. \A u \in ToSet(seqs[j][k].lines), v \in ToSet(seqs[j][l].lines) : u < v
        <5>1. IsInPlace(note, code, all, seqs, j, k)
          BY <4>2, ChunkIsIn
        <5> QED
          BY <4>2, <5>1 DEF IsInPlace
      <4> QED
        BY <4>2, <4>3
    <3> QED
      BY <1>2, <2>1, <3>2, <3>3
  <2> QED
    BY <2>1
<1>6. C \in Seq(NoteChunk)
  BY DEF IsFlat
<1>7. \A x \in PlainOf(note, first, code) : \E p \in 1 .. n : x \in ToSet(C[p].lines)
  <2>1. ASSUME NEW x \in first .. N, x \in X, x \notin W
        PROVE  \E p \in 1 .. n : x \in ToSet(C[p].lines)
    <3>1. (N + 1) - 1 = N
      BY LenProperties
    <3>2. PICK j \in 1 .. m : x \in P[j]
      <4> HIDE DEF P, W, N
      <4> QED
        BY <1>3, <2>1, <3>1 DEF IsNoteCut, HoldAll
    <3>3. PICK D, Y : D = seqs[j] /\ Y = ToSet(all[j].body)
      OBVIOUS
    <3>4. D \in Seq(NoteChunk) /\ ArePieces(note, code, Y, TextsOf(D)) /\ x \in Y
      BY <1>1, <1>3, <3>2, <3>3 DEF AreCutBy, AreChunksOf
    <3>5. Len(TextsOf(D)) = Len(D) /\ \A l \in 1 .. Len(D) : TextsOf(D)[l] = D[l].lines
      <4>1. Len(D) \in Nat
        BY <3>4, LenProperties
      <4> QED
        BY <4>1 DEF TextsOf
    <3>6. PICK k \in 1 .. Len(D) : x \in ToSet(D[k].lines)
      BY <2>1, <3>4, <3>5 DEF ArePieces
    <3>7. PICK p \in 1 .. n : J[p] = j /\ I[p] = k
      BY <1>2, <3>3, <3>6
    <3> QED
      BY <1>2, <3>3, <3>6, <3>7
  <2> QED
    BY <2>1 DEF PlainOf
<1>8. HoldLines(note, first, code, C)
  <2>1. ASSUME NEW p \in 1 .. n, NEW x \in ToSet(C[p].lines)
        PROVE  x \in first .. N /\ x \notin W
    <3> HIDE DEF P, W, N
    <3>1. x \in P[J[p]] /\ J[p] \in 1 .. m
      BY <1>2, <1>4
    <3> QED
      BY <1>3, <3>1 DEF IsNoteCut, HoldAll
  <2> HIDE DEF P, W
  <2> QED
    BY <1>1, <1>4, <1>5, <1>6, <1>7, <2>1 DEF HoldLines, W
<1>9. KeepCode(note, first, code, C)
  <2>1. ASSUME NEW p \in 1 .. n, NEW x \in ToSet(C[p].lines) \cap X,
               NEW y \in ToSet(C[p].lines) \cap X, NEW h \in W
        PROVE  ~ (x < h /\ h < y)
    <3> HIDE DEF P, W, N
    <3>1. x \in P[J[p]] \cap X /\ y \in P[J[p]] \cap X /\ J[p] \in 1 .. m
      BY <1>2, <1>4
    <3> QED
      BY <1>3, <3>1 DEF IsNoteCut, AreApart
  <2> HIDE DEF P
  <2> QED
    BY <1>1, <1>4, <2>1 DEF KeepCode
<1>10. KnowPaths(note, first, code, C)
  <2>1. ASSUME NEW p \in 1 .. n
        PROVE  Rising(C[p].path) /\ ToSet(C[p].path) = OpenAt(note, W, C[p].lines[1])
    <3>1. PICK j, x : j = J[p] /\ x = C[p].lines[1]
      OBVIOUS
    <3>2. j \in 1 .. m /\ C[p].path = all[j].path /\ x \in ToSet(all[j].body) \cap X
      <4>1. j \in 1 .. m /\ C[p].path = all[j].path
        BY <1>2, <1>4, <3>1
      <4>2. x \in P[J[p]] /\ x \in X
        <5> HIDE DEF P, X
        <5> QED
          BY <1>4, <3>1
      <4> QED
        BY <1>3, <3>1, <4>1, <4>2
    <3> QED
      BY <1>1, <1>3, <3>1, <3>2 DEF HavePaths, AreRising
  <2> QED
    BY <1>1, <2>1 DEF KnowPaths
<1>11. AreShort(note, code, C)
  BY <1>1, <1>4 DEF AreShort
<1> QED
  BY <1>8, <1>9, <1>10, <1>11

(* What the chunks of a note are made of: its body, and which of its lines *)
(* are in code.                                                            *)
IsRead(note, first, body, code) ==
  /\ IsBody(note, first, body) /\ body = BodyOf(note) /\ IsCoded(note, first, code)
  /\ \A i \in first .. Len(note) : InCode(note, body, i) = code[i]

LEMMA NoteIsRead ==
  ASSUME NEW note \in Seq(Line)
  PROVE  \E first, body, code : IsRead(note, first, body, code)
<1>1. PICK first, body : body = BodyOf(note) /\ IsBody(note, first, body)
  BY BodyIs
<1>2. PICK code : IsCoded(note, first, code)
                  /\ \A i \in first .. Len(note) : InCode(note, body, i) = code[i]
  BY <1>1, CodeIs
<1> QED
  BY <1>1, <1>2 DEF IsRead

LEMMA LinesRead ==
  ASSUME NEW note \in Seq(Line), NEW first, NEW body, NEW code, IsRead(note, first, body, code)
  PROVE  /\ first \in 1 .. Len(note) + 1 /\ Len(note) \in Nat /\ DOMAIN note = 1 .. Len(note)
         /\ body \in Seq(Nat) /\ Rising(body) /\ ToSet(body) = first .. Len(note)
         /\ ToSet(body) \subseteq DOMAIN note
         /\ HeadsOf(note, first, code) = {i \in ToSet(body) : IsHeading(note, body, i)}
         /\ {i \in ToSet(body) : ~ Is(note, i, "blank")} = ToSet(body) \cap WithText(note)
         /\ PlainOf(note, first, code)
              = (ToSet(body) \cap WithText(note)) \ HeadsOf(note, first, code)
<1>1. /\ first \in 1 .. Len(note) + 1 /\ body \in Seq(Nat) /\ ToSet(body) = first .. Len(note)
      /\ Len(body) = Len(note) + 1 - first /\ \A k \in 1 .. Len(body) : body[k] = first + k - 1
  BY DEF IsRead, IsBody
<1>2. Len(note) \in Nat /\ DOMAIN note = 1 .. Len(note)
  BY LenProperties
<1>3. ToSet(body) \subseteq DOMAIN note
  BY <1>1, <1>2
<1>4. Rising(body)
  <2>1. DOMAIN body = 1 .. Len(body)
    BY <1>1, LenProperties
  <2> QED
    BY <1>1, <2>1, SMTT(40) DEF Rising
<1>5. HeadsOf(note, first, code) = {i \in ToSet(body) : IsHeading(note, body, i)}
  <2>1. ASSUME NEW i \in first .. Len(note)
        PROVE  (code[i] = FALSE) <=> ~ InCode(note, body, i)
    <3>1. InCode(note, body, i) = code[i]
      BY DEF IsRead
    <3>2. InCode(note, body, i) \in BOOLEAN
      BY DEF InCode
    <3> QED
      BY <3>1, <3>2
  <2> QED
    BY <1>1, <2>1 DEF HeadsOf, IsHeading
<1>6. {i \in ToSet(body) : ~ Is(note, i, "blank")} = ToSet(body) \cap WithText(note)
  BY <1>3 DEF Is, WithText
<1>7. PlainOf(note, first, code) = (ToSet(body) \cap WithText(note)) \ HeadsOf(note, first, code)
  BY <1>1 DEF PlainOf
<1> QED
  BY <1>1, <1>2, <1>3, <1>4, <1>5, <1>6, <1>7

(* The only chunk of a note of nothing but headings, or less.              *)
IsOneChunk(note, first, body, code, C) ==
  /\ PlainOf(note, first, code) = {}
  /\ C = <<[path |-> <<>>, lines |-> Trimmed(note, body)]>>

AreManyChunks(note, first, code, C) ==
  /\ PlainOf(note, first, code) # {} /\ C # <<>>
  /\ HoldLines(note, first, code, C) /\ KeepCode(note, first, code, C)
  /\ KnowPaths(note, first, code, C) /\ AreShort(note, code, C)

LEMMA ChunksAre ==
  ASSUME NEW note \in Seq(Line), NEW first, NEW body, NEW code, IsRead(note, first, body, code)
  PROVE  \/ IsOneChunk(note, first, body, code, SplitIntoChunks(note))
         \/ AreManyChunks(note, first, code, SplitIntoChunks(note))
<1> DEFINE all == SplitByHeaders(note, body)
           flat == FlattenSeq(ChunksOfAll(note, all))
           X == WithText(note)
<1>1. SplitIntoChunks(note) =
        IF ~ HasText(note, body) THEN <<[path |-> <<>>, lines |-> <<>>]>>
        ELSE IF flat = <<>> THEN <<[path |-> <<>>, lines |-> Trimmed(note, body)]>>
        ELSE flat
  BY DEF IsRead, SplitIntoChunks, ChunksOfAll
<1>2. IsBody(note, first, body) /\ IsCoded(note, first, code)
  BY DEF IsRead
<1>3. /\ first \in 1 .. Len(note) + 1 /\ body \in Seq(Nat) /\ Rising(body)
      /\ ToSet(body) \subseteq DOMAIN note
      /\ PlainOf(note, first, code) = (ToSet(body) \cap X) \ HeadsOf(note, first, code)
  BY LinesRead
<1>4. /\ HoldLines(note, first, code, flat) /\ KeepCode(note, first, code, flat)
      /\ KnowPaths(note, first, code, flat) /\ AreShort(note, code, flat)
  <2>1. AreSectionsAfter(note, first, code, all, Len(note))
    BY <1>2, SectionsAreCut DEF AreSectionsAfter
  <2>2. PICK sections : sections = all
    OBVIOUS
  <2>3. AreCutBy(note, first, code, sections, ChunksOfAll(note, sections))
    BY <1>2, <1>3, <2>1, <2>2, SectionsAreChunked
  <2>4. PICK seqs : seqs = ChunksOfAll(note, sections)
    OBVIOUS
  <2>5. seqs \in Seq(Seq(NoteChunk)) /\ Len(seqs) = Len(sections)
    BY <2>3, <2>4 DEF AreCutBy
  <2>6. IsFlat(FlattenSeq(seqs), NoteChunk, seqs, Len(sections))
    BY <2>5, FlattenIs
  <2>7. PICK C : C = FlattenSeq(seqs)
    OBVIOUS
  <2>8. /\ HoldLines(note, first, code, C) /\ KeepCode(note, first, code, C)
        /\ KnowPaths(note, first, code, C) /\ AreShort(note, code, C)
    BY <2>3, <2>4, <2>6, <2>7, ChunksHold
  <2> QED
    BY <2>2, <2>4, <2>7, <2>8
<1>5. CASE ~ HasText(note, body)
  <2>1. ToSet(body) \cap X = {}
    BY <1>3, <1>5, HasTextIs
  <2>2. Trimmed(note, body) = <<>>
    BY <1>3, <2>1, TrimmedIs DEF IsTrimmed
  <2> QED
    BY <1>1, <1>3, <1>5, <2>1, <2>2 DEF IsOneChunk
<1>6. CASE HasText(note, body) /\ flat = <<>>
  <2>1. Len(flat) = 0 /\ 1 .. 0 = {}
    BY <1>6, EmptySeq
  <2>2. PlainOf(note, first, code) = {}
    <3> HIDE DEF flat
    <3> QED
      BY <1>4, <2>1 DEF HoldLines
  <2> QED
    BY <1>1, <1>6, <2>2 DEF IsOneChunk
<1>7. CASE HasText(note, body) /\ flat # <<>>
  <2> HIDE DEF flat
  <2>1. flat \in Seq(NoteChunk)
    BY <1>4 DEF HoldLines
  <2>2. 1 \in 1 .. Len(flat)
    <3>1. Len(flat) \in Nat
      BY <2>1, LenProperties
    <3>2. Len(flat) # 0
      BY <1>7, <2>1, EmptySeq
    <3> QED
      BY <3>1, <3>2
  <2>3. PICK x : x = flat[1].lines[1]
    OBVIOUS
  <2>4. 1 \in DOMAIN flat[1].lines /\ x \in X
    BY <1>4, <2>2, <2>3 DEF HoldLines
  <2>5. x \in ToSet(flat[1].lines)
    BY <2>3, <2>4 DEF ToSet
  <2>6. x \in first .. Len(note) /\ x \notin HeadsOf(note, first, code)
    BY <1>4, <2>2, <2>5 DEF HoldLines
  <2>7. x \in PlainOf(note, first, code)
    BY <2>4, <2>6 DEF PlainOf
  <2> QED
    BY <1>1, <1>4, <1>7, <2>7 DEF AreManyChunks
<1> QED
  BY <1>5, <1>6, <1>7

(* All the lines of the chunks, one after the other.                       *)
LEMMA HeldIs ==
  ASSUME NEW C \in Seq(NoteChunk), NEW n, n = Len(C),
         \A p \in 1 .. n : Rising(C[p].lines),
         \A p, q \in 1 .. n : p < q => \A x \in ToSet(C[p].lines), y \in ToSet(C[q].lines) : x < y,
         NEW held, held = FlattenSeq([p \in DOMAIN C |-> C[p].lines])
  PROVE  /\ \A k \in 1 .. Len(held) - 1 : held[k] < held[k + 1]
         /\ \A x : x \in ToSet(held) <=> \E p \in 1 .. n : x \in ToSet(C[p].lines)
<1>1. PICK seqs : seqs = [p \in DOMAIN C |-> C[p].lines]
  OBVIOUS
<1>2. n \in Nat /\ DOMAIN C = 1 .. n
  BY LenProperties
<1>3. \A p \in 1 .. n : C[p].lines \in Seq(Nat)
  <2>1. \A p \in 1 .. n : C[p] \in NoteChunk
    BY ElementOfSeq
  <2> QED
    BY <2>1 DEF NoteChunk
<1>4. seqs \in Seq(Seq(Nat)) /\ Len(seqs) = n /\ \A p \in 1 .. n : seqs[p] = C[p].lines
  <2>1. PICK S : S = Seq(Nat)
    OBVIOUS
  <2>2. seqs \in [1 .. n -> S]
    BY <1>1, <1>2, <1>3, <2>1
  <2>3. seqs \in Seq(S) /\ Len(seqs) = n
    BY <1>2, <2>2
  <2> QED
    BY <1>1, <1>2, <2>1, <2>3
<1>5. IsFlat(held, Nat, seqs, n)
  BY <1>1, <1>4, FlattenIs
<1>6. held \in Seq(Nat)
  BY <1>5 DEF IsFlat
<1>7. PICK J, I, m : IsFlatBy(held, seqs, n, J, I) /\ m = Len(held)
  BY <1>5 DEF IsFlat
<1>8. /\ \A p \in 1 .. m : /\ J[p] \in 1 .. n /\ I[p] \in 1 .. Len(seqs[J[p]])
                           /\ held[p] = seqs[J[p]][I[p]]
      /\ \A p, q \in 1 .. m : p < q => J[p] < J[q] \/ (J[p] = J[q] /\ I[p] < I[q])
      /\ \A j \in 1 .. n : \A k \in 1 .. Len(seqs[j]) :
           \E p \in 1 .. m : J[p] = j /\ I[p] = k
  BY <1>7, ZenonT(60) DEF IsFlatBy
<1>9. m \in Nat /\ DOMAIN held = 1 .. m
  BY <1>6, <1>7, LenProperties
<1>10. \A j \in 1 .. n : DOMAIN seqs[j] = 1 .. Len(seqs[j])
  BY <1>3, <1>4, LenProperties
<1>11. ASSUME NEW k \in 1 .. m - 1 PROVE held[k] < held[k + 1]
  <2>1. PICK a, b, c, d : a = J[k] /\ b = I[k] /\ c = J[k + 1] /\ d = I[k + 1]
    OBVIOUS
  <2>2. k \in 1 .. m /\ k + 1 \in 1 .. m /\ k < k + 1
    BY <1>9
  <2>3. /\ a \in 1 .. n /\ c \in 1 .. n /\ b \in DOMAIN seqs[a] /\ d \in DOMAIN seqs[c]
        /\ held[k] = seqs[a][b] /\ held[k + 1] = seqs[c][d] /\ (a < c \/ (a = c /\ b < d))
    BY <1>8, <1>10, <2>1, <2>2, SMTT(40)
  <2>4. CASE a < c
    <3>1. seqs[a][b] \in ToSet(C[a].lines) /\ seqs[c][d] \in ToSet(C[c].lines)
      BY <1>4, <2>3 DEF ToSet
    <3> QED
      BY <2>3, <2>4, <3>1
  <2>5. CASE a = c /\ b < d
    <3>1. Rising(seqs[a])
      BY <1>4, <2>3
    <3> QED
      BY <2>3, <2>5, <3>1 DEF Rising
  <2> QED
    BY <2>3, <2>4, <2>5
<1>12. ASSUME NEW x
       PROVE  x \in ToSet(held) <=> \E p \in 1 .. n : x \in ToSet(C[p].lines)
  <2>1. ASSUME x \in ToSet(held) PROVE \E p \in 1 .. n : x \in ToSet(C[p].lines)
    <3>1. PICK k \in 1 .. m : x = held[k]
      BY <1>9, <2>1 DEF ToSet
    <3>2. J[k] \in 1 .. n /\ I[k] \in DOMAIN seqs[J[k]] /\ x = seqs[J[k]][I[k]]
      BY <1>8, <1>10, <3>1
    <3> QED
      BY <1>4, <3>2 DEF ToSet
  <2>2. ASSUME NEW p \in 1 .. n, x \in ToSet(C[p].lines) PROVE x \in ToSet(held)
    <3>1. PICK k \in 1 .. Len(seqs[p]) : x = seqs[p][k]
      BY <1>4, <1>10, <2>2 DEF ToSet
    <3>2. PICK i \in 1 .. m : J[i] = p /\ I[i] = k
      BY <1>8, SMTT(40)
    <3> QED
      BY <1>8, <1>9, <3>1, <3>2 DEF ToSet
  <2> QED
    BY <2>1, <2>2
<1> QED
  BY <1>7, <1>11, <1>12

LEMMA OneChunkIs ==
  ASSUME NEW note \in Seq(Line), NEW first, NEW body, NEW code, IsRead(note, first, body, code),
         NEW C, IsOneChunk(note, first, body, code, C)
  PROVE  /\ C \in Seq(NoteChunk) /\ Len(C) = 1 /\ C[1].lines = Trimmed(note, body)
         /\ IsTrimmed(Trimmed(note, body), note, body)
<1>1. body \in Seq(Nat) /\ Rising(body) /\ ToSet(body) \subseteq DOMAIN note
  BY LinesRead
<1>2. IsTrimmed(Trimmed(note, body), note, body)
  BY <1>1, TrimmedIs
<1>3. PICK c : c = [path |-> <<>>, lines |-> Trimmed(note, body)]
  OBVIOUS
<1>4. c \in NoteChunk
  <2>1. Trimmed(note, body) \in Seq(Nat) /\ <<>> \in Seq(Nat)
    BY <1>2, NoLines DEF IsTrimmed
  <2> QED
    BY <1>3, <2>1 DEF NoteChunk
<1>5. C = <<c>>
  BY <1>3 DEF IsOneChunk
<1>6. C \in Seq(NoteChunk) /\ Len(C) = 1 /\ C[1] = c
  BY <1>4, <1>5
<1> QED
  BY <1>2, <1>3, <1>6

LEMMA LinesAreOnce ==
  ASSUME NEW note \in Seq(Line), NEW first, NEW body, NEW code, IsRead(note, first, body, code),
         NEW C, \/ IsOneChunk(note, first, body, code, C)
                \/ AreManyChunks(note, first, code, C)
  PROVE  EveryLineOnce(note, C)
<1> DEFINE X == WithText(note)
           plain == PlainOf(note, first, code)
           W == HeadsOf(note, first, code)
           texts == {i \in ToSet(body) : ~ Is(note, i, "blank")}
<1>1. PICK held : held = FlattenSeq([k \in DOMAIN C |-> C[k].lines])
  OBVIOUS
<1>2. /\ texts = ToSet(body) \cap X /\ ToSet(body) = first .. Len(note)
      /\ plain = (ToSet(body) \cap X) \ W /\ W = {i \in ToSet(body) : IsHeading(note, body, i)}
      /\ ToSet(body) \subseteq DOMAIN note
  BY LinesRead
<1>3. C # <<>>
  BY DEF IsOneChunk, AreManyChunks
<1>4. /\ C \in Seq(NoteChunk) /\ \A p \in 1 .. Len(C) : Rising(C[p].lines)
      /\ \A p, q \in 1 .. Len(C) : p < q =>
           \A x \in ToSet(C[p].lines), y \in ToSet(C[q].lines) : x < y
  <2>1. CASE IsOneChunk(note, first, body, code, C)
    <3>1. C \in Seq(NoteChunk) /\ Len(C) = 1 /\ Rising(C[1].lines)
      BY <2>1, OneChunkIs DEF IsTrimmed
    <3> QED
      BY <3>1
  <2>2. CASE AreManyChunks(note, first, code, C)
    BY <2>2 DEF AreManyChunks, HoldLines
  <2> QED
    BY <2>1, <2>2
<1>5. /\ \A k \in 1 .. Len(held) - 1 : held[k] < held[k + 1]
      /\ \A x : x \in ToSet(held) <=> \E p \in 1 .. Len(C) : x \in ToSet(C[p].lines)
  BY <1>1, <1>4, HeldIs
<1>6. ToSet(held) \cap X = IF plain = {} THEN texts ELSE plain
  <2>1. CASE IsOneChunk(note, first, body, code, C)
    <3>1. /\ Len(C) = 1 /\ plain = {}
          /\ ToSet(C[1].lines) \cap X = ToSet(body) \cap X
      BY <2>1, OneChunkIs DEF IsOneChunk, IsTrimmed
    <3>2. \A p \in 1 .. Len(C) : p = 1
      BY <3>1
    <3>3. ToSet(held) = ToSet(C[1].lines)
      <4>1. 1 \in 1 .. Len(C)
        BY <3>1
      <4> QED
        BY <1>5, <3>2, <4>1
    <3> QED
      BY <1>2, <3>1, <3>3
  <2>2. CASE AreManyChunks(note, first, code, C)
    <3> HIDE DEF plain, W, X
    <3>1. plain # {} /\ HoldLines(note, first, code, C)
      BY <2>2 DEF AreManyChunks, plain
    <3>2. ASSUME NEW x \in ToSet(held) \cap X PROVE x \in plain
      <4>1. PICK p \in 1 .. Len(C) : x \in ToSet(C[p].lines)
        BY <1>5, <3>2
      <4>2. x \in first .. Len(note) /\ x \notin W
        BY <3>1, <4>1 DEF HoldLines, W
      <4> QED
        BY <1>2, <3>2, <4>2
    <3>3. ASSUME NEW x \in plain PROVE x \in ToSet(held) \cap X
      <4>1. PICK p \in 1 .. Len(C) : x \in ToSet(C[p].lines)
        BY <3>1, <3>3 DEF HoldLines, plain
      <4> QED
        BY <1>2, <1>5, <3>3, <4>1
    <3> QED
      BY <3>1, <3>2, <3>3
  <2> QED
    BY <2>1, <2>2
<1>7. {i \in ToSet(held) : ~ Is(note, i, "blank")} = ToSet(held) \cap X
  <2>1. ASSUME NEW x \in ToSet(held) PROVE x \in DOMAIN note
    <3>1. PICK p \in 1 .. Len(C) : x \in ToSet(C[p].lines)
      BY <1>5, <2>1
    <3>2. CASE IsOneChunk(note, first, body, code, C)
      <4>1. p = 1 /\ ToSet(C[1].lines) \subseteq ToSet(body)
        BY <3>1, <3>2, OneChunkIs DEF IsTrimmed
      <4> QED
        BY <1>2, <3>1, <4>1
    <3>3. CASE AreManyChunks(note, first, code, C)
      BY <1>2, <3>1, <3>3 DEF AreManyChunks, HoldLines
    <3> QED
      BY <3>2, <3>3
  <2> QED
    BY <2>1 DEF Is, WithText
<1>8. {i \in texts : ~ IsHeading(note, body, i)} = plain
  BY <1>2
<1>9. body = BodyOf(note)
  BY DEF IsRead
<1> HIDE DEF X, plain, W
<1> QED
  BY <1>1, <1>3, <1>5, <1>6, <1>7, <1>8, <1>9 DEF EveryLineOnce

LEMMA CodeIsWhole ==
  ASSUME NEW note \in Seq(Line), NEW first, NEW body, NEW code, IsRead(note, first, body, code),
         NEW C, \/ IsOneChunk(note, first, body, code, C)
                \/ AreManyChunks(note, first, code, C)
  PROVE  CodeStaysWhole(note, C)
<1> DEFINE X == WithText(note)
           W == HeadsOf(note, first, code)
<1>1. /\ {i \in ToSet(body) : ~ Is(note, i, "blank")} = ToSet(body) \cap X
      /\ ToSet(body) = first .. Len(note) /\ ToSet(body) \subseteq DOMAIN note
      /\ PlainOf(note, first, code) = (ToSet(body) \cap X) \ W
      /\ W = {i \in ToSet(body) : IsHeading(note, body, i)}
      /\ Len(note) \in Nat /\ DOMAIN note = 1 .. Len(note)
  BY LinesRead
<1>2. body = BodyOf(note) /\ \A i \in first .. Len(note) : InCode(note, body, i) = code[i]
  BY DEF IsRead
<1>3. ASSUME NEW i \in ToSet(body), InCode(note, body, i), ~ Is(note, i, "blank"),
             NEW before, before = {j \in ToSet(body) : j < i /\ ~ Is(note, j, "blank")}
      PROVE  ChunkOf(C, i) = ChunkOf(C, Max(before))
  <2>1. i \in X /\ i \notin W /\ code[i] = TRUE /\ i \in PlainOf(note, first, code)
    <3>a. i \in X
      <4> HIDE DEF X, W
      <4> QED
        BY <1>1, <1>3
    <3>b. ~ IsHeading(note, body, i)
      BY <1>3 DEF IsHeading
    <3>1. i \in X /\ i \notin W
      <4> HIDE DEF X, W
      <4> QED
        BY <1>1, <3>a, <3>b
    <3>2. code[i] = TRUE
      <4>1. InCode(note, body, i) = TRUE
        BY <1>3 DEF InCode
      <4> QED
        BY <1>1, <1>2, <4>1
    <3> QED
      BY <1>1, <3>1, <3>2
  <2>2. AreManyChunks(note, first, code, C)
    BY <2>1 DEF IsOneChunk
  <2>3. /\ HoldLines(note, first, code, C) /\ KeepCode(note, first, code, C)
    BY <2>2 DEF AreManyChunks
  <2>4. PICK n : n = Len(C) /\ DOMAIN C = 1 .. n
    <3>1. C \in Seq(NoteChunk)
      BY <2>3 DEF HoldLines
    <3> QED
      BY <3>1, LenProperties
  <2>5. PICK p \in 1 .. n : i \in ToSet(C[p].lines)
    BY <2>1, <2>3, <2>4 DEF HoldLines
  <2>6. \A k \in 1 .. n : \A x \in ToSet(C[k].lines) : x \in ToSet(body) /\ x \in Nat /\ x \notin W
    <3>1. \A k \in 1 .. n : \A x \in ToSet(C[k].lines) : x \in first .. Len(note) /\ x \notin W
      BY <2>3, <2>4 DEF HoldLines
    <3> HIDE DEF W, X
    <3>2. \A x \in first .. Len(note) : x \in ToSet(body) /\ x \in Nat
      <4>1. \A x \in 1 .. Len(note) : x \in Nat
        OBVIOUS
      <4> QED
        BY <1>1, <4>1
    <3> QED
      BY <3>1, <3>2
  <2>7. \A k, l \in 1 .. n : k < l => \A x \in ToSet(C[k].lines), y \in ToSet(C[l].lines) : x < y
    BY <2>3, <2>4 DEF HoldLines
  <2>8. PICK y \in ToSet(C[p].lines) \cap X : y < i
    <3>1. ~ \A y \in ToSet(C[p].lines) \cap X : i <= y
      BY <2>1, <2>3, <2>4, <2>5 DEF KeepCode
    <3>2. PICK y \in ToSet(C[p].lines) \cap X : ~ (i <= y)
      BY <3>1
    <3>3. i \in Nat /\ y \in Nat
      BY <2>5, <2>6, <3>2
    <3> QED
      BY <3>2, <3>3
  <2>9. PICK M : M = Max(before)
    OBVIOUS
  <2>10. M \in before /\ y <= M
    <3>1. y \in before
      BY <1>1, <1>3, <2>6, <2>8
    <3>2. before \in SUBSET (1 .. Len(note))
      BY <1>1, <1>3
    <3> QED
      BY <1>1, <2>9, <3>1, <3>2, MaxIsMost
  <2>11. M \in ToSet(body) /\ M \in X /\ M < i /\ M \in Nat /\ i \in Nat /\ y \in Nat
    BY <1>1, <1>3, <2>5, <2>6, <2>8, <2>10
  <2>12. M \notin W
    <3>1. y \notin W
      BY <2>6, <2>8
    <3>2. ASSUME M \in W PROVE FALSE
      <4>1. y < M
        BY <2>10, <2>11, <3>1, <3>2
      <4> QED
        BY <2>1, <2>3, <2>4, <2>5, <2>8, <2>11, <3>2, <4>1 DEF KeepCode
    <3> QED
      BY <3>2
  <2>13. PICK q \in 1 .. n : M \in ToSet(C[q].lines)
    <3>1. M \in PlainOf(note, first, code)
      BY <1>1, <2>11, <2>12
    <3> QED
      BY <2>3, <2>4, <3>1 DEF HoldLines
  <2>14. n \in Nat
    <3>1. C \in Seq(NoteChunk)
      BY <2>3 DEF HoldLines
    <3> QED
      BY <2>4, <3>1, LenProperties
  <2>15. q = p
    <3>1. ~ (q < p)
      BY <2>7, <2>8, <2>10, <2>11, <2>13
    <3>2. ~ (p < q)
      BY <2>5, <2>7, <2>11, <2>13
    <3> QED
      BY <2>14, <3>1, <3>2
  <2>16. \A x \in ToSet(C[p].lines) : ChunkOf(C, x) = {p}
    <3>1. ASSUME NEW x \in ToSet(C[p].lines), NEW k \in 1 .. n, x \in ToSet(C[k].lines)
          PROVE  k = p
      <4>1. x \in Nat
        BY <2>6, <3>1
      <4>2. ~ (k < p) /\ ~ (p < k)
        BY <2>7, <3>1, <4>1
      <4> QED
        BY <2>14, <4>2
    <3> QED
      BY <2>4, <3>1 DEF ChunkOf
  <2> QED
    BY <2>5, <2>9, <2>13, <2>15, <2>16
<1> HIDE DEF X, W
<1>4. \A i \in {i \in ToSet(body) : InCode(note, body, i) /\ ~ Is(note, i, "blank")} :
        ChunkOf(C, i) = ChunkOf(C, Max({j \in ToSet(body) : j < i /\ ~ Is(note, j, "blank")}))
  BY <1>3
<1> QED
  BY <1>2, <1>4, Zenon DEF CodeStaysWhole

LEMMA PathsAreAncestry ==
  ASSUME NEW note \in Seq(Line), NEW first, NEW body, NEW code, IsRead(note, first, body, code),
         NEW C, \/ IsOneChunk(note, first, body, code, C)
                \/ AreManyChunks(note, first, code, C)
  PROVE  PathIsAncestry(note, C)
<1> DEFINE X == WithText(note)
           W == HeadsOf(note, first, code)
<1>1. /\ {i \in ToSet(body) : ~ Is(note, i, "blank")} = ToSet(body) \cap X
      /\ PlainOf(note, first, code) = (ToSet(body) \cap X) \ W
      /\ W = {i \in ToSet(body) : IsHeading(note, body, i)}
  BY LinesRead
<1>2. {i \in ToSet(body) \ W : ~ Is(note, i, "blank")} = PlainOf(note, first, code)
  BY <1>1
<1>3. ASSUME PlainOf(note, first, code) # {}, NEW k \in DOMAIN C
      PROVE  /\ ToSet(C[k].path) = OpenAt(note, W, Head(C[k].lines))
             /\ IsSorted(C[k].path, <)
  <2>1. HoldLines(note, first, code, C) /\ KnowPaths(note, first, code, C)
    BY <1>3 DEF IsOneChunk, AreManyChunks
  <2>2. C \in Seq(NoteChunk)
    BY <2>1 DEF HoldLines
  <2>3. k \in 1 .. Len(C) /\ C[k] \in NoteChunk
    BY <2>2, LenProperties, ElementOfSeq
  <2>4. C[k].path \in Seq(Nat) /\ C[k].lines \in Seq(Nat)
    BY <2>3 DEF NoteChunk
  <2>5. Rising(C[k].path) /\ ToSet(C[k].path) = OpenAt(note, W, C[k].lines[1])
    BY <2>1, <2>3 DEF KnowPaths
  <2>6. Head(C[k].lines) = C[k].lines[1]
    BY <2>4
  <2>7. DOMAIN C[k].path = 1 .. Len(C[k].path)
    BY <2>4, LenProperties
  <2> QED
    BY <2>5, <2>6, <2>7 DEF Rising, IsSorted
<1>4. W = {i \in ToSet(BodyOf(note)) : IsHeading(note, BodyOf(note), i)}
  BY <1>1 DEF IsRead
<1>5. {i \in ToSet(BodyOf(note)) \ W : ~ Is(note, i, "blank")} = PlainOf(note, first, code)
  BY <1>2 DEF IsRead
<1> HIDE DEF X, W
<1> QED
  BY <1>3, <1>4, <1>5 DEF PathIsAncestry, OpenAt

LEMMA LongAreParagraphs ==
  ASSUME NEW note \in Seq(Line), NEW first, NEW body, NEW code, IsRead(note, first, body, code),
         NEW C, \/ IsOneChunk(note, first, body, code, C)
                \/ AreManyChunks(note, first, code, C)
  PROVE  LongChunksAreParagraphs(note, C)
<1>1. /\ {i \in ToSet(body) : ~ Is(note, i, "blank")} = ToSet(body) \cap WithText(note)
      /\ ToSet(body) = first .. Len(note) /\ ToSet(body) \subseteq DOMAIN note
      /\ PlainOf(note, first, code)
           = (ToSet(body) \cap WithText(note)) \ HeadsOf(note, first, code)
      /\ HeadsOf(note, first, code) = {i \in ToSet(body) : IsHeading(note, body, i)}
  BY LinesRead
<1>2. body = BodyOf(note) /\ \A i \in first .. Len(note) : InCode(note, body, i) = code[i]
  BY DEF IsRead
<1>3. ASSUME NEW k \in DOMAIN C, CharCount(note, C[k].lines) - 1 > Level2SplitThreshold,
             NEW t \in ToSet(body), ~ Is(note, t, "blank"), ~ IsHeading(note, body, t),
             NEW i \in ToSet(C[k].lines), Is(note, i, "blank")
      PROVE  InCode(note, body, i)
  <2>1. t \in PlainOf(note, first, code)
    BY <1>1, <1>3
  <2>2. HoldLines(note, first, code, C) /\ AreShort(note, code, C)
    BY <2>1 DEF IsOneChunk, AreManyChunks
  <2>3. C \in Seq(NoteChunk)
    BY <2>2 DEF HoldLines
  <2>4. k \in 1 .. Len(C)
    BY <2>3, LenProperties
  <2>5. HoldsCode(note, code, C[k].lines)
    BY <1>3, <2>2, <2>4 DEF AreShort
  <2>6. i \in first .. Len(note)
    BY <1>3, <2>2, <2>4 DEF HoldLines
  <2>7. i \notin WithText(note)
    BY <1>3 DEF WithText, Is
  <2>8. code[i] = TRUE
    BY <1>3, <2>5, <2>7 DEF HoldsCode
  <2> QED
    BY <1>2, <2>6, <2>8
<1> QED
  BY <1>2, <1>3 DEF LongChunksAreParagraphs

-----------------------------------------------------------------------------
(***************************************************************************)
(* The lines of a frontmatter, after its opening line o and up to line e.  *)
(***************************************************************************)
ListIsOpen(note, o, e) ==
  \E t \in o + 1 .. e : Is(note, t, "tags") /\ \A k \in t + 1 .. e : Is(note, k, "item")

TagsUpTo(note, o, e) ==
  {i \in o + 1 .. e :
     \/ Is(note, i, "inline tags")
     \/ /\ Is(note, i, "item")
        /\ \E t \in o + 1 .. e : /\ t < i /\ Is(note, t, "tags")
                                 /\ \A k \in t + 1 .. i : Is(note, k, "item")}

TagState == [inList : BOOLEAN, tags : SUBSET Nat, title : Nat]

HasTags(note, o, e, s) ==
  s \in TagState /\ s.tags = TagsUpTo(note, o, e) /\ (s.inList <=> ListIsOpen(note, o, e))

LEMMA ListAfter ==
  ASSUME NEW note, NEW o \in Nat, NEW e \in Nat, o < e
  PROVE  /\ ListIsOpen(note, o, e)
              <=> Is(note, e, "tags") \/ (Is(note, e, "item") /\ ListIsOpen(note, o, e - 1))
         /\ TagsUpTo(note, o, e)
              = TagsUpTo(note, o, e - 1)
                  \cup {i \in {e} : \/ Is(note, i, "inline tags")
                                    \/ Is(note, i, "item") /\ ListIsOpen(note, o, e - 1)}
<1>1. \A i : i \in o + 1 .. e <=> i \in o + 1 .. e - 1 \/ i = e
  OBVIOUS
<1>2. ListIsOpen(note, o, e)
        <=> Is(note, e, "tags") \/ (Is(note, e, "item") /\ ListIsOpen(note, o, e - 1))
  <2>1. ASSUME NEW t \in o + 1 .. e - 1
        PROVE  (\A k \in t + 1 .. e : Is(note, k, "item"))
                 <=> Is(note, e, "item") /\ \A k \in t + 1 .. e - 1 : Is(note, k, "item")
    <3>1. \A k : k \in t + 1 .. e <=> k \in t + 1 .. e - 1 \/ k = e
      OBVIOUS
    <3> QED
      BY <3>1
  <2>2. \A k \in e + 1 .. e : FALSE
    OBVIOUS
  <2> QED
    BY <1>1, <2>1, <2>2 DEF ListIsOpen
<1>3. ASSUME NEW i \in o + 1 .. e - 1
      PROVE  (\E t \in o + 1 .. e : /\ t < i /\ Is(note, t, "tags")
                                    /\ \A k \in t + 1 .. i : Is(note, k, "item"))
               <=> \E t \in o + 1 .. e - 1 : /\ t < i /\ Is(note, t, "tags")
                                             /\ \A k \in t + 1 .. i : Is(note, k, "item")
  <2>1. ~ (e < i)
    OBVIOUS
  <2> QED
    BY <1>1, <2>1
<1>4. (Is(note, e, "item") /\ \E t \in o + 1 .. e :
         t < e /\ Is(note, t, "tags") /\ \A k \in t + 1 .. e : Is(note, k, "item"))
        <=> Is(note, e, "item") /\ ListIsOpen(note, o, e - 1)
  <2>1. ASSUME NEW t \in o + 1 .. e - 1
        PROVE  /\ t < e
               /\ Is(note, e, "item") =>
                    ((\A k \in t + 1 .. e : Is(note, k, "item"))
                       <=> \A k \in t + 1 .. e - 1 : Is(note, k, "item"))
    <3>1. \A k : k \in t + 1 .. e <=> k \in t + 1 .. e - 1 \/ k = e
      OBVIOUS
    <3> QED
      BY <3>1
  <2>2. ~ (e < e)
    OBVIOUS
  <2> QED
    BY <1>1, <2>1, <2>2 DEF ListIsOpen
<1>5. ASSUME NEW i
      PROVE  i \in TagsUpTo(note, o, e)
               <=> i \in TagsUpTo(note, o, e - 1)
                     \cup {j \in {e} : \/ Is(note, j, "inline tags")
                                       \/ Is(note, j, "item") /\ ListIsOpen(note, o, e - 1)}
  <2>1. CASE i \in o + 1 .. e - 1
    <3>1. i # e /\ i \in o + 1 .. e
      BY <2>1
    <3> QED
      BY <1>3, <2>1, <3>1 DEF TagsUpTo
  <2>2. CASE i = e
    <3>1. e \notin o + 1 .. e - 1 /\ e \in o + 1 .. e
      OBVIOUS
    <3> QED
      BY <1>4, <2>2, <3>1 DEF TagsUpTo
  <2>3. CASE i \notin o + 1 .. e
    <3>1. i # e /\ i \notin o + 1 .. e - 1
      BY <1>1, <2>3
    <3> QED
      BY <2>3, <3>1 DEF TagsUpTo
  <2> QED
    BY <1>1, <2>1, <2>2, <2>3
<1> QED
  BY <1>2, <1>5

LEMMA TagStepKeeps ==
  ASSUME NEW note \in Seq(Line), NEW o \in Nat, NEW e \in Nat, o < e, NEW s,
         HasTags(note, o, e - 1, s)
  PROVE  HasTags(note, o, e, TagStep(note, s, e))
<1>1. PICK t : t = TagStep(note, s, e)
  OBVIOUS
<1>2. s \in TagState /\ s.tags = TagsUpTo(note, o, e - 1)
      /\ (s.inList <=> ListIsOpen(note, o, e - 1)) /\ s.inList \in BOOLEAN
  BY DEF HasTags, TagState
<1>3. /\ ListIsOpen(note, o, e)
           <=> Is(note, e, "tags") \/ (Is(note, e, "item") /\ ListIsOpen(note, o, e - 1))
      /\ TagsUpTo(note, o, e)
           = TagsUpTo(note, o, e - 1)
               \cup {i \in {e} : \/ Is(note, i, "inline tags")
                                 \/ Is(note, i, "item") /\ ListIsOpen(note, o, e - 1)}
  BY ListAfter
<1>4. CASE s.inList /\ Is(note, e, "item")
  <2>1. t = [s EXCEPT !.tags = @ \cup {e}]
    BY <1>1, <1>4 DEF TagStep, Is
  <2>2. t \in TagState /\ t.tags = s.tags \cup {e} /\ t.inList = s.inList
    BY <1>2, <2>1 DEF TagState
  <2> QED
    BY <1>1, <1>2, <1>3, <1>4, <2>2 DEF HasTags
<1>5. CASE ~ (s.inList /\ Is(note, e, "item")) /\ Is(note, e, "tags")
  <2>1. t = [s EXCEPT !.inList = TRUE]
    BY <1>1, <1>5 DEF TagStep, Is
  <2>2. t \in TagState /\ t.tags = s.tags /\ t.inList = TRUE
    BY <1>2, <2>1 DEF TagState
  <2>3. ~ Is(note, e, "inline tags") /\ ~ Is(note, e, "item")
    BY <1>5 DEF Is
  <2> QED
    BY <1>1, <1>2, <1>3, <1>5, <2>2, <2>3 DEF HasTags
<1>6. CASE Is(note, e, "inline tags")
  <2>1. t = [s EXCEPT !.tags = @ \cup {e}, !.inList = FALSE]
    BY <1>1, <1>6 DEF TagStep, Is
  <2>2. t \in TagState /\ t.tags = s.tags \cup {e} /\ t.inList = FALSE
    BY <1>2, <2>1 DEF TagState
  <2>3. ~ Is(note, e, "tags") /\ ~ Is(note, e, "item")
    BY <1>6 DEF Is
  <2> QED
    BY <1>1, <1>2, <1>3, <1>6, <2>2, <2>3 DEF HasTags
<1>7. CASE ~ (s.inList /\ Is(note, e, "item")) /\ ~ Is(note, e, "tags")
            /\ ~ Is(note, e, "inline tags")
  <2>1. t = [s EXCEPT !.title = e, !.inList = FALSE] \/ t = [s EXCEPT !.inList = FALSE]
    BY <1>1, <1>7 DEF TagStep
  <2>2. t \in TagState /\ t.tags = s.tags /\ t.inList = FALSE
    BY <1>2, <2>1 DEF TagState
  <2> QED
    BY <1>1, <1>2, <1>3, <1>7, <2>2 DEF HasTags
<1> QED
  BY <1>4, <1>5, <1>6, <1>7

LEMMA FrontmatterIs ==
  ASSUME NEW note \in Seq(Line), NEW o, NEW c, o = Opener(note), c = Closer(note), c # 0
  PROVE  HasTags(note, o, c - 1, Frontmatter(note))
<1> DEFINE S == TagState
           nothing == [inList |-> FALSE, tags |-> {}, title |-> 0]
           F(x) == [i \in o .. c - 1 |-> IF i = o THEN nothing ELSE TagStep(note, x[i - 1], i)]
           state == CHOOSE x : x = F(x)
<1>1. o \in Nat /\ c \in Nat /\ o < c
  <2>1. Len(note) \in Nat
    BY LenProperties
  <2>2. o \in 0 .. Len(note) /\ c \in 0 .. Len(note) /\ o < c
    BY OpenerIs
  <2> QED
    BY <2>1, <2>2
<1>2. PICK n \in Nat : n = c - 1 - o
  BY <1>1
<1> DEFINE good == [k \in 0 .. n |-> {s \in S : HasTags(note, o, o + k, s)}]
           succ == [k \in 1 .. n |-> [s \in S |-> TagStep(note, s, o + k)]]
<1>3. nothing \in good[0]
  <2>1. HasTags(note, o, o, nothing)
    <3>1. o + 1 .. o = {}
      BY <1>1
    <3>2. TagsUpTo(note, o, o) = {} /\ ~ ListIsOpen(note, o, o)
      BY <3>1 DEF TagsUpTo, ListIsOpen
    <3>3. nothing \in TagState
      BY DEF TagState
    <3> QED
      BY <3>2, <3>3 DEF HasTags
  <2>2. o + 0 = o /\ 0 \in 0 .. n
    BY <1>1, <1>2
  <2>3. nothing \in S
    BY <2>1 DEF HasTags
  <2> QED
    BY <2>1, <2>2, <2>3
<1>4. ASSUME NEW k \in 1 .. n, NEW s \in good[k - 1]
      PROVE  TagStep(note, s, o + k) \in good[k] /\ s \in S
  <2>1. k - 1 \in 0 .. n /\ k \in 0 .. n
    BY <1>2
  <2>2. PICK e : e = o + k
    OBVIOUS
  <2>3. e \in Nat /\ o < e /\ o + (k - 1) = e - 1
    BY <1>1, <1>2, <2>2
  <2>4. s \in S /\ HasTags(note, o, e - 1, s)
    BY <2>1, <2>3
  <2>5. HasTags(note, o, e, TagStep(note, s, e))
    BY <1>1, <2>3, <2>4, TagStepKeeps
  <2>6. TagStep(note, s, e) \in S
    BY <2>5 DEF HasTags
  <2> QED
    BY <2>1, <2>2, <2>4, <2>5, <2>6
<1> HIDE DEF good
<1>5. \E x : x = F(x)
  <2>1. good \in [0 .. n -> SUBSET S]
    BY DEF good
  <2>2. \A k \in 1 .. n : \A s \in good[k - 1] : succ[k][s] \in good[k]
    BY <1>4
  <2>3. PICK a, f : a = nothing /\ f = succ
    OBVIOUS
  <2>4. PICK run : IsLoop(run, S, n, a, good, f)
    <3> HIDE DEF succ, S, nothing
    <3> QED
      BY <1>2, <1>3, <2>1, <2>2, <2>3, LoopExists
  <2>5. /\ run[0] = nothing
        /\ \A k \in 1 .. n : run[k - 1] \in good[k - 1] /\ run[k] = f[k][run[k - 1]]
    BY <2>3, <2>4 DEF IsLoop
  <2>6. \A k \in 1 .. n : run[k] = TagStep(note, run[k - 1], o + k)
    BY <1>4, <2>3, <2>5
  <2> DEFINE x == [i \in o .. c - 1 |-> run[i - o]]
  <2>7. ASSUME NEW i \in o .. c - 1
        PROVE  run[i - o] = IF i = o THEN nothing ELSE TagStep(note, x[i - 1], i)
    <3>1. CASE i = o
      <4>1. i - o = 0
        BY <1>1, <3>1
      <4> QED
        BY <2>5, <3>1, <4>1
    <3>2. CASE i # o
      <4>1. PICK k : k = i - o
        OBVIOUS
      <4>2. k \in 1 .. n /\ o + k = i /\ i - 1 \in o .. c - 1 /\ (i - 1) - o = k - 1
        BY <1>1, <1>2, <3>2, <4>1, SMTT(40)
      <4>3. x[i - 1] = run[k - 1]
        BY <4>2
      <4> QED
        BY <2>6, <3>2, <4>1, <4>2, <4>3
    <3> QED
      BY <3>1, <3>2
  <2>8. x = F(x)
    BY <2>7
  <2> QED
    BY <2>8
<1>6. Frontmatter(note) = state[c - 1]
  BY DEF Frontmatter
<1>7. state = F(state)
  BY <1>5
<1> HIDE DEF state
<1>8. \A i \in o .. c - 1 : state[i] = IF i = o THEN nothing ELSE TagStep(note, state[i - 1], i)
  BY <1>7
<1> DEFINE T == {k \in 0 .. n : state[o + k] \in good[k]}
<1>9. n \in T
  <2>1. 0 \in T
    <3>1. o + 0 = o /\ o \in o .. c - 1 /\ 0 \in 0 .. n
      BY <1>1, <1>2
    <3>2. state[o + 0] = nothing
      BY <1>8, <3>1
    <3> HIDE DEF nothing
    <3> QED
      BY <1>3, <3>1, <3>2
  <2>2. ASSUME NEW k \in 1 .. n, k - 1 \in T PROVE k \in T
    <3>1. state[o + (k - 1)] \in good[k - 1] /\ k \in 0 .. n
      BY <1>2, <2>2
    <3>2. PICK i : i = o + k
      OBVIOUS
    <3>3. i \in o .. c - 1 /\ i # o /\ o + (k - 1) = i - 1
      BY <1>1, <1>2, <3>2
    <3>4. state[i] = TagStep(note, state[i - 1], i)
      BY <1>8, <3>3
    <3> QED
      BY <1>4, <3>1, <3>2, <3>3, <3>4
  <2>3. n \in 0 .. n
    BY <1>2
  <2> HIDE DEF T
  <2> QED
    BY <1>2, <2>1, <2>2, <2>3, StepByStep
<1>10. HasTags(note, o, o + n, state[o + n])
  BY <1>9 DEF good
<1>11. o + n = c - 1
  BY <1>1, <1>2
<1> QED
  BY <1>6, <1>10, <1>11

LEMMA FrontmatterOfNote ==
  ASSUME NEW note \in Seq(Line)
  PROVE  FrontmatterIsExact(note)
<1>1. PICK o, c, body : o = Opener(note) /\ c = Closer(note) /\ body = BodyOf(note)
  OBVIOUS
<1>2. PICK inside : inside = IF c = 0 THEN {} ELSE o + 1 .. c - 1
  OBVIOUS
<1>3. Frontmatter(note).tags =
        {i \in inside :
           \/ Is(note, i, "inline tags")
           \/ /\ Is(note, i, "item")
              /\ \E t \in inside : /\ t < i /\ Is(note, t, "tags")
                                   /\ \A k \in t + 1 .. i : Is(note, k, "item")}
  <2>1. CASE c = 0
    <3>1. Frontmatter(note) = [inList |-> FALSE, tags |-> {}, title |-> 0]
      BY <1>1, <2>1 DEF Frontmatter
    <3>2. Frontmatter(note).tags = {} /\ inside = {}
      BY <1>2, <2>1, <3>1
    <3> QED
      BY <3>2
  <2>2. CASE c # 0
    <3>1. Frontmatter(note).tags = TagsUpTo(note, o, c - 1)
      BY <1>1, <2>2, FrontmatterIs DEF HasTags
    <3>2. inside = o + 1 .. c - 1
      BY <1>2, <2>2
    <3> QED
      BY <3>1, <3>2 DEF TagsUpTo
  <2> QED
    BY <2>1, <2>2
<1>4. Len(note) \in Nat /\ DOMAIN note = 1 .. Len(note) /\ c \in 0 .. Len(note)
  BY <1>1, LenProperties, OpenerIs
<1>5. ASSUME c # 0
      PROVE  /\ ToSet(body) \ {c} = c + 1 .. Len(note)
             /\ c \in ToSet(body) => Is(note, c, "indented dashes")
  <2>1. PICK f : f = IF LeavesRest(note) THEN c ELSE c + 1
    OBVIOUS
  <2>2. body = LinesFrom(note, f)
    BY <1>1, <1>5, <2>1 DEF BodyOf
  <2>3. c \in 1 .. Len(note) /\ Len(note) \in Nat
    BY <1>4, <1>5
  <2>4. f \in 1 .. Len(note) + 1 /\ f \in {c, c + 1}
    BY <2>1, <2>3
  <2>5. ToSet(body) = f .. Len(note)
    BY <2>2, <2>4, LinesFromIs DEF IsBody
  <2>6. ToSet(body) \ {c} = c + 1 .. Len(note)
    BY <2>3, <2>4, <2>5
  <2>7. c \in ToSet(body) => f = c
    BY <2>3, <2>4, <2>5
  <2>8. f = c => LeavesRest(note)
    BY <2>1, <2>3
  <2> QED
    BY <1>1, <2>6, <2>7, <2>8 DEF LeavesRest
<1>6. c = 0 => ToSet(body) = DOMAIN note
  <2>1. ASSUME c = 0 PROVE ToSet(body) = DOMAIN note
    <3>1. PICK f : f = 1
      OBVIOUS
    <3>2. f \in 1 .. Len(note) + 1 /\ body = LinesFrom(note, f)
      BY <1>1, <1>4, <2>1, <3>1 DEF BodyOf
    <3> QED
      BY <1>4, <3>1, <3>2, LinesFromIs DEF IsBody
  <2> QED
    BY <2>1
<1> QED
  BY <1>1, <1>2, <1>3, <1>5, <1>6 DEF FrontmatterIsExact

(* For a note of any lines: split_into_chunks puts every line of text into *)
(* exactly one chunk, in the order of the note, and fenced code into the   *)
(* chunk of the line before it, gives a chunk the headings it stands under *)
(* and cuts what is too long at every blank line outside of code; and the  *)
(* frontmatter is what its lines say.                                      *)
THEOREM NotesAreCut ==
  ASSUME NEW note \in Seq(Line)
  PROVE  /\ EveryLineOnce(note, SplitIntoChunks(note))
         /\ CodeStaysWhole(note, SplitIntoChunks(note))
         /\ PathIsAncestry(note, SplitIntoChunks(note))
         /\ LongChunksAreParagraphs(note, SplitIntoChunks(note))
         /\ FrontmatterIsExact(note)
<1>1. PICK first, body, code : IsRead(note, first, body, code)
  BY NoteIsRead
<1>2. PICK chunks : chunks = SplitIntoChunks(note)
  OBVIOUS
<1>3. IsOneChunk(note, first, body, code, chunks) \/ AreManyChunks(note, first, code, chunks)
  BY <1>1, <1>2, ChunksAre
<1>4. /\ EveryLineOnce(note, chunks) /\ CodeStaysWhole(note, chunks)
      /\ PathIsAncestry(note, chunks) /\ LongChunksAreParagraphs(note, chunks)
  BY <1>1, <1>3, LinesAreOnce, CodeIsWhole, PathsAreAncestry, LongAreParagraphs
<1> QED
  BY <1>2, <1>4, FrontmatterOfNote

(* An input is a list of the symbols of its function.                      *)
InputInv ==
  IF function = "paging" THEN input = <<>> ELSE input \in Seq(Alphabet[function])

LEMMA AlphabetOfPlaces == Alphabet["places"] = MCSetting
BY DEF Alphabet

LEMMA InitInputInv == Init => InputInv
BY DEF Init, InputInv

LEMMA NextInputInv == InputInv /\ [Next]_<<function, input, pagingVars>> => InputInv'
<1> SUFFICES ASSUME InputInv, [Next]_<<function, input, pagingVars>> PROVE InputInv'
  OBVIOUS
<1>1. CASE Grow
  BY <1>1, AppendProperties DEF Grow, InputInv
<1>2. CASE TurnPages
  BY <1>2 DEF TurnPages, InputInv
<1>3. CASE UNCHANGED <<function, input, pagingVars>>
  BY <1>3 DEF InputInv
<1> QED
  BY <1>1, <1>2, <1>3 DEF Next

LEMMA InputIsWalked == InputInv => VaultIsWalked
<1> SUFFICES ASSUME InputInv PROVE VaultIsWalked
  OBVIOUS
<1>1. ASSUME function = "walk"
      PROVE  /\ \A hide, follow \in BOOLEAN :
                  /\ WalkIsExact(Files, Patterns, hide, follow)
                  /\ FoundIsRead(Files, Patterns, hide, follow)
             /\ \A cut \in 0 .. Len(PatternList) :
                  CheckSaysWhy(Files, SubSeq(PatternList, 1, cut),
                               SubSeq(PatternList, cut + 1, Len(PatternList)))
             /\ LinksLeadToNotes(Paths, [p \in ToSet(Paths) |-> Bytes(p)])
             /\ \A hide \in BOOLEAN : RootChoiceIsExcluded(Files, Patterns, hide)
  <2>1. PICK Symbols : input \in Seq(Symbols)
    BY <1>1 DEF InputInv
  <2> QED
    BY <2>1, WalkOfInput
<1>2. ASSUME function = "places", NEW env, env = Set(input, "env", Env),
             NEW file, file = Set(input, "file", NoFile)
      PROVE  OneIndex(env, file) /\ FlatFieldsCount(env, file) /\ OneModel(env, file)
  <2>1. input \in Seq(MCSetting)
    BY <1>2, AlphabetOfPlaces DEF InputInv
  <2>2. env \in EnvKinds /\ file \in FileKinds
    BY <1>2, <2>1, EnvIs, FileIs
  <2> QED
    BY <2>2, IndexesAgree, OldFieldsCount, ModelsAgree
<1> QED
  BY <1>1, <1>2 DEF VaultIsWalked

(* CLI and MCP server find the same vaults, index and model, and there the *)
(* files of a vault that no pattern means are indexed, and no others, and  *)
(* can be read afterwards; check-ignore says so, and why; links lead to    *)
(* the nearest note; what is chosen in the root by `init` is out of the    *)
(* index: for every list of files and patterns, and of settings, however   *)
(* long.                                                                   *)
THEOREM VaultsAreWalked == Spec => []VaultIsWalked
<1>1. InputInv => VaultIsWalked
  BY InputIsWalked
<1> QED
  BY InitInputInv, NextInputInv, <1>1, PTL DEF Spec

(* While it turns pages MCAlgorithms does what SearchPaging does, so what  *)
(* is proved of PagingSpec holds of it.                                    *)
THEOREM SearchesArePaged == Spec => PagingSpec
<1>1. Init => PagingInit
  BY DEF Init
<1>2. [Next]_<<function, input, pagingVars>> => [PagingNext]_pagingVars
  BY DEF Next, Grow, TurnPages
<1> QED
  BY <1>1, <1>2, PTL DEF Spec, PagingSpec

(* So, in the runs of MCAlgorithms, every page by cursor starts behind the *)
(* one before it, and the pages of an index nothing is written to hold     *)
(* every hit once, unless the total ends them early.                       *)
THEOREM PagesInTurn == Spec => [](CursorAdvances /\ PagesAreAll)
BY SearchesArePaged, CursorsAdvance, PagesHoldAll, PTL
=============================================================================
