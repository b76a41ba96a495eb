----------------------------- MODULE ListPaging -----------------------------
(***************************************************************************)
(* GET /list (handle_list in core/src/server/handlers.rs) and a client     *)
(* that pages through it by offset.  A request counts the files of every   *)
(* vault, one statement each, and then fetches the slices of the vaults    *)
(* that the page overlaps, one statement each; files are indexed and       *)
(* deleted in between.  A file is the place of its path in the order of    *)
(* the paths of its vault.                                                 *)
(***************************************************************************)
EXTENDS Naturals, Sequences, FiniteSets

CONSTANTS
  VaultCount,   \* the vaults are 1 .. VaultCount
  MaxFiles,     \* bound on the files of a vault, for TLC
  MaxLimit,     \* the cap on the length of a page: 200
  Asked,        \* the limits clients ask for
  MaxReplaced   \* bound on the changes and failures, for TLC

ASSUME ListAssumption ==
  /\ VaultCount \in Nat /\ MaxFiles \in Nat /\ MaxReplaced \in Nat
  /\ MaxLimit \in Nat \ {0} /\ Asked \subseteq Nat \ {0}

VaultNo == 1 .. VaultCount

VARIABLES
  files,        \* vault -> the files in the index
  changed,      \* how often that changed, or a query failed, since then
  counts,       \* the counts of the request, as far as they are taken
  page,         \* the files found by the request
  toSkip,       \* remaining_offset
  toTake,       \* remaining_limit
  vaultNo,      \* the vault whose slice is next; 0: still counting
  client        \* what it asked for, what it has got, and whether it goes on

listVars == <<files, changed, counts, page, toSkip, toTake, vaultNo, client>>
requestVars == <<counts, page, toSkip, toTake, vaultNo>>

LowerOf(m, n) == IF m < n THEN m ELSE n
Minus(m, n) == IF m < n THEN 0 ELSE m - n
Sums(s) ==  \* of the first 0, 1, 2 .. numbers of s
  LET sum[k \in 0 .. Len(s)] == IF k = 0 THEN 0 ELSE sum[k - 1] + s[k]
  IN  sum
Total(s) == Sums(s)[Len(s)]
PageLimit == LowerOf(client.limit, MaxLimit)

ListInit ==
  /\ files \in [VaultNo -> SUBSET (1 .. MaxFiles)]
  /\ changed = 0
  /\ counts = <<>> /\ page = <<>> /\ toSkip = 0 /\ toTake = 0 /\ vaultNo = 0
  /\ \E limit \in Asked :
       client = [limit |-> limit, offset |-> 0, got |-> <<>>, more |-> TRUE]

Disturbed == changed < MaxReplaced /\ changed' = changed + 1

Replace ==
  /\ Disturbed /\ client.more
  /\ \E v \in VaultNo, f \in 1 .. MaxFiles :
       files' = [files EXCEPT ![v] = IF f \in @ THEN @ \ {f} ELSE @ \cup {f}]
  /\ UNCHANGED <<requestVars, client>>

(* Counted in SQL; a query that fails is logged, and counts as none.      *)
CountVault ==
  /\ client.more /\ Len(counts) < VaultCount
  /\ \/ /\ counts' = Append(counts, Cardinality(files[Len(counts) + 1]))
        /\ UNCHANGED changed
     \/ counts' = Append(counts, 0) /\ Disturbed
  /\ IF Len(counts') = VaultCount
     THEN toSkip' = client.offset /\ toTake' = PageLimit /\ vaultNo' = 1
     ELSE UNCHANGED <<toSkip, toTake, vaultNo>>
  /\ UNCHANGED <<files, page, client>>

AtVault == vaultNo \in VaultNo /\ toTake > 0

(* An empty vault, or one that ends before the page begins.                *)
Passed == counts[vaultNo] = 0 \/ (toSkip > 0 /\ toSkip >= counts[vaultNo])

PassVault ==
  /\ AtVault /\ Passed
  /\ toSkip' = Minus(toSkip, counts[vaultNo])
  /\ vaultNo' = vaultNo + 1
  /\ UNCHANGED <<files, changed, counts, page, toTake, client>>

(* SELECT path .. ORDER BY path LIMIT take OFFSET skip *)
PathsBefore(paths, f) == Cardinality({g \in paths : g < f})
Nth(paths, k) == CHOOSE f \in paths : PathsBefore(paths, f) = k
Slice(v, skip, take) ==
  [i \in 1 .. LowerOf(take, Minus(Cardinality(files[v]), skip)) |->
     <<v, Nth(files[v], skip + i - 1)>>]

(* Mutant: the offset is applied to every vault. *)
TakeSliceOffsetKept ==
  /\ AtVault /\ ~ Passed
  /\ LET skip == LowerOf(toSkip, counts[vaultNo] - 1)
         take == LowerOf(toTake, counts[vaultNo] - skip)
     IN  /\ \/ page' = page \o Slice(vaultNo, skip, take) /\ UNCHANGED changed
            \/ UNCHANGED page /\ Disturbed
         /\ toTake' = Minus(toTake, take)
  /\ vaultNo' = vaultNo + 1
  /\ UNCHANGED <<files, counts, toSkip, client>>

TakeSlice ==
  /\ AtVault /\ ~ Passed
  /\ LET skip == LowerOf(toSkip, counts[vaultNo] - 1)
         take == LowerOf(toTake, counts[vaultNo] - skip)
     IN  /\ \/ page' = page \o Slice(vaultNo, skip, take) /\ UNCHANGED changed
            \/ UNCHANGED page /\ Disturbed
         /\ toTake' = Minus(toTake, take)
  /\ toSkip' = 0
  /\ vaultNo' = vaultNo + 1
  /\ UNCHANGED <<files, counts, client>>

(* The response; the client asks for the next page up to the total.        *)
Respond ==
  /\ vaultNo # 0 /\ ~ AtVault
  /\ client' = [client EXCEPT !.got = @ \o page, !.offset = @ + PageLimit,
                              !.more = client.offset + PageLimit < Total(counts)]
  /\ counts' = <<>> /\ page' = <<>> /\ toSkip' = 0 /\ toTake' = 0 /\ vaultNo' = 0
  /\ UNCHANGED <<files, changed>>

ListNext == Replace \/ CountVault \/ PassVault \/ TakeSlice \/ Respond

ListSpec == ListInit /\ [][ListNext]_listVars

-----------------------------------------------------------------------------
(* By vault, and by path within a vault. *)
Earlier(a, b) == a[1] < b[1] \/ (a[1] = b[1] /\ a[2] < b[2])
InOrder(s) == \A i, j \in 1 .. Len(s) : i < j => Earlier(s[i], s[j])

(* A client that pages by offset until the total gets every file of every  *)
(* vault once and in order, if the index rests meanwhile.  Whatever        *)
(* changes between the counts and the slices, no page is longer than asked *)
(* for, out of order or holds a file twice.                                *)
ListIsWhole ==
  /\ Len(page) <= PageLimit
  /\ InOrder(page)
  /\ (changed = 0 /\ ~ client.more) =>
       /\ InOrder(client.got)
       /\ {client.got[i] : i \in 1 .. Len(client.got)} =
            UNION {{v} \X files[v] : v \in VaultNo}
=============================================================================
