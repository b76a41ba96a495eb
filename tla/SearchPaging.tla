---------------------------- MODULE SearchPaging ----------------------------
(***************************************************************************)
(* One client walks through the pages of a full-text search: GET           *)
(* /api/v1/search of core/src/server/handlers.rs, search() of              *)
(* core/src/search.rs and the queries of core/src/db.rs below it.  Between *)
(* any two queries another process may replace a chunk.                    *)
(*                                                                         *)
(* A page is a set of results, which their order relation sorts.  What the *)
(* title, the emphasized text and the backlinks of a chunk take off its    *)
(* score is one number, its boost; a lower score is better.                *)
(***************************************************************************)
EXTENDS Integers, FiniteSets, Sequences

CONSTANTS
  RowId,        \* rowids of chunks
  Rank,         \* BM25 ranks
  Chunk,        \* what a row can hold: [hit, counted, rank, boost, keep]
  NoChunk,      \* "no row"
  NoCursor,     \* "no cursor"
  Limit,        \* the client's limit
  MaxChanges,   \* bound on the chunks replaced meanwhile, for TLC
  MaxPages      \* bound on the pages asked for, for TLC

Result == [score : Int, rank : Rank, id : RowId]
Cursor == [score : Int, id : RowId]

ASSUME PagingAssumption ==
  /\ RowId \subseteq Nat /\ IsFiniteSet(RowId)
  /\ Rank \subseteq Int
  /\ Chunk \subseteq [hit : BOOLEAN,      \* does it match the search's query?
                      counted : BOOLEAN,  \* and that of the plain words?
                      rank : Rank,        \* how well, if it does
                      boost : Nat,        \* see above
                      keep : BOOLEAN]     \* does it pass the filters?
  /\ NoChunk \notin Chunk /\ NoCursor \notin Cursor
  /\ Limit \in Nat \ {0} /\ MaxChanges \in Nat /\ MaxPages \in Nat

VARIABLES
  rows,         \* table chunks: rowid -> chunk or NoChunk
  changes,      \* how many chunks were replaced since the client started
  how,          \* how the client turns pages: by "cursor", by offset up to
                \* the "total", or by offset until a page is "short"
  boosting,     \* has the server a tokenizer, and so boosts and filters?
  cursor,       \* of the request: where the page starts, or NoCursor
  offset,       \* of the request
  stage,        \* "query", "fetch", "turn" or "done"
  found,        \* the rowids and ranks the full-text query gave
  next,         \* next_cursor of the response
  shown         \* the pages the client has got

pagingVars == <<rows, changes, how, boosting, cursor, offset, stage, found,
                next, shown>>

PagingInit ==
  /\ rows \in [RowId -> Chunk \cup {NoChunk}]
  /\ changes = 0
  /\ how \in {"cursor", "total", "short"}
  /\ boosting \in BOOLEAN
  /\ cursor = NoCursor /\ offset = 0
  /\ stage = "query"
  /\ found = {} /\ next = NoCursor /\ shown = <<>>

-----------------------------------------------------------------------------
(* All sorts are by score and stable, from the order of the query. *)
Before(a, b) ==
  \/ a.score < b.score
  \/ a.score = b.score /\ a.rank < b.rank
  \/ a.score = b.score /\ a.rank = b.rank /\ a.id < b.id

(* The first n of a set of results, and the last. *)
First(n, results) ==
  {r \in results : Cardinality({s \in results : Before(s, r)}) < n}
LastOf(results) ==
  CHOOSE r \in results : \A s \in results : s = r \/ Before(s, r)

(* Mutants: the rowid does not break ties; the last row comes again.       *)
BeyondRank(id, c) == c = NoCursor \/ rows[id].rank > c.score
NotBefore(id, c) ==
  \/ c = NoCursor
  \/ rows[id].rank > c.score
  \/ rows[id].rank = c.score /\ id >= c.id

(* rank > ? OR (rank = ? AND rowid > ?) *)
Beyond(id, c) ==
  \/ c = NoCursor
  \/ rows[id].rank > c.score
  \/ rows[id].rank = c.score /\ id > c.id

(* With a tokenizer the query has its tokens, with synonyms; without, the  *)
(* words of the request, all of them.                                      *)
Present(id) == rows[id] # NoChunk
Counted == {id \in RowId : Present(id) /\ rows[id].counted}
Hits == IF boosting THEN {id \in RowId : Present(id) /\ rows[id].hit} ELSE Counted

(* The handler asks for limit + offset results. *)
Wanted == Limit + offset

(* fts_search_inner: one more is fetched to see whether there are more. *)
QueryIndex ==
  /\ stage = "query"
  /\ found' = First(Wanted + 1,
       {[score |-> rows[id].rank, rank |-> rows[id].rank, id |-> id] :
          id \in {h \in Hits : Beyond(h, cursor)}})
  /\ stage' = "fetch"
  /\ UNCHANGED <<rows, changes, how, boosting, cursor, offset, next, shown>>

(* get_chunks_by_ids_inner; tag_matches and date_matches; the boosts.  A   *)
(* rowid that was given out again brings its new chunk.                    *)
Fetched ==
  {[score |-> r.score - (IF boosting THEN rows[r.id].boost ELSE 0),
    rank |-> r.rank, id |-> r.id] :
     r \in {f \in found : Present(f.id) /\ (boosting => rows[f.id].keep)}}

(* Without a tokenizer the handler truncates to limit itself. *)
Truncation == IF boosting THEN Wanted ELSE Limit

Page ==
  LET page == First(Truncation, Fetched) IN
  [results |-> page,
   next |-> IF Cardinality(Fetched) > Truncation
            THEN [score |-> LastOf(page).score, id |-> LastOf(page).id]
            ELSE NoCursor]

(* Without a cursor: skip(offset), take(limit) *)
Respond ==
  /\ stage = "fetch"
  /\ shown' = Append(shown,
       IF cursor # NoCursor
       THEN Page.results
       ELSE First(offset + Limit, Page.results) \ First(offset, Page.results))
  /\ next' = Page.next
  /\ stage' = "turn"
  /\ UNCHANGED <<rows, changes, how, boosting, cursor, offset, found>>

(* The handler counts the matches of the plain words, whatever it searched *)
(* for (a count that fails is left out).                                   *)
Total == Cardinality(Counted)

(* The client follows next_cursor, or adds limit to offset.                *)
More ==
  CASE how = "cursor" -> next # NoCursor
    [] how = "total"  -> offset + Limit < Total
    [] how = "short"  -> Cardinality(shown[Len(shown)]) = Limit

TurnPage ==
  /\ stage = "turn" /\ Len(shown) < MaxPages
  /\ stage' = IF More THEN "query" ELSE "done"
  /\ cursor' = IF how = "cursor" THEN next ELSE cursor
  /\ offset' = IF how = "cursor" THEN offset ELSE offset + Limit
  /\ UNCHANGED <<rows, changes, how, boosting, found, next, shown>>

(* Another process writes to the index.  Any chunk may come under a rowid  *)
(* that was free.  What that does to the BM25 ranks of others is left out. *)
Change ==
  /\ stage # "done" /\ changes < MaxChanges
  /\ \E id \in RowId, c \in Chunk \cup {NoChunk} :
       rows' = [rows EXCEPT ![id] = c]
  /\ changes' = changes + 1
  /\ UNCHANGED <<how, boosting, cursor, offset, stage, found, next, shown>>

PagingNext == QueryIndex \/ Respond \/ TurnPage \/ Change

PagingSpec == PagingInit /\ [][PagingNext]_pagingVars

-----------------------------------------------------------------------------
(* Type invariant, a part of CursorAdvances; no page is longer than limit. *)
PagingTypeOK ==
  /\ rows \in [RowId -> Chunk \cup {NoChunk}]
  /\ changes \in 0 .. MaxChanges
  /\ how \in {"cursor", "total", "short"} /\ boosting \in BOOLEAN
  /\ cursor \in Cursor \cup {NoCursor} /\ next \in Cursor \cup {NoCursor}
  /\ offset \in Nat
  /\ stage \in {"query", "fetch", "turn", "done"}
  /\ found \subseteq Result
  /\ shown \in Seq(SUBSET Result)
  /\ \A i \in 1 .. Len(shown) : Cardinality(shown[i]) <= Limit

NothingBoosted == \A i \in 1 .. Len(shown) : \A r \in shown[i] : r.score = r.rank

(* "Cursor uses composite keyset pagination with (rank, rowid) tiebreaker  *)
(* for deterministic order" (ref/core.md): where no score is boosted every *)
(* page starts behind the one before it, whatever is written to the index  *)
(* between the queries - so no result comes twice.                         *)
CursorAdvances ==
  /\ PagingTypeOK
  /\ (how = "cursor" /\ NothingBoosted) =>
       \A i, j \in 1 .. Len(shown) : i < j =>
         \A a \in shown[i], b \in shown[j] : Before(a, b)

(* No score is boosted and no hit is filtered out.  (Without a tokenizer   *)
(* the handler can page by cursor only.)                                   *)
PlainPaging == IF boosting
         THEN \A id \in Hits : rows[id].boost = 0 /\ rows[id].keep
         ELSE how = "cursor"

(* The pages hold every hit once when the index is not written to: to a    *)
(* client that follows the cursors or goes on until a page is short, and   *)
(* to one that goes by `total` if that is not below the number of hits.    *)
(* The total is of another query than the hits, and need not be theirs.    *)
PagesAreAll ==
  (/\ stage = "done" /\ changes = 0 /\ PlainPaging
   /\ how = "total" => Total >= Cardinality(Hits)) =>
    /\ {r.id : r \in UNION {shown[i] : i \in 1 .. Len(shown)}} = Hits
    /\ \A i, j \in 1 .. Len(shown) : i # j => shown[i] \cap shown[j] = {}

(* "all results across pages must be unique (no duplicates)" (a test in    *)
(* handlers.rs), and "correct FTS5 pagination" (search.rs): the cursor     *)
(* takes no client back to a result it has seen.                           *)
NoneTwice ==
  (how = "cursor" /\ changes = 0) =>
    \A i, j \in 1 .. Len(shown) : i # j =>
      {r.id : r \in shown[i]} \cap {r.id : r \in shown[j]} = {}
=============================================================================
