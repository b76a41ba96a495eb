------------------------------ MODULE Ranking ------------------------------
(***************************************************************************)
(* The order of search results (core/src/search.rs): full-text, vector and *)
(* hybrid search (reciprocal rank fusion), the boosts, and the re-ranking  *)
(* for diversity (MMR).                                                    *)
(*                                                                         *)
(* The index is a sequence of chunks, whose positions are their rowids.    *)
(* Scores are whole numbers of 1/600 (1/FusionUnit for fused ranks), so    *)
(* that the factors 0.3, 0.5 and 0.05 are exact; floats are not rounded.   *)
(***************************************************************************)
EXTENDS Integers, SequencesExt, FiniteSetsExt, StableSorting

CONSTANTS
  K,            \* the constant of reciprocal rank fusion: 60
  MaxRank,      \* bound on the length of a list that is fused, for TLC
  PoolFactor,   \* MMR_POOL_MULTIPLIER
  NoVector,     \* "the chunk has no embedding"
  Similarity(_), \* cosine similarity with the query, in tenths
  Likeness(_, _) \* cosine similarity of two vectors, in tenths

ASSUME RankingAssumption == K \in Nat /\ MaxRank \in Nat /\ PoolFactor \in Nat \ {0}

(* Of a chunk, hit: does it match the query, and how well (bm25, lower is  *)
(* better); title, emphasized: does the query match there; links: its      *)
(* note's backlinks; here: is it in the vault searched; keep: does it pass *)
(* the filters.                                                            *)
Request == [mode : {"fts", "vec", "hybrid"}, embedder : BOOLEAN, limit : Nat,
            weights : (Nat \X Nat) \ {<<0, 0>>}, mmr : BOOLEAN, lambda : 0 .. 10,
            backlinks : BOOLEAN]

Take(seq, n) == IF Len(seq) <= n THEN seq ELSE SubSeq(seq, 1, n)
Ids(results) == [k \in DOMAIN results |-> results[k].id]
Sorted(results, mode) ==
  StableSort(results, [k \in DOMAIN results |->
    IF mode = "hybrid" THEN - results[k].score ELSE results[k].score])

(* The chunks with these scores, in the order of their rowids. *)
ResultsOf(score) ==
  InKeyOrder({<<id, id, [id |-> id, score |-> score[id]]>> : id \in DOMAIN score})

(* The results that are among these chunks. *)
Among(results, ids) ==
  InKeyOrder({<<k, k, results[k]>> : k \in {j \in DOMAIN results : results[j].id \in ids}})

-----------------------------------------------------------------------------
(* Mutant: every score is multiplied, whatever its sign. *)
BoostedUnsigned(score, chunk, mode) ==
  LET titled == IF chunk.title THEN (score * 3) \div 10 ELSE score IN
  IF chunk.emphasized THEN titled \div 2 ELSE titled

(* The boosts of title and emphasis. *)
Boosted(score, chunk, mode) ==
  LET up == mode = "hybrid" \/ score < 0
      titled == CASE ~ chunk.title -> score
                  [] chunk.title /\ up -> (score * 10) \div 3
                  [] OTHER -> (score * 3) \div 10
  IN  CASE ~ chunk.emphasized -> titled
        [] chunk.emphasized /\ up -> titled * 2
        [] OTHER -> titled \div 2

(* apply_filters_and_boost *)
FilterAndBoost(chunks, results, mode, filtering) ==
  LET kept == Among(results, {i \in DOMAIN chunks : filtering => chunks[i].keep})
  IN  Sorted([k \in DOMAIN kept |->
                [kept[k] EXCEPT !.score = Boosted(@, chunks[kept[k].id], mode)]],
             mode)

(* fts_search_inner, build_results: by BM25 rank, the vault in the query.  *)
SearchFts(chunks, limit, filtering) ==
  LET hits == {i \in DOMAIN chunks : chunks[i].hit /\ chunks[i].here} IN
  FilterAndBoost(chunks,
    Take(Sorted(ResultsOf([i \in hits |-> 600 * chunks[i].bm25]), "fts"), limit),
    "fts", filtering)

(* vec_search_inner: the nearest vectors of all vaults (k = limit), of     *)
(* which those of the vault remain.  Vectors have length one, so that the  *)
(* nearest are the most similar.                                           *)
Nearest(chunks, limit) ==
  LET all == {i \in DOMAIN chunks : chunks[i].vector # NoVector} IN
  Take(Sorted(ResultsOf([i \in all |-> 60 * (10 - Similarity(chunks[i].vector))]),
              "vec"), limit)

SearchVec(chunks, limit, filtering) ==
  FilterAndBoost(chunks,
    Among(Nearest(chunks, limit), {i \in DOMAIN chunks : chunks[i].here}),
    "vec", filtering)

-----------------------------------------------------------------------------
FusionUnit ==
  LET unit[r \in 0 .. MaxRank] == IF r = 0 THEN 60 ELSE unit[r - 1] * (K + r)
  IN  unit[MaxRank]

(* weight / (k + rank), with weights in halves; 0 if it is not in the list *)
Reciprocal(list, id, weight) ==
  LET rank == SelectInSeq(list, LAMBDA r : r.id = id) IN
  IF rank = 0 THEN 0 ELSE weight * (FusionUnit \div (2 * (K + rank)))

(* compute_rrf_internal *)
Fused(fts, vec, limit, weights) ==
  LET ids == ToSet(Ids(fts)) \cup ToSet(Ids(vec)) IN
  Take(Sorted(ResultsOf([id \in ids |-> Reciprocal(fts, id, weights[1]) +
                                       Reciprocal(vec, id, weights[2])]),
              "hybrid"), limit)

(* search_hybrid: the filters run after the fusion. *)
SearchHybrid(chunks, limit, pool, weights) ==
  FilterAndBoost(chunks,
    Fused(SearchFts(chunks, 2 * limit, FALSE), SearchVec(chunks, pool, FALSE),
          limit, weights),
    "hybrid", TRUE)

-----------------------------------------------------------------------------
(* lambda * sim(d, query) - (1 - lambda) * max sim(d, selected)            *)
Margin(lambda, similarity, penalty) ==
  lambda * similarity - (10 - lambda) * penalty

(* mmr_rerank.  A candidate whose vector the vector search did not bring   *)
(* counts as similar to nothing.                                           *)
Rerank(candidates, vectorOf, lambda, limit) ==
  LET known(k) == candidates[k].id \in DOMAIN vectorOf
      vec(k)   == vectorOf[candidates[k].id]
      sim(k)   == IF known(k) THEN Similarity(vec(k)) ELSE 0
      like(j, k) == IF known(j) /\ known(k) THEN Likeness(vec(j), vec(k)) ELSE 0
      penalty(k, chosen) == Max({0} \cup {like(j, k) : j \in ToSet(chosen)})
      best(chosen) ==
        LET rest == DOMAIN candidates \ ToSet(chosen)
            margin(k) == Margin(lambda, sim(k), penalty(k, chosen))
        IN  Min({k \in rest : \A j \in rest : margin(j) <= margin(k)})
      count == Min({limit, Len(candidates)})
      pick[n \in 0 .. count] ==
        IF n = 0 THEN <<>> ELSE Append(pick[n - 1], best(pick[n - 1]))
  IN  IF Len(candidates) <= 1 THEN candidates
      ELSE [n \in 1 .. count |-> candidates[pick[count][n]]]

(* The stages of search() after the hits were found, for the first page. *)
Diversified(found, vectorOf, mode, req) ==
  IF req.mmr /\ mode # "fts" /\ vectorOf # <<>>
  THEN Rerank(found, vectorOf, req.lambda, req.limit) ELSE found

(* The boost of backlinks, and the order it brings about. *)
Linked(chunks, results, mode, req) ==
  LET unit == IF mode = "hybrid" THEN FusionUnit \div 20 ELSE 30
      sign == IF mode = "hybrid" THEN 1 ELSE -1
      boosted(r) == [r EXCEPT !.score = @ + sign * unit * chunks[r.id].links]
  IN  IF req.backlinks
      THEN Sorted([k \in DOMAIN results |-> boosted(results[k])], mode)
      ELSE results

FirstPage(results, mode, req) ==
  IF mode = "fts" THEN Take(results, req.limit) ELSE results

Search(chunks, req) ==
  LET mode == IF req.mode = "hybrid" /\ ~ req.embedder THEN "fts" ELSE req.mode
      pool == IF req.mmr THEN PoolFactor * req.limit ELSE req.limit
      near == {i \in ToSet(Ids(Nearest(chunks, pool))) : chunks[i].here}
      found == CASE mode = "fts" -> SearchFts(chunks, req.limit + 1, TRUE)
                 [] mode = "vec" -> SearchVec(chunks, pool, TRUE)
                 [] mode = "hybrid" ->
                      SearchHybrid(chunks, req.limit, pool, req.weights)
      diverse == Diversified(found, [i \in near |-> chunks[i].vector], mode, req)
  IN  FirstPage(Linked(chunks, diverse, mode, req), mode, req)

-----------------------------------------------------------------------------
Unboosted(chunk) == ~ chunk.title /\ ~ chunk.emphasized /\ chunk.links = 0
Plain(chunks) ==
  \A i \in DOMAIN chunks : Unboosted(chunks[i]) /\ chunks[i].keep /\ chunks[i].here
Place(results, id) ==
  LET k == SelectInSeq(results, LAMBDA r : r.id = id) IN
  IF k = 0 THEN Len(results) + 1 ELSE k

(* Fusion keeps what text and vectors agree about: a chunk that no list    *)
(* places behind another is not behind it in the result.                   *)
AgreementIsKept(chunks, req) ==
  LET fts == SearchFts(chunks, 2 * req.limit, FALSE)
      vec == SearchVec(chunks, req.limit, FALSE)
      got == Search(chunks, req)
  IN  (Plain(chunks) /\ req.mode = "hybrid" /\ req.embedder /\ ~ req.mmr) =>
        \A a, b \in DOMAIN chunks :
          (/\ Place(fts, a) <= Place(fts, b) /\ Place(vec, a) <= Place(vec, b)
           /\ Place(fts, a) < Place(fts, b) /\ req.weights[1] > 0)
          => Place(got, a) <= Place(got, b)

(* --hybrid-alpha 1 is the order of the text search, 0 that of the vectors *)
(* ("lets the user control the relative contribution").                    *)
AlphaChoosesTheList(chunks, req) ==
  LET fts == SearchFts(chunks, 2 * req.limit, FALSE)
      vec == SearchVec(chunks, req.limit, FALSE)
      list == IF req.weights[2] = 0 THEN fts ELSE vec
  IN  (/\ Plain(chunks) /\ req.mode = "hybrid" /\ req.embedder /\ ~ req.mmr
       /\ 0 \in {req.weights[1], req.weights[2]})
      => IsPrefix(Take(Ids(list), req.limit), Ids(Search(chunks, req)))

(* A chunk whose title or emphasized text holds a word of the query, or    *)
(* that has one more backlink, is not placed further down for it, in any   *)
(* mode and whatever the sign of its score ("BM25 can return either        *)
(* positive or negative scores").  But for hybrid search with other boosts *)
(* than its own: there a better rank can push one chunk off the page and   *)
(* bring another onto it, whose boosts outweigh every rank.                *)
BoostsHelp(chunks, req) ==
  ~ req.mmr =>
    \A i \in DOMAIN chunks :
      LET boosted == {[chunks EXCEPT ![i].title = TRUE],
                      [chunks EXCEPT ![i].emphasized = TRUE]}
          linked  == {[chunks EXCEPT ![i].links = @ + 1]}
          alone   == req.mode = "hybrid" => \A j \in DOMAIN chunks \ {i} : Unboosted(chunks[j])
          places(index) == LET got == Search(index, req)
                           IN  {k \in DOMAIN got : got[k].id = i}
      IN  \A better \in linked \cup (IF alone THEN boosted ELSE {}) :
            \A k \in places(chunks) : \E l \in places(better) : l <= k

(* "lambda = 1.0 -> pure relevance (same as original order)": of a vector  *)
(* search whose scores nothing boosts.                                     *)
RelevanceKeepsOrder(chunks, req) ==
  (Plain(chunks) /\ req.mode = "vec" /\ req.mmr /\ req.lambda = 10) =>
    Search(chunks, req) = Search(chunks, [req EXCEPT !.mmr = FALSE])

(* A page is as full as it can be, and holds nothing twice.                *)
PageIsFull(chunks, req) ==
  LET got  == Search(chunks, req)
      hits == {i \in DOMAIN chunks :
                 \/ req.mode # "vec" /\ chunks[i].hit
                 \/ /\ req.mode # "fts" /\ req.embedder
                    /\ chunks[i].vector # NoVector}
  IN  (Plain(chunks) /\ (req.mode = "vec" => req.embedder)) =>
        /\ Cardinality(ToSet(Ids(got))) = Len(got)
        /\ Len(got) = Min({req.limit, Cardinality(hits)})
        /\ ToSet(Ids(got)) \subseteq hits
=============================================================================
