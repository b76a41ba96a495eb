---------------------------- MODULE SearchDoors ----------------------------
(***************************************************************************)
(* The three doors to the search of Ranking: `shiotsuchi search`           *)
(* (cli/src/commands/dive.rs), GET /search (core/src/server/handlers.rs)   *)
(* and the MCP tool search_local_notes (mcp/src/handler/search.rs).  Each  *)
(* checks what is asked in its own order, and passes on what it knows.     *)
(*                                                                         *)
(* An answer is a sequence of chunks, best first, or Refused.  Thresholds, *)
(* synonyms and --fuzzy are left out, and so are pages by cursor           *)
(* (SearchPaging) and the rate limiters (RateLimiter).                     *)
(***************************************************************************)
EXTENDS Ranking

CONSTANTS
  Refused,    \* an error, or a message in place of results
  HttpLimit,  \* what a larger limit is clamped to: 200,
  HttpOffset, \* a larger offset: 10000,
  McpLimit    \* and a larger limit: 50

ASSUME DoorsAssumption == {HttpLimit, HttpOffset, McpLimit} \subseteq Nat

(* What is asked; a vault is one of the index ("here"), none in particular *)
(* or one that is not in the configuration.                                *)
Ask == [blank : BOOLEAN, mode : {"fts", "vec", "hybrid"},
        vault : {"any", "here", "unknown"}, limit : Nat, offset : Nat,
        filtering : BOOLEAN, mmr : BOOLEAN]

(* What the door has: a tokenizer, a model, backlink_scoring. *)
Setup == [tokenizer : BOOLEAN, model : BOOLEAN, backlinks : BOOLEAN]

(* The index as the query sees it: vault_filter, tag_filter, since_date.   *)
Seen(chunks, ask) ==
  [i \in DOMAIN chunks |->
     [chunks[i] EXCEPT
        !.here = ask.vault = "any" \/ (ask.vault = "here" /\ @),
        !.keep = ask.filtering => @]]

EvenWeights == <<1, 1>>
Slice(results, offset, limit) ==
  SubSeq(results, offset + 1, Min({offset + limit, Len(results)}))

RequestOf(ask, limit, model, backlinks) ==
  [mode |-> ask.mode, embedder |-> model, limit |-> limit, weights |-> EvenWeights,
   mmr |-> ask.mmr, lambda |-> 5, backlinks |-> backlinks]

(* run_dive *)
Dive(chunks, ask, setup) ==
  LET refuses == \/ ask.vault = "unknown"
                 \/ ~ setup.tokenizer
                 \/ ask.mode = "vec" /\ ~ setup.model
  IN  IF ask.blank THEN <<>>
      ELSE IF refuses THEN Refused
      ELSE Ids(Search(Seen(chunks, ask),
                      RequestOf(ask, ask.limit, setup.model, setup.backlinks)))

(* Without a tokenizer: the words as they are, one row more than asked,    *)
(* and of these a page; mode, tag and since count for nothing.             *)
PlainSearch(chunks, ask, limit, fetched) ==
  LET all  == Seen(chunks, [ask EXCEPT !.filtering = FALSE])
      hits == {i \in DOMAIN all : all[i].hit /\ all[i].here}
  IN  Take(Ids(Take(Sorted(ResultsOf([i \in hits |-> 600 * all[i].bm25]), "fts"),
                    fetched + 1)),
           limit)

(* SearchParams: what is too large is clamped, not refused. *)
Clamped(ask) ==
  [ask EXCEPT !.limit = Min({@, HttpLimit}), !.offset = Min({@, HttpOffset})]

(* handle_search: one list up to the end of the page, of which the page.   *)
HandleSearch(chunks, ask, setup) ==
  LET params == Clamped(ask)
      upTo   == params.limit + params.offset
      plain  == RequestOf([params EXCEPT !.mmr = FALSE], upTo, FALSE, setup.backlinks)
      found  == IF setup.tokenizer THEN Ids(Search(Seen(chunks, params), plain))
                ELSE PlainSearch(chunks, params, params.limit, upTo)
  IN  IF ask.blank \/ (setup.tokenizer /\ ask.mode = "vec") THEN Refused
      ELSE Slice(found, params.offset, params.limit)

(* handle_search_local_notes: it is refused before it is found blank.      *)
HandleSearchLocalNotes(chunks, ask, setup) ==
  LET refuses == \/ ask.vault = "unknown"
                 \/ ask.mode = "vec"
                 \/ ~ setup.tokenizer
      unfiltered == [ask EXCEPT !.filtering = FALSE, !.mmr = FALSE]
  IN  IF refuses THEN Refused
      ELSE IF ask.blank THEN <<>>
      ELSE Ids(Search(Seen(chunks, unfiltered),
                      RequestOf(unfiltered, Min({ask.limit, McpLimit}), FALSE,
                                setup.backlinks)))

-----------------------------------------------------------------------------
(* One index gives one answer: whichever door is asked, for text or, in    *)
(* want of a model, for both, and whatever the order of its checks.        *)
DoorsAgree(chunks, ask, setup) ==
  (/\ setup.tokenizer /\ ~ setup.model
   /\ ~ ask.filtering /\ ~ ask.mmr /\ ask.offset = 0 /\ ~ ask.blank
   /\ ask.vault # "unknown" /\ ask.limit <= Min({McpLimit, HttpLimit}))
  => \A answer \in {Dive(chunks, ask, setup)} :
       /\ HandleSearch(chunks, ask, setup) = answer
       /\ HandleSearchLocalNotes(chunks, ask, setup) = answer

(* The pages by offset are the one long answer, cut: nothing on two pages  *)
(* and nothing on none.  (Not where a boost moves a result across the end  *)
(* of the list, or a filter empties it, see NoneTwice of SearchPaging; nor *)
(* past HttpOffset, where every page is the same one.)                     *)
PagesTile(chunks, ask, setup) ==
  (Plain(chunks) /\ setup.tokenizer /\ ask.mode # "vec" /\ ~ ask.blank) =>
    \A size \in {n \in {Min({ask.limit, HttpLimit})} : 2 * n <= HttpOffset} :
      LET page(n) == HandleSearch(chunks, [ask EXCEPT !.offset = n * size], setup)
          whole == [ask EXCEPT !.vault = "any", !.limit = 3 * size, !.mmr = FALSE]
      IN  page(0) \o page(1) \o page(2) =
            IF ask.vault = "unknown" THEN <<>>
            ELSE Dive(chunks, whole, [setup EXCEPT !.model = FALSE])
=============================================================================
