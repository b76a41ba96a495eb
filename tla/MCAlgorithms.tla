---------------------------- MODULE MCAlgorithms ----------------------------
(***************************************************************************)
(* Bounded inputs for the pure functions.  An input grows symbol by symbol *)
(* (a note is written line by line, a vault gets one more file or pattern) *)
(* and every property is checked of every input on the way.  A search that *)
(* is paged through, which is a state machine, is one more subject.        *)
(***************************************************************************)
EXTENDS NoteText, TextTokens, PdfLayout, SearchDoors, VaultWalk, SearchPaging,
        VectorPooling, Places, TaskList, TLC

CONSTANT MaxLength   \* function -> bound on its inputs, for those checked

VARIABLES function, input

-----------------------------------------------------------------------------
A(kind) == [kind |-> kind, level |-> 0, mark |-> "", size |-> 1]
H(level) == [A("heading") EXCEPT !.level = level]
FenceOf(mark) == [A("fence") EXCEPT !.mark = mark]

Hit(bm25, vector) ==
  [hit |-> TRUE, bm25 |-> bm25, vector |-> vector, title |-> FALSE,
   emphasized |-> FALSE, links |-> 0, keep |-> TRUE, here |-> TRUE]
NotHit(vector) == [Hit(0, vector) EXCEPT !.hit = FALSE]

(* Vectors are directions in steps of 60 degrees; the query is north, and  *)
(* two of them are as like as the cosine between them.                     *)
MCSimilarity(v) == <<10, 5, -5, -10, -5, 5>>[v + 1]
MCLikeness(v, w) == MCSimilarity(IF v >= w THEN v - w ELSE w - v)
Direction == 0 .. 5
ASSUME DirectionAssumption ==
  /\ NoVector \notin Direction
  /\ \A v, w \in Direction : Similarity(v) \in Int /\ Likeness(v, w) \in Int

(* The state of a token depends on those before it. *)
MCState(tokens, j) == FoldLeft(LAMBDA n, t : 3 * n + t, 0, SubSeq(tokens, 1, j))

(* A document: font sizes of lines, and ends of pages.                     *)
EndOfPage == 0
SplitPages(symbols) ==
  FoldLeftDomain(LAMBDA pages, k :
                   IF symbols[k] = EndOfPage THEN Append(pages, <<>>)
                   ELSE [pages EXCEPT ![Len(pages)] =
                           Append(@, [id |-> k, size |-> symbols[k]])],
                 << <<>> >>, symbols)

MCLine(x, y) == [x0 |-> x[1], x1 |-> x[2], y0 |-> y[1], y1 |-> y[2]]

(* The rows of a search that is paged through: two ranks, so that there    *)
(* are ties; a boosted, a filtered, an uncounted and no hit.               *)
Row(rank, boost, keep) ==
  [hit |-> TRUE, counted |-> TRUE, rank |-> rank, boost |-> boost,
   keep |-> keep]
MCChunk == {Row(1, 0, TRUE), Row(2, 2, TRUE), Row(1, 0, FALSE),
            [Row(2, 0, TRUE) EXCEPT !.counted = FALSE],
            [Row(1, 0, TRUE) EXCEPT !.hit = FALSE]}

(* A vault: files and patterns.                                            *)
MCStarting == [star |-> {"a", "dist", ".git", "draft_1", "draft_1.md", "n.md", "w.tmp"},
               draft |-> {"draft_1", "draft_1.md"}]
MCEnding == [tmp |-> {"w.tmp"}]
MCStem == ("n.md" :> "n") @@ ("draft_1.md" :> "draft_1") @@ ("m.md" :> "n")
NameBytes == [name \in {"a", "dist", ".git", "draft_1", "n.md", "m.markdown",
                        "draft_1.md", "w.tmp", "n.txt"} |->
                CASE name = "a" -> 1
                  [] name \in {"n.md", "dist", ".git"} -> 4
                  [] name \in {"w.tmp", "n.txt"} -> 5
                  [] name = "draft_1" -> 7
                  [] OTHER -> 10]
Bytes(path) ==
  LET upTo[k \in 0 .. Len(path)] ==
        IF k = 0 THEN 0 ELSE upTo[k - 1] + 1 + NameBytes[path[k]]
  IN  upTo[Len(path)]

At(path) == [path |-> path, via |-> "nothing", outside |-> FALSE]
MCVaultFile ==
  {At(<<"n.md">>), At(<<"dist", "n.md">>), At(<<"a", "dist", "n.md">>),
   At(<<"a", "dist", "m.markdown">>), At(<<"dist", "n.txt">>),
   At(<<"dist", "a", "n.md">>),
   At(<<"dist", "w.tmp", "n.md">>), At(<<".git", "n.md">>),
   At(<<"a", "draft_1", "n.md">>), At(<<"a", "draft_1.md">>),
   [At(<<"a", "n.md">>) EXCEPT !.via = "file", !.outside = TRUE],
   [At(<<"w.tmp", "n.md">>) EXCEPT !.via = "directory"]}
ASSUME VaultAssumption ==    \* directories have names that are no patterns
  \A f \in MCVaultFile : \A i \in 1 .. Len(f.path) - 1 :
    f.path[i] \notin {"**", Unclosed} \cup DOMAIN Starting \cup DOMAIN Ending
MCPattern ==
  {<<>>, <<"dist">>, <<"draft">>, <<"tmp">>, <<"unclosed">>, <<"a", "star">>,
   <<"a", "**">>, <<"**", "dist", "star">>, <<"a", "dist">>,
   <<"a", "**", "n.md">>}

(* Task lines of two files, the third of each done.                        *)
MCSmall == "A" :> "a"
MCTask ==
  {[file |-> f, line |-> k, checked |-> k = 3,
    content |-> <<<<"a", "b">>, <<"b", "A", "%">>, <<"b", "a">>, <<"_", "b">>,
                  <<"A">>, <<>>, <<"a", "A", "b">>, <<"b", "_", "a">>>>[f + 2 * k - 2]] :
     f \in 1 .. 2, k \in 1 .. 4}

(* A home: what is set in the environment and in config.toml.              *)
Env == [home |-> <<"home">>, macos |-> FALSE, xdgData |-> Unset,
        xdgConfig |-> Unset, embedModel |-> Unset, dbPath |-> Unset,
        notesDir |-> Unset, present |-> {}]
EnvSetting(name, value) == [in |-> "env", name |-> name, value |-> value]
FileSetting(name, value) == [in |-> "file", name |-> name, value |-> value]
HomeModel == <<"home", ".local", "share", "shiotsuchi", "model.onnx">>
MCSetting ==
  {EnvSetting("home", Unset), EnvSetting("macos", TRUE),
   EnvSetting("xdgData", <<"data">>), EnvSetting("xdgData", <<".", "data">>),
   EnvSetting("xdgConfig", <<"conf">>), EnvSetting("xdgConfig", <<".", "conf">>),
   EnvSetting("embedModel", <<"m">>), EnvSetting("dbPath", <<"d">>),
   EnvSetting("dbPath", <<"d", "..", "e">>), EnvSetting("notesDir", <<"n">>),
   EnvSetting("notesDir", <<"n", "..", "o">>),
   EnvSetting("present", {<<"m">>}), EnvSetting("present", {HomeModel}),
   EnvSetting("present", {<<"m">>, HomeModel}),
   FileSetting("database", <<"b">>), FileSetting("legacyNotes", <<"l">>),
   FileSetting("legacyDb", <<"ldb">>), FileSetting("unknown", TRUE),
   FileSetting("vaults", {<<"default", <<"v">>>>}),
   FileSetting("vaults", {<<"default", <<"v">>>>, <<"work", <<"w">>>>}),
   FileSetting("flatNotes", <<"f">>), FileSetting("flatDb", <<"fdb">>),
   FileSetting("onnx", <<"m">>)}

MCPathName ==
  OwnName \cup {"home", "data", "conf", "m", "d", "..", "e", "n", "o", "b", "l", "ldb",
               "v", "w", "work", "f", "fdb"}
ASSUME SettingAssumption == MCPathName \subseteq PathName

(* What is set last counts. *)
Set(settings, in, from) ==
  [name \in DOMAIN from |->
     LET at == {k \in DOMAIN settings : settings[k].in = in /\ settings[k].name = name}
     IN  IF at = {} THEN from[name] ELSE settings[Max(at)].value]

Alphabet ==
  [places |-> MCSetting,
   keyword |-> {"a", "A", "b", "%", "_"},
   walk |-> MCVaultFile \cup [pattern : MCPattern],
   chunks |-> {A("blank"), A("text"), H(1), H(2), H(4),
               FenceOf("tick"), FenceOf("tilde")},
   frontmatter |-> {A("blank"), A("text"), A("dashes"), A("indented dashes"),
                    A("tags"), A("inline tags"), A("item")},
   segments |-> {<<"lower">>, <<"tick">>, <<"dollar">>, <<"nl">>, <<"space">>,
                 <<"tick", "tick", "tick">>, <<"tick", "tick", "tick", "nl">>,
                 <<"tilde", "tilde", "tilde", "nl">>},
   links |-> {<<"lower">>, <<"[">>, <<"]">>, <<"[", "[">>, <<"]", "]">>,
              <<"|">>, <<"#">>, <<"^">>},
   emphasis |-> {<<"lower">>, <<"=">>, <<"*">>, <<"[", "[">>},
   words |-> {"lower", "upper", "digit", "_", "other"},
   terms |-> {<<"a">>, <<"b">>, <<"a", "b">>},
   prose |-> {"lower", "upper", "_", "space", "tick"},
   vectors |-> UNION {[1 .. n -> {1, 2}] : n \in 0 .. 3}
               \cup {<<1, 2, 1, 1>>, <<1, 2, 1, 2>>},
   snippet |-> {"lower", "m", "nl"},
   page |-> {MCLine(x, y) : x \in {<<0, 8>>, <<12, 20>>, <<0, 20>>},
                            y \in {<<0, 4>>, <<2, 6>>, <<8, 12>>, <<14, 18>>,
                                   <<6, 16>>}}
            \cup {MCLine(<<0, 14>>, <<2, 6>>), MCLine(<<2, 6>>, <<0, 4>>)},
   document |-> {10, 12, 100, 102, 118, 122, 152} \cup {EndOfPage},
   characters |-> [y : {0, 1, 2, 3, 4, 8}, size : {2, 4}],
   ranking |-> {Hit(-1, NoVector), Hit(-2, 0), Hit(1, 2), Hit(-1, 1),
                NotHit(0), NotHit(1), NotHit(3), NotHit(5),
                [Hit(-1, 1) EXCEPT !.title = TRUE],
                [Hit(1, NoVector) EXCEPT !.emphasized = TRUE],
                [Hit(-2, 5) EXCEPT !.links = 1],
                [Hit(-2, 0) EXCEPT !.keep = FALSE],
                [Hit(-2, 0) EXCEPT !.here = FALSE],
                [NotHit(2) EXCEPT !.title = TRUE, !.emphasized = TRUE]}]

Init ==
  /\ function \in DOMAIN MaxLength /\ input = <<>>
  /\ IF function = "paging" THEN PagingInit
     ELSE /\ PagingInit /\ rows = [id \in RowId |-> NoChunk]
          /\ how = "cursor" /\ boosting

Grow ==
  /\ function # "paging" /\ Len(input) < MaxLength[function]
  /\ \E symbol \in Alphabet[function] : input' = Append(input, symbol)
  /\ UNCHANGED <<function, pagingVars>>

TurnPages == function = "paging" /\ PagingNext /\ UNCHANGED <<function, input>>

Next == Grow \/ TurnPages
Spec == Init /\ [][Next]_<<function, input, pagingVars>>

-----------------------------------------------------------------------------
MCMaxLength ==
  [paging |-> 0, places |-> 4, walk |-> 3, chunks |-> 6, frontmatter |-> 6,
   segments |-> 5, links |-> 5, emphasis |-> 6, words |-> 6, terms |-> 5, keyword |-> 3,
   prose |-> 6, snippet |-> 8, page |-> 4, document |-> 4, characters |-> 4,
   ranking |-> 3, vectors |-> 3]
MCWalkOnly == [walk |-> 3]
MCSegmentsOnly == [segments |-> 5]

ASSUME LengthAssumption ==
  "ranking" \in DOMAIN MaxLength => MaxLength["ranking"] \in 0 .. MaxRank

MCRequest ==
  {r \in [mode : {"fts", "vec", "hybrid"}, embedder : {TRUE}, limit : {1, 2},
          weights : {<<2, 2>>, <<2, 0>>, <<0, 2>>}, mmr : BOOLEAN,
          lambda : {0, 5, 10}, backlinks : BOOLEAN] :
     /\ r.mode # "hybrid" => r.weights = <<2, 2>> /\ r.backlinks
     /\ ~ r.mmr => r.lambda = 5}
  \cup [mode : {"hybrid"}, embedder : {FALSE}, limit : {2},
        weights : {<<2, 2>>}, mmr : {FALSE}, lambda : {5}, backlinks : {FALSE}]
ASSUME RequestAssumption == MCRequest \subseteq Request

MCAsk == [blank : {FALSE}, mode : {"fts", "vec", "hybrid"},
          vault : {"any", "here", "unknown"}, limit : 1 .. 3, offset : {0},
          filtering : {FALSE}, mmr : {FALSE}]
MCSetup == [tokenizer : {TRUE}, model : {FALSE}, backlinks : BOOLEAN]
ASSUME AskAssumption == MCAsk \subseteq Ask /\ MCSetup \subseteq Setup

MCDictionary ==
  SUBSET {<<"a", "b">>, <<"a", " ", "b">>, <<"b", "a", "b">>,
          <<"b", " ", "a", "b", " ", "a">>}

(* The properties of the functions, each of the inputs meant for it.       *)
Only(set, list) ==
  LET kept[k \in 0 .. Len(list)] ==
        IF k = 0 THEN <<>>
        ELSE IF list[k] \in set THEN Append(kept[k - 1], list[k])
        ELSE kept[k - 1]
  IN  kept[Len(list)]
Paths == LET vault == Only(MCVaultFile, input)
         IN  [k \in DOMAIN vault |-> vault[k].path]
Files == ToSet(input) \cap MCVaultFile
Patterns == {s.pattern : s \in ToSet(input) \cap [pattern : MCPattern]}
PatternList == LET list == Only([pattern : MCPattern], input)
               IN  [k \in DOMAIN list |-> list[k].pattern]
Note == function \in {"chunks", "frontmatter"}
Text == FlattenSeq(input)   \* of pieces
Ranked(Property(_, _)) ==
  function = "ranking" => \A req \in MCRequest : Property(input, req)

(* A note goes into the index whole: every line of it is in exactly one    *)
(* chunk, under the path of its headings; fenced code is not cut; only a   *)
(* paragraph is longer than the threshold; and the tags are those of the   *)
(* frontmatter, however fences, headings and dashes are mixed.  No         *)
(* character of a chunk is lost between prose, code and math, no link or   *)
(* emphasis is missed, and a token is merged into the longest entry of the *)
(* user dictionary.                                                        *)
NotesAreIndexed ==
  /\ Note => /\ FrontmatterIsExact(input)
             /\ \A chunks \in {SplitIntoChunks(input)} :
                  /\ EveryLineOnce(input, chunks)
                  /\ CodeStaysWhole(input, chunks)
                  /\ PathIsAncestry(input, chunks)
                  /\ LongChunksAreParagraphs(input, chunks)
  /\ function = "segments" => \A text \in {Text} : SegmentsAreExact(text)
  /\ function \in {"links", "emphasis"} => \A text \in {Text} : NoMarkMissed(text)
  /\ function = "terms" =>
       \A dict \in MCDictionary : LongestEntryWins(input, dict)

(* Text is found by what was written: the words of the index are the words *)
(* of the query, a text has the same vector in every batch, a task is      *)
(* listed for every keyword in it, and a snippet frames the line that      *)
(* matched.  A page of a PDF is read once, whole and in the order of its   *)
(* columns.                                                                *)
TextIsSearchable ==
  /\ (function = "words" /\ input # <<>>) => WordsAreStable(input)
  /\ function = "segments" => \A text \in {Text} : PanicIsTheLastFence(text)
  /\ function = "prose" => ProseIsFound(input)
  /\ function = "keyword" => TasksAreFound(MCTask, input)
  /\ function = "vectors" => VectorIsItsText(input)
  /\ function = "snippet" =>
       \A maxLines \in 1 .. 2, maxChars \in {3, 10} :
         SnippetFramesMatch(input, maxLines, maxChars)
  /\ function = "page" => \A order \in {TextOrder(input)} :
                           /\ CutsLoseNothing(input, order)
                           /\ ReadsDown(input, order)
                           /\ ReadsColumns(input, order)
  /\ function = "characters" => LinesAreBaselines(input)
  /\ function = "document" => \A pages \in {SplitPages(input)} :
                               MarkdownIsTheDocument(pages)

(* CLI and MCP server find the same vaults, index and model, and there the *)
(* files of a vault that no pattern means are indexed, and no others, and  *)
(* can be read afterwards; check-ignore says so, and why; a link leads to  *)
(* the nearest note of its name; what `init` offers in the root of the     *)
(* vault and the user chooses is out of the index.                         *)
VaultIsWalked ==
  /\ function = "walk" =>
       /\ \A hide, follow \in BOOLEAN :
            /\ WalkIsExact(Files, Patterns, hide, follow)
            /\ FoundIsRead(Files, Patterns, hide, follow)
       /\ \A cut \in 0 .. Len(PatternList) :
            CheckSaysWhy(Files, SubSeq(PatternList, 1, cut),
                         SubSeq(PatternList, cut + 1, Len(PatternList)))
       /\ LinksLeadToNotes(Paths, [p \in ToSet(Paths) |-> Bytes(p)])
       /\ \A hide \in BOOLEAN : RootChoiceIsExcluded(Files, Patterns, hide)
  /\ function = "places" =>
       \A env \in {Set(input, "env", Env)}, file \in {Set(input, "file", NoFile)} :
         OneIndex(env, file) /\ FlatFieldsCount(env, file) /\ OneModel(env, file)

(* "{} directories excluded from the index" (INIT_EXCLUDED_DIRS of         *)
(* cli/src/messages.rs): what is chosen in `init` is not indexed any more. *)
ChosenAreExcluded ==
  function = "walk" => ChoiceIsExcluded(Files, Patterns, TRUE)

(* "Returns `(text, is_code)` pairs where `is_code=true` for content       *)
(* inside: Fenced code blocks" (split_code_math_segments of chunker.rs):   *)
(* whatever the fences of a text, it is returned in segments.              *)
FencedCodeIsReturned ==
  function = "segments" => \A text \in {Text} : FencesAreSegmented(text)

(* What both lists agree about stays first, alpha chooses between them, a  *)
(* boost never moves a result down, lambda 1 keeps the order of relevance, *)
(* a page is full and holds nothing twice, CLI, HTTP and MCP server give   *)
(* the same answer, and pages by offset are the long answer, cut.          *)
RankingIsRight ==
  /\ Ranked(AgreementIsKept)
  /\ Ranked(AlphaChoosesTheList)
  /\ Ranked(BoostsHelp)
  /\ Ranked(RelevanceKeepsOrder)
  /\ Ranked(PageIsFull)
  /\ function = "ranking" =>
       \A ask \in MCAsk, setup \in MCSetup :
         DoorsAgree(input, ask, setup) /\ PagesTile(input, ask, setup)
=============================================================================
