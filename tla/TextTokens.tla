----------------------------- MODULE TextTokens -----------------------------
(***************************************************************************)
(* What is made of the characters of a chunk: code and math segments       *)
(* (split_code_math_segments in core/src/chunker.rs), words, and the terms *)
(* of the user dictionary (core/src/tokenizer.rs), links and emphasis      *)
(* (core/src/indexer.rs).                                                  *)
(*                                                                         *)
(* A text is a sequence of characters, of which only the ones the code     *)
(* looks for differ.  A segment is a range of positions.                   *)
(***************************************************************************)
EXTENDS Naturals, SequencesExt, FiniteSetsExt

Has(text, i, word) ==
  i + Len(word) - 1 <= Len(text) /\ SubSeq(text, i, i + Len(word) - 1) = word

(* The first position at or after i where word is, below the bound; or 0.  *)
Find(text, i, bound, word) ==
  LET at == {j \in i .. bound : Has(text, j, word) /\ j + Len(word) - 1 <= bound}
  IN  IF at = {} THEN 0 ELSE Min(at)

Segment(i, j, code) == IF i > j THEN <<>>
                       ELSE <<[from |-> i, to |-> j, code |-> code]>>

-----------------------------------------------------------------------------
(* One of these opens inline code or math, unless it is doubled or tripled. *)
Opens(text, i, last) ==
  \/ /\ text[i] = "tick"
     /\ ~ (i + 2 <= last /\ Has(text, i, <<"tick", "tick", "tick">>))
  \/ /\ text[i] = "dollar"
     /\ ~ (i + 1 <= last /\ Has(text, i, <<"dollar", "dollar">>))

(* It is closed by the next of its kind on the line; 0 if there is none.   *)
ClosesAt(text, i, last) ==
  LET j == Find(text, i + 1, last, <<text[i]>>)
      n == Find(text, i + 1, last, <<"nl">>)
  IN  IF n # 0 /\ n < j THEN 0 ELSE j

(* split_inline_segments, of the text from first to last *)
InlineSegments(text, first, last) ==
  LET Place == first .. last + 2
      split[at \in Place \X Place] ==
        LET start == at[1]
            i     == at[2] IN
        IF i > last THEN Segment(start, last, FALSE)
        ELSE IF Opens(text, i, last) /\ ClosesAt(text, i, last) # 0
        THEN LET j == ClosesAt(text, i, last) IN
             Segment(start, i - 1, FALSE) \o Segment(i, j, TRUE)
               \o split[<<j + 1, j + 1>>]
        ELSE split[<<start, i + 1>>]
  IN  split[<<first, first>>]

FenceMark == {"tick", "tilde"}
IsFence(text, i) ==
  text[i] \in FenceMark /\ Has(text, i, <<text[i], text[i], text[i]>>)
LineStart(text, i) == i = 1 \/ text[i - 1] = "nl"
FenceAt(text, i) == LineStart(text, i) /\ IsFence(text, i)

(* The end of the line i is on: its newline, or the end of the text. *)
LineEnd(text, i) ==
  LET n == Find(text, i, Len(text), <<"nl">>) IN
  IF n = 0 THEN Len(text) + 1 ELSE n

(* The closing fence has the same mark and is at the start of a later line. *)
ClosingFence(text, i) ==
  LET at == {j \in LineEnd(text, i) + 1 .. Len(text) :
               Has(text, j, <<text[i], text[i], text[i]>>) /\ LineStart(text, j)}
  IN  IF at = {} THEN 0 ELSE Min(at)

Math == <<"dollar", "dollar">>

(* The segments that are cut: fences, then display math, then inline.  The *)
(* newline behind a closing fence is in no segment.                        *)
Segments(text) ==
  LET n == Len(text)
      Place == 1 .. n + 2
      split[at \in Place \X Place] ==
        LET start == at[1]
            i     == at[2] IN
        IF i > n THEN InlineSegments(text, start, n)
        ELSE IF FenceAt(text, i)
        THEN LET j == ClosingFence(text, i)
                 k == LineEnd(text, j + 3)
                 before == InlineSegments(text, start, i - 1) IN
             IF j = 0 THEN before \o Segment(i, n, TRUE)
             ELSE before \o Segment(i, k - 1, TRUE) \o split[<<k + 1, k + 1>>]
        ELSE IF Has(text, i, Math)
        THEN LET j == Find(text, i + 2, n, Math)
                 before == InlineSegments(text, start, i - 1) IN
             IF j = 0 THEN before \o Segment(i, n, TRUE)
             ELSE before \o Segment(i, j + 1, TRUE) \o split[<<j + 2, j + 2>>]
        ELSE split[<<start, i + 1>>]
  IN  split[<<1, 1>>]

(* A fenced block is cut at chars[k], the newline behind its closing line: *)
(* where the text ends with that line there is no such character, and the  *)
(* code panics.                                                            *)
Panics(text) ==
  \E s \in ToSet(Segments(text)) :
    /\ FenceAt(text, s.from) /\ ClosingFence(text, s.from) # 0
    /\ s.to = Len(text)

(* split_code_math_segments *)
CodeMathSegments(text) == IF Panics(text) THEN "panic" ELSE Segments(text)

-----------------------------------------------------------------------------
(* extract_wikilinks and extract_emphasized, two scans of one shape: they  *)
(* look for the next closing mark and go on behind it; where there is none *)
(* they skip the opening mark.                                             *)
LinkMarks == {<<"[", "[">>}
EmphasisMarks == {<<"=", "=">>, <<"*", "*">>}
Closing(mark) == IF mark = <<"[", "[">> THEN <<"]", "]">> ELSE mark

(* ** is no mark before another star, or at the end. *)
MarkAt(text, i, marks) ==
  {m \in marks : /\ Has(text, i, m)
                 /\ m = <<"*", "*">> =>
                      i + 2 <= Len(text) /\ text[i + 2] # "*"}

(* The marked ranges, marks included. *)
Marked(text, marks) ==
  LET n == Len(text)
      scan[i \in 1 .. n + 2] ==
        IF i > n THEN <<>>
        ELSE IF MarkAt(text, i, marks) = {} THEN scan[i + 1]
        ELSE LET m == CHOOSE m \in MarkAt(text, i, marks) : TRUE
                 j == Find(text, i + 2, n, Closing(m)) IN
             IF j = 0 THEN scan[i + 2]
             ELSE <<[from |-> i, to |-> j + 1]>> \o scan[j + 2]
  IN  scan[1]

(* str::trim, and what is before the first c *)
Trim(name) ==
  LET full == {i \in DOMAIN name : name[i] \notin {"space", "nl"}} IN
  IF full = {} THEN <<>> ELSE SubSeq(name, Min(full), Max(full))
CutAt(name, c) ==
  LET at == {i \in DOMAIN name : name[i] = c} IN
  IF at = {} THEN name ELSE SubSeq(name, 1, Min(at) - 1)
Inner(text, range) == SubSeq(text, range.from + 2, range.to - 2)

(* The name of a link is without the text it shows and without its anchor: *)
(* "[[Note#heading|shown]]", "[[Note^block]]".                             *)
LinkName(text, range) ==
  LET target == Trim(CutAt(Inner(text, range), "|"))
      anchor == IF "#" \in ToSet(target) THEN "#" ELSE "^"
  IN  Trim(CutAt(target, anchor))

-----------------------------------------------------------------------------
Letter == {"lower", "upper"}

(* split_ascii_words: camelCase, letters and digits, and the last capital  *)
(* of an acronym, which belongs to the word that follows (HTTPServer).     *)
Boundary(text, i) ==
  \/ text[i - 1] = "lower" /\ text[i] = "upper"
  \/ text[i - 1] \in Letter /\ text[i] = "digit"
  \/ text[i - 1] = "digit" /\ text[i] \in Letter

AcronymEnd(text, i) ==
  /\ ~ Boundary(text, i) /\ i >= 3
  /\ text[i - 2] = "upper" /\ text[i - 1] = "upper" /\ text[i] = "lower"

(* The words of one part between underscores: start is the first position  *)
(* of the word, i goes from the second character on.                       *)
PartWords(part) ==
  LET n == Len(part)
      split[start \in 1 .. n + 1, i \in 2 .. n + 2] ==
        IF i > n THEN IF start <= n THEN <<SubSeq(part, start, n)>> ELSE <<>>
        ELSE IF AcronymEnd(part, i)
        THEN (IF i - 1 > start THEN <<SubSeq(part, start, i - 2)>> ELSE <<>>)
             \o split[i - 1, i + 1]
        ELSE IF Boundary(part, i)
        THEN <<SubSeq(part, start, i - 1)>> \o split[i, i + 1]
        ELSE split[start, i + 1]
  IN  split[1, 2]

(* str::split *)
SplitOn(text, seps) ==
  FoldLeft(LAMBDA parts, c : IF c \in seps THEN Append(parts, <<>>)
                             ELSE Append(Front(parts), Append(Last(parts), c)),
           <<<<>>>>, text)
NonEmpty(parts) == SelectSeq(parts, LAMBDA p : p # <<>>)

Ascii == Letter \cup {"digit"}

SplitAsciiWords(text) ==
  LET parts == SplitOn(text, {"_"})
      words == FlattenSeq([k \in DOMAIN parts |-> PartWords(parts[k])])
  IN  IF \A i \in DOMAIN text : text[i] \notin Ascii THEN <<text>>
      ELSE words

-----------------------------------------------------------------------------
(* An entry is a sequence of letters and spaces; it matches tokens joined  *)
(* by spaces or by nothing.                                                *)
Joined(tokens, sep) ==
  FoldLeft(LAMBDA s, t : IF s = <<>> THEN t ELSE s \o sep \o t, <<>>, tokens)
IsEntry(dict, span) == Joined(span, <<" ">>) \in dict \/ Joined(span, <<>>) \in dict
Spans(tokens, i, dict) ==
  {j \in i .. Len(tokens) : IsEntry(dict, SubSeq(tokens, i, j))}

(* The last of the tokens from i on that the longest dictionary entry      *)
(* spans; only i if there is none.                                         *)
LongestSpan(tokens, i, dict) ==
  IF Spans(tokens, i, dict) = {} THEN i ELSE Max(Spans(tokens, i, dict))

(* apply_user_dictionary: from left to right, the longest entry first.     *)
(* The result is given as ranges of tokens.                                *)
ApplyUserDictionary(tokens, dict) ==
  LET merge[i \in 1 .. Len(tokens) + 1] ==
        IF i > Len(tokens) THEN <<>>
        ELSE LET j == LongestSpan(tokens, i, dict) IN
             <<[from |-> i, to |-> j]>> \o merge[j + 1]
  IN  merge[1]

-----------------------------------------------------------------------------
(* collect_tokens: the predictor parts a text at white space, at least; a  *)
(* token that repeats the one before it is dropped.                        *)
Words(text) == NonEmpty(SplitOn(text, {"space", "nl"}))
CollectTokens(text) ==
  FoldLeft(LAMBDA tokens, t : IF tokens # <<>> /\ Last(tokens) = t THEN tokens
                              ELSE Append(tokens, t),
           <<>>, FlattenSeq([k \in DOMAIN Words(text) |->
                               SplitAsciiWords(Words(text)[k])]))

(* The unicode61 tokenizer of FTS5: letters and digits, in one case.       *)
FtsTerms(token) ==
  LET part(c) == IF c \in Ascii THEN IF c = "upper" THEN "lower" ELSE c ELSE "" IN
  NonEmpty(SplitOn([i \in DOMAIN token |-> part(token[i])], {""}))

(* Mutant: what is not code is not split into words. *)
SegmentTokensUnsplit(text, segment) ==
  Words(SubSeq(text, segment.from, segment.to))

(* tokenize_content: code is split at white space only.                    *)
SegmentTokens(text, segment) ==
  LET part == SubSeq(text, segment.from, segment.to) IN
  IF segment.code THEN Words(part) ELSE CollectTokens(part)

(* tokenize_with_code_blocks, and what FTS5 makes of it, for a text that   *)
(* does not panic.                                                         *)
IndexTerms(text) ==
  LET segments == Segments(text)
      tokens == FlattenSeq([k \in DOMAIN segments |->
                              SegmentTokens(text, segments[k])])
  IN  FlattenSeq([k \in DOMAIN tokens |-> FtsTerms(tokens[k])])

(* search_fts: a phrase for every token of the query, all of which must be *)
(* in the text.                                                            *)
Matches(text, query) ==
  \A terms \in {IndexTerms(text)}, token \in ToSet(CollectTokens(query)) :
    \E i \in DOMAIN terms :
      IsPrefix(FtsTerms(token), SubSeq(terms, i, Len(terms)))

-----------------------------------------------------------------------------
(* The start of the line maxLines above pos. *)
SnippetStart(text, pos, maxLines) ==
  LET before == {i \in 1 .. pos - 1 : text[i] = "nl"} IN
  IF maxLines = 0 THEN pos
  ELSE IF Cardinality(before) <= maxLines THEN 1
  ELSE 1 + CHOOSE i \in before :
             Cardinality({j \in before : j >= i}) = maxLines + 1

(* extract_snippet, as a range of positions; "m" is where the query        *)
(* matches.                                                                *)
Snippet(text, maxLines, maxChars) ==
  LET pos   == SelectInSeq(text, LAMBDA c : c = "m")
      start == IF pos = 0 THEN 1 ELSE SnippetStart(text, pos, maxLines)
      ends  == {i \in start .. Len(text) : text[i] = "nl"}
      last  == 2 * maxLines + 1
      stop  == IF pos = 0 \/ Cardinality(ends) < last THEN Len(text)
               ELSE (CHOOSE i \in ends :
                       Cardinality({j \in ends : j <= i}) = last) - 1
  IN  [from |-> start, to |-> Min({stop, start + maxChars - 1})]

-----------------------------------------------------------------------------
(***************************************************************************)
(* What the rest of the system relies on.                                  *)
(***************************************************************************)
Covered(segments) == UNION {segments[k].from .. segments[k].to : k \in DOMAIN segments}
InOrder(segments) ==
  \A k \in 1 .. Len(segments) - 1 : segments[k].to < segments[k + 1].from

(* The chunker's idea of code, line by line: a fence may be indented and  *)
(* have any mark, and what follows an odd number of fences is code.        *)
FenceLine(text, i) ==
  /\ IsFence(text, i)
  /\ \E j \in 1 .. i :
       LineStart(text, j) /\ \A k \in j .. i - 1 : text[k] = "space"
FencedByLines(text, i) ==
  \/ \E j \in 1 .. i : FenceLine(text, j) /\ i < LineEnd(text, j)
  \/ Cardinality({j \in 1 .. i : FenceLine(text, j)}) % 2 = 1

(* The fences have one mark and are not indented: with others a block ends *)
(* at one fence for the chunker and at another for the segments.           *)
PlainFences(text) ==
  /\ \A i \in DOMAIN text : FenceLine(text, i) => LineStart(text, i)
  /\ \A i, j \in DOMAIN text :
       FenceLine(text, i) /\ FenceLine(text, j) => text[i] = text[j]

(* No character of a chunk is lost on the way to the tokenizer or given to *)
(* it twice (but for newlines), and the two parsers of fenced code agree,  *)
(* where fences are plain: what the chunker keeps together as code is      *)
(* tokenized as code.                                                      *)
SegmentsAreExact(text) ==
  ~ Panics(text) =>
    \A segments \in {CodeMathSegments(text)} :
      /\ InOrder(segments)
      /\ \A i \in DOMAIN text \ Covered(segments) : text[i] = "nl"
      /\ (PlainFences(text) /\ \A i \in DOMAIN text : ~ Has(text, i, Math)) =>
           \A i \in DOMAIN text : FencedByLines(text, i) /\ text[i] # "nl" =>
             \E k \in DOMAIN segments :
               segments[k].code /\ i \in segments[k].from .. segments[k].to

(* The indexer panics at no other text than one whose last line closes a   *)
(* block, and at each of those.                                            *)
PanicIsTheLastFence(text) ==
  (PlainFences(text) /\ \A i \in DOMAIN text : ~ Has(text, i, Math)) =>
    \A fences \in {{i \in DOMAIN text : FenceLine(text, i)}} :
      Panics(text) <=>
        /\ fences # {} /\ Cardinality(fences) % 2 = 0
        /\ LineEnd(text, Max(fences)) = Len(text) + 1

(* The links of a text do not overlap, nor do its emphases, and none is    *)
(* missed: a mark that is closed later meets a range that was found.       *)
NoMarkMissed(text) ==
  /\ \A marks \in {LinkMarks, EmphasisMarks} :
       \A ranges \in {Marked(text, marks)} :
         /\ InOrder(ranges)
         /\ \A i \in DOMAIN text : \A m \in MarkAt(text, i, marks) :
              LET j == Find(text, i + 2, Len(text), Closing(m)) IN
              j # 0 => i .. j + 1 \cap Covered(ranges) # {}
  /\ \A links \in {Marked(text, LinkMarks)} : \A k \in DOMAIN links :
       \A name \in {ToSet(LinkName(text, links[k]))} :
         /\ name \cap {"|", "#"} = {}
         /\ "^" \in name => "#" \in ToSet(Inner(text, links[k]))

(* No letter of an identifier is lost, and its words are words: a word     *)
(* typed into a query is not split any further than it was in the note.    *)
WordsAreStable(text) ==
  LET words == SplitAsciiWords(text) IN
  /\ (\E i \in DOMAIN text : text[i] \in Ascii) =>
       FlattenSeq(words) = SelectSeq(text, LAMBDA c : c # "_")
  /\ \A k \in DOMAIN words :
       words[k] # <<>> /\ SplitAsciiWords(words[k]) = <<words[k]>>

(* The merged tokens are the tokens in their order, and no entry is missed: *)
(* one that starts where a merged token starts is not longer than it.      *)
LongestEntryWins(tokens, dict) ==
  LET merged == ApplyUserDictionary(tokens, dict) IN
  /\ Covered(merged) = DOMAIN tokens
  /\ InOrder(merged)
  /\ \A k \in DOMAIN merged :
       /\ merged[k].from # merged[k].to =>
            IsEntry(dict, SubSeq(tokens, merged[k].from, merged[k].to))
       /\ \A j \in merged[k].to + 1 .. Len(tokens) :
            ~ IsEntry(dict, SubSeq(tokens, merged[k].from, j))
(* A note is found by every word of its prose, whatever its spelling       *)
(* ("camelCase/underscore/digit-boundary splitting, improving English      *)
(* technical term search accuracy", CHANGELOG.md).                         *)
Searchable(word) == \E i \in DOMAIN word : word[i] \in Ascii
WordsIn(text, code) ==
  LET segments == Segments(text) IN
  UNION {ToSet(Words(SubSeq(text, segments[k].from, segments[k].to))) :
           k \in {j \in DOMAIN segments : segments[j].code = code}}
ProseIsFound(text) ==
  ~ Panics(text) =>
    \A word \in WordsIn(text, FALSE) : Searchable(word) => Matches(text, word)

(* A text with fenced code comes back in segments.                         *)
FencesAreSegmented(text) == ~ Panics(text)

(* The snippet of a hit shows the match with maxLines lines before it and  *)
(* after it, as far as there are and maxChars allows.                      *)
Lines(text, from, to) == Cardinality({i \in from .. to : text[i] = "nl"})
SnippetFramesMatch(text, maxLines, maxChars) ==
  LET pos == SelectInSeq(text, LAMBDA c : c = "m")
      got == Snippet(text, maxLines, maxChars)
  IN  (pos # 0 /\ maxLines # 0) =>
        /\ LineStart(text, got.from)
        /\ Lines(text, got.from, pos) = Min({maxLines, Lines(text, 1, pos)})
        /\ got.to - got.from < maxChars
        /\ got.to < got.from + maxChars - 1 =>
             /\ got.to >= pos
             /\ got.to = Len(text) \/ Lines(text, pos, got.to) >= maxLines
=============================================================================
