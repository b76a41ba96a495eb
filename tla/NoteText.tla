------------------------------ MODULE NoteText ------------------------------
(***************************************************************************)
(* What the indexer makes of the lines of a note: its frontmatter          *)
(* (core/src/frontmatter.rs), its chunks (split_into_chunks in             *)
(* core/src/chunker.rs) and its tasks (extract_tasks in indexer.rs).       *)
(*                                                                         *)
(* A note is a sequence of lines, a line a record of what these functions  *)
(* tell apart: its kind, the level of a heading, the mark of a fence, its  *)
(* length.  Everything they make of a note refers to lines by number.      *)
(***************************************************************************)
EXTENDS Naturals, SequencesExt, FiniteSetsExt

CONSTANT Level2SplitThreshold   \* LEVEL2_SPLIT_THRESHOLD

ASSUME ThresholdAssumption == Level2SplitThreshold \in Nat

LineKind == {"blank", "text", "heading", "fence", "dashes", "indented dashes",
             "dots", "tags", "inline tags", "title", "item", "task"}
Line == [kind : LineKind, level : Nat, mark : {"tick", "tilde", ""}, size : Nat]

Is(note, i, kind) == note[i].kind = kind
HasText(note, lines) == \E k \in DOMAIN lines : ~ Is(note, lines[k], "blank")

(* str::trim, on lines *)
Trimmed(note, lines) ==
  LET full == {k \in DOMAIN lines : ~ Is(note, lines[k], "blank")} IN
  IF full = {} THEN <<>> ELSE SubSeq(lines, Min(full), Max(full))

(* chars().count() of the lines and the newlines between them *)
CharCount(note, lines) ==
  FoldLeft(LAMBDA n, i : n + note[i].size + 1, 0, lines)

-----------------------------------------------------------------------------
(* The opening ---, which may be indented (the start of the note is        *)
(* trimmed), and the first --- or ... after it; 0 if there is none.        *)
Dashes == {"dashes", "indented dashes"}
Delimiter == Dashes \cup {"dots"}

Opener(note) ==
  LET i == SelectInSeq(note, LAMBDA l : l.kind # "blank") IN
  IF i # 0 /\ note[i].kind \in Dashes THEN i ELSE 0

Closer(note) ==
  IF Opener(note) = 0 THEN 0
  ELSE SelectInSubSeq(note, Opener(note) + 1, Len(note),
                      LAMBDA l : l.kind \in Delimiter)

LinesFrom(note, first) == [k \in 1 .. Len(note) + 1 - first |-> first + k - 1]

(* Three bytes are skipped from the start of the closing line: of an       *)
(* indented delimiter a rest stays in the body, unless it is the first     *)
(* thing after the opener, whose indentation is trimmed.                   *)
LeavesRest(note) ==
  /\ Is(note, Closer(note), "indented dashes")
  /\ \E i \in Opener(note) + 1 .. Closer(note) - 1 : ~ Is(note, i, "blank")
BodyOf(note) ==
  IF Closer(note) = 0 THEN LinesFrom(note, 1)
  ELSE LinesFrom(note, IF LeavesRest(note) THEN Closer(note) ELSE Closer(note) + 1)

(* One line of parse_frontmatter_lines.  date is treated like title.       *)
TagStep(note, s, i) ==
  CASE s.inList /\ Is(note, i, "item") -> [s EXCEPT !.tags = @ \cup {i}]
    [] Is(note, i, "tags") -> [s EXCEPT !.inList = TRUE]
    [] Is(note, i, "inline tags") ->
         [s EXCEPT !.tags = @ \cup {i}, !.inList = FALSE]
    [] Is(note, i, "title") -> [s EXCEPT !.title = i, !.inList = FALSE]
    [] OTHER -> [s EXCEPT !.inList = FALSE]

(* The lines the tags and the title come from. *)
Frontmatter(note) ==
  LET nothing == [inList |-> FALSE, tags |-> {}, title |-> 0]
      state[i \in Opener(note) .. Closer(note) - 1] ==
        IF i = Opener(note) THEN nothing ELSE TagStep(note, state[i - 1], i)
  IN  IF Closer(note) = 0 THEN nothing ELSE state[Closer(note) - 1]

(* extract_tasks, over the whole file, code included *)
TaskLines(note) == {i \in DOMAIN note : Is(note, i, "task")}

-----------------------------------------------------------------------------
(* "#### " and deeper is text.                                             *)
IsHeader(note, i) == Is(note, i, "heading") /\ note[i].level <= 3

(* The headings that one of this level is below (Vec::retain).             *)
Retained(note, path, level) ==
  LET kept[k \in 0 .. Len(path)] ==
        IF k = 0 THEN <<>>
        ELSE IF note[path[k]].level < level THEN Append(kept[k - 1], path[k])
        ELSE kept[k - 1]
  IN  kept[Len(path)]

(* Mutant: the text before the first heading is dropped. *)
HeaderStepDropsPreface(note, s, i) ==
  IF Is(note, i, "fence") \/ s.inCode \/ ~ IsHeader(note, i)
  THEN [s EXCEPT !.body = Append(@, i),
                 !.inCode = IF Is(note, i, "fence") THEN ~ @ ELSE @]
  ELSE [sections |-> IF s.path # <<>>
                     THEN Append(s.sections, [path |-> s.path, body |-> s.body])
                     ELSE s.sections,
        path |-> Append(Retained(note, s.path, note[i].level), i),
        body |-> <<>>, inCode |-> FALSE]

(* One line of split_by_headers.  Any fence opens and any fence closes.    *)
HeaderStep(note, s, i) ==
  IF Is(note, i, "fence") \/ s.inCode \/ ~ IsHeader(note, i)
  THEN [s EXCEPT !.body = Append(@, i),
                 !.inCode = IF Is(note, i, "fence") THEN ~ @ ELSE @]
  ELSE LET flush == HasText(note, s.body) \/ s.path # <<>> IN
       [sections |-> IF flush
                     THEN Append(s.sections, [path |-> s.path, body |-> s.body])
                     ELSE s.sections,
        path |-> Append(Retained(note, s.path, note[i].level), i),
        body |-> IF flush THEN <<>> ELSE s.body,
        inCode |-> FALSE]

SplitByHeaders(note, body) ==
  LET state[k \in 0 .. Len(body)] ==
        IF k = 0 THEN [sections |-> <<>>, path |-> <<>>, body |-> <<>>, inCode |-> FALSE]
        ELSE HeaderStep(note, state[k - 1], body[k])
      end == state[Len(body)]
  IN  Append(end.sections, [path |-> end.path, body |-> end.body])

(* One line of split_on_blank_lines. *)
ParagraphStep(note, s, i) ==
  IF Is(note, i, "fence") \/ s.inCode \/ ~ Is(note, i, "blank")
  THEN [s EXCEPT !.text = Append(@, i),
                 !.inCode = IF Is(note, i, "fence") THEN ~ @ ELSE @]
  ELSE IF HasText(note, s.text)
       THEN [s EXCEPT !.paragraphs = Append(@, s.text), !.text = <<>>]
       ELSE s

SplitOnBlankLines(note, lines) ==
  LET state[k \in 0 .. Len(lines)] ==
        IF k = 0 THEN [paragraphs |-> <<>>, text |-> <<>>, inCode |-> FALSE]
        ELSE ParagraphStep(note, state[k - 1], lines[k])
      end == state[Len(lines)]
  IN  IF HasText(note, end.text) THEN Append(end.paragraphs, end.text)
      ELSE end.paragraphs

(* Level 2: a section that is too long is split into paragraphs.           *)
Pieces(note, text) ==
  IF CharCount(note, text) - 1 > Level2SplitThreshold
  THEN SplitOnBlankLines(note, text)
  ELSE <<text>>

SectionChunks(note, section) ==
  LET text == Trimmed(note, section.body)
      pieces == IF text = <<>> THEN <<>> ELSE Pieces(note, text)
  IN  [k \in DOMAIN pieces |->
         [path |-> section.path, lines |-> Trimmed(note, pieces[k])]]

SplitIntoChunks(note) ==
  LET body     == BodyOf(note)
      sections == SplitByHeaders(note, body)
      chunks   == FlattenSeq([k \in DOMAIN sections |->
                                SectionChunks(note, sections[k])])
  IN  IF ~ HasText(note, body) THEN <<[path |-> <<>>, lines |-> <<>>]>>
      ELSE IF chunks = <<>>
      THEN <<[path |-> <<>>, lines |-> Trimmed(note, body)]>>
      ELSE chunks

-----------------------------------------------------------------------------
(***************************************************************************)
(* What the rest of the system relies on, for the chunks of a note, which  *)
(* are SplitIntoChunks(note).  Reference definitions.                      *)
(***************************************************************************)

(* The fences of a note, when all have one mark, in pairs: line i is in a  *)
(* code block, or ends it, if the number of fences before it is odd.       *)
OneMark(note) ==
  \A i, j \in DOMAIN note :
    Is(note, i, "fence") /\ Is(note, j, "fence") => note[i].mark = note[j].mark
Fences(note, lines, i) ==
  {k \in DOMAIN lines : lines[k] < i /\ Is(note, lines[k], "fence")}
InCode(note, lines, i) == Cardinality(Fences(note, lines, i)) % 2 = 1
IsHeading(note, body, i) == IsHeader(note, i) /\ ~ InCode(note, body, i)

ChunkOf(chunks, i) ==
  {k \in DOMAIN chunks : i \in ToSet(chunks[k].lines)}

(* At least one chunk is made of any note (IndexStore relies on it), and   *)
(* every line of text is in exactly one chunk, in the order of the note.   *)
(* A heading is in none, but for notes that have nothing else.             *)
EveryLineOnce(note, chunks) ==
  LET body  == BodyOf(note)
      held  == FlattenSeq([k \in DOMAIN chunks |-> chunks[k].lines])
      texts == {i \in ToSet(body) : ~ Is(note, i, "blank")}
      plain == {i \in texts : ~ IsHeading(note, body, i)}
  IN  /\ chunks # <<>>
      /\ \A k \in 1 .. Len(held) - 1 : held[k] < held[k + 1]
      /\ {i \in ToSet(held) : ~ Is(note, i, "blank")} =
           IF plain = {} THEN texts ELSE plain

(* "Fenced code blocks are never split internally" (chunker.rs), whatever  *)
(* headings and blank lines are in them - in a note whose fences have one  *)
(* mark.                                                                   *)
CodeStaysWhole(note, chunks) ==
  LET body  == BodyOf(note)
      whole == {i \in ToSet(body) : InCode(note, body, i) /\ ~ Is(note, i, "blank")}
  IN  OneMark(note) =>
        \A i \in whole :
          LET before == {j \in ToSet(body) :
                           j < i /\ ~ Is(note, j, "blank")} IN
          ChunkOf(chunks, i) = ChunkOf(chunks, Max(before))

(* parent_header is the path of the headings a chunk stands under: those   *)
(* above it that no heading of the same or a higher rank follows.          *)
PathIsAncestry(note, chunks) ==
  LET body  == BodyOf(note)
      heads == {i \in ToSet(body) : IsHeading(note, body, i)}
      plain == {i \in ToSet(body) \ heads : ~ Is(note, i, "blank")}
  IN  plain # {} =>
        \A k \in DOMAIN chunks :
          LET first == Head(chunks[k].lines) IN
          /\ ToSet(chunks[k].path) =
               {h \in heads : /\ h < first
                              /\ \A g \in heads : (h < g /\ g < first)
                                   => note[g].level > note[h].level}
          /\ IsSorted(chunks[k].path, <)

(* A chunk longer than the threshold is one paragraph: it could not be     *)
(* split any further without splitting code.                               *)
LongChunksAreParagraphs(note, chunks) ==
  \A k \in DOMAIN chunks :
    (/\ CharCount(note, chunks[k].lines) - 1 > Level2SplitThreshold
     /\ \E i \in ToSet(BodyOf(note)) :
          ~ Is(note, i, "blank") /\ ~ IsHeading(note, BodyOf(note), i))
    => \A i \in ToSet(chunks[k].lines) :
         Is(note, i, "blank") => InCode(note, BodyOf(note), i)

(* A tag of a list is one whose lines lead up to a "tags:" without a gap;  *)
(* the body is what follows the frontmatter: no line of that is in it, but *)
(* for what is left of an indented closing line.                           *)
FrontmatterIsExact(note) ==
  LET o == Opener(note)  c == Closer(note)
      inside == IF c = 0 THEN {} ELSE o + 1 .. c - 1
  IN  /\ Frontmatter(note).tags =
           {i \in inside :
              \/ Is(note, i, "inline tags")
              \/ /\ Is(note, i, "item")
                 /\ \E t \in inside : /\ t < i /\ Is(note, t, "tags")
                                      /\ \A k \in t + 1 .. i : Is(note, k, "item")}
      /\ c # 0 => /\ ToSet(BodyOf(note)) \ {c} = c + 1 .. Len(note)
                  /\ c \in ToSet(BodyOf(note)) => Is(note, c, "indented dashes")
      /\ c = 0 => ToSet(BodyOf(note)) = DOMAIN note
=============================================================================
