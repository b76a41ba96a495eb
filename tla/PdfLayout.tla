----------------------------- MODULE PdfLayout ------------------------------
(***************************************************************************)
(* The text of a PDF (core/src/pdf.rs): characters become lines            *)
(* (cluster_to_lines), lines are ordered by recursive cuts along the       *)
(* widest gaps (xycut_to_text) and become Markdown by their size.          *)
(*                                                                         *)
(* Coordinates are even numbers, so that midpoints are numbers.  The       *)
(* origin is at the bottom left: a larger y is read first.                 *)
(***************************************************************************)
EXTENDS Integers, SequencesExt, FiniteSetsExt, StableSorting

CONSTANTS
  MinYGap,      \* MIN_Y_GAP
  MinXGap,      \* MIN_X_GAP
  FullWidth     \* page_width * FULL_WIDTH_RATIO

ASSUME LayoutAssumption == MinYGap \in Nat /\ MinXGap \in Nat /\ FullWidth \in Nat

Box == [x0 : Nat, x1 : Nat, y0 : Nat, y1 : Nat]

Downward(lines) == StableSort(lines, [k \in DOMAIN lines |-> - lines[k].y0])
Rightward(lines) == StableSort(lines, [k \in DOMAIN lines |-> lines[k].x0])

-----------------------------------------------------------------------------
(* A line takes a character whose base line is near the lowest so far.     *)
Near(ch, line) ==
  2 * (IF ch.y > line.y0 THEN ch.y - line.y0 ELSE line.y0 - ch.y) <= line.size

PlaceChar(lines, ch, i) ==
  LET near == {k \in DOMAIN lines : Near(ch, lines[k])} IN
  IF near = {} THEN Append(lines, [y0 |-> ch.y, size |-> ch.size, chars |-> <<i>>])
  ELSE [lines EXCEPT ![Min(near)] =
          [y0 |-> Min({@.y0, ch.y}), size |-> @.size,
           chars |-> Append(@.chars, i)]]

(* cluster_to_lines; a character is [y, size], the result refers to the    *)
(* characters by number.                                                   *)
ClusterToLines(chars) ==
  Downward(FoldLeftDomain(LAMBDA lines, i : PlaceChar(lines, chars[i], i),
                          <<>>, chars))

-----------------------------------------------------------------------------
(* The gap above line k: to the lowest bottom edge among the lines before; *)
(* and the one left of it, to the right edges.                            *)
GapAbove(sorted, k) == Min({sorted[j].y0 : j \in 1 .. k - 1}) - sorted[k].y1
GapLeftOf(sorted, k) == sorted[k].x0 - Max({sorted[j].x1 : j \in 1 .. k - 1})

(* The first of the widest gaps; 0 if none is as wide as the minimum.      *)
WidestGap(gap, minimum) ==
  LET cuts == {k \in DOMAIN gap : gap[k] > 0 /\ \A j \in DOMAIN gap : gap[j] <= gap[k]}
  IN  IF cuts = {} \/ gap[Min(cuts)] < minimum THEN 0 ELSE Min(cuts)

(* xycut_recursive: the widest horizontal gap first, else a vertical one.  *)
XyCut[lines \in Seq(Box)] ==
  LET down   == Downward(lines)
      across == Rightward(down)
      gapY   == [k \in 2 .. Len(lines) |-> GapAbove(down, k)]
      gapX   == [k \in 2 .. Len(lines) |-> GapLeftOf(across, k)]
      cutY   == WidestGap(gapY, MinYGap)
      cutX   == WidestGap(gapX, MinXGap)
  IN  IF Len(lines) <= 1 THEN lines
      ELSE IF cutY # 0
      THEN LET y == down[cutY].y1 + gapY[cutY] \div 2 IN
           XyCut[SelectSeq(down, LAMBDA l : l.y0 >= y)] \o
           XyCut[SelectSeq(down, LAMBDA l : l.y1 <= y)]
      ELSE IF cutX # 0
      THEN LET x == across[cutX].x0 - gapX[cutX] \div 2 IN
           XyCut[SelectSeq(across, LAMBDA l : l.x1 <= x)] \o
           XyCut[SelectSeq(across, LAMBDA l : l.x0 >= x)]
      ELSE Downward(across)

(* Full-width lines go before the first line of the body that is below.    *)
MergeDown(wide, body) ==
  LET merge[i \in 1 .. Len(wide) + 1, j \in 1 .. Len(body) + 1] ==
        IF i > Len(wide) THEN SubSeq(body, j, Len(body))
        ELSE IF j > Len(body) THEN SubSeq(wide, i, Len(wide))
        ELSE IF wide[i].y0 >= body[j].y0
        THEN <<wide[i]>> \o merge[i + 1, j]
        ELSE <<body[j]>> \o merge[i, j + 1]
  IN  merge[1, 1]

(* xycut_to_text, as the sequence of lines *)
TextOrder(lines) ==
  MergeDown(Downward(SelectSeq(lines, LAMBDA l : l.x1 - l.x0 >= FullWidth)),
            XyCut[SelectSeq(lines, LAMBDA l : l.x1 - l.x0 < FullWidth)])

-----------------------------------------------------------------------------
(* The size of most lines, in tenths of a point, rounded to half points;   *)
(* of sizes that are as frequent, any (max_by_key of a HashMap).           *)
HalfPoint(size) == ((2 * size + 5) \div 10) * 5

ModeFontSizes(lines) ==
  LET lower == {HalfPoint(lines[k].size) : k \in DOMAIN lines}
      count(s) == Cardinality({k \in DOMAIN lines : HalfPoint(lines[k].size) = s})
  IN  IF lines = <<>> THEN {120}
      ELSE {s \in lower : \A other \in lower : count(other) <= count(s)}

(* H1_RATIO_THRESHOLD and H2_RATIO_THRESHOLD; 0 is body text.              *)
HeadingLevel(size, body) ==
  CASE body # 0 /\ 10 * size >= 15 * body -> 1
    [] body # 0 /\ 10 * size \in 12 * body .. 15 * body - 1 -> 2
    [] OTHER -> 0

EmptyLine == [id |-> 0, level |-> 0]

(* lines_to_markdown, of lines [id, size] that have text                   *)
LinesToMarkdown(lines, body) ==
  LET before(parts) == IF parts = <<>> THEN <<>> ELSE <<EmptyLine>>
      added(parts, l) ==
        LET level == HeadingLevel(l.size, body)
            line  == <<[id |-> l.id, level |-> level]>>
        IN  IF level = 0 THEN parts \o line
            ELSE parts \o before(parts) \o line \o <<EmptyLine>>
  IN  FoldLeft(added, <<>>, lines)

(* extract_text: page after page, body[k] being the common size of page k; *)
(* a page without characters is skipped.                                   *)
ExtractText(pages, body) ==
  FlattenSeq([k \in DOMAIN pages |-> LinesToMarkdown(pages[k], body[k])])

-----------------------------------------------------------------------------
Occurrences(seq, l) == Cardinality({k \in DOMAIN seq : seq[k] = l})
SameLines(seq, other) ==
  \A l \in ToSet(seq) \cup ToSet(other) :
    Occurrences(seq, l) = Occurrences(other, l)

(* No line reaches above one that starts higher than it does (as a drop    *)
(* capital does, or text set sideways).                                    *)
Even(lines) ==
  \A a, b \in ToSet(lines) : a.y0 < b.y0 => a.y1 <= b.y1

(* In these, order is TextOrder(lines).                                    *)
(* Every line of a page is indexed, and once: no cut goes through a line.  *)
CutsLoseNothing(lines, order) == Even(lines) => SameLines(order, lines)

(* A page is read from the top: of two lines one above the other, the upper *)
(* one comes first - in one column, and across the page when nothing but a *)
(* full-width line or a gap separates what is above from what is below.    *)
Above(a, b) == a.y0 >= b.y1 + MinYGap
ReadsDown(lines, order) ==
  (\A a, b \in ToSet(lines) : a = b \/ Above(a, b) \/ Above(b, a)) =>
    \A j, k \in DOMAIN order : j < k => ~ Above(order[k], order[j])

(* Columns are read one after the other: if a vertical gap parts all lines *)
(* and no horizontal gap does, the left ones come first.                   *)
LeftOf(a, b) == b.x0 >= a.x1 + MinXGap
ReadsColumns(lines, order) ==
  LET down == Downward(lines) IN
  (/\ \A l \in ToSet(lines) : l.x1 - l.x0 < FullWidth
   /\ \A k \in 2 .. Len(lines) : GapAbove(down, k) < MinYGap)
  => \A left \in SUBSET ToSet(lines) :
       (/\ left \notin {{}, ToSet(lines)}
        /\ \A a \in left, b \in ToSet(lines) \ left : LeftOf(a, b))
       => \A j, k \in DOMAIN order :
            (order[j] \in left /\ order[k] \notin left) => j < k

(* Every character is in one line, in the order of the file, and those of  *)
(* one base line stay together, if base lines are further apart than a     *)
(* character is tall.                                                      *)
LinesAreBaselines(chars) ==
  LET lines == ClusterToLines(chars)
      apart == \A i, j \in DOMAIN chars :
                 chars[i].y > chars[j].y =>
                   \A k \in DOMAIN chars : chars[i].y - chars[j].y > chars[k].size
  IN  /\ \A i \in DOMAIN chars :
           Cardinality({k \in DOMAIN lines : i \in ToSet(lines[k].chars)}) = 1
      /\ \A k \in DOMAIN lines : IsSorted(lines[k].chars, <)
      /\ apart =>
           /\ \A k \in DOMAIN lines : \A i \in ToSet(lines[k].chars) :
                chars[i].y = lines[k].y0
           /\ \A k \in 1 .. Len(lines) - 1 : lines[k].y0 > lines[k + 1].y0

(* A document is read whole and in order.  Whatever size is taken for that *)
(* of the text, a line of that size is text (but in print below three      *)
(* points, where half a point is a fifth), a line is no deeper a heading   *)
(* than a smaller one, and an empty line parts a heading from what follows. *)
MarkdownIsTheDocument(pages) ==
  \A body \in {b \in [DOMAIN pages -> UNION {ModeFontSizes(pages[k]) : k \in DOMAIN pages}] :
               \A k \in DOMAIN pages : b[k] \in ModeFontSizes(pages[k])} :
    \A text \in {ExtractText(pages, body)}, lines \in {FlattenSeq(pages)} :
      LET written == SelectSeq(text, LAMBDA part : part # EmptyLine)
      IN  /\ [k \in DOMAIN written |-> written[k].id] =
               [k \in DOMAIN lines |-> lines[k].id]
          /\ \A k \in DOMAIN text :
               text[k].level # 0 => k < Len(text) /\ text[k + 1] = EmptyLine
          /\ \A k \in DOMAIN pages : body[k] >= 30 =>
               \A i \in DOMAIN pages[k] :
                 LET level(j) == HeadingLevel(pages[k][j].size, body[k]) IN
                 /\ HalfPoint(pages[k][i].size) = body[k] => level(i) = 0
                 /\ \A j \in DOMAIN pages[k] :
                      (level(j) # 0 /\ pages[k][i].size >= pages[k][j].size)
                        => level(i) \in 1 .. level(j)
=============================================================================
