------------------------------- MODULE Chunking -------------------------------
(***************************************************************************)
(* From the pages of a PDF to its chunks: the parser's blocks and verdict  *)
(* (ingestion/parser.py), the splitter's strategies (ingestion/splitter.py)*)
(* and the lineage of the chunks (ingestion/service.py). A page is the     *)
(* sequence of its normalized lines; a line is [length, level, major,      *)
(* ends]: its length, its level as a heading of the parser (0: none), how  *)
(* the splitter sees it ("no", "minor", "major") and whether it ends a     *)
(* sentence. A span <<a, b>> is [a, b) in the clean text, in which lines   *)
(* are one character apart and pages two. The text never repeats itself.   *)
(***************************************************************************)
EXTENDS Orders, SequencesExt

CONSTANTS
  TargetChars, MaxChars, OverlapTarget, \* the two structural strategies
  ChunkSize, Overlap,                   \* fixed_boundary_v1
  BlockLimit,                           \* the block size that ends a block (1800)
  MinimumText,                          \* minimum_text_characters
  PaperTexts                            \* the pages of a paper and the strategy that splits it

Strategies == {"fixed_boundary_v1", "paragraph_sentence_v1", "section_parent_child_v1"}

\* A paper has pages, and no line of it is empty.
IsPaper(paper) ==
  /\ paper.strategy \in Strategies
  /\ paper.pages # <<>>
  /\ paper.pages \in Seq(Seq([length : Nat \ {0}, level : Nat,
                              major : {"no", "minor", "major"}, ends : BOOLEAN]))

ASSUME SplitterAssumption ==
  /\ TargetChars \in Nat /\ OverlapTarget \in Nat /\ BlockLimit \in Nat /\ MinimumText \in Nat
  /\ MaxChars \in Nat \ {0} /\ TargetChars <= MaxChars
  /\ ChunkSize \in Nat /\ Overlap \in Nat \ {0} /\ Overlap < ChunkSize
  /\ \A paper \in PaperTexts : IsPaper(paper)

VARIABLE split \* the paper of this behaviour, once it was split

Smaller(a, b) == IF a < b THEN a ELSE b
Larger(a, b) == IF a > b THEN a ELSE b
Length(span) == span[2] - span[1]
Meets(s, t) == s[1] < t[2] /\ s[2] > t[1]

-----------------------------------------------------------------------------
(* The clean text: "\n\n".join of the pages' lines. *)

PageLength(page) ==
  IF page = <<>> THEN 0 ELSE SumFunction([l \in DOMAIN page |-> page[l].length + 1]) - 1

\* page_offsets
PageStart(pages, p) == SumFunction([q \in 1..(p - 1) |-> PageLength(pages[q]) + 2])
TextLength(pages) == PageStart(pages, Len(pages)) + PageLength(pages[Len(pages)])

LineStart(pages, p, l) ==
  PageStart(pages, p) + SumFunction([m \in 1..(l - 1) |-> pages[p][m].length + 1])
LineAt(pages, p, l) ==
  [page |-> p, number |-> l, line |-> pages[p][l],
   span |-> <<LineStart(pages, p, l), LineStart(pages, p, l) + pages[p][l].length>>]

\* All lines with their places.
Lines(pages) ==
  UNION {{LineAt(pages, p, l) : l \in DOMAIN pages[p]} : p \in DOMAIN pages}

\* PypdfTextParser.parse: the verdict on the extracted pages.
ParseStatus(pages) ==
  LET characters == SumFunction([p \in DOMAIN pages |-> PageLength(pages[p])]) IN
  IF \A p \in DOMAIN pages : pages[p] = <<>> THEN "FAILED"
  ELSE IF \E p \in DOMAIN pages : pages[p] = <<>> THEN "REVIEW"
  ELSE IF characters < MinimumText THEN "REVIEW"
  ELSE "PASS"

-----------------------------------------------------------------------------
(* Cutting: from where the pieces start to the pieces. *)

\* The spans between the given starts, the last one up to end.
Between(starts, end) ==
  [i \in DOMAIN starts |-> <<starts[i], IF i < Len(starts) THEN starts[i + 1] ELSE end>>]

\* Where the span ends that starts with a.
Until(starts, a, end) == Least({b \in starts : b > a} \cup {end})

\* _text_block_spans: a heading is a block of its own; others end at a sentence or
\* when they are too long. The lines with which the blocks of a page start.
BlockStarts(pages, p) ==
  LET page == pages[p]
      start[l \in DOMAIN page] == \* the line with which the block of line l starts
        IF l = 1 \/ page[l].level > 0 THEN l
        ELSE IF \/ page[l - 1].level > 0
                \/ page[l - 1].ends
                \/ LineAt(pages, p, l - 1).span[2]
                     - LineAt(pages, p, start[l - 1]).span[1] >= BlockLimit
             THEN l ELSE start[l - 1]
  IN {start[l] : l \in DOMAIN page}

Blocks(pages) ==
  FlattenSeq([p \in DOMAIN pages |->
    LET bounds == Between(Ascending(BlockStarts(pages, p)), Len(pages[p]) + 1) IN
    [i \in DOMAIN bounds |->
       [page |-> p, first |-> pages[p][bounds[i][1]],
        span |-> <<LineAt(pages, p, bounds[i][1]).span[1],
                   LineAt(pages, p, bounds[i][2] - 1).span[2]>>]]])

\* The sections of the blocks: a heading of level n follows the first n - 1 of the
\* path it is found in. Headings are told apart by where they start.
SectionPaths(blocks) ==
  LET path[b \in 0..Len(blocks)] ==
        IF b = 0 THEN <<"Document">>
        ELSE LET level == blocks[b].first.level
                 heading == ToString(blocks[b].span[1])
             IN IF level = 0 THEN path[b - 1]
                ELSE IF level = 1 THEN <<heading>>
                ELSE SubSeq(path[b - 1], 1, Smaller(level - 1, Len(path[b - 1]))) \o <<heading>>
  IN [b \in DOMAIN blocks |-> path[b]]

-----------------------------------------------------------------------------
(* The structural strategies. *)

\* _section_spans: what precedes the first heading is a section too.
Sections(pages, majorOnly) ==
  LET wanted == IF majorOnly THEN {"major"} ELSE {"major", "minor"}
      headings == {x.span[1] : x \in {x \in Lines(pages) : x.line.major \in wanted}}
  IN Between(Ascending(headings \cup {0}), TextLength(pages))

Inside(pages, span) == {x \in Lines(pages) : x.span[1] >= span[1] /\ x.span[2] <= span[2]}

\* _paragraph_spans: pages, each with the break behind it.
ParagraphStarts(pages, section) ==
  LET inside == Inside(pages, section) IN
  {x.span[1] : x \in {x \in inside : \A y \in inside : y.page = x.page => x.number <= y.number}}

\* _sentence_spans of a paragraph.
SentenceStarts(pages, paragraph) ==
  LET inside == Inside(pages, paragraph) IN
  {x.span[1] : x \in {x \in inside : \A y \in inside :
                        y.page = x.page /\ y.number = x.number - 1 => y.line.ends}}

\* _atomic_spans: paragraphs, or their sentences, or pieces of these ...
PieceStarts(sentence) ==
  IF Length(sentence) <= MaxChars THEN {sentence[1]}
  ELSE {a \in {sentence[1] + k * MaxChars : k \in 0..Length(sentence)} : a < sentence[2]}

PartStarts(pages, paragraph) ==
  LET sentences == SentenceStarts(pages, paragraph) IN
  IF Length(paragraph) <= MaxChars THEN {paragraph[1]}
  ELSE UNION {PieceStarts(<<a, Until(sentences, a, paragraph[2])>>) : a \in sentences}

UnitStarts(pages, section) ==
  LET paragraphs == ParagraphStarts(pages, section) IN
  UNION {PartStarts(pages, <<a, Until(paragraphs, a, section[2])>>) : a \in paragraphs}

\* ... of which the first one is stretched to the start of the section; the last one
\* reaches its end.
Atoms(pages, section) ==
  LET units == Between(Ascending(UnitStarts(pages, section)), section[2]) IN
  [i \in DOMAIN units |-> <<IF i = 1 THEN section[1] ELSE units[i][1], units[i][2]>>]

\* Mutant: the maximum is not looked at.
StopNearest(units, i) ==
  LET size(n) == units[n][2] - units[i][1]
      distance(n) == Larger(size(n) - TargetChars, TargetChars - size(n))
      over == {n \in (i + 1)..Len(units) : size(n) > TargetChars}
      stop == IF over = {} THEN Len(units) + 1 ELSE Least(over)
  IN IF stop <= Len(units) /\ distance(stop) <= distance(stop - 1) THEN stop + 1 ELSE stop

\* The unit behind the chunk that starts with unit i: as many as the target allows,
\* and one more if the maximum does and it is not farther from the target.
Stop(units, i) ==
  LET size(n) == units[n][2] - units[i][1]
      distance(n) == Larger(size(n) - TargetChars, TargetChars - size(n))
      over == {n \in (i + 1)..Len(units) : size(n) > TargetChars}
      stop == IF over = {} THEN Len(units) + 1 ELSE Least(over)
  IN IF /\ stop <= Len(units)
        /\ size(stop) <= MaxChars
        /\ distance(stop) <= distance(stop - 1)
     THEN stop + 1 ELSE stop

\* The unit with which the next chunk starts.
Resume(units, i, stop) ==
  LET reach == {n \in (i + 1)..(stop - 1) :
                  units[stop - 1][2] - units[n][1] >= OverlapTarget}
  IN IF Length(units[stop]) + OverlapTarget > MaxChars THEN stop
     ELSE IF reach = {} THEN i + 1
     ELSE Greatest(reach)

\* The index of the loop's next round, 0 once the loop is left.
NextIndex(units, i) ==
  IF i = 0 \/ Stop(units, i) > Len(units) THEN 0 ELSE Resume(units, i, Stop(units, i))

\* The index of each round; every round advances it.
Index(units) ==
  LET index[k \in DOMAIN units] == IF k = 1 THEN 1 ELSE NextIndex(units, index[k - 1])
  IN index

\* _group_units
Group(units) ==
  LET index == Index(units)
      rounds == Cardinality({k \in DOMAIN units : index[k] # 0})
  IN [k \in 1..rounds |-> <<units[index[k]][1], units[Stop(units, index[k]) - 1][2]>>]

\* _split_structural: the chunks with the section they are cut from, their parent for
\* section_parent_child_v1. A chunk of nothing but line breaks is dropped.
SectionChunks(pages, section) ==
  LET spans == Group(Atoms(pages, section)) IN
  [i \in DOMAIN spans |-> [span |-> spans[i], section |-> section]]

SplitStructural(pages, parents) ==
  LET sections == Sections(pages, parents)
      chunks == FlattenSeq([s \in DOMAIN sections |-> SectionChunks(pages, sections[s])])
  IN Picked(chunks, {i \in DOMAIN chunks : \E x \in Lines(pages) : Meets(x.span, chunks[i].span)})

-----------------------------------------------------------------------------
(* fixed_boundary_v1: the units are the pages, whose text a chunk joins by one       *)
(* space; the chunk is then looked up in the clean text, where they are two apart.   *)

PageSpan(pages, p) == <<PageStart(pages, p), PageStart(pages, p) + PageLength(pages[p])>>
FilledSpans(pages) ==
  LET filled == Ascending({p \in DOMAIN pages : pages[p] # <<>>}) IN
  [i \in DOMAIN filled |-> PageSpan(pages, filled[i])]

\* The pieces of a page that is longer than a chunk: windows that overlap.
Windows(span) ==
  LET step == ChunkSize - Overlap
      starts == Ascending({a \in {span[1] + k * step : k \in 0..Length(span)} :
                             a = span[1] \/ a + Overlap < span[2]})
  IN [i \in DOMAIN starts |-> <<<<starts[i], Smaller(starts[i] + ChunkSize, span[2])>>>>]

\* A text is the sequence of the pieces of pages that it joins.
Joined(pieces) == SumFunction([i \in DOMAIN pieces |-> Length(pieces[i]) + 1]) - 1
Source(pieces) == <<pieces[1][1], pieces[Len(pieces)][2]>>

\* The last Overlap characters without leading space: the end of a piece, and the
\* pieces behind it.
Carried(pieces) ==
  LET behind(i) == Joined(SubSeq(pieces, i + 1, Len(pieces))) + 1
      first == Least({i \in DOMAIN pieces : behind(i) < Overlap})
      from == Larger(pieces[first][1], pieces[first][2] - (Overlap - behind(first)))
  IN <<<<from, pieces[first][2]>>>> \o SubSeq(pieces, first + 1, Len(pieces))

\* One round of _chunk_text: the finished texts and the current one, with the next page.
NextTexts(texts, span) ==
  LET done == texts[1]
      current == texts[2]
      flushed == IF current = <<>> THEN done ELSE Append(done, current)
  IN IF Length(span) > ChunkSize THEN <<flushed \o Windows(span), <<>>>>
     ELSE IF current = <<>> \/ Joined(Append(current, span)) <= ChunkSize
     THEN <<done, Append(current, span)>>
     ELSE <<flushed, Append(Carried(current), span)>>

\* _chunk_text: the chunks as sequences of pieces.
JoinedTexts(spans) ==
  LET texts[n \in 0..Len(spans)] ==
        IF n = 0 THEN <<<<>>, <<>>>> ELSE NextTexts(texts[n - 1], spans[n])
      last == texts[Len(spans)]
  IN IF last[2] = <<>> THEN last[1] ELSE Append(last[1], last[2])

FixedTexts(pages) == JoinedTexts(FilledSpans(pages))

\* Where the search for the next chunk starts.
SearchStart(text) ==
  LET found == Source(text) IN
  IF Joined(text) <= Overlap THEN found[1] ELSE Larger(found[1] + 1, found[2] - Overlap)

\* _split_fixed: refused if a chunk starts before the search for it does.
FixedFound(pages) ==
  LET texts == FixedTexts(pages) IN
  \A i \in DOMAIN texts : i > 1 => Source(texts[i])[1] >= SearchStart(texts[i - 1])

SplitFixed(pages) ==
  LET texts == FixedTexts(pages) IN
  [i \in DOMAIN texts |-> [span |-> Source(texts[i]), section |-> <<0, TextLength(pages)>>]]

-----------------------------------------------------------------------------
(* ingest_pdf_bytes. *)

Split(pages, strategy) ==
  IF strategy = "fixed_boundary_v1" THEN SplitFixed(pages)
  ELSE SplitStructural(pages, strategy = "section_parent_child_v1")

\* A document whose verdict is not PASS needs an explicit permission, FAILED none helps.
Ingestible(pages, review) ==
  ParseStatus(pages) = "PASS" \/ (ParseStatus(pages) = "REVIEW" /\ review)

\* The records: the pages of a chunk are those of the blocks it meets, its neighbours
\* the chunks before and behind it whatever their sections.
Linked(chunks, blocks, paths) ==
  [i \in DOMAIN chunks |->
     LET met == {b \in DOMAIN blocks : Meets(blocks[b].span, chunks[i].span)} IN
     [span |-> chunks[i].span, parent |-> chunks[i].section,
      blocks |-> met,
      path |-> IF met = {} THEN <<>> ELSE <<paths[Least(met)]>>,
      pages |-> {blocks[b].page : b \in met},
      previous |-> i - 1,
      next |-> IF i < Len(chunks) THEN i + 1 ELSE 0]]

Located(chunks, blocks) == Linked(chunks, blocks, SectionPaths(blocks))
Records(pages, strategy) == Located(Split(pages, strategy), Blocks(pages))

-----------------------------------------------------------------------------
(* One paper after the other is split. *)

SplitInit == split = {}

SplitPaper == split = {} /\ \E paper \in PaperTexts : split' = {paper}

SplitSpec == SplitInit /\ [][SplitPaper]_split

-----------------------------------------------------------------------------
(* Properties. *)

\* The chunks of a structural strategy hold every line, in order and each within one
\* section; no chunk is longer than the maximum, none starts where another does, and
\* its pages are those of the lines it holds a part of, of which there is one, so that
\* none is refused as SPLITTER_OBJECT_LINEAGE_MISSING.
Covers(records, lines) ==
  /\ \A x \in lines : \A a \in x.span[1]..(x.span[2] - 1) :
       \E i \in DOMAIN records : records[i].span[1] <= a /\ a < records[i].span[2]
  /\ \A i \in DOMAIN records :
       /\ Length(records[i].span) <= MaxChars
       /\ records[i].parent[1] <= records[i].span[1]
       /\ records[i].span[2] <= records[i].parent[2]
       /\ records[i].pages = {x.page : x \in {x \in lines : Meets(x.span, records[i].span)}}
       /\ records[i].pages # {}
       /\ i > 1 => records[i - 1].span[1] < records[i].span[1]

StructuralCovers(pages, strategy) ==
  strategy # "fixed_boundary_v1" /\ ParseStatus(pages) = "PASS" =>
    Covers(Records(pages, strategy), Lines(pages))

\* A text that fixed_boundary_v1 refuses has a page shorter than the overlap; the chunks of
\* any other text hold every line and exceed the size by an overlap at most.
FixedSplitTraces(pages) ==
  LET texts == FixedTexts(pages) IN
  ParseStatus(pages) = "PASS" =>
  /\ ~FixedFound(pages) => \E p \in DOMAIN pages : PageLength(pages[p]) < Overlap
  /\ \A i \in DOMAIN texts : Joined(texts[i]) <= ChunkSize + Overlap + 1
  /\ \A x \in Lines(pages) : \A a \in x.span[1]..(x.span[2] - 1) :
       \E i \in DOMAIN texts : \E j \in DOMAIN texts[i] :
         texts[i][j][1] <= a /\ a < texts[i][j][2]

\* So the chunks hold the text of a paper whole and in bounds, and know their pages.
ChunksCoverText == \A paper \in split :
  /\ StructuralCovers(paper.pages, paper.strategy)
  /\ paper.strategy = "fixed_boundary_v1" => FixedSplitTraces(paper.pages)

=============================================================================
