----------------------------- MODULE DraftParsing -----------------------------
(***************************************************************************)
(* draft_parser_service.py: the text of a draft, its blocks and sentences  *)
(* with their offsets, and the map by which the export finds its way back. *)
(*                                                                         *)
(* Characters are strings: " ", "nbsp", "tab", "lf", "cr", those of        *)
(* Terminal, and letters.  Offsets count characters from 0.                *)
(*                                                                         *)
(* A draft's file is [kind, paras, body, cells, chunks].  Of a docx: paras *)
(* its paragraphs, body those outside of tables and cells those of every   *)
(* cell of the tables' grid, a merged cell once for each column it spans.  *)
(* A paragraph is [role, runs], the runs in document order; a run is       *)
(* [tracked, chars, claim], tracked "no" for a run of the paragraph or of  *)
(* a link in it, "ins" or "del" for one in a tracked change, "nested" for  *)
(* one in a content control, a simple field, a smart tag, a text box or    *)
(* moved text; Elements among its characters; claim that of an inserted    *)
(* citation and else 0.  Of another file: chunks between blank lines, each *)
(* a sequence of lines.                                                    *)
(***************************************************************************)
EXTENDS Naturals, Sequences, FiniteSets, SequencesExt, Ordering

Blank == {" ", "nbsp", "tab"}
Terminal == {".", "?"}

(* What stands in a run beside its w:t: w:tab, w:br or w:cr, a w:br that    *)
(* ends a page or a column, w:noBreakHyphen, w:ptab.                        *)
Elements == {"tab", "lf", "page", "hyphen", "ptab"}
Space == Blank \cup {"lf", "cr"} \cup Elements

(* No file has the characters by which the export's own runs are known.     *)
Markers == {"cite", "placeholder", "keyword"}
Characters == STRING \ Markers
Tracked == {"no", "ins", "del", "nested"}
Runs == [tracked : Tracked, chars : Seq(Characters), claim : {0}]

IsFile(f) ==
  /\ f.paras \in Seq([role : STRING, runs : Seq(Runs)])
  /\ f.body \in Seq(DOMAIN f.paras) /\ f.cells \in Seq(Seq(DOMAIN f.paras))
  /\ f.chunks \in Seq(Seq(Seq(Characters)) \ {<<>>})

Slice(s, from, to) == SubSeq(s, from + 1, to)

(* The elements of s that are none of these, and those that are.            *)
Without(s, these) == Concatenated([i \in DOMAIN s |-> IF s[i] \in these THEN <<>> ELSE <<s[i]>>])
Only(s, these) == Concatenated([i \in DOMAIN s |-> IF s[i] \in these THEN <<s[i]>> ELSE <<>>])

-----------------------------------------------------------------------------
(* Normalization.                                                           *)

(* str.strip                                                                *)
Strip(s) ==
  LET solid == {i \in DOMAIN s : s[i] \notin Blank \cup {"lf"}}
  IN IF solid = {} THEN <<>> ELSE SubSeq(s, Min(solid), Max(solid))

NormalizeParagraph(text) ==
  LET kept == Kept(text, {i \in DOMAIN text : text[i] # "cr"})
      first == {i \in DOMAIN kept : ~ (i > 1 /\ kept[i] \in Blank /\ kept[i - 1] \in Blank)}
      plain == [i \in DOMAIN kept |-> IF kept[i] \in Blank THEN " " ELSE kept[i]]
  IN Strip(Kept(plain, first))

(* The positions of raw that characters of the result come from: of a run   *)
(* of blanks, the first.                                                    *)
Sources(raw) ==
  LET blankBefore(i) ==
        LET kept == {j \in 1 .. i - 1 : raw[j] # "cr"} IN kept # {} /\ raw[Max(kept)] \in Blank
      first == {i \in DOMAIN raw : raw[i] # "cr" /\ ~ (raw[i] \in Blank /\ blankBefore(i))}
      solid == {i \in first : raw[i] \notin Blank \cup {"lf"}}
  IN IF solid = {} THEN <<>> ELSE Ascending(first \cap Min(solid) .. Max(solid))

NormalizeWithMap(raw) ==
  LET src == Sources(raw)
  IN [text |-> [k \in DOMAIN src |-> IF raw[src[k]] \in Blank THEN " " ELSE raw[src[k]]],
      src |-> src]

-----------------------------------------------------------------------------
(* Blocks.                                                                  *)

Separator == <<"lf", "lf">>

Size(texts, k) == Totals([i \in DOMAIN texts |-> Len(texts[i])])[k]

(* Mutant: the separator is left out of the offsets.                        *)
StartWithoutSeparator(texts, k) == Size(texts, k - 1)

(* Where block k of these texts begins.                                     *)
BlockStart(texts, k) == Size(texts, k - 1) + (k - 1) * Len(Separator)

(* _assemble: the non-empty ones of raw blocks [text, role], joined.        *)
(* paragraph_index counts the empty ones too.                               *)
Assemble(rawBlocks) ==
  LET text(i) == NormalizeParagraph(rawBlocks[i].text)
      kept == Ascending({i \in DOMAIN rawBlocks : text(i) # <<>>})
      texts == [k \in DOMAIN kept |-> text(kept[k])]
  IN [raw |-> Concatenated([k \in DOMAIN texts |->
                              IF k = 1 THEN texts[k] ELSE Separator \o texts[k]]),
      blocks |-> [k \in DOMAIN kept |->
        [text |-> texts[k], start |-> BlockStart(texts, k),
         end |-> BlockStart(texts, k) + Len(texts[k]),
         paragraph |-> kept[k], role |-> rawBlocks[kept[k]].role]]]

-----------------------------------------------------------------------------
(* Paragraphs of a docx.                                                    *)

(* iter_docx_paragraphs, for the parser and for the export.                 *)
Walk(file) == file.body \o Concatenated(file.cells)

(* paragraph.text of python-docx reads its own runs and those of its links, *)
(* the ends of pages as nothing, the other elements where they stand.       *)
RunShown(run) ==
  LET kept == Without(run.chars, {"page"})
  IN [i \in DOMAIN kept |-> CASE kept[i] = "hyphen" -> "dash"
                               [] kept[i] = "ptab" -> "tab"
                               [] OTHER -> kept[i]]
ParagraphText(p) ==
  Concatenated([r \in DOMAIN p.runs |-> IF p.runs[r].tracked = "no" THEN RunShown(p.runs[r]) ELSE <<>>])

(* _run_text: the text elements first, then the tabs, then the breaks; no   *)
(* hyphen and no ptab.                                                      *)
RunText(run) ==
  LET breaks == Only(run.chars, {"lf", "page"})
  IN Without(run.chars, Elements) \o Only(run.chars, {"tab"}) \o [i \in DOMAIN breaks |-> "lf"]

(* .//w:r without deletions: tracked insertions and nested runs count.      *)
LiveRuns(p) == {r \in DOMAIN p.runs : p.runs[r].tracked # "del"}

(* _para_text                                                               *)
ParaText(p) ==
  Concatenated([r \in DOMAIN p.runs |-> IF r \in LiveRuns(p) THEN RunText(p.runs[r]) ELSE <<>>])

-----------------------------------------------------------------------------
(* parse_file: the raw blocks of a file, by its kind, and what _assemble    *)
(* makes of them.                                                           *)

Headings == {"heading", "intro"}

DocxBlocks(file) ==
  LET walk == Walk(file)
  IN [k \in DOMAIN walk |-> [text |-> ParagraphText(file.paras[walk[k]]),
                             role |-> file.paras[walk[k]].role]]

(* The lines of a chunk but blank ones at its ends; blank chunks are left   *)
(* out.                                                                     *)
Lines(chunk) == Kept(chunk, {l \in DOMAIN chunk : Strip(chunk[l]) # <<>>})
Chunks(file) ==
  LET each == [k \in DOMAIN file.chunks |-> Lines(file.chunks[k])]
  IN Kept(each, {k \in DOMAIN each : each[k] # <<>>})

(* A chunk of one line that begins with # is a heading.                     *)
IsHeading(chunk) ==
  /\ Len(chunk) = 1 /\ Len(Strip(chunk[1])) > 1
  /\ SubSeq(Strip(chunk[1]), 1, 2) = <<"#", " ">>

(* Its lines joined.                                                        *)
OneLine(chunk) ==
  Concatenated([l \in DOMAIN chunk |-> IF l = 1 THEN chunk[l] ELSE <<" ">> \o chunk[l]])

MarkdownBlocks(file) ==
  LET chunks == Chunks(file)
  IN [k \in DOMAIN chunks |->
       IF IsHeading(chunks[k]) THEN [text |-> Tail(Strip(chunks[k][1])), role |-> "heading"]
       ELSE [text |-> OneLine(chunks[k]), role |-> "body"]]

PlaintextBlocks(file) ==
  LET chunks == Chunks(file)
  IN [k \in DOMAIN chunks |-> [text |-> OneLine(chunks[k]), role |-> "body"]]

(* The sentences spaCy finds in a text: each ends with its terminal         *)
(* characters; a blank or the end follows.  Pairs of offsets.               *)
SentenceSpans(text) ==
  LET ends == {i \in DOMAIN text : text[i] \in Terminal
                 /\ (i = Len(text) \/ text[i + 1] \in {" ", "lf"})} \cup {Len(text)}
      order == Ascending(ends)
  IN [k \in DOMAIN order |-> <<IF k = 1 THEN 0 ELSE order[k - 1], order[k]>>]

(* text.find(part, from), or from if it is not found.                       *)
Anchor(text, part, from) ==
  LET found == {i \in from .. Len(text) - Len(part) : Slice(text, i, i + Len(part)) = part}
  IN IF found = {} THEN from ELSE Min(found)

(* The sentences of a block: stripped, the empty ones left out, and found   *)
(* again in its text.                                                       *)
Sentences(block) ==
  LET spans == SentenceSpans(block.text)
      all == [k \in DOMAIN spans |->
               LET text == Strip(Slice(block.text, spans[k][1], spans[k][2]))
                   at == block.start + Anchor(block.text, text, spans[k][1])
               IN [text |-> text, start |-> at, end |-> at + Len(text), paragraph |-> block.paragraph]]
  IN Kept(all, {k \in DOMAIN all : all[k].text # <<>>})

(* segment: of every block that is no heading.                              *)
Segment(blocks) ==
  Concatenated([b \in DOMAIN blocks |->
    IF blocks[b].role \in Headings THEN <<>> ELSE Sentences(blocks[b])])

ParseFile(file) ==
  LET parsed == Assemble(CASE file.kind = "docx" -> DocxBlocks(file)
                           [] file.kind = "md" -> MarkdownBlocks(file)
                           [] OTHER -> PlaintextBlocks(file))
  IN [raw |-> parsed.raw, blocks |-> parsed.blocks, sentences |-> Segment(parsed.blocks)]
===============================================================================
