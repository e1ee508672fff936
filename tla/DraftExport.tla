----------------------------- MODULE DraftExport -----------------------------
(***************************************************************************)
(* One export of a draft (services/export/): run_export reads its bundle   *)
(* in three queries, splices the accepted citations into the paragraphs of *)
(* the uploaded file, appends the reference list, the SDG keyword and the  *)
(* audit table, and stores the result.  Until the bundle is read, users    *)
(* accept references and analyses replace the text and the claims; after   *)
(* that the handler works in memory, and nothing else is of interest.      *)
(*                                                                         *)
(* A claim is a sentence of a detection, [sentence, by].  An inserted      *)
(* citation is a run of two characters, a blank and "cite", or in          *)
(* placeholder mode "placeholder".                                         *)
(***************************************************************************)
EXTENDS DraftParsing, CitationFormatting

CONSTANTS
  Files,         \* pairs of files: as uploaded, and as found after an edit
  Paper,         \* reference -> what citation_formatting_service reads of it,
                 \*   its authors' names as they are written
  FamilyNames,   \* bound: family names of one word
  GivenNames,    \* bound: given names, in full and as initials
  Formats,       \* of ExportFormat
  Modes,         \* of InsertionMode
  MaxAccepted    \* bound: acceptances

(* A reference has a title, a year, and names of one token at least; a     *)
(* file's paragraphs, lines and runs are of the kinds DraftParsing says.    *)
Tokens == [kind : {"word", "initials", "comma"}, letters : Seq(Nat), word : Nat]
ASSUME PaperAssumption ==
  \A ref \in DOMAIN Paper :
    /\ DOMAIN Paper[ref] = {"authors", "title", "year", "source", "link"}
    /\ Paper[ref].title \in Seq(Nat) /\ Paper[ref].year \in Nat
    /\ Paper[ref].authors \in Seq(Seq(Tokens) \ {<<>>})

ASSUME FilesAssumption == \A pair \in Files : \A f \in {pair[1], pair[2]} : IsFile(f)

ASSUME NamesAssumption ==
  /\ \A family \in FamilyNames : family \in Tokens /\ family.kind = "word"
  /\ GivenNames \subseteq [full : Tokens, short : Tokens]

VARIABLES
  file,      \* [upload, edited, live]: what is at draft.storage_path
  parsed,    \* drafts.raw_text and parsed_content
  claims,    \* claims of the draft: which detection stored them, sentences
  accepted,  \* accepted_citations joined with references, by created_at
  request,   \* the export: its progress, and what it has read
  doc        \* the document it writes

db == <<file, parsed, claims, accepted>>
vars == <<db, request, doc>>

References == DOMAIN Paper
NoRequest == [pc |-> "none", format |-> "md", mode |-> "direct", style |-> "APA", draft |-> <<>>,
              claims |-> <<>>, rows |-> <<>>, pending |-> <<>>, resolved |-> <<>>,
              outcomes |-> <<>>]
NoDocument == [paras |-> <<>>, flat |-> <<>>, source |-> <<>>, keyword |-> 0,
               references |-> <<>>, audit |-> <<>>, blocks |-> <<>>]

(* What parse_file makes of each file.                                      *)
Parse == [f \in {pair[1] : pair \in Files} \cup {pair[2] : pair \in Files} |-> ParseFile(f)]

Detected(draft, by) == [by |-> by, sentences |-> draft.sentences]

(* An analysed draft.                                                       *)
Init ==
  /\ \E pair \in Files : file = [live |-> pair[1], edited |-> pair[2]]
  /\ parsed = Parse[file.live]
  /\ claims = Detected(parsed, 1)
  /\ accepted = <<>>
  /\ request = NoRequest /\ doc = NoDocument

-----------------------------------------------------------------------------
(* What happens beside the export.                                          *)

Reading == request.pc \in {"none", "draft", "claims"}

(* A recommendation is accepted: a row for the claim and the reference.     *)
Accept ==
  /\ Reading /\ Len(accepted) < MaxAccepted
  /\ \E c \in DOMAIN claims.sentences, ref \in References :
       LET row == [by |-> claims.by, claim |-> c, ref |-> ref] IN
       /\ row \notin Range(accepted)
       /\ accepted' = Append(accepted, row)
  /\ UNCHANGED <<file, parsed, claims, request, doc>>

(* The stored file is not the one that was analysed.                        *)
Edit ==
  /\ Reading /\ file.live # file.edited
  /\ file' = [file EXCEPT !.live = file.edited]
  /\ UNCHANGED <<parsed, claims, accepted, request, doc>>

(* The parse stage of a later analysis, and its detection stage.            *)
Reparse ==
  /\ Reading /\ parsed # Parse[file.live]
  /\ parsed' = Parse[file.live]
  /\ UNCHANGED <<file, claims, accepted, request, doc>>

Redetect ==
  /\ Reading /\ claims.by = 1
  /\ claims' = Detected(parsed, 2)
  /\ accepted' = <<>>
  /\ UNCHANGED <<file, parsed, request, doc>>

-----------------------------------------------------------------------------
(* build_bundle.                                                            *)

(* The rows claim by claim, the claim accepted first at the head.           *)
ByClaim(rows) ==
  LET of(row) == <<row.by, row.claim>>
      first == Ascending({k \in DOMAIN rows : \A l \in 1 .. k - 1 : of(rows[l]) # of(rows[k])})
  IN Concatenated([k \in DOMAIN first |->
       Kept(rows, {l \in DOMAIN rows : of(rows[l]) = of(rows[first[k]])})])

(* Mutant: one entry for each claim and reference.                          *)
EveryRef(rows) == LET grouped == ByClaim(rows) IN [k \in DOMAIN grouped |-> grouped[k].ref]

(* The references of all rows, each once, and the context over them.        *)
UniqueRefs(rows) ==
  LET grouped == ByClaim(rows)
      refs == [k \in DOMAIN grouped |-> grouped[k].ref]
  IN Kept(refs, {k \in DOMAIN refs : \A l \in 1 .. k - 1 : refs[l] # refs[k]})

ParsedNames(raw) == [a \in DOMAIN raw |-> ParseAuthorName(raw[a])]
ParsedPaper == [ref \in References |-> [Paper[ref] EXCEPT !.authors = ParsedNames(@)]]
Context(rows) == LET refs == UniqueRefs(rows) IN [k \in DOMAIN refs |-> ParsedPaper[refs[k]]]

(* Rows of claims that were not read are left out.                          *)
Items(r) ==
  LET mine == Kept(r.rows, {k \in DOMAIN r.rows : r.rows[k].by = r.claims.by})
      ids == Ascending({row.claim : row \in Range(mine)})
      of(c) == Kept(mine, {k \in DOMAIN mine : mine[k].claim = c})
  IN [k \in DOMAIN ids |->
        LET rows == of(ids[k]) IN
        [claim |-> ids[k], sentence |-> r.claims.sentences[ids[k]],
         refs |-> [l \in DOMAIN rows |-> rows[l].ref]]]

(* join_in_text of the citations of an item; never empty.                   *)
Citation(r, item) ==
  LET refs == UniqueRefs(r.rows)
      context == Context(r.rows)
      position(ref) == CHOOSE k \in DOMAIN refs : refs[k] = ref
  IN JoinInText([l \in DOMAIN item.refs |-> InText(context, position(item.refs[l]), r.style)])

(* The mode says nothing outside of a docx.                                 *)
StartExport ==
  /\ request.pc = "none"
  /\ \E format \in Formats, mode \in Modes, style \in Styles :
       /\ format # "docx" => mode = "direct"
       /\ request' = [NoRequest EXCEPT !.pc = "draft", !.format = format, !.mode = mode,
                                       !.style = style, !.draft = parsed]
  /\ UNCHANGED <<db, doc>>

ReadClaims ==
  /\ request.pc = "draft"
  /\ request' = [request EXCEPT !.pc = "claims", !.claims = claims]
  /\ UNCHANGED <<db, doc>>

ReadAccepted ==
  /\ request.pc = "claims"
  /\ request' = [request EXCEPT !.pc = "bundle", !.rows = accepted]
  /\ UNCHANGED <<db, doc>>

-----------------------------------------------------------------------------
(* Where a citation belongs.                                                *)

(* find_insertion_offset, in the sentence: before its terminal characters.  *)
InsertionOffset(sentence) ==
  Max({i \in DOMAIN sentence : sentence[i] \notin Terminal} \cup {0})

(* resolve_insertion_point: the run and the offset in its text; run 0 if    *)
(* the paragraph or the sentence is not what was analysed.                  *)
Nowhere == [run |-> 0, offset |-> 0]
Reads(text, block, sentence) ==
  /\ text = block.text
  /\ block.start <= sentence.start /\ sentence.end <= block.start + Len(text)
  /\ Slice(text, sentence.start - block.start, sentence.end - block.start) = sentence.text

ResolveIn(p, block, sentence) ==
  LET live == NormalizeWithMap(ParaText(p))
      at == sentence.start - block.start + InsertionOffset(sentence.text)
      raw == IF at < Len(live.src) THEN live.src[at + 1] - 1 ELSE Last(live.src)
      before(r) == Len(ParaText([p EXCEPT !.runs = SubSeq(p.runs, 1, r - 1)]))
      fits == {r \in LiveRuns(p) : raw <= before(r) + Len(RunText(p.runs[r]))}
  IN IF Reads(live.text, block, sentence)
     THEN [run |-> Min(fits), offset |-> raw - before(Min(fits))]
     ELSE Nowhere

Resolve(block, sentence) ==
  IF block.paragraph \in DOMAIN doc.flat
  THEN ResolveIn(doc.paras[doc.flat[block.paragraph]], block, sentence)
  ELSE Nowhere

-----------------------------------------------------------------------------
(* insert_node_at: before the run, after it, or inside it, its elements     *)
(* then in both halves, before the text.                                    *)
Insert(p, point, node) ==
  LET r == point.run
      run == p.runs[r]
      text == RunText(run)
      elements == Only(run.chars, Elements)
      half(part) == [run EXCEPT !.chars = elements \o part]
      split == CASE point.offset = 0 -> <<node, run>>
                 [] point.offset >= Len(text) /\ point.offset > 0 -> <<run, node>>
                 [] OTHER -> <<half(SubSeq(text, 1, point.offset)), node,
                               half(SubSeq(text, point.offset + 1, Len(text)))>>
  IN [p EXCEPT !.runs = SubSeq(p.runs, 1, r - 1) \o split \o SubSeq(p.runs, r + 1, Len(p.runs))]

(* Mutant: whatever the mode.                                               *)
NodeAlwaysMarked(claim, mode) == [tracked |-> mode, chars |-> <<" ", "cite">>, claim |-> claim]

(* The citation, in placeholder mode in "[CITATION: ...]"; wrap_tracked_    *)
(* insert.                                                                  *)
Node(claim, mode) ==
  [tracked |-> IF mode = "tracked_changes" THEN "ins" ELSE "no",
   chars |-> <<" ", IF mode = "placeholder" THEN "placeholder" ELSE "cite">>, claim |-> claim]

Outcome(claim, status) == [claim |-> claim, status |-> status]

-----------------------------------------------------------------------------
(* write_docx.                                                              *)

BlockOf(r, item) == {b \in DOMAIN r.draft.blocks :
                       r.draft.blocks[b].paragraph = item.sentence.paragraph}

(* The items of a paragraph, the last sentence first.                       *)
LastFirst(items, paragraph) ==
  LET mine == Kept(items, {k \in DOMAIN items : items[k].sentence.paragraph = paragraph})
  IN Descending(mine, [k \in DOMAIN mine |-> mine[k].sentence.start])

Groups(items) ==
  LET order == Ascending({items[k].sentence.paragraph : k \in DOMAIN items})
  IN [g \in DOMAIN order |-> LastFirst(items, order[g])]

(* The uploaded file is opened anew; only a docx can be written as one.     *)
Refuse ==
  /\ request.pc = "bundle" /\ request.format = "docx" /\ file.live.kind # "docx"
  /\ request' = [request EXCEPT !.pc = "refused"]
  /\ UNCHANGED <<db, doc>>

(* Mutant: claims without a block are passed over.                          *)
OpenWithoutLost ==
  LET items == Items(request)
      placed == Kept(items, {k \in DOMAIN items : BlockOf(request, items[k]) # {}}) IN
  /\ request.pc = "bundle" /\ request.format = "docx" /\ file.live.kind = "docx"
  /\ doc' = [NoDocument EXCEPT !.paras = file.live.paras, !.flat = Walk(file.live),
                               !.source = file.live]
  /\ request' = [request EXCEPT !.pc = "resolve", !.pending = Groups(placed)]
  /\ UNCHANGED db

OpenDocx ==
  LET items == Items(request)
      without == {k \in DOMAIN items : BlockOf(request, items[k]) = {}}
      placed == Kept(items, DOMAIN items \ without)
      lost == Kept(items, without)
  IN
  /\ request.pc = "bundle" /\ request.format = "docx" /\ file.live.kind = "docx"
  /\ doc' = [NoDocument EXCEPT !.paras = file.live.paras, !.flat = Walk(file.live),
                               !.source = file.live]
  /\ request' = [request EXCEPT !.pc = "resolve", !.pending = Groups(placed),
                   !.outcomes = [k \in DOMAIN lost |-> Outcome(lost[k].claim, "NO_BLOCK")]]
  /\ UNCHANGED db

(* The points of these items, in the document as it is now.                *)
Points(group) ==
  [k \in DOMAIN group |->
     [claim |-> group[k].claim, paragraph |-> group[k].sentence.paragraph,
      point |-> LET b == CHOOSE b \in BlockOf(request, group[k]) : TRUE
                IN Resolve(request.draft.blocks[b], group[k].sentence)]]

(* Mutants: the first sentence of a paragraph first; each point resolved    *)
(* when the insertions before it are made.                                  *)
ResolveAscending ==
  /\ request.pc = "resolve" /\ request.pending # <<>>
  /\ request' = [request EXCEPT !.pc = "insert", !.pending = Tail(@),
                               !.resolved = Points(Reverse(Head(request.pending)))]
  /\ UNCHANGED <<db, doc>>
ResolveOneByOne ==
  /\ request.pc = "resolve" /\ request.pending # <<>>
  /\ LET group == Head(request.pending) IN
       request' = [request EXCEPT !.pc = "insert", !.resolved = Points(<<Head(group)>>),
         !.pending = IF Len(group) > 1 THEN <<Tail(group)>> \o Tail(@) ELSE Tail(@)]
  /\ UNCHANGED <<db, doc>>

(* All points of a paragraph, before any insertion in it.                   *)
ResolveParagraph ==
  /\ request.pc = "resolve" /\ request.pending # <<>>
  /\ request' = [request EXCEPT !.pc = "insert", !.pending = Tail(@),
                               !.resolved = Points(Head(request.pending))]
  /\ UNCHANGED <<db, doc>>

InsertNext ==
  LET next == Head(request.resolved)
      found == next.point # Nowhere
      id == doc.flat[next.paragraph]
  IN
  /\ request.pc = "insert" /\ request.resolved # <<>>
  /\ doc' = IF found
            THEN [doc EXCEPT !.paras[id] = Insert(@, next.point, Node(next.claim, request.mode))]
            ELSE doc
  /\ request' = [request EXCEPT !.resolved = Tail(@),
       !.outcomes = Append(@, Outcome(next.claim, IF found THEN "INSERTED" ELSE "POSITION_MISMATCH"))]
  /\ UNCHANGED db

NextParagraph ==
  /\ request.pc = "insert" /\ request.resolved = <<>>
  /\ request' = [request EXCEPT !.pc = "resolve"]
  /\ UNCHANGED <<db, doc>>

(* build_audit_rows: a status for every claim, by the text of the draft.    *)
Audit(r) ==
  LET cited == {item.claim : item \in Range(Items(r))}
      reads(sentence) == sentence.end <= Len(r.draft.raw)
                           /\ Slice(r.draft.raw, sentence.start, sentence.end) = sentence.text
  IN [c \in DOMAIN r.claims.sentences |->
        CASE c \notin cited -> "NOT_ACCEPTED"
          [] OTHER -> IF reads(r.claims.sentences[c]) THEN "INSERTED" ELSE "POSITION_MISMATCH"]

(* _append_sdg_keyword: at the end of the keywords line, or in a paragraph  *)
(* of its own before the introduction, or at the top.                       *)
KeywordPlaces(r, role) ==
  {r.draft.blocks[b].paragraph : b \in {x \in DOMAIN r.draft.blocks : r.draft.blocks[x].role = role}}

WithKeyword(r, d) ==
  LET lines == KeywordPlaces(r, "keywords")
      intros == KeywordPlaces(r, "intro")
      anchor == IF intros = {} THEN 1 ELSE Min(intros)
      node == [Node(0, r.mode) EXCEPT !.chars = <<" ", "keyword">>]
  IN CASE lines # {} /\ Min(lines) \in DOMAIN d.flat ->
            [d EXCEPT !.paras[d.flat[Min(lines)]].runs = Append(@, node)]
       [] (lines = {} \/ Min(lines) \notin DOMAIN d.flat) /\ anchor \in DOMAIN d.flat ->
            [d EXCEPT !.keyword = d.flat[anchor]]
       [] OTHER -> d

(* The reference list, the keyword if the draft has one, and the table.     *)
FinishDocx ==
  /\ request.pc = "resolve" /\ request.pending = <<>>
  /\ \E hasKeyword \in BOOLEAN :
       LET listed == [doc EXCEPT !.references = Bibliography(Context(request.rows), request.style)]
       IN doc' = [IF hasKeyword THEN WithKeyword(request, listed) ELSE listed
                  EXCEPT !.audit = Audit(request)]
  /\ request' = [request EXCEPT !.pc = "done"]
  /\ UNCHANGED db

-----------------------------------------------------------------------------
(* write_markdown, and the tables.  A text is marked with the claim of each *)
(* character, 0 for the draft's own.                                        *)
Plain(text) == [i \in DOMAIN text |-> <<text[i], 0>>]
Chars(marked) == [i \in DOMAIN marked |-> marked[i][1]]

(* acc: the marked text, and the outcomes.                                  *)
InsertInBlock(block, acc, item) ==
  LET s == item.sentence
      from == s.start - block.start
      at == from + InsertionOffset(Slice(Chars(acc.text), from, s.end - block.start))
      node == [k \in 1 .. 2 |-> <<<<" ", "cite">>[k], item.claim>>]
  IN IF Reads(block.text, block, s)
     THEN [text |-> SubSeq(acc.text, 1, at) \o node \o SubSeq(acc.text, at + 1, Len(acc.text)),
           outcomes |-> Append(acc.outcomes, Outcome(item.claim, "INSERTED"))]
     ELSE [acc EXCEPT !.outcomes = Append(@, Outcome(item.claim, "POSITION_MISMATCH"))]

(* All of these items in turn.                                              *)
InsertAll(block, items) ==
  LET acc[k \in 0 .. Len(items)] ==
        IF k = 0 THEN [text |-> Plain(block.text), outcomes |-> <<>>]
        ELSE InsertInBlock(block, acc[k - 1], items[k])
  IN acc[Len(items)]

(* Mutant: the first sentence first.                                        *)
MarkdownBlockForward(r, block) == InsertAll(block, Reverse(LastFirst(Items(r), block.paragraph)))

MarkdownBlock(r, block) == InsertAll(block, LastFirst(Items(r), block.paragraph))

WriteMarkdown ==
  LET blocks == [b \in DOMAIN request.draft.blocks |-> MarkdownBlock(request, request.draft.blocks[b])]
  IN
  /\ request.pc = "bundle" /\ request.format = "md"
  /\ doc' = [NoDocument EXCEPT !.blocks = [b \in DOMAIN blocks |-> blocks[b].text],
       !.references = Bibliography(Context(request.rows), request.style), !.audit = Audit(request)]
  /\ request' = [request EXCEPT !.pc = "done",
       !.outcomes = Concatenated([b \in DOMAIN blocks |-> blocks[b].outcomes])]
  /\ UNCHANGED db

WriteTable ==
  /\ request.pc = "bundle" /\ request.format \in {"csv", "json"}
  /\ doc' = [NoDocument EXCEPT !.audit = Audit(request),
       !.references = IF request.format = "csv" THEN <<>>
                      ELSE Bibliography(Context(request.rows), request.style)]
  /\ request' = [request EXCEPT !.pc = "done"]
  /\ UNCHANGED db

-----------------------------------------------------------------------------
Export ==
  \/ StartExport \/ ReadClaims \/ ReadAccepted \/ Refuse \/ OpenDocx \/ ResolveParagraph
  \/ InsertNext \/ NextParagraph \/ FinishDocx \/ WriteMarkdown \/ WriteTable

Next == Export \/ Accept \/ Edit \/ Reparse \/ Redetect

Spec == Init /\ [][Next]_vars

-----------------------------------------------------------------------------
(* Properties.                                                              *)

(* Type correctness of the request and the document.                        *)
Statuses == {"NO_BLOCK", "INSERTED", "POSITION_MISMATCH", "NOT_ACCEPTED"}
TypeOK ==
  /\ request.pc \in {"none", "draft", "claims", "bundle", "refused", "resolve", "insert", "done"}
  /\ request.format \in Formats \cup {"md"} /\ request.style \in Styles
  /\ \A o \in Range(request.outcomes) :
       o.claim \in DOMAIN request.claims.sentences /\ o.status \in Statuses
  /\ \A row \in Range(accepted) : row.by \in 1 .. claims.by /\ row.ref \in References
  /\ \A p \in DOMAIN doc.paras : \A r \in DOMAIN doc.paras[p].runs :
       doc.paras[p].runs[r].tracked \in Tracked
  /\ Range(doc.audit) \subseteq Statuses

(* Before the export, offsets are exact: a block's and a sentence's slice   *)
(* the draft's text, no two sentences overlap, and a sentence lies in a     *)
(* block of its paragraph (draft_parser_service.py:158-195, 382-410).       *)
OffsetsAreExact == request.pc = "none" =>
  /\ \A b \in Range(parsed.blocks) : Slice(parsed.raw, b.start, b.end) = b.text
  /\ \A k \in DOMAIN parsed.sentences :
       LET s == parsed.sentences[k] IN
       /\ Slice(parsed.raw, s.start, s.end) = s.text
       /\ \A l \in 1 .. k - 1 : parsed.sentences[l].end <= s.start
       /\ \E b \in Range(parsed.blocks) :
            b.paragraph = s.paragraph /\ b.start <= s.start /\ s.end <= b.end

OurRun(run) == run.chars \in {<<" ", "cite">>, <<" ", "placeholder">>, <<" ", "keyword">>}
Solids(chars) == Without(chars, Space)
OwnText(p) ==
  Concatenated([r \in DOMAIN p.runs |->
    IF p.runs[r].tracked = "del" \/ OurRun(p.runs[r]) THEN <<>> ELSE p.runs[r].chars])

(* Every citation reported as inserted stands once, in a paragraph that     *)
(* reads as analysed, behind the last word of its sentence and before what  *)
(* ends the sentence, whatever shares its run or its paragraph; the words   *)
(* around are those of the file, and the blanks and elements too unless a   *)
(* run with elements was split (docx_writer.py:76-210, docx_ops.py:58-184). *)
CitationsInPlace ==
  request.format = "docx" =>
  /\ \A o \in {x \in Range(request.outcomes) : x.status = "INSERTED"} :
       LET s == request.claims.sentences[o.claim]
           p == doc.paras[doc.flat[s.paragraph]]
           mine == {r \in DOMAIN p.runs : p.runs[r].claim = o.claim}
           b == CHOOSE b \in Range(request.draft.blocks) : b.paragraph = s.paragraph
           before(n) == Slice(b.text, 0, s.start - b.start) \o SubSeq(s.text, 1, n)
           ending == {n \in 0 .. Len(s.text) : Range(SubSeq(s.text, n + 1, Len(s.text))) \subseteq Terminal
                                              /\ (n > 0 => s.text[n] \notin Terminal)}
       IN /\ Cardinality(mine) = 1
          /\ \A r \in mine : \E n \in ending :
               Solids(OwnText([p EXCEPT !.runs = SubSeq(p.runs, 1, r - 1)])) = Solids(before(n))
  /\ \A id \in DOMAIN doc.paras :
       LET old == doc.source.paras[id]
           new == doc.paras[id]
       IN /\ Solids(OwnText(new)) = Solids(OwnText(old))
          /\ OwnText(new) = OwnText(old)
               \/ \E r \in DOMAIN old.runs : Range(old.runs[r].chars) \cap Elements # {}

(* A claim is left without its citation, and the audit table says otherwise *)
(* than the outcome, only where the text has changed since its analysis, or *)
(* the paragraph has tracked insertions, nested runs or elements in its     *)
(* runs, which the parser and the export read differently, or stands in a   *)
(* merged cell (docx_writer.py:76-210, draft_parser_service.py:225-316,     *)
(* audit.py:43-117).                                                        *)
EasyParagraph(id) ==
  /\ Cardinality({k \in DOMAIN doc.flat : doc.flat[k] = id}) = 1
  /\ \A r \in DOMAIN doc.source.paras[id].runs :
       LET run == doc.source.paras[id].runs[r]
       IN run.tracked \in {"no", "del"} /\ Range(run.chars) \cap Elements = {}
PlainParagraphsGetTheirs ==
  (request.format = "docx" /\ doc # NoDocument
     /\ request.draft = Parse[doc.source] /\ request.claims.sentences = request.draft.sentences)
  => \A o \in Range(request.outcomes) :
       EasyParagraph(doc.flat[request.claims.sentences[o.claim].paragraph]) =>
         o.status = "INSERTED" /\ (request.pc = "done" => doc.audit[o.claim] = "INSERTED")

(* Every claim with an accepted reference gets exactly one outcome; in      *)
(* Markdown none if its paragraph is no block any more (docx_writer.py:     *)
(* 76-210, markdown_writer.py:25-95).                                       *)
OneOutcomeEach ==
  request.pc = "done" /\ request.format \in {"docx", "md"} =>
    \A item \in Range(Items(request)) :
      Cardinality({k \in DOMAIN request.outcomes : request.outcomes[k].claim = item.claim})
        = IF request.format = "md" /\ BlockOf(request, item) = {} THEN 0 ELSE 1

(* Where all its citations were inserted, a paragraph of the docx reads as  *)
(* its block of the Markdown export, citations included, but that           *)
(* placeholder mode puts each in brackets (markdown_writer.py promises the  *)
(* same discipline, markdown_writer.py:5-8).                                *)
Said(run) == IF run.chars = <<" ", "placeholder">> THEN <<" ", "cite">> ELSE run.chars
Marked(p) ==
  Concatenated([r \in DOMAIN p.runs |->
    IF p.runs[r].tracked = "del" \/ p.runs[r].chars = <<" ", "keyword">> THEN <<>>
    ELSE [k \in DOMAIN Said(p.runs[r]) |-> <<Said(p.runs[r])[k], p.runs[r].claim>>]])
Words(marked) == Without(marked, {m \in Range(marked) : m[1] \in Space})
MarkdownAgrees ==
  request.pc = "done" /\ request.format = "docx" =>
    \A block \in Range(request.draft.blocks) :
      (/\ \E o \in Range(request.outcomes) :
             request.claims.sentences[o.claim].paragraph = block.paragraph
       /\ \A o \in Range(request.outcomes) :
            request.claims.sentences[o.claim].paragraph = block.paragraph => o.status = "INSERTED")
      => Words(Marked(doc.paras[doc.flat[block.paragraph]])) = Words(MarkdownBlock(request, block).text)

(* What a reader looks an in-text citation up by: the number, or authors,   *)
(* year and letter.                                                         *)
Finds(part, entry, style) ==
  LET families == [a \in DOMAIN entry.authors |-> entry.authors[a].family] IN
  IF style = "IEEE" THEN part = <<entry.label>>
  ELSE /\ part[2] = entry.year /\ part[3] = entry.label
       /\ \/ part[1] = <<"title", ShortTitle(entry.title)>> /\ families = <<>>
          \/ part[1] = <<"names", families>>
          \/ Len(families) > 2 /\ part[1] = <<"et al.", families[1]>>

(* The reference list names each accepted reference once, and each citation *)
(* joined for a claim finds in it the entry of its own reference and no     *)
(* other; a reference that no claim of the export cites is listed only when *)
(* an analysis replaced the claims between two queries of the bundle        *)
(* (bundle.py:60-118, citation_formatting_service.py:338-415).              *)
ListedAsCited ==
  request.pc = "done" /\ request.format # "csv" =>
    LET refs == UniqueRefs(request.rows)
        context == Context(request.rows)
        listed == [k \in DOMAIN doc.references |-> refs[doc.references[k]]]
        cited == UNION {Range(item.refs) : item \in Range(Items(request))}
    IN /\ \A k, l \in DOMAIN listed : k # l => listed[k] # listed[l]
       /\ \A item \in Range(Items(request)) : \A l \in DOMAIN item.refs :
            LET part == Citation(request, item).body[l]
                entry(k) == Entry(context, doc.references[k], request.style)
            IN {k \in DOMAIN listed : Finds(part, entry(k), request.style)}
                 = {k \in DOMAIN listed : listed[k] = item.refs[l]}
       /\ cited \subseteq Range(listed)
       /\ Range(listed) \subseteq cited \/ \E row \in Range(request.rows) : row.by # request.claims.by

(* An in-text citation names one reference of the list only, and, except in *)
(* IEEE, is the same in whatever order the references were accepted, unless *)
(* another has its title: such papers get letters in that order             *)
(* (citation_formatting_service.py:338-401).                                *)
CitationsIdentify == request.pc = "bundle" =>
  LET refs == Context(request.rows)
      Told(i) == \A k \in DOMAIN refs : refs[k].title = refs[i].title => k = i
  IN /\ \A i, j \in DOMAIN refs :
          i # j => InText(refs, i, request.style) # InText(refs, j, request.style)
     /\ request.style # "IEEE" =>
          \A at \in Bijection(DOMAIN refs, DOMAIN refs) :
            LET other == [k \in DOMAIN refs |-> refs[at[k]]]
            IN \A k \in DOMAIN refs : Told(at[k]) =>
                 InText(other, k, request.style) = InText(refs, at[k], request.style)

(* The ways an author with a one-word family name is written: before or     *)
(* after the given name, in full or as initials.  Initials that are not     *)
(* unaccented letters with periods are taken for a family name at the end.  *)
Spellings(family, given) ==
  {<<family, Comma, given.full>>, <<family, Comma, given.short>>,
   <<given.full, family>>, <<given.short, family>>}
    \cup (IF given.short.kind = "initials" THEN {<<family, given.short>>} ELSE {})

(* However two papers spell an author, they show the same family name, so   *)
(* papers of one first author and year get letters; and the same initials,  *)
(* where the short form of the given name keeps the letters of the full one *)
(* (citation_formatting_service.py:56-99, 338-352).                         *)
SpellingsAgree == request.pc = "bundle" =>
  LET refs == UniqueRefs(request.rows)
      context == Context(request.rows)
      names(i) == Paper[refs[i]].authors
  IN \A i, j \in DOMAIN refs : \A family \in FamilyNames, given \in GivenNames :
       \A k \in DOMAIN names(i) \cap DOMAIN names(j) :
         i # j /\ {names(i)[k], names(j)[k]} \subseteq Spellings(family, given) =>
           /\ context[i].authors[k].family = context[j].authors[k].family
           /\ given.full.letters = given.short.letters => context[i].authors[k] = context[j].authors[k]
           /\ k = 1 /\ Paper[refs[i]].year = Paper[refs[j]].year => YearLetter(context, i) # 0
===============================================================================
