---------------------------- MODULE ClaimDetection ----------------------------
(***************************************************************************)
(* claim_detection_service.py: what the detection stage computes from a    *)
(* parsed draft, the Tier-1 cache and the answers of the model.            *)
(*                                                                         *)
(* A draft is [blocks, sentences]; a block [intro, start] says whether it  *)
(* is an Introduction heading; a sentence is [text, section, start, marks, *)
(* citations], marks the patterns of the prefilter that it matches.  A     *)
(* decision of the model carries, as history, the text it was made about.  *)
(***************************************************************************)
EXTENDS Naturals, Sequences, FiniteSets, SequencesExt, Ordering

(* A function extended to where it is not defined yet: dict.setdefault,     *)
(* INSERT ... ON CONFLICT DO NOTHING.                                       *)
Extended(f, g) ==
  [x \in DOMAIN f \cup DOMAIN g |-> IF x \in DOMAIN f THEN f[x] ELSE g[x]]

NonClaimSections == {"references", "acknowledgments", "acknowledgements", "bibliography"}
AbstractLikeSections == {"abstract", "keywords", "key words"}

Exclusions == {"too_short", "question", "structural_reference", "author_contribution"}

-----------------------------------------------------------------------------
(* The rule prefilter: score in hundredths, at most 1.                      *)

RuleScore(s) ==
  LET points(mark, score) == IF mark \in s.marks THEN score ELSE 0
      sum == points("consensus_phrase", 45) + points("reporting_verb", 25)
             + points("effect_verb", 25) + points("comparative", 20) + points("statistic", 15)
  IN IF sum < 100 THEN sum ELSE 100

Prefilter(s) ==
  CASE s.section \in NonClaimSections \/ s.marks \cap Exclusions # {} -> "SKIP"
    [] OTHER -> IF RuleScore(s) >= 60 THEN "STRONG" ELSE "SEND_TO_LLM"

-----------------------------------------------------------------------------
(* Which sentences are analysed.                                            *)

(* body_start_offset: the first Introduction heading, or 0.                 *)
BodyStartOffset(blocks) ==
  LET intros == {b \in DOMAIN blocks : blocks[b].intro}
  IN IF intros = {} THEN 0 ELSE blocks[Ascending(intros)[1]].start

(* The cut is not made where nothing would be left of the draft.            *)
BodyStart(draft) ==
  LET cut == BodyStartOffset(draft.blocks)
  IN IF \A i \in DOMAIN draft.sentences : draft.sentences[i].start < cut THEN 0 ELSE cut

Analysed(draft) ==
  {i \in DOMAIN draft.sentences :
     IF BodyStart(draft) > 0 THEN draft.sentences[i].start >= BodyStart(draft)
     ELSE draft.sentences[i].section \notin AbstractLikeSections}

ToClassify(draft) == {i \in Analysed(draft) : Prefilter(draft.sentences[i]) # "SKIP"}

(* The batches of sentences that the Tier-1 cache does not answer.          *)
Batches(draft, cache, size) ==
  LET uncached == Ascending({i \in ToClassify(draft) :
                               draft.sentences[i].text \notin DOMAIN cache})
      n == Len(uncached)
  IN [b \in 1 .. (n + size - 1) \div size |->
        SubSeq(uncached, (b - 1) * size + 1, IF b * size < n THEN b * size ELSE n)]

-----------------------------------------------------------------------------
(* The answers.  An answer is a sequence of [idx, decision], idx counted    *)
(* from 0 in the batch.                                                     *)

(* Mutant: indices are taken for those of the draft.                        *)
ClassifyByDraftIndex(batch, answer) ==
  LET named == {answer[k].idx : k \in DOMAIN answer} IN
    [i \in {x \in Range(batch) : x \in named} |->
       answer[CHOOSE k \in DOMAIN answer : answer[k].idx = i].decision]

(* The sentences that the entries of an answer name, foreign ones left out. *)
Named(batch, answer) ==
  [k \in {x \in DOMAIN answer : answer[x].idx + 1 \in DOMAIN batch} |->
     batch[answer[k].idx + 1]]

EntriesFor(batch, answer, i) ==
  LET named == Named(batch, answer) IN {k \in DOMAIN named : named[k] = i}

(* classify_batch: sentence -> decision, the last one for an index that is  *)
(* repeated, none for one that is not of the batch.                         *)
ClassifyBatch(batch, answer) ==
  [i \in {x \in Range(batch) : EntriesFor(batch, answer, x) # {}} |->
     answer[Max(EntriesFor(batch, answer, i))].decision]

(* The decisions of all batches.                                            *)
Classified(batches, answers) ==
  LET of(b) == ClassifyBatch(batches[b], answers[b])
  IN [i \in UNION {DOMAIN of(b) : b \in DOMAIN batches} |->
        LET b == CHOOSE b \in DOMAIN batches : i \in DOMAIN of(b) IN of(b)[i]]

CachedDecisions(draft, cache) ==
  [i \in {x \in ToClassify(draft) : draft.sentences[x].text \in DOMAIN cache} |->
     cache[draft.sentences[i].text]]

(* Mutant: of an index that is repeated the first entry is cached, while    *)
(* the last one decides.                                                    *)
StoreFirstEntry(draft, cache, batches, answers) ==
  LET named(b) == Named(batches[b], answers[b])
      mentions(b, t) ==
        LET n == named(b) IN {k \in DOMAIN n : draft.sentences[n[k]].text = t}
      texts == UNION {{draft.sentences[i].text : i \in Range(named(b))} : b \in DOMAIN batches}
  IN Extended(cache, [t \in texts |->
       LET b == Min({x \in DOMAIN batches : mentions(x, t) # {}})
       IN answers[b][Min(mentions(b, t))].decision])

(* _store_classification_cache for each, batch by batch in the order of     *)
(* first mention; ON CONFLICT DO NOTHING.                                   *)
StoreCache(draft, cache, batches, answers) ==
  LET decided == Classified(batches, answers)
      named(b) == Named(batches[b], answers[b])
      mentions(b, t) ==
        LET n == named(b) IN {k \in DOMAIN n : draft.sentences[n[k]].text = t}
      first(t) == LET b == Min({x \in DOMAIN batches : mentions(x, t) # {}})
                  IN named(b)[Min(mentions(b, t))]
  IN Extended(cache, [t \in {draft.sentences[i].text : i \in DOMAIN decided} |->
                        decided[first(t)]])

-----------------------------------------------------------------------------
(* The rows.                                                                *)

NoDecision == [about |-> 0, needs |-> FALSE, confidence |-> 0]

Claim(s, decision) ==
  LET strong == Prefilter(s) = "STRONG"
      llm == decision # NoDecision
  IN [text |-> s.text, start |-> s.start, citations |-> s.citations, decision |-> decision,
      method |-> IF llm THEN "LLM" ELSE "RULE",
      needs |-> IF llm THEN decision.needs ELSE strong,
      confidence |-> IF llm THEN decision.confidence
                     ELSE IF Prefilter(s) = "SKIP" THEN 0 ELSE RuleScore(s)]

(* A sentence with neither a need nor a citation gets no row.               *)
Claims(draft, decided) ==
  LET claim(i) == Claim(draft.sentences[i],
                        IF i \in DOMAIN decided THEN decided[i] ELSE NoDecision)
  IN [i \in {x \in Analysed(draft) : claim(x).needs \/ claim(x).citations > 0} |-> claim(i)]
=============================================================================
