---------------------------- MODULE Recommendation ----------------------------
(***************************************************************************)
(* What the recommendation stage computes: retrieval_service.py,           *)
(* reranking_service.py, verification_service.py, recommendation_pipeline  *)
(* .py, and the shortlist of api/routes/recommendations.py.                *)
(*                                                                         *)
(* References are naturals.  What the models and the index compute of a    *)
(* text and a reference is a constant, in hundredths.  An outcome carries, *)
(* as history, the text and reference the model saw; Nobody if none did.   *)
(***************************************************************************)
EXTENDS ClaimDetection, Scoring, Integers

CONSTANTS
  References,
  Embedded, RecentEnough,         \* sets of references
  Indexed,                        \* those embedded when the BM25 index was built
  Semantic, Bm25, CrossEncoder,   \* text -> reference -> score
  ClaimTokens, ReferenceTokens,   \* keyword tokens of a text, of a reference
  RetrievalLimit, RerankLimit,    \* RETRIEVAL_LIMIT, RERANK_LIMIT
  RetrieveClaimLimit, VerifyClaimLimit, VerifyLimit   \* settings

Texts == DOMAIN Semantic

ASSUME ReferencesAssumption ==
  References \subseteq Nat /\ IsFiniteSet(References) /\ Embedded \subseteq References

(* Every text has a score with every reference; a cosine may be negative.   *)
ASSUME ScoresAssumption ==
  {Semantic, Bm25, CrossEncoder} \subseteq [Texts -> [References -> Int]]

ASSUME TokensAssumption ==
  /\ \A text \in Texts : IsFiniteSet(ClaimTokens[text])
  /\ \A r \in References : IsFiniteSet(ReferenceTokens[r])

ASSUME LimitsAssumption ==
  {RetrievalLimit, RerankLimit, RetrieveClaimLimit, VerifyClaimLimit, VerifyLimit} \subseteq Nat

Nobody == <<>>

-----------------------------------------------------------------------------
(* Stages 1 and 2: retrieval and prerank.                                   *)

(* The claims that are retrieved for: all, or the most confident ones, in   *)
(* the order of the draft.                                                  *)
ClaimsToRetrieve(claims) ==
  LET needy == Ascending({i \in DOMAIN claims : claims[i].needs})
      confidence == [k \in DOMAIN needy |-> claims[needy[k]].confidence]
      confident == Take(Descending(needy, confidence), RetrieveClaimLimit)
  IN IF RetrieveClaimLimit = 0 \/ Len(needy) <= RetrieveClaimLimit THEN needy
     ELSE Ascending(Range(confident))

VectorSearch(text) ==
  LET refs == Ascending(Embedded \cap RecentEnough)
  IN Take(Descending(refs, [k \in DOMAIN refs |-> Semantic[text][refs[k]]]), RetrievalLimit)

(* scores_for: min-max over the candidates that the index has; one that was *)
(* embedded since counts as the lowest.                                     *)
Lexical(text, refs) ==
  LET raw == {Bm25[text][r] : r \in refs \cap Indexed}
      low == Min(raw)
      span == Max(raw) - low
  IN [r \in refs |->
        CASE raw = {} -> 0
          [] raw # {} /\ span = 0 -> IF low > 0 THEN 100 ELSE 0
          [] OTHER -> IF r \in Indexed THEN (100 * (Bm25[text][r] - low)) \div span ELSE 0]

(* keyword_overlap: the Jaccard index of the token sets.                    *)
KeywordOverlap(text, r) ==
  LET a == ClaimTokens[text]
      b == ReferenceTokens[r]
  IN IF a = {} \/ b = {} THEN 0
     ELSE (100 * Cardinality(a \cap b)) \div Cardinality(a \cup b)

(* prerank: candidates, best 55/20/15 blend first.                          *)
Prerank(text, abstracts) ==
  LET found == VectorSearch(text)
      candidate(r) == [ref |-> r, semantic |-> Semantic[text][r],
                       lexical |-> Lexical(text, Range(found))[r],
                       keyword |-> KeywordOverlap(text, r), hasAbstract |-> r \in abstracts]
      all == [k \in DOMAIN found |-> candidate(found[k])]
      blend == [k \in DOMAIN all |->
                  55 * all[k].semantic + 20 * all[k].lexical + 15 * all[k].keyword]
  IN Take(Descending(all, blend), RerankLimit)

(* _retrieve_and_prerank: the claims for which anything was found.          *)
Prepared(claims, abstracts) ==
  LET items == [k \in DOMAIN ClaimsToRetrieve(claims) |->
                  LET i == ClaimsToRetrieve(claims)[k] IN
                  [claim |-> i, text |-> claims[i].text,
                   candidates |-> Prerank(claims[i].text, abstracts)]]
  IN Kept(items, {k \in DOMAIN items : items[k].candidates # <<>>})

-----------------------------------------------------------------------------
(* Stage 3: the pairs of all claims are scored in one sequence.             *)

(* _rerank_all: concatenated, scored, and sliced apart again.               *)
RerankAll(prepared) ==
  LET pairs == Concatenated([k \in DOMAIN prepared |->
                 [c \in DOMAIN prepared[k].candidates |->
                    <<prepared[k].text, prepared[k].candidates[c].ref>>]])
      scores == [p \in DOMAIN pairs |-> CrossEncoder[pairs[p][1]][pairs[p][2]]]
      counts == [k \in DOMAIN prepared |-> Len(prepared[k].candidates)]
      offset == Totals(counts)
  IN [k \in DOMAIN prepared |->
        SubSeq(scores, offset[k - 1] + 1, offset[k - 1] + counts[k])]

(* The prepared claims with their scores, those to verify first.            *)
Ranked(prepared) ==
  LET scores == RerankAll(prepared)
      items == [k \in DOMAIN prepared |->
                  [claim |-> prepared[k].claim, text |-> prepared[k].text,
                   scored |-> [c \in DOMAIN scores[k] |->
                                 [candidate |-> prepared[k].candidates[c],
                                  reranker |-> scores[k][c]]]]]
  IN Descending(items, [k \in DOMAIN items |-> Max(Range(scores[k]))])

-----------------------------------------------------------------------------
(* Stage 4: verification.                                                   *)

MissingAbstract == [verdict |-> "INSUFFICIENT_EVIDENCE", about |-> Nobody]
Skipped == [verdict |-> "SKIPPED", about |-> Nobody]

(* _plan_claim and plan_verification: the candidates with the best reranker *)
(* scores; those neither cached nor without an abstract are to be asked.    *)
Plan(item, cache) ==
  LET score == [k \in DOMAIN item.scored |-> item.scored[k].reranker]
      top == Take(Descending(item.scored, score), VerifyLimit)
      refs == {top[k].candidate.ref : k \in DOMAIN top}
      cached == {r \in refs : <<item.text, r>> \in DOMAIN cache}
      bare == {top[k].candidate.ref : k \in {x \in DOMAIN top : ~ top[x].candidate.hasAbstract}}
      left == Kept(top, {k \in DOMAIN top : top[k].candidate.ref \notin cached \cup bare})
  IN [claim |-> item.claim, text |-> item.text, top |-> top,
      outcomes |-> [r \in cached \cup bare |->
                      IF r \in cached THEN cache[<<item.text, r>>] ELSE MissingAbstract],
      pending |-> [k \in DOMAIN left |-> left[k].candidate.ref]]

Plans(claims, cache, abstracts) ==
  LET items == Take(Ranked(Prepared(claims, abstracts)), VerifyClaimLimit)
  IN [k \in DOMAIN items |-> Plan(items[k], cache)]

(* What the model said of the pending candidate k: entries [idx, verdict],  *)
(* idx from 0, the last one counts.  NoBatch: nothing asked, or no answer.  *)
NoBatch == <<>>
EntriesOf(plan, batch, k) == {e \in DOMAIN batch : batch[e].idx = k - 1}
Judged(plan, batch) ==
  {k \in DOMAIN plan.pending : EntriesOf(plan, batch, k) # {}}

(* Mutant: verdicts are taken in the order of the answer.                   *)
ApplyInOrder(plan, batch) ==
  Extended(plan.outcomes, [r \in Range(plan.pending) |->
    LET k == CHOOSE x \in DOMAIN plan.pending : plan.pending[x] = r IN
      IF k \in DOMAIN batch THEN batch[k].outcome ELSE Skipped])

(* apply_verification: a candidate without a verdict is SKIPPED.            *)
ApplyVerification(plan, batch) ==
  Extended(plan.outcomes, [r \in Range(plan.pending) |->
    LET k == CHOOSE x \in DOMAIN plan.pending : plan.pending[x] = r IN
      IF k \in Judged(plan, batch) THEN batch[Max(EntriesOf(plan, batch, k))].outcome
      ELSE Skipped])

(* _store_cache for the verdicts of the model, the first for a key stays.   *)
StoreVerdicts(cache, plans, batches) ==
  LET new(p) == {<<plans[p].text, plans[p].pending[k]>> : k \in Judged(plans[p], batches[p])}
      first(key) == Min({p \in DOMAIN plans : key \in new(p)})
  IN Extended(cache, [key \in UNION {new(p) : p \in DOMAIN plans} |->
                        ApplyVerification(plans[first(key)], batches[first(key)])[key[2]]])

-----------------------------------------------------------------------------
(* Stage 5: the rows of a claim, rank by rank.                              *)

Row(scored, outcome) ==
  LET c == scored.candidate
      sim == [semantic |-> c.semantic, lexical |-> c.lexical, keyword |-> c.keyword,
              reranker |-> scored.reranker]
      percentage == Percentage(sim, outcome.verdict, c.hasAbstract)
  IN [ref |-> c.ref, verdict |-> outcome.verdict, about |-> outcome.about,
      hasAbstract |-> c.hasAbstract, reranker |-> scored.reranker, percentage |-> percentage,
      label |-> LabelFor(percentage, outcome.verdict, c.hasAbstract)]

(* Mutant: the rows stay in the order of the reranker.                      *)
RowsByReranker(plan, batch) ==
  LET outcomes == ApplyVerification(plan, batch)
  IN [k \in DOMAIN plan.top |-> Row(plan.top[k], outcomes[plan.top[k].candidate.ref])]

(* _persist_claim                                                           *)
Rows(plan, batch) ==
  LET outcomes == ApplyVerification(plan, batch)
      rows == [k \in DOMAIN plan.top |-> Row(plan.top[k], outcomes[plan.top[k].candidate.ref])]
  IN Descending(rows, [k \in DOMAIN rows |-> rows[k].percentage])

-----------------------------------------------------------------------------
(* GET /drafts/{id}/best-references: the first row of every claim, best     *)
(* first, a reference once.  recs: claim -> rows.                           *)
TopRows(recs) ==
  LET ids == Ascending({i \in DOMAIN recs : recs[i] # <<>>})
      rows == [k \in DOMAIN ids |-> recs[ids[k]][1]]
  IN Descending(rows, [k \in DOMAIN rows |-> rows[k].percentage])

(* Mutant: a reference is listed for every claim it is the best of.         *)
RepeatedReferences(recs, limit) == Take(TopRows(recs), limit)

BestReferences(recs, limit) ==
  LET rows == TopRows(recs)
      fresh == {k \in DOMAIN rows : \A l \in 1 .. k - 1 : rows[l].ref # rows[k].ref}
  IN Take(Kept(rows, fresh), limit)
=============================================================================
