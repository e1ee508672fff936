------------------------- MODULE AnalysisStagesProofs -------------------------
(***************************************************************************)
(* What holds of AnalysisStages for any draft, any number of calls and     *)
(* threads and any answers: the calls of the client are bounded and paced, *)
(* and every table keeps what was computed with what it was computed of.   *)
(*                                                                         *)
(* The first part is about the functions of the stages: that decisions,    *)
(* verdicts and scores stay with what they are about through every sort,   *)
(* slice and merge, that nothing is listed twice, and that a goal is       *)
(* grounded in the keywords of its group.  A stage is a chain of such      *)
(* functions; each lemma is about one of them, and says of its result what *)
(* the next one needs.                                                     *)
(***************************************************************************)
EXTENDS AnalysisStages, OrderingProofs

-----------------------------------------------------------------------------
(* Extremes, and selections from a sequence.                                *)

(* The greatest and the least of a finite set of integers.                  *)
LEMMA MaxIsGreatest ==
  ASSUME NEW S \in SUBSET Int, IsFiniteSet(S), S # {}
  PROVE  Max(S) \in S /\ \A y \in S : Max(S) >= y
BY GreatestOfFinite DEF Max

LEMMA MinIsLeast ==
  ASSUME NEW S \in SUBSET Int, IsFiniteSet(S), S # {}
  PROVE  Min(S) \in S /\ \A y \in S : Min(S) <= y
<1> DEFINE N == {0 - x : x \in S}
<1>1. N \in SUBSET Int /\ N # {}
  <2>1. PICK x \in S : TRUE
    OBVIOUS
  <2>2. 0 - x \in N
    OBVIOUS
  <2>3. \A y \in N : y \in Int
    OBVIOUS
  <2> HIDE DEF N
  <2>4. QED
    BY <2>2, <2>3
<1>2. IsFiniteSet(N)
  <2> DEFINE f == [x \in S |-> 0 - x]
  <2>1. f \in Surjection(S, N)
    BY DEF Surjection
  <2> HIDE DEF f, N
  <2>2. QED
    BY <2>1, FS_Surjection
<1>3. PICK m \in N : \A y \in N : m >= y
  <2> HIDE DEF N
  <2>1. QED
    BY <1>1, <1>2, GreatestOfFinite
<1>4. PICK x \in S : m = 0 - x
  OBVIOUS
<1>5. \A y \in S : x <= y
  <2> TAKE y \in S
  <2>1. m >= 0 - y /\ x \in Int /\ y \in Int
    BY <1>3
  <2>2. QED
    BY <1>4, <2>1
<1>6. QED
  BY <1>5 DEF Min

(* The least of a set of naturals, finite or not.                           *)
LEMMA MinOfNaturals ==
  ASSUME NEW S \in SUBSET Nat, S # {}
  PROVE  Min(S) \in S /\ \A y \in S : Min(S) <= y
BY LeastNatural DEF Min

(* A function extended to where it is not defined yet.                      *)
LEMMA ExtendedDomain ==
  ASSUME NEW f, NEW g
  PROVE  DOMAIN Extended(f, g) = DOMAIN f \cup DOMAIN g
BY DEF Extended

(* It keeps what it had.                                                    *)
LEMMA ExtendedKeeps ==
  ASSUME NEW f, NEW g, NEW x \in DOMAIN f
  PROVE  Extended(f, g)[x] = f[x]
BY DEF Extended

(* What it did not have, it takes from the other.                           *)
LEMMA ExtendedAdds ==
  ASSUME NEW f, NEW g, NEW x \in DOMAIN g, x \notin DOMAIN f
  PROVE  Extended(f, g)[x] = g[x]
BY DEF Extended

(* A sequence is one over every larger set.                                 *)
LEMMA SequenceOfMore ==
  ASSUME NEW S, NEW T, S \subseteq T, NEW s \in Seq(S)
  PROVE  s \in Seq(T) /\ \A k \in DOMAIN s : s[k] \in T
<1>1. \A k \in 1 .. Len(s) : s[k] \in T
  OBVIOUS
<1>2. QED
  BY <1>1

(* A sequence is one over what it holds, and only that.                     *)
LEMMA SequenceOfItsRange ==
  ASSUME NEW S, NEW s \in Seq(S)
  PROVE  s \in Seq(Range(s))
<1>1. \A k \in 1 .. Len(s) : s[k] \in Range(s)
  BY DEF Range
<1> DEFINE R == Range(s)
<1> HIDE DEF R
<1>2. s \in Seq(R)
  BY <1>1 DEF R
<1>3. QED
  BY <1>2 DEF R

(* Some elements of a sequence, each at most once.                          *)
Selects(at, t, s) ==
  /\ at \in [DOMAIN t -> DOMAIN s]
  /\ \A i, j \in DOMAIN t : at[i] = at[j] => i = j
  /\ \A k \in DOMAIN t : t[k] = s[at[k]]
Selection(t, s) == \E at : Selects(at, t, s)

(* Selecting twice is selecting.                                            *)
LEMMA SelectionOfSelection ==
  ASSUME NEW s, NEW t, NEW u, Selection(t, s), Selection(u, t)
  PROVE  Selection(u, s)
<1>1. PICK f : Selects(f, t, s)
  BY DEF Selection
<1>2. PICK g : Selects(g, u, t)
  BY DEF Selection
<1> DEFINE h == [k \in DOMAIN u |-> f[g[k]]]
<1>3. Selects(h, u, s)
  BY <1>1, <1>2 DEF Selects
<1>4. QED
  BY <1>3 DEF Selection

(* No claim twice, also in a selection.                                     *)
OwnClaims(s) == \A i, j \in DOMAIN s : s[i].claim = s[j].claim => i = j

LEMMA SelectedClaims ==
  ASSUME NEW s, NEW t, Selection(t, s), OwnClaims(s)
  PROVE  OwnClaims(t)
<1>1. PICK at : Selects(at, t, s)
  BY DEF Selection
<1>2. QED
  BY <1>1 DEF Selects, OwnClaims

(* A sort selects everything.                                               *)
LEMMA DescendingSelects ==
  ASSUME NEW X, NEW seq \in Seq(X), NEW key \in [DOMAIN seq -> Int]
  PROVE  Descending(seq, key) \in Seq(X) /\ Selection(Descending(seq, key), seq)
<1>1. PICK order : /\ Permutes(order, seq)
                   /\ \A k \in DOMAIN seq : Descending(seq, key)[k] = seq[order[k]]
  BY DescendingSorts
<1>2. DOMAIN Descending(seq, key) = DOMAIN seq /\ Descending(seq, key) \in Seq(X)
  BY DescendingSorts
<1>3. Selects(order, Descending(seq, key), seq)
  BY <1>1, <1>2 DEF Permutes, Selects
<1>4. QED
  BY <1>2, <1>3 DEF Selection

(* A prefix is a selection.                                                 *)
LEMMA TakeSelects ==
  ASSUME NEW X, NEW seq \in Seq(X), NEW n \in Nat
  PROVE  Take(seq, n) \in Seq(X) /\ Selection(Take(seq, n), seq)
<1> DEFINE t == Take(seq, n)
<1>1. t \in Seq(X) /\ DOMAIN t \subseteq DOMAIN seq /\ \A k \in DOMAIN t : t[k] = seq[k]
  BY TakeIsPrefix
<1> HIDE DEF t
<1>2. Selects([k \in DOMAIN t |-> k], t, seq)
  BY <1>1 DEF Selects
<1>3. QED
  BY <1>1, <1>2 DEF Selection, t

(* So is a filter.                                                          *)
LEMMA KeptSelects ==
  ASSUME NEW X, NEW seq \in Seq(X), NEW S \in SUBSET DOMAIN seq
  PROVE  Kept(seq, S) \in Seq(X) /\ Selection(Kept(seq, S), seq)
<1> DEFINE t == Kept(seq, S)
<1>1. /\ t \in Seq(X)
      /\ \E at : /\ at \in [DOMAIN t -> S] /\ \A k \in DOMAIN t : t[k] = seq[at[k]]
                 /\ \A i, j \in DOMAIN t : i < j => at[i] < at[j]
  BY KeptInOrder
<1> HIDE DEF t
<1>2. PICK at : /\ at \in [DOMAIN t -> S] /\ \A k \in DOMAIN t : t[k] = seq[at[k]]
                /\ \A i, j \in DOMAIN t : i < j => at[i] < at[j]
  BY <1>1
<1>3. \A i, j \in DOMAIN t : at[i] = at[j] => i = j
  <2> TAKE i \in DOMAIN t, j \in DOMAIN t
  <2>1. i \in Int /\ j \in Int /\ at[i] \in Int /\ at[j] \in Int
    BY <1>1, <1>2
  <2>2. QED
    BY <1>2, <2>1
<1>4. Selects(at, t, seq)
  BY <1>2, <1>3 DEF Selects
<1>5. QED
  BY <1>1, <1>4 DEF Selection, t

-----------------------------------------------------------------------------
(* Retrieval and prerank.                                                   *)

(* A candidate of prerank.                                                  *)
Candidate ==
  [ref : References, semantic : Int, lexical : Int, keyword : Int, hasAbstract : BOOLEAN]

(* Every text has its scores with every reference.                          *)
LEMMA ScoresTyped ==
  ASSUME NEW text \in Texts, NEW r \in References
  PROVE  Semantic[text][r] \in Int /\ Bm25[text][r] \in Int /\ CrossEncoder[text][r] \in Int
BY ScoresAssumption

(* The search finds references, each once.                                  *)
LEMMA VectorSearchFinds ==
  ASSUME NEW text \in Texts
  PROVE  /\ VectorSearch(text) \in Seq(References)
         /\ \A i, j \in DOMAIN VectorSearch(text) :
              VectorSearch(text)[i] = VectorSearch(text)[j] => i = j
<1> DEFINE S == Embedded \cap RecentEnough
           refs == Ascending(S)
           key == [k \in DOMAIN refs |-> Semantic[text][refs[k]]]
           found == Take(Descending(refs, key), RetrievalLimit)
<1>1. S \in SUBSET Int /\ S \subseteq References /\ IsFiniteSet(S)
  <2>1. S \subseteq References
    BY ReferencesAssumption
  <2> HIDE DEF S
  <2>2. IsFiniteSet(S)
    BY <2>1, ReferencesAssumption, FS_Subset
  <2>3. QED
    BY <2>1, <2>2, ReferencesAssumption
<1> HIDE DEF S
<1>2. /\ refs \in Seq(S) /\ DOMAIN refs = 1 .. Len(refs)
      /\ \A i, j \in DOMAIN refs : i < j => refs[i] < refs[j]
  BY <1>1, AscendingEnumerates
<1> HIDE DEF refs
<1>3. refs \in Seq(References) /\ \A k \in DOMAIN refs : refs[k] \in References
  BY <1>1, <1>2, SequenceOfMore
<1>4. \A i, j \in DOMAIN refs : refs[i] = refs[j] => i = j
  <2> TAKE i \in DOMAIN refs, j \in DOMAIN refs
  <2>1. i \in Nat /\ j \in Nat
    BY <1>2
  <2>2. refs[i] \in Nat
    <3>1. refs[i] \in References
      BY <1>3
    <3>2. QED
      BY <3>1, ReferencesAssumption
  <2>3. QED
    BY <1>2, <2>1, <2>2
<1>5. key \in [DOMAIN refs -> Int]
  BY <1>3, ScoresTyped
<1> HIDE DEF key
<1>6. Descending(refs, key) \in Seq(References) /\ Selection(Descending(refs, key), refs)
  BY <1>3, <1>5, DescendingSelects
<1>7. /\ found \in Seq(References) /\ Selection(found, Descending(refs, key))
  BY <1>6, LimitsAssumption, TakeSelects
<1>8. Selection(found, refs)
  BY <1>6, <1>7, SelectionOfSelection
<1>9. VectorSearch(text) = found
  BY DEF VectorSearch, refs, key, S
<1> HIDE DEF found
<1>10. QED
  BY <1>4, <1>7, <1>8, <1>9 DEF Selection, Selects

(* The min-max of the found references is a number.                         *)
LEMMA LexicalTyped ==
  ASSUME NEW text \in Texts, NEW refs \in SUBSET References, refs # {}
  PROVE  \A r \in refs : Lexical(text, refs)[r] \in Int
<1> DEFINE known == refs \cap Indexed
           raw == {Bm25[text][r] : r \in known}
           low == Min(raw)
           span == Max(raw) - low
           value(r) == CASE raw = {} -> 0
                         [] raw # {} /\ span = 0 -> IF low > 0 THEN 100 ELSE 0
                         [] OTHER -> IF r \in Indexed
                                     THEN (100 * (Bm25[text][r] - low)) \div span ELSE 0
<1>1. raw \in SUBSET Int
  BY ScoresTyped
<1>2. IsFiniteSet(raw)
  <2> DEFINE f == [r \in known |-> Bm25[text][r]]
  <2>1. IsFiniteSet(known)
    BY ReferencesAssumption, FS_Subset
  <2>2. f \in Surjection(known, raw)
    BY DEF Surjection
  <2> HIDE DEF f, raw, known
  <2>3. QED
    BY <2>1, <2>2, FS_Surjection
<1>6. Lexical(text, refs) = [r \in refs |-> value(r)]
  BY DEF Lexical, value, raw, low, span, known
<1> HIDE DEF raw, known
<1>3. raw # {} => low \in raw /\ Max(raw) \in raw /\ Max(raw) >= low
  BY <1>1, <1>2, MaxIsGreatest, MinIsLeast
<1>4. raw # {} => low \in Int /\ span \in Nat
  <2> SUFFICES ASSUME raw # {} PROVE low \in Int /\ span \in Nat
    OBVIOUS
  <2>1. PICK x \in Int, y \in Int : x = low /\ y = Max(raw)
    BY <1>1, <1>3
  <2>2. QED
    BY <1>3, <2>1
<1> HIDE DEF low, span
<1>5. ASSUME NEW r \in refs PROVE value(r) \in Int
  <2>1. CASE raw = {} \/ span = 0 \/ r \notin Indexed
    BY <2>1
  <2>2. CASE raw # {} /\ span # 0 /\ r \in Indexed
    <3>1. PICK b \in Int : b = 100 * (Bm25[text][r] - low)
      BY <1>4, <2>2, ScoresTyped
    <3>2. b \div span \in Int
      BY <1>4, <2>2
    <3>3. QED
      BY <2>2, <3>1, <3>2
  <2>3. QED
    BY <2>1, <2>2
<1> HIDE DEF value
<1>7. QED
  BY <1>5, <1>6

(* So is the Jaccard index, also of empty sets.                             *)
LEMMA KeywordOverlapTyped ==
  ASSUME NEW text \in Texts, NEW r \in References
  PROVE  KeywordOverlap(text, r) \in Int
<1> DEFINE a == ClaimTokens[text]
           b == ReferenceTokens[r]
<1>1. IsFiniteSet(a) /\ IsFiniteSet(b)
  BY TokensAssumption
<1> HIDE DEF a, b
<1>2. IsFiniteSet(a \cap b) /\ IsFiniteSet(a \cup b)
  BY <1>1, FS_Subset, FS_Union
<1>3. Cardinality(a \cap b) \in Nat /\ Cardinality(a \cup b) \in Nat
  BY <1>2, FS_CardinalityType
<1>4. a # {} => Cardinality(a \cup b) # 0
  BY <1>2, FS_EmptySet
<1>5. a # {} => (100 * Cardinality(a \cap b)) \div Cardinality(a \cup b) \in Int
  BY <1>3, <1>4
<1>6. QED
  BY <1>5 DEF KeywordOverlap, a, b

(* The candidates of a text are of distinct references.                     *)
LEMMA PrerankFinds ==
  ASSUME NEW text \in Texts, NEW ab
  PROVE  /\ Prerank(text, ab) \in Seq(Candidate)
         /\ \A i, j \in DOMAIN Prerank(text, ab) :
              Prerank(text, ab)[i].ref = Prerank(text, ab)[j].ref => i = j
<1> DEFINE found == VectorSearch(text)
           candidate(r) ==
             [ref |-> r, semantic |-> Semantic[text][r],
              lexical |-> Lexical(text, Range(found))[r],
              keyword |-> KeywordOverlap(text, r), hasAbstract |-> r \in ab]
           all == [k \in DOMAIN found |-> candidate(found[k])]
           blend == [k \in DOMAIN all |->
                       55 * all[k].semantic + 20 * all[k].lexical + 15 * all[k].keyword]
           best == Take(Descending(all, blend), RerankLimit)
<1>1. found \in Seq(References) /\ \A i, j \in DOMAIN found : found[i] = found[j] => i = j
  BY VectorSearchFinds
<1> HIDE DEF found
<1>2. \A k \in DOMAIN found : found[k] \in References /\ found[k] \in Range(found)
  BY <1>1 DEF Range
<1>3. \A k \in DOMAIN found : candidate(found[k]) \in Candidate
  <2> TAKE k \in DOMAIN found
  <2>1. Range(found) \in SUBSET References /\ Range(found) # {}
    BY <1>2 DEF Range
  <2>2. Lexical(text, Range(found))[found[k]] \in Int
    BY <1>2, <2>1, LexicalTyped
  <2>3. QED
    BY <1>2, <2>2, ScoresTyped, KeywordOverlapTyped DEF Candidate
<1> HIDE DEF candidate
<1>4. /\ all \in Seq(Candidate) /\ DOMAIN all = DOMAIN found
      /\ \A k \in DOMAIN all : all[k] \in Candidate /\ all[k].ref = found[k]
  <2>1. \A k \in DOMAIN found : all[k] \in Candidate /\ all[k].ref = found[k]
    BY <1>3 DEF candidate
  <2>2. QED
    BY <1>1, <2>1
<1> HIDE DEF all
<1>5. blend \in [DOMAIN all -> Int]
  BY <1>4 DEF Candidate
<1> HIDE DEF blend
<1>6. Descending(all, blend) \in Seq(Candidate) /\ Selection(Descending(all, blend), all)
  BY <1>4, <1>5, DescendingSelects
<1>7. best \in Seq(Candidate) /\ Selection(best, Descending(all, blend))
  BY <1>6, LimitsAssumption, TakeSelects
<1>8. Selection(best, all)
  BY <1>6, <1>7, SelectionOfSelection
<1>9. Prerank(text, ab) = best
  BY DEF Prerank, best, blend, all, candidate, found
<1> HIDE DEF best
<1>10. PICK at : Selects(at, best, all)
  BY <1>8 DEF Selection
<1>11. \A i, j \in DOMAIN best : best[i].ref = best[j].ref => i = j
  BY <1>1, <1>4, <1>10 DEF Selects
<1>12. QED
  BY <1>7, <1>9, <1>11

(* What the stage reads of the claims.                                      *)
ClaimTable(cs) ==
  /\ DOMAIN cs \subseteq Nat /\ IsFiniteSet(DOMAIN cs)
  /\ \A i \in DOMAIN cs : cs[i].text \in Texts /\ cs[i].confidence \in Int

(* Lists of candidates that name no reference twice, and what is prepared   *)
(* of the claims: a claim with its own text and such a list.                *)
CandidateLists ==
  {c \in Seq(Candidate) : \A i, j \in DOMAIN c : c[i].ref = c[j].ref => i = j}
Items(cs) ==
  {[claim |-> i, text |-> cs[i].text, candidates |-> c] :
     i \in DOMAIN cs, c \in CandidateLists}

(* What is retrieved for is a claim, and none twice, under the limit and    *)
(* without one.                                                             *)
LEMMA RetrievedAreClaims ==
  ASSUME NEW cs, ClaimTable(cs)
  PROVE  /\ ClaimsToRetrieve(cs) \in Seq(DOMAIN cs)
         /\ \A k, l \in DOMAIN ClaimsToRetrieve(cs) :
              ClaimsToRetrieve(cs)[k] = ClaimsToRetrieve(cs)[l] => k = l
<1> DEFINE D == DOMAIN cs
           N == {i \in DOMAIN cs : cs[i].needs}
           needy == Ascending(N)
           confidence == [k \in DOMAIN needy |-> cs[needy[k]].confidence]
           confident == Take(Descending(needy, confidence), RetrieveClaimLimit)
<1>1. N \subseteq D /\ N \in SUBSET Int /\ IsFiniteSet(N) /\ D \subseteq Nat
  <2>1. N \subseteq D /\ D \subseteq Nat
    BY DEF ClaimTable
  <2>2. IsFiniteSet(D)
    BY DEF ClaimTable
  <2> HIDE DEF N, D
  <2>3. IsFiniteSet(N)
    BY <2>1, <2>2, FS_Subset
  <2>4. QED
    BY <2>1, <2>3
<1>2. \A i \in D : cs[i].confidence \in Int
  BY DEF ClaimTable
<1>3. ClaimsToRetrieve(cs) =
        IF RetrieveClaimLimit = 0 \/ Len(needy) <= RetrieveClaimLimit THEN needy
        ELSE Ascending(Range(confident))
  BY DEF ClaimsToRetrieve
<1> HIDE DEF N, D
<1>a. ASSUME NEW S \in SUBSET Int, IsFiniteSet(S)
      PROVE  /\ Ascending(S) \in Seq(S)
             /\ \A k, l \in DOMAIN Ascending(S) : Ascending(S)[k] = Ascending(S)[l] => k = l
  <2> DEFINE o == Ascending(S)
  <2>1. o \in Seq(S) /\ \A i, j \in DOMAIN o : i < j => o[i] < o[j]
    BY <1>a, AscendingEnumerates
  <2> HIDE DEF o
  <2>2. \A k \in DOMAIN o : k \in Int /\ o[k] \in Int
    <3>1. Len(o) \in Nat /\ \A k \in DOMAIN o : o[k] \in S /\ k \in 1 .. Len(o)
      BY <2>1
    <3>2. PICK n \in Nat : n = Len(o)
      BY <3>1
    <3>3. \A k \in 1 .. n : k \in Int
      OBVIOUS
    <3>4. \A x \in S : x \in Int
      OBVIOUS
    <3>5. QED
      BY <3>1, <3>2, <3>3, <3>4, Zenon
  <2>3. \A k, l \in DOMAIN o : o[k] = o[l] => k = l
    BY <2>1, <2>2
  <2>4. QED
    BY <2>1, <2>3 DEF o
<1>4. needy \in Seq(N) /\ \A k, l \in DOMAIN needy : needy[k] = needy[l] => k = l
  BY <1>1, <1>a
<1> HIDE DEF needy
<1>5. needy \in Seq(D) /\ \A k \in DOMAIN needy : needy[k] \in D
  BY <1>1, <1>4, SequenceOfMore
<1>6. confidence \in [DOMAIN needy -> Int]
  BY <1>2, <1>5
<1> HIDE DEF confidence
<1>7. Descending(needy, confidence) \in Seq(D)
  BY <1>5, <1>6, DescendingSelects
<1>8. confident \in Seq(D)
  BY <1>7, LimitsAssumption, TakeSelects
<1> HIDE DEF confident
<1> DEFINE chosen == Ascending(Range(confident))
<1>9. chosen \in Seq(D) /\ \A k, l \in DOMAIN chosen : chosen[k] = chosen[l] => k = l
  <2> DEFINE R == Range(confident)
  <2>1. R \subseteq D
    BY <1>8, SequenceOfMore DEF Range
  <2>2. IsFiniteSet(R) /\ R \in SUBSET Int
    <3>1. IsFiniteSet(D)
      BY DEF ClaimTable, D
    <3> HIDE DEF R
    <3>2. IsFiniteSet(R)
      BY <2>1, <3>1, FS_Subset
    <3>3. QED
      BY <1>1, <2>1, <3>2 DEF D
  <2>c. chosen = Ascending(R)
    OBVIOUS
  <2> HIDE DEF R, chosen
  <2>3. chosen \in Seq(R) /\ \A k, l \in DOMAIN chosen : chosen[k] = chosen[l] => k = l
    BY <2>2, <2>c, <1>a
  <2>4. chosen \in Seq(D)
    BY <2>1, <2>3, SequenceOfMore
  <2>5. QED
    BY <2>3, <2>4
<1>10. ClaimsToRetrieve(cs) = needy \/ ClaimsToRetrieve(cs) = chosen
  BY <1>3
<1> HIDE DEF chosen
<1>11. QED
  BY <1>4, <1>5, <1>9, <1>10 DEF D

(* Every prepared claim has candidates, and none is prepared twice.         *)
LEMMA PreparedItems ==
  ASSUME NEW cs, ClaimTable(cs), NEW ab
  PROVE  /\ Prepared(cs, ab) \in Seq(Items(cs))
         /\ \A k \in DOMAIN Prepared(cs, ab) :
              Prepared(cs, ab)[k].candidates # <<>>
         /\ OwnClaims(Prepared(cs, ab))
<1> DEFINE ids == ClaimsToRetrieve(cs)
           item(i) == [claim |-> i, text |-> cs[i].text,
                       candidates |-> Prerank(cs[i].text, ab)]
           items == [k \in DOMAIN ids |-> item(ids[k])]
           S == {k \in DOMAIN items : items[k].candidates # <<>>}
<1>1. ids \in Seq(DOMAIN cs) /\ \A k, l \in DOMAIN ids : ids[k] = ids[l] => k = l
  BY RetrievedAreClaims
<1>2. Prepared(cs, ab) = Kept(items, S)
  BY DEF Prepared
<1> HIDE DEF ids
<1>o. OwnClaims(items)
  BY <1>1 DEF OwnClaims
<1>3. \A i \in DOMAIN cs : item(i) \in Items(cs)
  <2> TAKE i \in DOMAIN cs
  <2>1. Prerank(cs[i].text, ab) \in CandidateLists
    BY PrerankFinds DEF ClaimTable, CandidateLists
  <2>2. QED
    BY <2>1 DEF Items
<1> HIDE DEF item
<1>4. items \in Seq(Items(cs))
  <2>1. \A k \in 1 .. Len(ids) : ids[k] \in DOMAIN cs
    BY <1>1
  <2>2. \A k \in 1 .. Len(ids) : item(ids[k]) \in Items(cs)
    BY <1>3, <2>1
  <2>3. QED
    BY <1>1, <2>2
<1>5. S \in SUBSET DOMAIN items
  OBVIOUS
<1>6. \A k \in S : items[k].candidates # <<>>
  OBVIOUS
<1> HIDE DEF items, S
<1> DEFINE kept == Kept(items, S)
<1>7. /\ kept \in Seq(Items(cs))
      /\ \E at : at \in [DOMAIN kept -> S] /\ \A k \in DOMAIN kept : kept[k] = items[at[k]]
  <2> DEFINE I == Items(cs)
  <2> HIDE DEF I
  <2>1. items \in Seq(I)
    BY <1>4 DEF I
  <2>2. /\ kept \in Seq(I)
        /\ \E at : /\ at \in [DOMAIN kept -> S]
                   /\ \A k \in DOMAIN kept : kept[k] = items[at[k]]
                   /\ \A x \in S : \E k \in DOMAIN kept : at[k] = x
                   /\ \A i, j \in DOMAIN kept : i < j => at[i] < at[j]
    BY <1>5, <2>1, KeptInOrder
  <2> HIDE DEF kept
  <2>3. QED
    BY <2>2 DEF I
<1>8. \A k \in DOMAIN kept : kept[k].candidates # <<>>
  <2> HIDE DEF kept
  <2>1. QED
    BY <1>6, <1>7
<1>9. OwnClaims(kept)
  <2> DEFINE I == Items(cs)
  <2> HIDE DEF I
  <2>1. items \in Seq(I)
    BY <1>4 DEF I
  <2>2. Selection(kept, items)
    BY <1>5, <2>1, KeptSelects
  <2> HIDE DEF kept
  <2>3. QED
    BY <1>o, <2>2, SelectedClaims
<1>10. QED
  BY <1>2, <1>7, <1>8, <1>9

-----------------------------------------------------------------------------
(* Scoring.                                                                 *)

(* Every claim gets back the scores of its own pairs.                       *)
LEMMA ScoresOfOwnPairs ==
  ASSUME NEW cs, ClaimTable(cs), NEW prepared \in Seq(Items(cs))
  PROVE  /\ DOMAIN RerankAll(prepared) = DOMAIN prepared
         /\ \A k \in DOMAIN prepared :
              /\ RerankAll(prepared)[k] \in Seq(Int)
              /\ DOMAIN RerankAll(prepared)[k] = DOMAIN prepared[k].candidates
              /\ \A c \in DOMAIN prepared[k].candidates :
                   RerankAll(prepared)[k][c] =
                     CrossEncoder[prepared[k].text][prepared[k].candidates[c].ref]
<1> DEFINE pairsOf(k) == [c \in DOMAIN prepared[k].candidates |->
                            <<prepared[k].text, prepared[k].candidates[c].ref>>]
           parts == [k \in DOMAIN prepared |-> pairsOf(k)]
           pairs == Concatenated(parts)
           scores == [p \in DOMAIN pairs |-> CrossEncoder[pairs[p][1]][pairs[p][2]]]
           counts == [k \in DOMAIN prepared |-> Len(prepared[k].candidates)]
           at == Totals(counts)
           n == Len(prepared)
<1>1. n \in Nat /\ DOMAIN prepared = 1 .. n
  OBVIOUS
<1>2. \A k \in DOMAIN prepared :
        prepared[k].candidates \in Seq(Candidate) /\ prepared[k].text \in Texts
  <2> TAKE k \in DOMAIN prepared
  <2>1. prepared[k] \in Items(cs)
    BY <1>1
  <2>2. PICK i \in DOMAIN cs, c \in CandidateLists :
          prepared[k] = [claim |-> i, text |-> cs[i].text, candidates |-> c]
    BY <2>1 DEF Items
  <2>3. QED
    BY <2>2 DEF CandidateLists, ClaimTable
<1>3. ASSUME NEW k \in DOMAIN prepared
      PROVE  /\ pairsOf(k) \in Seq(Texts \X References)
             /\ Len(pairsOf(k)) = Len(prepared[k].candidates)
  <2>1. \A c \in 1 .. Len(prepared[k].candidates) :
          prepared[k].candidates[c].ref \in References
    <3>1. \A c \in 1 .. Len(prepared[k].candidates) : prepared[k].candidates[c] \in Candidate
      BY <1>2
    <3>2. QED
      BY <3>1 DEF Candidate
  <2>2. pairsOf(k) \in [1 .. Len(prepared[k].candidates) -> Texts \X References]
    BY <1>2, <2>1
  <2>3. Len(prepared[k].candidates) \in Nat
    BY <1>2
  <2> HIDE DEF pairsOf
  <2>4. QED
    BY <2>2, <2>3
<1>4. parts \in Seq(Seq(Texts \X References)) /\ Len(parts) = n /\ DOMAIN parts = DOMAIN prepared
  <2> HIDE DEF pairsOf
  <2>1. parts \in [1 .. n -> Seq(Texts \X References)]
    BY <1>1, <1>3
  <2> HIDE DEF parts, n
  <2>2. QED
    BY <1>1, <2>1
<1>5. counts = [k \in DOMAIN parts |-> Len(parts[k])]
  BY <1>3, <1>4
<1>6. \A k \in DOMAIN prepared : parts[k] = pairsOf(k) /\ Len(parts[k]) = counts[k]
  BY <1>3
<1> HIDE DEF parts
<1>7. /\ pairs \in Seq(Texts \X References)
      /\ at \in [0 .. n -> Nat]
      /\ \A k \in 1 .. n :
           /\ at[k] = at[k - 1] + Len(parts[k]) /\ at[k] <= Len(pairs)
           /\ \A c \in 1 .. Len(parts[k]) : pairs[at[k - 1] + c] = parts[k][c]
  <2> DEFINE P == Texts \X References
             offset == Totals([k \in DOMAIN parts |-> Len(parts[k])])
             whole == Concatenated(parts)
  <2>1. parts \in Seq(Seq(P))
    BY <1>4
  <2> HIDE DEF P
  <2>2. /\ whole \in Seq(P) /\ offset \in [0 .. Len(parts) -> Nat]
        /\ \A k \in 1 .. Len(parts) :
             /\ offset[k] = offset[k - 1] + Len(parts[k]) /\ offset[k] <= Len(whole)
             /\ \A c \in 1 .. Len(parts[k]) : whole[offset[k - 1] + c] = parts[k][c]
    BY <2>1, ConcatenatedSlices
  <2> HIDE DEF offset, whole, counts
  <2>3. at = offset /\ pairs = whole
    BY <1>5 DEF offset, whole
  <2> HIDE DEF at, pairs
  <2>4. QED
    BY <1>4, <2>2, <2>3 DEF P
<1> HIDE DEF pairs, at
<1>8. scores \in Seq(Int) /\ Len(scores) = Len(pairs)
  <2>1. \A p \in 1 .. Len(pairs) : CrossEncoder[pairs[p][1]][pairs[p][2]] \in Int
    BY <1>7, ScoresTyped
  <2>2. Len(pairs) \in Nat /\ DOMAIN pairs = 1 .. Len(pairs)
    BY <1>7
  <2>3. scores \in [1 .. Len(pairs) -> Int]
    BY <2>1, <2>2
  <2> HIDE DEF scores
  <2>4. QED
    BY <2>2, <2>3
<1>9. \A p \in 1 .. Len(pairs) : scores[p] = CrossEncoder[pairs[p][1]][pairs[p][2]]
  BY <1>7
<1> HIDE DEF scores
<1>10. RerankAll(prepared) =
         [k \in DOMAIN prepared |-> SubSeq(scores, at[k - 1] + 1, at[k - 1] + counts[k])]
  BY DEF RerankAll, scores, pairs, parts, at
<1>11. ASSUME NEW k \in DOMAIN prepared
       PROVE  LET slice == SubSeq(scores, at[k - 1] + 1, at[k - 1] + counts[k]) IN
              /\ slice \in Seq(Int) /\ DOMAIN slice = DOMAIN prepared[k].candidates
              /\ \A c \in DOMAIN prepared[k].candidates :
                   slice[c] = CrossEncoder[prepared[k].text][prepared[k].candidates[c].ref]
  <2>1. /\ counts[k] \in Nat /\ DOMAIN prepared[k].candidates = 1 .. counts[k]
        /\ Len(parts[k]) = counts[k] /\ k - 1 \in 0 .. n /\ k \in 1 .. n
    <3>1. k \in 1 .. n
      BY <1>1
    <3>2. k - 1 \in 0 .. n
      BY <1>1, <3>1
    <3>3. counts[k] \in Nat /\ DOMAIN prepared[k].candidates = 1 .. counts[k]
      BY <1>2
    <3>4. QED
      BY <1>6, <3>1, <3>2, <3>3
  <2>2. PICK a \in Nat : a = at[k - 1]
    BY <1>7, <2>1
  <2>3. a + counts[k] <= Len(scores) /\ Len(scores) \in Nat
    BY <1>7, <1>8, <2>1, <2>2
  <2> DEFINE m == counts[k]
             slice == SubSeq(scores, a + 1, a + m)
  <2>4. m \in Nat
    BY <2>1
  <2> HIDE DEF m
  <2>5. slice \in Seq(Int) /\ Len(slice) = m /\ \A c \in 1 .. m : slice[c] = scores[a + c]
    <3>1. \A c \in 1 .. m : a + c \in 1 .. Len(scores) /\ a + 1 + c - 1 = a + c
      BY <2>3, <2>4 DEF m
    <3>2. Len(slice) = m
      BY <1>8, <2>3, <2>4 DEF m
    <3>3. slice \in Seq(Int)
      BY <1>8, <2>3, <2>4, <3>1 DEF m
    <3>4. QED
      BY <1>8, <2>3, <2>4, <3>1, <3>2, <3>3 DEF m
  <2> HIDE DEF slice
  <2>6. \A c \in 1 .. m :
          slice[c] = CrossEncoder[prepared[k].text][prepared[k].candidates[c].ref]
    <3> TAKE c \in 1 .. m
    <3>1. pairs[a + c] = parts[k][c] /\ a + c \in 1 .. Len(pairs)
      <4>1. pairs[a + c] = parts[k][c]
        BY <1>7, <2>1, <2>2 DEF m
      <4>2. QED
        BY <1>8, <2>3, <2>4, <4>1 DEF m
    <3>2. parts[k][c] = <<prepared[k].text, prepared[k].candidates[c].ref>>
      BY <1>6, <2>1 DEF m
    <3>3. slice[c] = scores[a + c]
      BY <2>5
    <3>4. scores[a + c] = CrossEncoder[pairs[a + c][1]][pairs[a + c][2]]
      BY <1>9, <3>1
    <3>5. PICK text, ref : text = prepared[k].text /\ ref = prepared[k].candidates[c].ref
      OBVIOUS
    <3>6. pairs[a + c] = <<text, ref>>
      BY <3>1, <3>2, <3>5
    <3>7. pairs[a + c][1] = text /\ pairs[a + c][2] = ref
      BY <3>6
    <3>8. QED
      BY <3>3, <3>4, <3>5, <3>7
  <2>7. DOMAIN slice = 1 .. m /\ DOMAIN prepared[k].candidates = 1 .. m
    BY <2>1, <2>5 DEF m
  <2>8. slice = SubSeq(scores, at[k - 1] + 1, at[k - 1] + counts[k])
    BY <2>2 DEF m, slice
  <2> HIDE DEF counts
  <2>9. QED
    BY <2>5, <2>6, <2>7, <2>8
<1>12. QED
  BY <1>10, <1>11

(* A candidate with its reranker score; lists of them for a text, each      *)
(* reference once and with the score of its own pair; the claims with such  *)
(* lists.                                                                   *)
Scored == [candidate : Candidate, reranker : Int]
ScoredLists(text) ==
  {s \in Seq(Scored) :
     /\ \A i, j \in DOMAIN s : s[i].candidate.ref = s[j].candidate.ref => i = j
     /\ \A k \in DOMAIN s : s[k].reranker = CrossEncoder[text][s[k].candidate.ref]}
RankedOf(cs, i) ==
  {[claim |-> i, text |-> cs[i].text, scored |-> s] : s \in ScoredLists(cs[i].text)}
RankedItems(cs) == UNION {RankedOf(cs, i) : i \in DOMAIN cs}

(* A selection of a scored list is a scored list.                           *)
LEMMA SelectedScored ==
  ASSUME NEW text, NEW s \in ScoredLists(text), NEW t \in Seq(Scored), Selection(t, s)
  PROVE  t \in ScoredLists(text)
<1>1. PICK at : Selects(at, t, s)
  BY DEF Selection
<1>2. QED
  BY <1>1 DEF Selects, ScoredLists

(* The ranked items are of claims, none twice, each with the scores of its  *)
(* own pairs.                                                               *)
LEMMA RankedClaims ==
  ASSUME NEW cs, ClaimTable(cs), NEW prepared \in Seq(Items(cs)),
         \A k \in DOMAIN prepared : prepared[k].candidates # <<>>, OwnClaims(prepared)
  PROVE  Ranked(prepared) \in Seq(RankedItems(cs)) /\ OwnClaims(Ranked(prepared))
<1> DEFINE X == RankedItems(cs)
           scores == RerankAll(prepared)
           item(k) == [claim |-> prepared[k].claim, text |-> prepared[k].text,
                       scored |-> [c \in DOMAIN scores[k] |->
                                     [candidate |-> prepared[k].candidates[c],
                                      reranker |-> scores[k][c]]]]
           items == [k \in DOMAIN prepared |-> item(k)]
           key == [k \in DOMAIN items |-> Max(Range(scores[k]))]
<1>1. /\ \A k \in DOMAIN prepared :
           /\ scores[k] \in Seq(Int) /\ DOMAIN scores[k] = DOMAIN prepared[k].candidates
           /\ \A c \in DOMAIN prepared[k].candidates :
                scores[k][c] = CrossEncoder[prepared[k].text][prepared[k].candidates[c].ref]
  BY ScoresOfOwnPairs
<1> HIDE DEF scores
<1>2. ASSUME NEW k \in DOMAIN prepared PROVE item(k) \in X
  <2>1. prepared[k] \in Items(cs)
    OBVIOUS
  <2>2. PICK i \in DOMAIN cs, cands \in CandidateLists :
          prepared[k] = [claim |-> i, text |-> cs[i].text, candidates |-> cands]
    BY <2>1 DEF Items
  <2> DEFINE scored == [c \in DOMAIN scores[k] |->
                          [candidate |-> cands[c], reranker |-> scores[k][c]]]
  <2>3. /\ cands \in Seq(Candidate) /\ DOMAIN scores[k] = DOMAIN cands
        /\ \A a, b \in DOMAIN cands : cands[a].ref = cands[b].ref => a = b
        /\ \A c \in DOMAIN cands : /\ cands[c] \in Candidate /\ scores[k][c] \in Int
                                   /\ scores[k][c] = CrossEncoder[cs[i].text][cands[c].ref]
    <3>1. cands \in Seq(Candidate) /\ \A a, b \in DOMAIN cands : cands[a].ref = cands[b].ref => a = b
      BY DEF CandidateLists
    <3>2. prepared[k].candidates = cands /\ prepared[k].text = cs[i].text
      BY <2>2
    <3>3. scores[k] \in Seq(Int) /\ DOMAIN scores[k] = DOMAIN cands
      BY <1>1, <3>2
    <3>4. \A c \in DOMAIN cands : cands[c] \in Candidate /\ scores[k][c] \in Int
      BY <3>1, <3>3
    <3>5. QED
      BY <1>1, <3>1, <3>2, <3>3, <3>4
  <2>4. scored \in ScoredLists(cs[i].text)
    <3>1. scored \in [1 .. Len(cands) -> Scored]
      BY <2>3 DEF Scored
    <3>2. scored \in Seq(Scored)
      <4>1. Len(cands) \in Nat
        BY <2>3
      <4> HIDE DEF scored
      <4>2. QED
        BY <3>1, <4>1
    <3>3. DOMAIN scored = DOMAIN cands
      BY <2>3
    <3>4. \A c \in DOMAIN cands : scored[c].candidate = cands[c] /\ scored[c].reranker = scores[k][c]
      BY <2>3
    <3> HIDE DEF scored
    <3>5. QED
      BY <2>3, <3>2, <3>3, <3>4 DEF ScoredLists
  <2>5. item(k) = [claim |-> i, text |-> cs[i].text, scored |-> scored]
    BY <2>2
  <2> HIDE DEF scored, item
  <2>6. item(k) \in RankedOf(cs, i)
    BY <2>4, <2>5 DEF RankedOf
  <2>7. QED
    BY <2>6 DEF RankedItems
<1>o. OwnClaims(items)
  BY DEF OwnClaims
<1> HIDE DEF item
<1>3. items \in Seq(X) /\ DOMAIN items = DOMAIN prepared
  <2>1. items \in [1 .. Len(prepared) -> X] /\ Len(prepared) \in Nat
    BY <1>2
  <2> HIDE DEF items, X
  <2>2. QED
    BY <2>1
<1>4. \A k \in DOMAIN prepared : Max(Range(scores[k])) \in Int
  <2> TAKE k \in DOMAIN prepared
  <2> DEFINE R == Range(scores[k])
  <2>1. scores[k] \in Seq(Int) /\ DOMAIN scores[k] = DOMAIN prepared[k].candidates
    BY <1>1
  <2>2. R \in SUBSET Int
    BY <2>1 DEF Range
  <2>3. R # {}
    <3>1. prepared[k].candidates \in Seq(Candidate) /\ prepared[k].candidates # <<>>
      <4>1. prepared[k] \in Items(cs)
        OBVIOUS
      <4>2. QED
        BY <4>1 DEF Items, CandidateLists
    <3>2. 1 \in DOMAIN prepared[k].candidates
      BY <3>1
    <3>3. scores[k][1] \in R
      BY <2>1, <3>2 DEF Range
    <3>4. QED
      BY <3>3
  <2>4. IsFiniteSet(R)
    <3>1. scores[k] \in Surjection(DOMAIN scores[k], R)
      BY <2>1 DEF Surjection, Range
    <3>2. IsFiniteSet(DOMAIN scores[k])
      <4>1. IsFiniteSet(1 .. Len(scores[k])) /\ DOMAIN scores[k] = 1 .. Len(scores[k])
        BY <2>1, FS_Interval
      <4>2. QED
        BY <4>1
    <3> HIDE DEF R
    <3>3. QED
      BY <3>1, <3>2, FS_Surjection
  <2> HIDE DEF R
  <2>5. Max(R) \in R
    BY <2>2, <2>3, <2>4, MaxIsGreatest
  <2>6. QED
    BY <2>2, <2>5 DEF R
<1>5. key \in [DOMAIN items -> Int]
  BY <1>3, <1>4
<1>6. Ranked(prepared) = Descending(items, key)
  BY DEF Ranked, items, item, key, scores
<1> HIDE DEF items, key, X
<1>7. Descending(items, key) \in Seq(X) /\ Selection(Descending(items, key), items)
  BY <1>3, <1>5, DescendingSelects
<1>8. OwnClaims(Descending(items, key))
  BY <1>7, <1>o, SelectedClaims
<1>9. QED
  BY <1>6, <1>7, <1>8 DEF X

-----------------------------------------------------------------------------
(* Verification.                                                            *)

(* A cache with every verdict under the pair that it was given for.         *)
CacheSound(cache) ==
  \A key \in DOMAIN cache : cache[key].about = key /\ cache[key].verdict \in Verdicts

(* A verdict on this pair that is in the cache, or none.                    *)
KnownOutcome(cache, text, r, outcome) ==
  /\ outcome.verdict \in Verdicts
  /\ \/ outcome.about = Nobody
     \/ /\ outcome.about = <<text, r>> /\ <<text, r>> \in DOMAIN cache
        /\ cache[<<text, r>>].verdict = outcome.verdict

(* A plan for a claim: what is not known of a chosen candidate is pending,  *)
(* and no candidate is both; nothing that is cached is asked again.         *)
SoundPlan(cs, cache, plan) ==
  /\ plan.claim \in DOMAIN cs /\ plan.text = cs[plan.claim].text
  /\ plan.top \in ScoredLists(plan.text)
  /\ plan.pending \in Seq(References)
  /\ \A i, j \in DOMAIN plan.pending : plan.pending[i] = plan.pending[j] => i = j
  /\ Range(plan.pending) \cap DOMAIN plan.outcomes = {}
  /\ \A k \in DOMAIN plan.pending : <<plan.text, plan.pending[k]>> \notin DOMAIN cache
  /\ \A k \in DOMAIN plan.top :
       plan.top[k].candidate.ref \in DOMAIN plan.outcomes \cup Range(plan.pending)
  /\ \A r \in DOMAIN plan.outcomes : KnownOutcome(cache, plan.text, r, plan.outcomes[r])

(* _plan_claim makes such a plan.                                           *)
LEMMA PlanIsSound ==
  ASSUME NEW cs, NEW item \in RankedItems(cs), NEW cache, CacheSound(cache)
  PROVE  SoundPlan(cs, cache, Plan(item, cache))
<1> DEFINE score == [k \in DOMAIN item.scored |-> item.scored[k].reranker]
           top == Take(Descending(item.scored, score), VerifyLimit)
           refs == {top[k].candidate.ref : k \in DOMAIN top}
           cached == {r \in refs : <<item.text, r>> \in DOMAIN cache}
           bare == {top[k].candidate.ref : k \in {x \in DOMAIN top : ~ top[x].candidate.hasAbstract}}
           S == {k \in DOMAIN top : top[k].candidate.ref \notin cached \cup bare}
           left == Kept(top, S)
           outcomes == [r \in cached \cup bare |->
                          IF r \in cached THEN cache[<<item.text, r>>] ELSE MissingAbstract]
           pending == [k \in DOMAIN left |-> left[k].candidate.ref]
           plan == Plan(item, cache)
<1>1. plan = [claim |-> item.claim, text |-> item.text, top |-> top,
              outcomes |-> outcomes, pending |-> pending]
  BY DEF Plan
<1> HIDE DEF plan
<1>2. item.claim \in DOMAIN cs /\ item.text = cs[item.claim].text
        /\ item.scored \in ScoredLists(item.text)
  <2>1. PICK i \in DOMAIN cs : item \in RankedOf(cs, i)
    BY DEF RankedItems
  <2>2. QED
    BY <2>1 DEF RankedOf
<1>3. top \in ScoredLists(item.text) /\ top \in Seq(Scored)
  <2>1. item.scored \in Seq(Scored)
    BY <1>2 DEF ScoredLists
  <2>2. score \in [DOMAIN item.scored -> Int]
    <3>1. \A k \in DOMAIN item.scored : item.scored[k] \in Scored
      BY <2>1
    <3>2. QED
      BY <3>1 DEF Scored
  <2> HIDE DEF score
  <2> DEFINE sorted == Descending(item.scored, score)
  <2>3. sorted \in Seq(Scored) /\ Selection(sorted, item.scored)
    BY <2>1, <2>2, DescendingSelects
  <2> HIDE DEF sorted
  <2>4. top = Take(sorted, VerifyLimit)
    BY DEF sorted
  <2> HIDE DEF top
  <2>5. top \in Seq(Scored) /\ Selection(top, sorted)
    BY <2>3, <2>4, LimitsAssumption, TakeSelects
  <2>6. Selection(top, item.scored)
    BY <2>3, <2>5, SelectionOfSelection
  <2>7. QED
    BY <1>2, <2>5, <2>6, SelectedScored
<1> HIDE DEF score, top
<1>4. /\ \A k \in DOMAIN top : top[k] \in Scored /\ top[k].candidate.ref \in References
      /\ \A i, j \in DOMAIN top : top[i].candidate.ref = top[j].candidate.ref => i = j
  <2>1. \A k \in DOMAIN top : top[k] \in Scored
    BY <1>3
  <2>2. \A k \in DOMAIN top : top[k].candidate.ref \in References
    BY <2>1 DEF Scored, Candidate
  <2>3. QED
    BY <1>3, <2>1, <2>2 DEF ScoredLists
<1>5. /\ left \in Seq(Scored)
      /\ \E at : /\ at \in [DOMAIN left -> S]
                 /\ \A k \in DOMAIN left : left[k] = top[at[k]]
                 /\ \A x \in S : \E k \in DOMAIN left : at[k] = x
                 /\ \A i, j \in DOMAIN left : i < j => at[i] < at[j]
  <2>1. S \in SUBSET DOMAIN top
    OBVIOUS
  <2> HIDE DEF S
  <2>2. QED
    BY <1>3, <2>1, KeptInOrder
<1> HIDE DEF left
<1>6. PICK at : /\ at \in [DOMAIN left -> S]
                /\ \A k \in DOMAIN left : left[k] = top[at[k]]
                /\ \A x \in S : \E k \in DOMAIN left : at[k] = x
                /\ \A i, j \in DOMAIN left : i < j => at[i] < at[j]
  BY <1>5
<1>7. pending \in Seq(References) /\ DOMAIN pending = DOMAIN left
  <2>1. \A k \in DOMAIN left : left[k].candidate.ref \in References
    BY <1>4, <1>6
  <2>2. pending \in [1 .. Len(left) -> References] /\ Len(left) \in Nat
    BY <1>5, <2>1
  <2>3. DOMAIN pending = DOMAIN left
    OBVIOUS
  <2> HIDE DEF pending
  <2>4. QED
    BY <2>2, <2>3
<1>8. \A i, j \in DOMAIN pending : pending[i] = pending[j] => i = j
  <2> SUFFICES ASSUME NEW i \in DOMAIN left, NEW j \in DOMAIN left,
                      left[i].candidate.ref = left[j].candidate.ref
               PROVE  i = j
    BY <1>7
  <2>1. at[i] = at[j] /\ at[i] \in DOMAIN top
    <3>1. at[i] \in DOMAIN top /\ at[j] \in DOMAIN top
      BY <1>6
    <3>2. top[at[i]].candidate.ref = top[at[j]].candidate.ref
      BY <1>6
    <3>3. QED
      BY <1>4, <3>1, <3>2
  <2>2. i \in Nat /\ j \in Nat /\ at[i] \in Nat
    <3>1. i \in Nat /\ j \in Nat
      BY <1>5
    <3>2. at[i] \in Nat
      BY <1>3, <2>1
    <3>3. QED
      BY <3>1, <3>2
  <2>3. ~ (at[i] < at[j]) /\ ~ (at[j] < at[i])
    BY <2>1, <2>2
  <2>4. ~ (i < j) /\ ~ (j < i)
    BY <1>6, <2>3
  <2>5. QED
    BY <2>2, <2>4
<1>9. Range(pending) \cap DOMAIN outcomes = {}
  <2>1. \A k \in DOMAIN left : left[k].candidate.ref \notin cached \cup bare
    BY <1>6
  <2> HIDE DEF cached, bare
  <2>2. QED
    BY <1>7, <2>1 DEF Range
<1>10. \A k \in DOMAIN top : top[k].candidate.ref \in DOMAIN outcomes \cup Range(pending)
  <2> TAKE k \in DOMAIN top
  <2>1. CASE top[k].candidate.ref \in cached \cup bare
    <3> HIDE DEF cached, bare
    <3>1. QED
      BY <2>1
  <2>2. CASE top[k].candidate.ref \notin cached \cup bare
    <3>1. PICK l \in DOMAIN left : at[l] = k
      BY <1>6, <2>2
    <3>2. pending[l] = top[k].candidate.ref
      BY <1>6, <3>1
    <3>3. QED
      BY <1>7, <3>1, <3>2 DEF Range
  <2>3. QED
    BY <2>1, <2>2
<1>11. \A r \in DOMAIN outcomes : KnownOutcome(cache, item.text, r, outcomes[r])
  <2> TAKE r \in DOMAIN outcomes
  <2>1. CASE r \in cached
    <3>1. outcomes[r] = cache[<<item.text, r>>] /\ <<item.text, r>> \in DOMAIN cache
      BY <2>1
    <3>2. QED
      BY <3>1 DEF KnownOutcome, CacheSound
  <2>2. CASE r \notin cached
    <3>1. outcomes[r] = MissingAbstract
      BY <2>2
    <3>2. QED
      BY <3>1 DEF KnownOutcome, MissingAbstract, Verdicts
  <2>3. QED
    BY <2>1, <2>2
<1>p. \A k \in DOMAIN pending : <<item.text, pending[k]>> \notin DOMAIN cache
  <2> TAKE k \in DOMAIN pending
  <2>1. at[k] \in S /\ pending[k] = top[at[k]].candidate.ref /\ at[k] \in DOMAIN top
    BY <1>6, <1>7
  <2>2. pending[k] \in refs /\ pending[k] \notin cached
    BY <2>1
  <2> HIDE DEF pending, refs
  <2>3. QED
    BY <2>2
<1> HIDE DEF outcomes, pending
<1>12. plan.claim = item.claim /\ plan.text = item.text /\ plan.top = top
         /\ plan.outcomes = outcomes /\ plan.pending = pending
  BY <1>1
<1>13. SoundPlan(cs, cache, plan)
  BY <1>2, <1>3, <1>7, <1>8, <1>9, <1>10, <1>11, <1>12, <1>p DEF SoundPlan
<1>14. QED
  BY <1>13 DEF plan

(* All the plans of the stage are such plans, as many as are verified, and  *)
(* no two are of one claim.                                                 *)
LEMMA PlansAreSound ==
  ASSUME NEW cs, ClaimTable(cs), NEW cache, CacheSound(cache), NEW ab
  PROVE  /\ DOMAIN Plans(cs, cache, ab) \subseteq 1 .. VerifyClaimLimit
         /\ \A k \in DOMAIN Plans(cs, cache, ab) :
              SoundPlan(cs, cache, Plans(cs, cache, ab)[k])
         /\ OwnClaims(Plans(cs, cache, ab))
<1> DEFINE prepared == Prepared(cs, ab)
           ranked == Ranked(prepared)
           items == Take(ranked, VerifyClaimLimit)
           R == RankedItems(cs)
<1>1. /\ prepared \in Seq(Items(cs)) /\ \A k \in DOMAIN prepared : prepared[k].candidates # <<>>
      /\ OwnClaims(prepared)
  BY PreparedItems
<1> HIDE DEF prepared
<1>2. ranked \in Seq(R) /\ OwnClaims(ranked)
  BY <1>1, RankedClaims
<1> HIDE DEF ranked, R
<1>3. items \in Seq(R) /\ DOMAIN items \subseteq 1 .. VerifyClaimLimit
  <2>1. VerifyClaimLimit \in Nat
    BY LimitsAssumption
  <2>2. items \in Seq(R) /\ Len(items) <= VerifyClaimLimit
    BY <1>2, <2>1, TakeIsPrefix
  <2>3. QED
    BY <2>1, <2>2
<1>o. OwnClaims(items)
  <2>1. Selection(items, ranked)
    BY <1>2, LimitsAssumption, TakeSelects
  <2> HIDE DEF items
  <2>2. QED
    BY <1>2, <2>1, SelectedClaims
<1>4. Plans(cs, cache, ab) = [k \in DOMAIN items |-> Plan(items[k], cache)]
  BY DEF Plans, ranked, prepared
<1> HIDE DEF items
<1>p. OwnClaims([k \in DOMAIN items |-> Plan(items[k], cache)])
  <2>1. \A k \in DOMAIN items : Plan(items[k], cache).claim = items[k].claim
    BY DEF Plan
  <2>2. QED
    BY <1>o, <2>1 DEF OwnClaims
<1>5. \A k \in DOMAIN items : items[k] \in RankedItems(cs)
  BY <1>3 DEF R
<1>6. \A k \in DOMAIN items : SoundPlan(cs, cache, Plan(items[k], cache))
  BY <1>5, PlanIsSound
<1>7. QED
  BY <1>3, <1>4, <1>6, <1>p

(* The answer to a plan, each entry made of the candidate that it names.    *)
SoundBatch(plan, batch) ==
  /\ DOMAIN batch \subseteq Nat /\ IsFiniteSet(DOMAIN batch)
  /\ \A e \in DOMAIN batch :
       /\ batch[e].idx \in Int /\ batch[e].outcome.verdict \in Verdicts
       /\ \A k \in DOMAIN plan.pending :
            batch[e].idx = k - 1 => batch[e].outcome.about = <<plan.text, plan.pending[k]>>

(* A candidate that was judged gets a verdict on its own pair, another one  *)
(* what was known of it.                                                    *)
LEMMA AppliedVerdicts ==
  ASSUME NEW cs, NEW cache, NEW plan, SoundPlan(cs, cache, plan),
         NEW batch, SoundBatch(plan, batch)
  PROVE  LET outcomes == ApplyVerification(plan, batch) IN
         /\ \A k \in Judged(plan, batch) :
              /\ outcomes[plan.pending[k]].verdict \in Verdicts
              /\ outcomes[plan.pending[k]].about = <<plan.text, plan.pending[k]>>
         /\ \A k \in DOMAIN plan.pending :
              k \notin Judged(plan, batch) => outcomes[plan.pending[k]] = Skipped
         /\ \A r \in DOMAIN plan.outcomes : KnownOutcome(cache, plan.text, r, outcomes[r])
<1> DEFINE P == plan.pending
           O == plan.outcomes
           of(r) == CHOOSE x \in DOMAIN P : P[x] = r
           said(k) == IF k \in Judged(plan, batch) THEN batch[Max(EntriesOf(plan, batch, k))].outcome
                      ELSE Skipped
           outcomes == ApplyVerification(plan, batch)
<1>1. outcomes = Extended(O, [r \in Range(P) |-> said(of(r))])
  BY DEF ApplyVerification
<1>2. \A k \in DOMAIN P : P[k] \in Range(P) /\ P[k] \notin DOMAIN O
  BY DEF Range, SoundPlan
<1> HIDE DEF outcomes, said
<1>3. \A k \in DOMAIN P : outcomes[P[k]] = said(k)
  <2> TAKE k \in DOMAIN P
  <2>1. of(P[k]) = k
    BY DEF SoundPlan
  <2> HIDE DEF O, P, of
  <2>2. outcomes[P[k]] = said(of(P[k]))
    <3> DEFINE g == [r \in Range(P) |-> said(of(r))]
    <3>1. P[k] \in DOMAIN g /\ P[k] \notin DOMAIN O /\ g[P[k]] = said(of(P[k]))
      BY <1>2
    <3>2. outcomes = Extended(O, g)
      BY <1>1
    <3> HIDE DEF g
    <3>3. Extended(O, g)[P[k]] = g[P[k]]
      BY <3>1, ExtendedAdds
    <3>4. QED
      BY <3>1, <3>2, <3>3
  <2>3. QED
    BY <2>1, <2>2
<1>4. \A r \in DOMAIN O : outcomes[r] = O[r]
  <2> DEFINE g == [r \in Range(P) |-> said(of(r))]
  <2>1. outcomes = Extended(O, g)
    BY <1>1
  <2> HIDE DEF O, g
  <2>2. QED
    BY <2>1, ExtendedKeeps
<1>5. ASSUME NEW k \in Judged(plan, batch)
      PROVE  said(k).verdict \in Verdicts /\ said(k).about = <<plan.text, P[k]>>
  <2> DEFINE E == EntriesOf(plan, batch, k)
  <2>1. k \in DOMAIN P /\ E # {}
    BY DEF Judged
  <2>2. E \subseteq DOMAIN batch
    BY DEF EntriesOf
  <2>3. E \in SUBSET Int /\ IsFiniteSet(E)
    <3>1. DOMAIN batch \subseteq Nat /\ IsFiniteSet(DOMAIN batch)
      BY DEF SoundBatch
    <3> HIDE DEF E
    <3>2. IsFiniteSet(E)
      BY <2>2, <3>1, FS_Subset
    <3>3. QED
      BY <2>2, <3>1, <3>2
  <2>4. Max(E) \in E
    <3> HIDE DEF E
    <3>1. QED
      BY <2>1, <2>3, MaxIsGreatest
  <2>5. Max(E) \in DOMAIN batch /\ batch[Max(E)].idx = k - 1
    BY <2>4 DEF EntriesOf
  <2>6. said(k) = batch[Max(E)].outcome
    BY DEF said
  <2> HIDE DEF E
  <2>7. QED
    BY <2>1, <2>5, <2>6 DEF SoundBatch
<1>6. \A k \in DOMAIN P : k \notin Judged(plan, batch) => said(k) = Skipped
  BY DEF said
<1>7. \A k \in Judged(plan, batch) : k \in DOMAIN P
  BY DEF Judged
<1>8. \A r \in DOMAIN O : KnownOutcome(cache, plan.text, r, O[r])
  BY DEF SoundPlan
<1> HIDE DEF said
<1>9. QED
  BY <1>3, <1>4, <1>5, <1>6, <1>7, <1>8 DEF outcomes

(* What a stage has answered of its plans.                                  *)
SoundWork(cs, cache, plans, batches) ==
  /\ DOMAIN plans \subseteq Nat
  /\ \A k \in DOMAIN plans :
       SoundPlan(cs, cache, plans[k]) /\ SoundBatch(plans[k], batches[k])

(* What was cached stays so, and every judged candidate is cached, with the *)
(* verdict that its plan gave it if no other plan is of that text.          *)
Cached(cache, plans, batches, stored) ==
  /\ \A key \in DOMAIN cache : key \in DOMAIN stored /\ stored[key] = cache[key]
  /\ \A p \in DOMAIN plans : \A k \in Judged(plans[p], batches[p]) :
       LET pair == <<plans[p].text, plans[p].pending[k]>> IN
       /\ pair \in DOMAIN stored
       /\ (\A q \in DOMAIN plans : plans[q].text = plans[p].text => q = p)
            => stored[pair] = ApplyVerification(plans[p], batches[p])[plans[p].pending[k]]

(* Storing the verdicts keeps the cache sound and loses nothing of it; what *)
(* is new is of a planned text and a reference.                             *)
LEMMA StoredVerdicts ==
  ASSUME NEW cs, NEW cache, CacheSound(cache), NEW plans, NEW batches,
         SoundWork(cs, cache, plans, batches)
  PROVE  LET stored == StoreVerdicts(cache, plans, batches) IN
         /\ CacheSound(stored)
         /\ DOMAIN stored \subseteq
              DOMAIN cache \cup {plans[p].text : p \in DOMAIN plans} \X References
         /\ Cached(cache, plans, batches, stored)
<1> DEFINE new(p) == {<<plans[p].text, plans[p].pending[k]>> : k \in Judged(plans[p], batches[p])}
           told(key) == {p \in DOMAIN plans : key \in new(p)}
           first(key) == Min(told(key))
           value(key) == ApplyVerification(plans[first(key)], batches[first(key)])[key[2]]
           keys == UNION {new(p) : p \in DOMAIN plans}
           fresh == [key \in keys |-> value(key)]
           stored == StoreVerdicts(cache, plans, batches)
<1>1. stored = Extended(cache, fresh)
  BY DEF StoreVerdicts
<1> HIDE DEF stored
<1>2. \A p \in DOMAIN plans : \A k \in Judged(plans[p], batches[p]) :
        <<plans[p].text, plans[p].pending[k]>> \in keys
  <2> TAKE p \in DOMAIN plans
  <2> TAKE k \in Judged(plans[p], batches[p])
  <2>1. <<plans[p].text, plans[p].pending[k]>> \in new(p)
    OBVIOUS
  <2> HIDE DEF new
  <2>2. QED
    BY <2>1
<1>k. keys \subseteq {plans[p].text : p \in DOMAIN plans} \X References
  <2> SUFFICES ASSUME NEW p \in DOMAIN plans, NEW k \in Judged(plans[p], batches[p])
               PROVE  plans[p].pending[k] \in References
    OBVIOUS
  <2>1. plans[p].pending \in Seq(References) /\ k \in DOMAIN plans[p].pending
    BY DEF SoundWork, SoundPlan, Judged
  <2>2. QED
    BY <2>1
<1>3. ASSUME NEW key \in keys
      PROVE  /\ value(key).about = key /\ value(key).verdict \in Verdicts
             /\ first(key) \in DOMAIN plans /\ plans[first(key)].text = key[1]
             /\ value(key) = ApplyVerification(plans[first(key)], batches[first(key)])[key[2]]
  <2>1. told(key) \in SUBSET Nat /\ told(key) # {}
    <3>1. DOMAIN plans \subseteq Nat
      BY DEF SoundWork
    <3> HIDE DEF new
    <3>2. QED
      BY <3>1
  <2>2. first(key) \in told(key)
    <3> HIDE DEF told
    <3>1. QED
      BY <2>1, MinOfNaturals
  <2> DEFINE p == first(key)
  <2>3. p \in DOMAIN plans /\ key \in new(p)
    BY <2>2
  <2>4. PICK k \in Judged(plans[p], batches[p]) : key = <<plans[p].text, plans[p].pending[k]>>
    BY <2>3
  <2>t. plans[p].text = key[1]
    <3> HIDE DEF p, value, new, told
    <3>1. QED
      BY <2>4
  <2>v. value(key) = ApplyVerification(plans[p], batches[p])[key[2]]
    BY DEF p
  <2>5. value(key) = ApplyVerification(plans[p], batches[p])[plans[p].pending[k]]
    <3>1. key[2] = plans[p].pending[k]
      <4> HIDE DEF p, value, new, told
      <4>1. QED
        BY <2>4
    <3> HIDE DEF p, new, told
    <3>2. value(key) = ApplyVerification(plans[p], batches[p])[key[2]]
      BY DEF p
    <3> HIDE DEF value
    <3>3. QED
      BY <3>1, <3>2
  <2> HIDE DEF p, value, new, told
  <2>6. SoundPlan(cs, cache, plans[p]) /\ SoundBatch(plans[p], batches[p])
    BY <2>3 DEF SoundWork
  <2>7. /\ value(key).verdict \in Verdicts
        /\ value(key).about = <<plans[p].text, plans[p].pending[k]>>
    BY <2>5, <2>6, AppliedVerdicts
  <2>8. value(key).about = key
    BY <2>4, <2>7
  <2>9. QED
    BY <2>3, <2>7, <2>8, <2>t, <2>v DEF p
<1> HIDE DEF keys, value
<1>4. DOMAIN stored = DOMAIN cache \cup keys
  <2>1. DOMAIN fresh = keys
    OBVIOUS
  <2> HIDE DEF fresh
  <2>2. QED
    BY <1>1, <2>1, ExtendedDomain
<1>5. CacheSound(stored)
  <2> SUFFICES ASSUME NEW key \in DOMAIN stored
               PROVE  stored[key].about = key /\ stored[key].verdict \in Verdicts
    BY DEF CacheSound
  <2>1. CASE key \in DOMAIN cache
    <3>1. stored[key] = cache[key]
      <4> HIDE DEF fresh
      <4>1. QED
        BY <1>1, <2>1, ExtendedKeeps
    <3>2. QED
      BY <2>1, <3>1 DEF CacheSound
  <2>2. CASE key \notin DOMAIN cache
    <3>1. key \in keys /\ stored[key] = value(key)
      <4>1. key \in keys /\ DOMAIN fresh = keys /\ fresh[key] = value(key)
        BY <1>4, <2>2
      <4> HIDE DEF fresh
      <4>2. Extended(cache, fresh)[key] = fresh[key]
        BY <2>2, <4>1, ExtendedAdds
      <4>3. QED
        BY <1>1, <4>1, <4>2
    <3>2. QED
      BY <1>3, <3>1
  <2>3. QED
    BY <2>1, <2>2
<1>6. \A key \in DOMAIN cache : stored[key] = cache[key]
  <2> HIDE DEF fresh
  <2>1. QED
    BY <1>1, ExtendedKeeps
<1>7. \A key \in keys : key \notin DOMAIN cache => stored[key] = value(key)
  <2> TAKE key \in keys
  <2>1. DOMAIN fresh = keys /\ fresh[key] = value(key)
    OBVIOUS
  <2> HIDE DEF fresh
  <2>2. key \notin DOMAIN cache => Extended(cache, fresh)[key] = fresh[key]
    BY <2>1, ExtendedAdds
  <2>3. QED
    BY <1>1, <2>1, <2>2
<1> HIDE DEF first, new
<1>8. ASSUME NEW p \in DOMAIN plans, NEW k \in Judged(plans[p], batches[p]),
             \A q \in DOMAIN plans : plans[q].text = plans[p].text => q = p
      PROVE  stored[<<plans[p].text, plans[p].pending[k]>>]
               = ApplyVerification(plans[p], batches[p])[plans[p].pending[k]]
  <2>1. PICK key : key = <<plans[p].text, plans[p].pending[k]>>
    OBVIOUS
  <2>2. key[1] = plans[p].text /\ key[2] = plans[p].pending[k]
    BY <2>1
  <2>3. key \in keys /\ key \notin DOMAIN cache
    BY <1>2, <2>1 DEF SoundWork, SoundPlan, Judged
  <2>4. first(key) = p
    BY <1>3, <1>8, <2>2, <2>3
  <2>5. stored[key] = ApplyVerification(plans[p], batches[p])[key[2]]
    BY <1>3, <1>7, <2>3, <2>4
  <2>6. QED
    BY <2>1, <2>2, <2>5
<1>9. Cached(cache, plans, batches, stored)
  BY <1>2, <1>4, <1>6, <1>8 DEF Cached
<1>10. QED
  BY <1>k, <1>4, <1>5, <1>9 DEF stored

-----------------------------------------------------------------------------
(* The rows of a claim.                                                     *)

(* The verdict of a pair is cached; it may be another one if other claims,  *)
(* the twins, have the same text.                                           *)
Known(stored, twins, pair, verdict) ==
  pair \in DOMAIN stored /\ (twins = {} => stored[pair].verdict = verdict)

(* A row shows its pair's score and a verdict given for its pair, if any,   *)
(* that is known.                                                           *)
SoundRow(stored, twins, text, row) ==
  /\ row.ref \in References /\ row.percentage \in Int /\ row.hasAbstract \in BOOLEAN
  /\ row.reranker = CrossEncoder[text][row.ref]
  /\ \/ row.about = Nobody
     \/ row.about = <<text, row.ref>> /\ Known(stored, twins, <<text, row.ref>>, row.verdict)
  /\ row.verdict = "CONTRADICTED" => row.percentage <= ContradictedCap
  /\ row.label = LabelFor(row.percentage, row.verdict, row.hasAbstract)

(* Rows of distinct references, best percentage first.                      *)
SoundRows(stored, twins, text, rows) ==
  /\ rows \in Seq(Range(rows)) /\ \A k \in DOMAIN rows : SoundRow(stored, twins, text, rows[k])
  /\ \A k, l \in DOMAIN rows :
       /\ rows[k].ref = rows[l].ref => k = l
       /\ l < k => rows[l].percentage >= rows[k].percentage

(* A percentage is a number; a contradicted one is capped.                  *)
LEMMA PercentageTyped ==
  ASSUME NEW scored \in Scored, NEW verdict \in Verdicts,
         NEW sim, sim = [semantic |-> scored.candidate.semantic,
                         lexical |-> scored.candidate.lexical,
                         keyword |-> scored.candidate.keyword, reranker |-> scored.reranker]
  PROVE  /\ Percentage(sim, verdict, scored.candidate.hasAbstract) \in Int
         /\ verdict = "CONTRADICTED" =>
              Percentage(sim, verdict, scored.candidate.hasAbstract) <= ContradictedCap
<1> DEFINE weighted == 30 * sim.semantic + 15 * sim.lexical + 10 * sim.keyword + 30 * sim.reranker
<1>1. weighted \in Int
  BY DEF Scored, Candidate
<1> HIDE DEF weighted
<1>2. SupportScore[verdict] \in Int
  BY DEF SupportScore, Verdicts
<1>3. Blend(sim, verdict) \in Int
  <2>1. Blend(sim, verdict) = IF verdict = "SKIPPED" THEN (20 * weighted + 85) \div 170
                              ELSE (weighted + 15 * SupportScore[verdict] + 5) \div 10
    BY DEF Blend, weighted
  <2>2. (20 * weighted + 85) \div 170 \in Int
    BY <1>1
  <2>3. (weighted + 15 * SupportScore[verdict] + 5) \div 10 \in Int
    BY <1>1, <1>2
  <2>4. QED
    BY <2>1, <2>2, <2>3
<1>4. QED
  BY <1>3 DEF Percentage, Clamped, Capped, ContradictedCap, MissingAbstractCap

(* A row made of a candidate and an outcome on its pair is sound.           *)
LEMMA RowIsSound ==
  ASSUME NEW text \in Texts, NEW scored \in Scored, NEW stored, NEW twins,
         scored.reranker = CrossEncoder[text][scored.candidate.ref],
         NEW outcome, outcome.verdict \in Verdicts,
         \/ outcome.about = Nobody
         \/ /\ outcome.about = <<text, scored.candidate.ref>>
            /\ Known(stored, twins, <<text, scored.candidate.ref>>, outcome.verdict)
  PROVE  SoundRow(stored, twins, text, Row(scored, outcome))
<1> DEFINE c == scored.candidate
           sim == [semantic |-> c.semantic, lexical |-> c.lexical, keyword |-> c.keyword,
                   reranker |-> scored.reranker]
           percentage == Percentage(sim, outcome.verdict, c.hasAbstract)
           row == Row(scored, outcome)
<1>1. row = [ref |-> c.ref, verdict |-> outcome.verdict, about |-> outcome.about,
             hasAbstract |-> c.hasAbstract, reranker |-> scored.reranker,
             percentage |-> percentage,
             label |-> LabelFor(percentage, outcome.verdict, c.hasAbstract)]
  BY DEF Row
<1>2. percentage \in Int /\ (outcome.verdict = "CONTRADICTED" => percentage <= ContradictedCap)
  BY PercentageTyped
<1>3. c.ref \in References /\ c.hasAbstract \in BOOLEAN
  BY DEF Scored, Candidate
<1> HIDE DEF percentage, row, c
<1>4. SoundRow(stored, twins, text, row)
  BY <1>1, <1>2, <1>3 DEF SoundRow, c
<1>5. QED
  BY <1>4 DEF row

(* _persist_claim's rows, from a sound plan and answer.                     *)
LEMMA RowsAreSound ==
  ASSUME NEW cs, ClaimTable(cs), NEW cache, NEW plan, SoundPlan(cs, cache, plan),
         NEW batch, SoundBatch(plan, batch), NEW stored, NEW twins,
         \A key \in DOMAIN cache : key \in DOMAIN stored /\ stored[key] = cache[key],
         \A k \in Judged(plan, batch) :
           Known(stored, twins, <<plan.text, plan.pending[k]>>,
                 ApplyVerification(plan, batch)[plan.pending[k]].verdict)
  PROVE  SoundRows(stored, twins, plan.text, Rows(plan, batch))
<1> DEFINE outcomes == ApplyVerification(plan, batch)
           top == plan.top
           row(k) == Row(top[k], outcomes[top[k].candidate.ref])
           rows == [k \in DOMAIN top |-> row(k)]
           X == {row(k) : k \in DOMAIN top}
           key == [k \in DOMAIN rows |-> rows[k].percentage]
           final == Descending(rows, key)
<1>1. plan.text \in Texts
  BY DEF SoundPlan, ClaimTable
<1>2. /\ top \in Seq(Scored)
      /\ \A i, j \in DOMAIN top : top[i].candidate.ref = top[j].candidate.ref => i = j
      /\ \A k \in DOMAIN top : top[k].reranker = CrossEncoder[plan.text][top[k].candidate.ref]
      /\ \A k \in DOMAIN top : top[k] \in Scored
  <2>1. top \in ScoredLists(plan.text)
    BY DEF SoundPlan
  <2>2. QED
    BY <2>1 DEF ScoredLists
<1>3. ASSUME NEW k \in DOMAIN top
      PROVE  SoundRow(stored, twins, plan.text, row(k)) /\ row(k).ref = top[k].candidate.ref
  <2> DEFINE r == top[k].candidate.ref
             outcome == outcomes[r]
  <2>1. r \in DOMAIN plan.outcomes \/ \E l \in DOMAIN plan.pending : plan.pending[l] = r
    BY DEF SoundPlan, Range
  <2>2. /\ outcome.verdict \in Verdicts
        /\ \/ outcome.about = Nobody
           \/ /\ outcome.about = <<plan.text, r>>
              /\ Known(stored, twins, <<plan.text, r>>, outcome.verdict)
    <3>1. CASE r \in DOMAIN plan.outcomes
      <4>1. KnownOutcome(cache, plan.text, r, outcome)
        <5> HIDE DEF r
        <5>1. QED
          BY <3>1, AppliedVerdicts
      <4>2. QED
        BY <4>1 DEF KnownOutcome, Known
    <3>2. CASE \E l \in DOMAIN plan.pending : plan.pending[l] = r
      <4>1. PICK l \in DOMAIN plan.pending : plan.pending[l] = r
        BY <3>2
      <4>2. CASE l \in Judged(plan, batch)
        <5>1. /\ outcomes[plan.pending[l]].verdict \in Verdicts
              /\ outcomes[plan.pending[l]].about = <<plan.text, plan.pending[l]>>
              /\ Known(stored, twins, <<plan.text, plan.pending[l]>>,
                       outcomes[plan.pending[l]].verdict)
          <6> HIDE DEF outcomes
          <6>1. \A m \in Judged(plan, batch) :
                  /\ outcomes[plan.pending[m]].verdict \in Verdicts
                  /\ outcomes[plan.pending[m]].about = <<plan.text, plan.pending[m]>>
            BY AppliedVerdicts DEF outcomes
          <6>2. \A m \in Judged(plan, batch) :
                  Known(stored, twins, <<plan.text, plan.pending[m]>>,
                        outcomes[plan.pending[m]].verdict)
            BY DEF outcomes
          <6>3. QED
            BY <4>2, <6>1, <6>2
        <5>2. QED
          BY <4>1, <4>2, <5>1
      <4>3. CASE l \notin Judged(plan, batch)
        <5>1. outcomes[plan.pending[l]] = Skipped
          BY <4>3, AppliedVerdicts
        <5>2. outcome = Skipped
          BY <4>1, <5>1
        <5> HIDE DEF outcome
        <5>3. QED
          BY <5>2 DEF Skipped, Verdicts
      <4>4. QED
        BY <4>2, <4>3
    <3>3. QED
      BY <2>1, <3>1, <3>2
  <2> HIDE DEF outcome
  <2>3. top[k] \in Scored /\ top[k].reranker = CrossEncoder[plan.text][r]
    BY <1>2
  <2>4. row(k) = Row(top[k], outcome)
    BY DEF outcome
  <2>5. SoundRow(stored, twins, plan.text, Row(top[k], outcome))
    BY <1>1, <2>2, <2>3, RowIsSound
  <2>6. Row(top[k], outcome).ref = top[k].candidate.ref
    BY DEF Row
  <2> HIDE DEF row, r, outcomes, top
  <2>7. QED
    BY <2>4, <2>5, <2>6
<1> HIDE DEF row
<1>4. rows \in Seq(X) /\ DOMAIN rows = DOMAIN top /\ \A k \in DOMAIN top : rows[k] = row(k)
  <2>1. rows \in [1 .. Len(top) -> X] /\ Len(top) \in Nat /\ DOMAIN top = 1 .. Len(top)
    BY <1>2
  <2>2. DOMAIN rows = DOMAIN top /\ \A k \in DOMAIN top : rows[k] = row(k)
    OBVIOUS
  <2> HIDE DEF rows, X
  <2>3. QED
    BY <2>1, <2>2
<1> HIDE DEF rows
<1>5. key \in [DOMAIN rows -> Int]
  BY <1>3, <1>4 DEF SoundRow
<1>6. \A k \in DOMAIN rows : key[k] = rows[k].percentage
  OBVIOUS
<1> HIDE DEF key, X
<1>7. /\ final \in Seq(X) /\ DOMAIN final = DOMAIN rows
      /\ \E order : /\ Permutes(order, rows)
                    /\ \A k \in DOMAIN rows : final[k] = rows[order[k]]
                    /\ \A i, j \in DOMAIN rows : i < j => key[order[i]] >= key[order[j]]
  <2>1. rows \in Seq(X)
    BY <1>4
  <2>2. /\ Descending(rows, key) \in Seq(X) /\ DOMAIN Descending(rows, key) = DOMAIN rows
        /\ \E order : /\ Permutes(order, rows)
                      /\ \A k \in DOMAIN rows : Descending(rows, key)[k] = rows[order[k]]
                      /\ \A i, j \in DOMAIN rows : i < j => key[order[i]] >= key[order[j]]
    BY <1>5, <2>1, DescendingSorts, SMTT(60)
  <2>3. QED
    BY <2>2
<1>8. PICK order : /\ Permutes(order, rows)
                   /\ \A k \in DOMAIN rows : final[k] = rows[order[k]]
                   /\ \A i, j \in DOMAIN rows : i < j => key[order[i]] >= key[order[j]]
  BY <1>7
<1>9. Rows(plan, batch) = final
  BY DEF Rows, final, key, rows, row, outcomes, top
<1> HIDE DEF final
<1>10. \A k \in DOMAIN final : /\ order[k] \in DOMAIN top /\ final[k] = row(order[k])
                              /\ SoundRow(stored, twins, plan.text, final[k])
                              /\ final[k].ref = top[order[k]].candidate.ref
  <2> TAKE k \in DOMAIN final
  <2>1. order[k] \in DOMAIN top /\ final[k] = rows[order[k]]
    BY <1>4, <1>7, <1>8 DEF Permutes
  <2>2. final[k] = row(order[k])
    BY <1>4, <2>1
  <2>3. SoundRow(stored, twins, plan.text, row(order[k])) /\ row(order[k]).ref = top[order[k]].candidate.ref
    BY <1>3, <2>1
  <2>4. QED
    BY <2>1, <2>2, <2>3
<1>11. final \in Seq(Range(final))
  BY <1>7, SequenceOfItsRange
<1>12. ASSUME NEW k \in DOMAIN final, NEW l \in DOMAIN final
       PROVE  /\ final[k].ref = final[l].ref => k = l
              /\ l < k => final[l].percentage >= final[k].percentage
  <2>1. order[k] = order[l] => k = l
    BY <1>7, <1>8 DEF Permutes
  <2>2. final[k].ref = final[l].ref => order[k] = order[l]
    BY <1>2, <1>10
  <2>3. key[order[k]] = final[k].percentage /\ key[order[l]] = final[l].percentage
    <3>1. order[k] \in DOMAIN rows /\ order[l] \in DOMAIN rows
      BY <1>7, <1>8 DEF Permutes
    <3>2. final[k] = rows[order[k]] /\ final[l] = rows[order[l]]
      BY <1>7, <1>8
    <3>3. QED
      BY <1>6, <3>1, <3>2
  <2>4. QED
    BY <1>7, <1>8, <2>1, <2>2, <2>3
<1>13. QED
  BY <1>9, <1>10, <1>11, <1>12 DEF SoundRows

-----------------------------------------------------------------------------
(* The shortlist.                                                           *)

(* The rows of every claim.                                                 *)
RowTable(rs) ==
  /\ DOMAIN rs \subseteq Nat /\ IsFiniteSet(DOMAIN rs)
  /\ \A i \in DOMAIN rs : /\ rs[i] \in Seq(Range(rs[i]))
                            /\ \A row \in Range(rs[i]) : row.percentage \in Int

(* The first rows, best first.                                              *)
LEMMA TopRowsFall ==
  ASSUME NEW rs, RowTable(rs)
  PROVE  /\ TopRows(rs) \in Seq(Range(TopRows(rs)))
         /\ \A k \in DOMAIN TopRows(rs) : TopRows(rs)[k].percentage \in Int
         /\ \A k, l \in DOMAIN TopRows(rs) :
              l <= k => TopRows(rs)[l].percentage >= TopRows(rs)[k].percentage
<1> DEFINE D == {i \in DOMAIN rs : rs[i] # <<>>}
           ids == Ascending(D)
           rows == [k \in DOMAIN ids |-> rs[ids[k]][1]]
           X == {rs[i][1] : i \in D}
           key == [k \in DOMAIN rows |-> rows[k].percentage]
           final == Descending(rows, key)
<1>1. D \in SUBSET Int /\ IsFiniteSet(D)
  <2>1. D \subseteq DOMAIN rs /\ DOMAIN rs \subseteq Nat /\ IsFiniteSet(DOMAIN rs)
    BY DEF RowTable
  <2> HIDE DEF D
  <2>2. IsFiniteSet(D)
    BY <2>1, FS_Subset
  <2>3. QED
    BY <2>1, <2>2
<1>2. \A x \in X : x.percentage \in Int
  <2> SUFFICES ASSUME NEW i \in D PROVE rs[i][1].percentage \in Int
    OBVIOUS
  <2>1. rs[i] \in Seq(Range(rs[i])) /\ rs[i] # <<>>
    BY DEF RowTable
  <2>2. 1 \in DOMAIN rs[i]
    <3> DEFINE s == rs[i]
               R == Range(s)
    <3>1. s \in Seq(R) /\ s # <<>>
      BY <2>1
    <3> HIDE DEF s, R
    <3>2. 1 \in DOMAIN s
      BY <3>1
    <3>3. QED
      BY <3>2 DEF s
  <2>3. rs[i][1] \in Range(rs[i])
    BY <2>2 DEF Range
  <2>4. QED
    BY <2>3 DEF RowTable
<1>3. TopRows(rs) = final
  BY DEF TopRows
<1>4. \A i \in D : rs[i][1] \in X
  OBVIOUS
<1> HIDE DEF D, X
<1>5. ids \in Seq(D)
  BY <1>1, AscendingEnumerates
<1> HIDE DEF ids
<1>6. rows \in Seq(X)
  <2>1. rows \in [1 .. Len(ids) -> X] /\ Len(ids) \in Nat
    BY <1>4, <1>5
  <2> HIDE DEF rows
  <2>2. QED
    BY <2>1
<1> HIDE DEF rows
<1>7. key \in [DOMAIN rows -> Int] /\ \A k \in DOMAIN rows : key[k] = rows[k].percentage
  BY <1>2, <1>6
<1> HIDE DEF key
<1>8. /\ final \in Seq(X) /\ DOMAIN final = DOMAIN rows
      /\ \E order : /\ Permutes(order, rows)
                    /\ \A k \in DOMAIN rows : final[k] = rows[order[k]]
                    /\ \A i, j \in DOMAIN rows : i < j => key[order[i]] >= key[order[j]]
  BY <1>6, <1>7, DescendingSorts
<1>9. PICK order : /\ Permutes(order, rows)
                   /\ \A k \in DOMAIN rows : final[k] = rows[order[k]]
                   /\ \A i, j \in DOMAIN rows : i < j => key[order[i]] >= key[order[j]]
  BY <1>8
<1> HIDE DEF final
<1>10. final \in Seq(Range(final))
  BY <1>8, SequenceOfItsRange
<1>11. \A k \in DOMAIN final : /\ final[k].percentage \in Int
                              /\ key[order[k]] = final[k].percentage
  <2> TAKE k \in DOMAIN final
  <2>1. order[k] \in DOMAIN rows /\ final[k] = rows[order[k]]
    BY <1>8, <1>9 DEF Permutes
  <2>2. final[k] \in X
    BY <1>8
  <2>3. QED
    BY <1>2, <1>7, <2>1, <2>2
<1>12. ASSUME NEW k \in DOMAIN final, NEW l \in DOMAIN final, l <= k
       PROVE  final[l].percentage >= final[k].percentage
  <2>1. k \in Nat /\ l \in Nat
    BY <1>8
  <2>2. CASE l < k
    BY <1>8, <1>9, <1>11, <2>2
  <2>3. CASE l = k
    BY <1>11, <2>3
  <2>4. QED
    BY <1>12, <2>1, <2>2, <2>3
<1>13. QED
  BY <1>3, <1>10, <1>11, <1>12

(* The shortlist has no reference twice, and leaves one out only for as     *)
(* many that are at least as good.                                          *)
LEMMA ShortlistOfTheBest ==
  ASSUME NEW rs, RowTable(rs), NEW limit \in Nat
  PROVE  LET list == BestReferences(rs, limit) IN
         /\ \A k, l \in DOMAIN list : k # l => list[k].ref # list[l].ref
         /\ \A row \in Range(TopRows(rs)) :
              row.ref \notin {listed.ref : listed \in Range(list)} =>
                Len(list) = limit /\ \A listed \in Range(list) : listed.percentage >= row.percentage
<1> DEFINE rows == TopRows(rs)
           X == Range(rows)
           F == {k \in DOMAIN rows : \A l \in 1 .. k - 1 : rows[l].ref # rows[k].ref}
           kept == Kept(rows, F)
           list == Take(kept, limit)
<1>1. /\ rows \in Seq(X) /\ DOMAIN rows = 1 .. Len(rows) /\ Len(rows) \in Nat
      /\ \A k \in DOMAIN rows : rows[k].percentage \in Int
      /\ \A k, l \in DOMAIN rows : l <= k => rows[l].percentage >= rows[k].percentage
  BY TopRowsFall
<1>2. BestReferences(rs, limit) = list
  BY DEF BestReferences
<1> HIDE DEF rows
<1>3. /\ kept \in Seq(X)
      /\ \E at : /\ at \in [DOMAIN kept -> F]
                 /\ \A k \in DOMAIN kept : kept[k] = rows[at[k]]
                 /\ \A x \in F : \E k \in DOMAIN kept : at[k] = x
                 /\ \A i, j \in DOMAIN kept : i < j => at[i] < at[j]
  <2>1. F \in SUBSET DOMAIN rows
    OBVIOUS
  <2> HIDE DEF F, X
  <2>2. QED
    BY <1>1, <2>1, KeptInOrder
<1> HIDE DEF kept
<1>4. PICK at : /\ at \in [DOMAIN kept -> F]
                /\ \A k \in DOMAIN kept : kept[k] = rows[at[k]]
                /\ \A x \in F : \E k \in DOMAIN kept : at[k] = x
                /\ \A i, j \in DOMAIN kept : i < j => at[i] < at[j]
  BY <1>3
<1>5. /\ list \in Seq(X) /\ Len(list) = IF limit < Len(kept) THEN limit ELSE Len(kept)
      /\ DOMAIN list \subseteq DOMAIN kept
      /\ \A k \in DOMAIN list : list[k] = kept[k]
  <2> HIDE DEF X
  <2>1. QED
    BY <1>3, TakeIsPrefix
<1>6. /\ DOMAIN kept = 1 .. Len(kept) /\ Len(kept) \in Nat
      /\ DOMAIN list = 1 .. Len(list) /\ Len(list) \in Nat
  BY <1>3, <1>5
<1> HIDE DEF list, X
<1>7. \A k \in DOMAIN kept : at[k] \in DOMAIN rows /\ at[k] \in Nat
  BY <1>1, <1>4
<1>8. ASSUME NEW k \in DOMAIN kept, NEW l \in DOMAIN kept, k < l
      PROVE  kept[k].ref # kept[l].ref
  <2>1. at[k] < at[l] /\ at[l] \in F /\ at[k] \in DOMAIN rows /\ at[l] \in Nat /\ at[k] \in Nat
    BY <1>4, <1>7, <1>8
  <2>2. at[k] \in 1 .. at[l] - 1
    BY <1>1, <2>1
  <2>3. QED
    BY <1>4, <2>1, <2>2
<1>9. \A k, l \in DOMAIN list : k # l => list[k].ref # list[l].ref
  <2> SUFFICES ASSUME NEW k \in DOMAIN list, NEW l \in DOMAIN list, k # l
               PROVE  list[k].ref # list[l].ref
    OBVIOUS
  <2>1. k < l \/ l < k
    BY <1>6
  <2>2. k \in DOMAIN kept /\ l \in DOMAIN kept /\ list[k] = kept[k] /\ list[l] = kept[l]
    BY <1>5
  <2>3. QED
    BY <1>8, <2>1, <2>2
<1>10. ASSUME NEW m \in DOMAIN rows, rows[m].ref \notin {listed.ref : listed \in Range(list)}
       PROVE  /\ Len(list) = limit
              /\ \A listed \in Range(list) : listed.percentage >= rows[m].percentage
  <2> DEFINE S == {k \in DOMAIN rows : rows[k].ref = rows[m].ref}
  <2>1. S \in SUBSET Nat /\ m \in S
    BY <1>1
  <2> HIDE DEF S
  <2>2. PICK f \in S : \A k \in S : f <= k
    BY <2>1, LeastNatural
  <2>3. f \in DOMAIN rows /\ rows[f].ref = rows[m].ref /\ f <= m /\ f \in Nat /\ m \in Nat
    BY <2>1, <2>2 DEF S
  <2>4. f \in F
    <3>1. ASSUME NEW l \in 1 .. f - 1, rows[l].ref = rows[f].ref PROVE FALSE
      <4>1. l \in DOMAIN rows /\ l < f /\ l \in Nat
        BY <1>1, <2>3
      <4>2. l \in S
        BY <2>3, <3>1, <4>1 DEF S
      <4>3. QED
        BY <2>2, <2>3, <4>1, <4>2
    <3>2. QED
      BY <2>3, <3>1
  <2>5. PICK k \in DOMAIN kept : at[k] = f
    BY <1>4, <2>4
  <2>6. k \notin DOMAIN list
    <3> SUFFICES ASSUME k \in DOMAIN list PROVE FALSE
      OBVIOUS
    <3>1. list[k] \in Range(list) /\ list[k] = rows[f]
      BY <1>4, <1>5, <2>5 DEF Range
    <3>2. QED
      BY <1>10, <2>3, <3>1
  <2>7. Len(list) = limit /\ \A l \in DOMAIN list : l < k
    <3>1. PICK a \in Nat, b \in Nat : a = Len(list) /\ b = Len(kept)
      BY <1>6
    <3>2. DOMAIN list = 1 .. a /\ DOMAIN kept = 1 .. b /\ a = IF limit < b THEN limit ELSE b
      BY <1>5, <1>6, <3>1
    <3>3. k \in 1 .. b /\ k \notin 1 .. a
      BY <2>6, <3>2
    <3>4. a = limit /\ \A l \in 1 .. a : l < k
      BY <3>2, <3>3
    <3>5. QED
      BY <3>1, <3>2, <3>4
  <2>8. ASSUME NEW l \in DOMAIN list PROVE list[l].percentage >= rows[m].percentage
    <3>1. list[l] = rows[at[l]] /\ at[l] < f /\ at[l] \in DOMAIN rows /\ at[l] \in Nat
      BY <1>4, <1>5, <1>7, <2>5, <2>7
    <3>2. at[l] <= m
      BY <2>3, <3>1
    <3>3. QED
      BY <1>1, <3>1, <3>2
  <2>9. QED
    BY <2>7, <2>8 DEF Range
<1>11. QED
  BY <1>2, <1>9, <1>10 DEF Range, rows

-----------------------------------------------------------------------------
(* Detection.                                                               *)

(* A draft whose sentences have texts that the models score.                *)
SoundDraft(dr) ==
  /\ DOMAIN dr.sentences \subseteq Nat /\ IsFiniteSet(DOMAIN dr.sentences)
  /\ \A i \in DOMAIN dr.sentences : dr.sentences[i].text \in Texts

(* A decision that was made about this text, one that is scored.            *)
SoundDecision(text, d) ==
  text \in Texts /\ d \in [about : {text}, needs : BOOLEAN, confidence : 0 .. 100]

(* A Tier-1 cache with every decision under the text that it was made of.   *)
DecisionsSound(cache) == \A t \in DOMAIN cache : SoundDecision(t, cache[t])

(* Decisions on sentences of the draft that are made of their texts, which  *)
(* are in the cache.                                                        *)
Decided(dr, decided, cache) ==
  \A i \in DOMAIN decided :
    /\ i \in DOMAIN dr.sentences
    /\ SoundDecision(dr.sentences[i].text, decided[i])
    /\ dr.sentences[i].text \in DOMAIN cache

(* What was asked and answered: entries that are made of what they name.    *)
SoundBatches(dr, batches) ==
  /\ DOMAIN batches \subseteq Nat
  /\ \A b \in DOMAIN batches : Range(batches[b]) \subseteq DOMAIN dr.sentences
  /\ \A b \in DOMAIN batches : Range(batches[b]) \subseteq ToClassify(dr)

(* An answer whose entries are made of the sentence they name in the batch. *)
SoundAnswer(dr, batch, answer) ==
  /\ DOMAIN answer \subseteq Nat /\ IsFiniteSet(DOMAIN answer)
  /\ \A k \in DOMAIN answer :
       answer[k].idx + 1 \in DOMAIN batch =>
         SoundDecision(dr.sentences[batch[answer[k].idx + 1]].text, answer[k].decision)

(* The batches hold sentences of the draft.                                 *)
LEMMA BatchesAreOfTheDraft ==
  ASSUME NEW dr, SoundDraft(dr), NEW cache, NEW size \in Nat \ {0}
  PROVE  SoundBatches(dr, Batches(dr, cache, size))
<1> DEFINE D == ToClassify(dr)
           U == {i \in ToClassify(dr) : dr.sentences[i].text \notin DOMAIN cache}
           uncached == Ascending(U)
           n == Len(uncached)
           last(b) == IF b * size < n THEN b * size ELSE n
           batch(b) == SubSeq(uncached, (b - 1) * size + 1, last(b))
           m == (n + size - 1) \div size
           batches == Batches(dr, cache, size)
<1>1. U \subseteq D
  OBVIOUS
<1>d. D \subseteq DOMAIN dr.sentences
  BY DEF ToClassify, Analysed
<1>2. U \in SUBSET Int /\ IsFiniteSet(U)
  <2>1. D \subseteq Nat /\ IsFiniteSet(D)
    BY <1>d, FS_Subset DEF SoundDraft
  <2> HIDE DEF U, D
  <2>2. IsFiniteSet(U)
    BY <1>1, <2>1, FS_Subset
  <2>3. QED
    BY <1>1, <2>1, <2>2
<1>3. batches = [b \in 1 .. m |-> batch(b)]
  BY DEF Batches
<1> HIDE DEF U, batches
<1>4. uncached \in Seq(U) /\ n \in Nat
  BY <1>2, AscendingEnumerates
<1> HIDE DEF uncached
<1>5. uncached \in Seq(D) /\ n \in Nat
  BY <1>1, <1>4, SequenceOfMore
<1> HIDE DEF D, n, m
<1>6. ASSUME NEW b \in 1 .. m PROVE Range(batch(b)) \subseteq D
  <2>1. b \in Nat /\ b - 1 \in Nat /\ size \in Nat
    OBVIOUS
  <2>2. PICK x \in Nat : x = (b - 1) * size
    BY <2>1
  <2>3. last(b) \in Nat /\ last(b) <= n
    <3>1. b * size \in Nat
      BY <2>1
    <3>2. QED
      BY <1>5, <3>1
  <2> DEFINE e == last(b)
             s == SubSeq(uncached, x + 1, e)
  <2> HIDE DEF e
  <2>4. \A k \in DOMAIN s : s[k] \in D
    <3>1. e \in Nat /\ e <= Len(uncached)
      BY <2>3 DEF e, n
    <3>2. CASE x + 1 <= e
      <4>1. /\ Len(s) = e - x
            /\ \A k \in 1 .. Len(s) : s[k] = uncached[x + k] /\ x + k \in 1 .. Len(uncached)
        <5>1. \A r \in Seq(D), i, j \in Nat : i + 1 <= j /\ j <= Len(r) =>
                /\ Len(SubSeq(r, i + 1, j)) = j - i
                /\ \A k \in 1 .. j - i : SubSeq(r, i + 1, j)[k] = r[i + k] /\ i + k \in 1 .. Len(r)
          OBVIOUS
        <5>2. QED
          BY <5>1, <1>5, <2>2, <3>1, <3>2
      <4>2. s \in Seq(D)
        BY <1>5, <2>2, <3>1, <3>2
      <4> HIDE DEF s
      <4>3. QED
        BY <4>2
    <3>3. CASE ~ (x + 1 <= e)
      <4>1. DOMAIN s = {}
        BY <1>5, <2>2, <3>1, <3>3
      <4>2. QED
        BY <4>1
    <3>4. QED
      BY <3>2, <3>3
  <2>5. batch(b) = s
    BY <2>2 DEF e
  <2> HIDE DEF s, batch
  <2>6. QED
    BY <2>4, <2>5 DEF Range
<1>7. DOMAIN batches \subseteq Nat /\ \A b \in DOMAIN batches : Range(batches[b]) \subseteq D
  <2> HIDE DEF batch
  <2>1. QED
    BY <1>3, <1>6
<1>8. QED
  BY <1>7, <1>d DEF SoundBatches, batches, D

(* There are as many of them as the sentences to classify fill at most.     *)
LEMMA BatchesAreBounded ==
  ASSUME NEW dr, SoundDraft(dr), NEW cache, NEW size \in Nat \ {0}
  PROVE  DOMAIN Batches(dr, cache, size)
           \subseteq 1 .. (Cardinality(ToClassify(dr)) + size - 1) \div size
<1> DEFINE D == DOMAIN dr.sentences
           T == ToClassify(dr)
           U == {i \in ToClassify(dr) : dr.sentences[i].text \notin DOMAIN cache}
           n == Len(Ascending(U))
           c == Cardinality(T)
<1>1. U \subseteq T /\ T \subseteq D
  BY DEF ToClassify, Analysed
<1>2. D \subseteq Nat /\ IsFiniteSet(D)
  BY DEF SoundDraft
<1>3. DOMAIN Batches(dr, cache, size) = 1 .. (n + size - 1) \div size
  BY DEF Batches
<1> HIDE DEF D, T, U
<1>4. IsFiniteSet(T) /\ IsFiniteSet(U) /\ U \in SUBSET Int
  <2>1. IsFiniteSet(T)
    BY <1>1, <1>2, FS_Subset
  <2>2. IsFiniteSet(U)
    BY <1>1, <2>1, FS_Subset
  <2>3. QED
    BY <1>1, <1>2, <2>1, <2>2
<1>5. c \in Nat /\ Cardinality(U) <= c /\ n = Cardinality(U) /\ n \in Nat
  BY <1>1, <1>4, FS_Subset, FS_CardinalityType, AscendingEnumerates
<1> HIDE DEF n, c
<1>6. (n + size - 1) \div size <= (c + size - 1) \div size
  <2> DEFINE a == n + size - 1
             b == c + size - 1
  <2>1. a \in Nat /\ b \in Nat /\ a <= b
    BY <1>5
  <2> HIDE DEF a, b
  <2>2. QED
    BY <2>1 DEF a, b
<1>7. (n + size - 1) \div size \in Int /\ (c + size - 1) \div size \in Int
  BY <1>5
<1> DEFINE x == (n + size - 1) \div size
           y == (c + size - 1) \div size
<1> HIDE DEF x, y
<1>8. 1 .. x \subseteq 1 .. y
  BY <1>6, <1>7 DEF x, y
<1>9. QED
  BY <1>3, <1>8 DEF x, y, c, T

(* classify_batch: the last entry that names a sentence was made of it.     *)
LEMMA ClassifiedOnTheirText ==
  ASSUME NEW dr, NEW batch, Range(batch) \subseteq DOMAIN dr.sentences,
         NEW answer, SoundAnswer(dr, batch, answer)
  PROVE  \A i \in DOMAIN ClassifyBatch(batch, answer) :
           /\ i \in DOMAIN dr.sentences
           /\ EntriesFor(batch, answer, i) # {}
           /\ SoundDecision(dr.sentences[i].text, ClassifyBatch(batch, answer)[i])
<1> SUFFICES ASSUME NEW i \in {x \in Range(batch) : EntriesFor(batch, answer, x) # {}}
             PROVE  SoundDecision(dr.sentences[i].text, ClassifyBatch(batch, answer)[i])
  BY DEF ClassifyBatch
<1> DEFINE E == EntriesFor(batch, answer, i)
<1>1. E \subseteq DOMAIN answer /\ \A k \in E : /\ answer[k].idx + 1 \in DOMAIN batch
                                              /\ batch[answer[k].idx + 1] = i
  BY DEF EntriesFor, Named
<1>2. E # {}
  OBVIOUS
<1>3. ClassifyBatch(batch, answer)[i] = answer[Max(E)].decision
  BY DEF ClassifyBatch
<1> HIDE DEF E
<1>4. Max(E) \in E
  <2>1. DOMAIN answer \subseteq Nat /\ IsFiniteSet(DOMAIN answer)
    BY DEF SoundAnswer
  <2>2. IsFiniteSet(E)
    BY <1>1, <2>1, FS_Subset
  <2>3. E \in SUBSET Int
    BY <1>1, <2>1
  <2>4. QED
    BY <1>2, <2>2, <2>3, MaxIsGreatest
<1>5. QED
  BY <1>1, <1>3, <1>4 DEF SoundAnswer

(* An entry that names a sentence of the batch decides it.                  *)
LEMMA NamedIsClassified ==
  ASSUME NEW batch, NEW answer, NEW k \in DOMAIN Named(batch, answer)
  PROVE  /\ Named(batch, answer)[k] \in DOMAIN ClassifyBatch(batch, answer)
         /\ k \in DOMAIN answer
<1> DEFINE i == Named(batch, answer)[k]
<1>1. k \in DOMAIN answer /\ answer[k].idx + 1 \in DOMAIN batch /\ i = batch[answer[k].idx + 1]
  BY DEF Named
<1>2. i \in Range(batch)
  BY <1>1 DEF Range
<1>3. k \in EntriesFor(batch, answer, i)
  BY DEF EntriesFor
<1>4. QED
  BY <1>1, <1>2, <1>3 DEF ClassifyBatch

(* Answers to all the batches.                                              *)
SoundAnswers(dr, batches, answers) ==
  SoundBatches(dr, batches) /\ \A b \in DOMAIN batches : SoundAnswer(dr, batches[b], answers[b])

(* A decision comes from an answer that named the sentence, and no answer   *)
(* that named one is lost.                                                  *)
LEMMA ClassifiedBySome ==
  ASSUME NEW dr, NEW batches, NEW answers, SoundAnswers(dr, batches, answers)
  PROVE  /\ \A i \in DOMAIN Classified(batches, answers) :
              /\ i \in DOMAIN dr.sentences
              /\ SoundDecision(dr.sentences[i].text, Classified(batches, answers)[i])
              /\ \E b \in DOMAIN batches : EntriesFor(batches[b], answers[b], i) # {}
         /\ \A b \in DOMAIN batches : \A i \in DOMAIN ClassifyBatch(batches[b], answers[b]) :
              i \in DOMAIN Classified(batches, answers)
<1> DEFINE of(b) == ClassifyBatch(batches[b], answers[b])
           D == UNION {DOMAIN of(b) : b \in DOMAIN batches}
           in(i) == CHOOSE b \in DOMAIN batches : i \in DOMAIN of(b)
           whole == Classified(batches, answers)
<1>1. whole = [i \in D |-> of(in(i))[i]]
  BY DEF Classified
<1> HIDE DEF whole
<1>2. \A b \in DOMAIN batches : \A i \in DOMAIN of(b) :
        /\ i \in DOMAIN dr.sentences
        /\ EntriesFor(batches[b], answers[b], i) # {}
        /\ SoundDecision(dr.sentences[i].text, of(b)[i])
  <2> TAKE b \in DOMAIN batches
  <2>1. Range(batches[b]) \subseteq DOMAIN dr.sentences
    BY DEF SoundAnswers, SoundBatches
  <2>2. SoundAnswer(dr, batches[b], answers[b])
    BY DEF SoundAnswers
  <2>3. QED
    BY <2>1, <2>2, ClassifiedOnTheirText
<1> HIDE DEF of
<1>3. ASSUME NEW i \in D
      PROVE  /\ i \in DOMAIN dr.sentences
             /\ SoundDecision(dr.sentences[i].text, whole[i])
             /\ \E b \in DOMAIN batches : EntriesFor(batches[b], answers[b], i) # {}
  <2>1. in(i) \in DOMAIN batches /\ i \in DOMAIN of(in(i))
    OBVIOUS
  <2>2. whole[i] = of(in(i))[i]
    BY <1>1
  <2> HIDE DEF in, D
  <2>3. QED
    BY <1>2, <2>1, <2>2
<1>4. DOMAIN whole = D
  BY <1>1
<1>5. \A b \in DOMAIN batches : \A i \in DOMAIN of(b) : i \in D
  OBVIOUS
<1> HIDE DEF D
<1>6. QED
  BY <1>3, <1>4, <1>5 DEF whole, of

(* What is decided is of the sentences to classify.                         *)
LEMMA ClassifiedAsked ==
  ASSUME NEW dr, NEW batches, SoundBatches(dr, batches), NEW answers
  PROVE  \A i \in DOMAIN Classified(batches, answers) : i \in ToClassify(dr)
<1> DEFINE of(b) == ClassifyBatch(batches[b], answers[b])
           D == UNION {DOMAIN of(b) : b \in DOMAIN batches}
<1>1. DOMAIN Classified(batches, answers) = D
  BY DEF Classified
<1>2. \A b \in DOMAIN batches : DOMAIN of(b) \subseteq Range(batches[b])
  BY DEF ClassifyBatch
<1> HIDE DEF of
<1>3. D \subseteq ToClassify(dr)
  BY <1>2 DEF SoundBatches
<1> HIDE DEF D
<1>4. QED
  BY <1>1, <1>3

(* A cache that has kept what it had, and of a new text the decision of a   *)
(* sentence of that text.                                                   *)
Remembers(dr, cache, decided, stored) ==
  /\ \A t \in DOMAIN cache : t \in DOMAIN stored /\ stored[t] = cache[t]
  /\ \A t \in DOMAIN stored \ DOMAIN cache :
       \E j \in DOMAIN decided : dr.sentences[j].text = t /\ stored[t] = decided[j]

(* What is cached of a text is the decision of a sentence of that text, so  *)
(* that the cache stays sound, keeps what it had and has every decision.    *)
LEMMA StoredDecisions ==
  ASSUME NEW dr, NEW cache, DecisionsSound(cache), NEW batches, NEW answers,
         SoundAnswers(dr, batches, answers)
  PROVE  LET stored == StoreCache(dr, cache, batches, answers) IN
         /\ DecisionsSound(stored)
         /\ DOMAIN cache \subseteq DOMAIN stored
         /\ Decided(dr, Classified(batches, answers), stored)
         /\ Remembers(dr, cache, Classified(batches, answers), stored)
<1> DEFINE decided == Classified(batches, answers)
           named(b) == Named(batches[b], answers[b])
           mentions(b, t) == {k \in DOMAIN named(b) : dr.sentences[named(b)[k]].text = t}
           having(t) == {x \in DOMAIN batches : mentions(x, t) # {}}
           at(t) == Min(having(t))
           first(t) == named(at(t))[Min(mentions(at(t), t))]
           T == {dr.sentences[i].text : i \in DOMAIN decided}
           fresh == [t \in T |-> decided[first(t)]]
           stored == StoreCache(dr, cache, batches, answers)
<1>1. stored = Extended(cache, fresh)
  BY DEF StoreCache
<1> HIDE DEF stored, decided
<1>2. \A i \in DOMAIN decided :
        /\ i \in DOMAIN dr.sentences
        /\ SoundDecision(dr.sentences[i].text, decided[i])
        /\ \E b \in DOMAIN batches : EntriesFor(batches[b], answers[b], i) # {}
  BY ClassifiedBySome DEF decided
<1>3. \A b \in DOMAIN batches : DOMAIN answers[b] \subseteq Nat /\ \A k \in DOMAIN named(b) :
        k \in DOMAIN answers[b] /\ named(b)[k] \in DOMAIN decided
  <2> TAKE b \in DOMAIN batches
  <2>1. DOMAIN answers[b] \subseteq Nat
    BY DEF SoundAnswers, SoundAnswer
  <2>2. ASSUME NEW k \in DOMAIN named(b)
        PROVE  k \in DOMAIN answers[b] /\ named(b)[k] \in DOMAIN decided
    <3>1. named(b)[k] \in DOMAIN ClassifyBatch(batches[b], answers[b]) /\ k \in DOMAIN answers[b]
      BY NamedIsClassified
    <3>2. QED
      BY <3>1, ClassifiedBySome DEF decided
  <2>3. QED
    BY <2>1, <2>2
<1>4. ASSUME NEW t \in T
      PROVE  /\ SoundDecision(t, decided[first(t)])
             /\ first(t) \in DOMAIN decided /\ dr.sentences[first(t)].text = t
  <2>1. PICK i \in DOMAIN decided : t = dr.sentences[i].text
    OBVIOUS
  <2>2. PICK b \in DOMAIN batches : EntriesFor(batches[b], answers[b], i) # {}
    BY <1>2, <2>1
  <2>3. mentions(b, t) # {}
    BY <2>1, <2>2 DEF EntriesFor
  <2>4. having(t) \in SUBSET Nat /\ having(t) # {}
    <3>1. DOMAIN batches \subseteq Nat
      BY DEF SoundAnswers, SoundBatches
    <3> HIDE DEF mentions
    <3>2. QED
      BY <2>3, <3>1
  <2>5. at(t) \in having(t)
    <3> HIDE DEF having
    <3>1. QED
      BY <2>4, MinOfNaturals
  <2> DEFINE a == at(t)
             M == mentions(a, t)
  <2>6. a \in DOMAIN batches /\ M # {}
    BY <2>5
  <2> HIDE DEF a
  <2>7. M \in SUBSET Nat
    BY <1>3, <2>6
  <2>8. Min(M) \in M
    <3> HIDE DEF M
    <3>1. QED
      BY <2>6, <2>7, MinOfNaturals
  <2>9. Min(M) \in DOMAIN named(a) /\ dr.sentences[named(a)[Min(M)]].text = t
    BY <2>8
  <2>10. first(t) = named(a)[Min(M)]
    BY DEF a
  <2> HIDE DEF first, M, named
  <2>11. first(t) \in DOMAIN decided /\ dr.sentences[first(t)].text = t
    BY <1>3, <2>6, <2>9, <2>10
  <2>12. SoundDecision(t, decided[first(t)])
    BY <1>2, <2>11
  <2>13. QED
    BY <2>11, <2>12
<1>5. \A i \in DOMAIN decided : dr.sentences[i].text \in T
  OBVIOUS
<1> HIDE DEF T, first
<1>6. /\ DOMAIN fresh = T
      /\ \A t \in T : SoundDecision(t, fresh[t]) /\ fresh[t] = decided[first(t)]
  BY <1>4
<1> HIDE DEF fresh
<1>7. DOMAIN stored = DOMAIN cache \cup T
  BY <1>1, <1>6, ExtendedDomain
<1>8. ASSUME NEW t \in DOMAIN stored PROVE SoundDecision(t, stored[t])
  <2>1. CASE t \in DOMAIN cache
    <3>1. stored[t] = cache[t]
      BY <1>1, <2>1, ExtendedKeeps
    <3>2. QED
      BY <2>1, <3>1 DEF DecisionsSound
  <2>2. CASE t \notin DOMAIN cache
    <3>1. t \in DOMAIN fresh /\ t \in T
      BY <1>6, <1>7, <2>2
    <3>2. stored[t] = fresh[t]
      BY <1>1, <2>2, <3>1, ExtendedAdds
    <3>3. QED
      BY <1>6, <3>1, <3>2
  <2>3. QED
    BY <2>1, <2>2
<1>9. Remembers(dr, cache, decided, stored)
  <2>1. ASSUME NEW t \in DOMAIN cache PROVE t \in DOMAIN stored /\ stored[t] = cache[t]
    BY <1>1, <1>7, <2>1, ExtendedKeeps
  <2>2. ASSUME NEW t \in DOMAIN stored \ DOMAIN cache
        PROVE  \E j \in DOMAIN decided : dr.sentences[j].text = t /\ stored[t] = decided[j]
    <3>1. t \in DOMAIN fresh /\ t \in T
      BY <1>6, <1>7
    <3>2. stored[t] = fresh[t]
      BY <1>1, <3>1, ExtendedAdds
    <3>3. QED
      BY <1>4, <1>6, <3>1, <3>2
  <2>3. QED
    BY <2>1, <2>2 DEF Remembers
<1>10. QED
  BY <1>2, <1>5, <1>7, <1>8, <1>9 DEF DecisionsSound, Decided, stored, decided

(* The decisions that detection goes by: the cache's first.                 *)
LEMMA DecisionsTogether ==
  ASSUME NEW dr, SoundDraft(dr), NEW cache, DecisionsSound(cache),
         NEW decided, NEW stored, DOMAIN cache \subseteq DOMAIN stored,
         Decided(dr, decided, stored)
  PROVE  Decided(dr, Extended(CachedDecisions(dr, cache), decided), stored)
<1> DEFINE old == CachedDecisions(dr, cache)
           all == Extended(old, decided)
<1>1. \A i \in DOMAIN old : /\ i \in DOMAIN dr.sentences
                           /\ dr.sentences[i].text \in DOMAIN cache
                           /\ old[i] = cache[dr.sentences[i].text]
  BY DEF CachedDecisions, ToClassify, Analysed
<1> HIDE DEF old
<1> SUFFICES ASSUME NEW i \in DOMAIN all
             PROVE  /\ i \in DOMAIN dr.sentences
                    /\ SoundDecision(dr.sentences[i].text, all[i])
                    /\ dr.sentences[i].text \in DOMAIN stored
  BY DEF Decided, old
<1>2. i \in DOMAIN old \cup DOMAIN decided
  BY ExtendedDomain
<1>3. CASE i \in DOMAIN old
  <2>1. all[i] = old[i]
    BY <1>3, ExtendedKeeps
  <2>2. QED
    BY <1>1, <1>3, <2>1 DEF DecisionsSound
<1>4. CASE i \notin DOMAIN old
  <2>1. i \in DOMAIN decided
    BY <1>2, <1>4
  <2>2. all[i] = decided[i]
    BY <1>4, <2>1, ExtendedAdds
  <2>3. QED
    BY <2>1, <2>2 DEF Decided
<1>5. QED
  BY <1>3, <1>4

(* The score of the rules is a number.                                      *)
LEMMA RuleScoreTyped ==
  ASSUME NEW s PROVE RuleScore(s) \in Int
<1> DEFINE points(mark, score) == IF mark \in s.marks THEN score ELSE 0
           sum == points("consensus_phrase", 45) + points("reporting_verb", 25)
                  + points("effect_verb", 25) + points("comparative", 20) + points("statistic", 15)
<1>1. sum \in Int
  OBVIOUS
<1>2. RuleScore(s) = IF sum < 100 THEN sum ELSE 100
  BY DEF RuleScore
<1> HIDE DEF sum
<1>3. QED
  BY <1>1, <1>2

(* Claims with the text of their sentence and a decision on it, which is in *)
(* the cache; nothing that must be a claim is missing.                      *)
SoundClaims(dr, cs, cache) ==
  /\ ClaimTable(cs) /\ DOMAIN cs \subseteq DOMAIN dr.sentences
  /\ \A i \in DOMAIN cs :
       /\ cs[i].text = dr.sentences[i].text
       /\ cs[i].method = "LLM" => /\ cs[i].decision.about = cs[i].text
                                      /\ cs[i].text \in DOMAIN cache
  /\ \A i \in Analysed(dr) :
       LET s == dr.sentences[i] IN
         s.citations > 0 \/ (Prefilter(s) = "STRONG" /\ s.text \notin DOMAIN cache)
           => i \in DOMAIN cs

(* The claims made of sound decisions.                                      *)
LEMMA ClaimsAreSound ==
  ASSUME NEW dr, SoundDraft(dr), NEW decided, NEW cache, Decided(dr, decided, cache)
  PROVE  SoundClaims(dr, Claims(dr, decided), cache)
<1> DEFINE d(i) == IF i \in DOMAIN decided THEN decided[i] ELSE NoDecision
           claim(i) == Claim(dr.sentences[i], d(i))
           cs == Claims(dr, decided)
           D == {x \in Analysed(dr) : claim(x).needs \/ claim(x).citations > 0}
<1>1. cs = [i \in D |-> claim(i)]
  BY DEF Claims
<1> HIDE DEF cs
<1>2. D \subseteq DOMAIN dr.sentences
  BY DEF Analysed
<1>3. ASSUME NEW i \in DOMAIN dr.sentences
      PROVE  /\ claim(i).text = dr.sentences[i].text
             /\ claim(i).text \in Texts /\ claim(i).confidence \in Int
             /\ claim(i).citations = dr.sentences[i].citations
             /\ claim(i).method = "LLM" => /\ claim(i).decision.about = claim(i).text
                                           /\ claim(i).text \in DOMAIN cache
             /\ Prefilter(dr.sentences[i]) = "STRONG"
                  /\ dr.sentences[i].text \notin DOMAIN cache => claim(i).needs
  <2> DEFINE s == dr.sentences[i]
             e == d(i)
  <2>1. s.text \in Texts
    BY DEF SoundDraft
  <2>2. e # NoDecision => /\ i \in DOMAIN decided /\ SoundDecision(s.text, e)
                          /\ s.text \in DOMAIN cache
    BY DEF Decided
  <2>3. s.text \notin DOMAIN cache => e = NoDecision
    BY DEF Decided
  <2>4. claim(i) = Claim(s, e)
    OBVIOUS
  <2> HIDE DEF s, e, claim
  <2>5. /\ claim(i).text = s.text /\ claim(i).citations = s.citations /\ claim(i).decision = e
        /\ claim(i).method = IF e # NoDecision THEN "LLM" ELSE "RULE"
        /\ claim(i).needs = IF e # NoDecision THEN e.needs ELSE Prefilter(s) = "STRONG"
        /\ claim(i).confidence = IF e # NoDecision THEN e.confidence
                                 ELSE IF Prefilter(s) = "SKIP" THEN 0 ELSE RuleScore(s)
    BY <2>4 DEF Claim
  <2>6. claim(i).confidence \in Int
    BY <2>2, <2>5, RuleScoreTyped DEF SoundDecision
  <2>7. claim(i).method = "LLM" => e # NoDecision
    BY <2>5
  <2>8. claim(i).method = "LLM" => /\ claim(i).decision.about = claim(i).text
                                   /\ claim(i).text \in DOMAIN cache
    BY <2>2, <2>5, <2>7 DEF SoundDecision
  <2>9. Prefilter(s) = "STRONG" /\ s.text \notin DOMAIN cache => claim(i).needs
    BY <2>3, <2>5
  <2>10. QED
    BY <2>1, <2>5, <2>6, <2>8, <2>9 DEF s
<1> HIDE DEF claim
<1>4. ClaimTable(cs)
  <2>1. DOMAIN cs = D
    BY <1>1
  <2>2. DOMAIN dr.sentences \subseteq Nat /\ IsFiniteSet(DOMAIN dr.sentences)
    BY DEF SoundDraft
  <2> HIDE DEF D
  <2>3. D \subseteq Nat /\ IsFiniteSet(D)
    BY <1>2, <2>2, FS_Subset
  <2>4. \A i \in D : cs[i].text \in Texts /\ cs[i].confidence \in Int
    BY <1>1, <1>2, <1>3
  <2>5. QED
    BY <2>1, <2>3, <2>4 DEF ClaimTable
<1>5. \A i \in DOMAIN cs :
        /\ cs[i].text = dr.sentences[i].text
        /\ cs[i].method = "LLM" => /\ cs[i].decision.about = cs[i].text
                                       /\ cs[i].text \in DOMAIN cache
  BY <1>1, <1>2, <1>3
<1>6. \A i \in Analysed(dr) :
        LET s == dr.sentences[i] IN
          s.citations > 0 \/ (Prefilter(s) = "STRONG" /\ s.text \notin DOMAIN cache)
            => i \in DOMAIN cs
  <2> TAKE i \in Analysed(dr)
  <2>1. i \in DOMAIN dr.sentences
    BY DEF Analysed
  <2>2. QED
    BY <1>1, <1>3, <2>1
<1>7. DOMAIN cs \subseteq DOMAIN dr.sentences
  BY <1>1, <1>2
<1>8. QED
  BY <1>4, <1>5, <1>6, <1>7 DEF SoundClaims, cs

(* Of equal sentences one at least shows the claim that the cache would     *)
(* give it.                                                                 *)
SameRow(a, b, i) == (i \in DOMAIN a <=> i \in DOMAIN b) /\ (i \in DOMAIN a => a[i] = b[i])
Repeats(dr, cs, cache) ==
  \A i \in ToClassify(dr) : \E j \in ToClassify(dr) :
    /\ dr.sentences[j].text = dr.sentences[i].text
    /\ SameRow(cs, Claims(dr, CachedDecisions(dr, cache)), j)

(* A row depends on the decision on its sentence only.                      *)
LEMMA SameDecision ==
  ASSUME NEW dr, NEW f, NEW g, NEW i,
         i \in DOMAIN f <=> i \in DOMAIN g, i \in DOMAIN f => f[i] = g[i]
  PROVE  SameRow(Claims(dr, f), Claims(dr, g), i)
<1> DEFINE d(h, x) == IF x \in DOMAIN h THEN h[x] ELSE NoDecision
           claim(h, x) == Claim(dr.sentences[x], d(h, x))
           D(h) == {x \in Analysed(dr) : claim(h, x).needs \/ claim(h, x).citations > 0}
<1>1. Claims(dr, f) = [x \in D(f) |-> claim(f, x)] /\ Claims(dr, g) = [x \in D(g) |-> claim(g, x)]
  BY DEF Claims
<1>2. claim(f, i) = claim(g, i)
  OBVIOUS
<1> HIDE DEF claim
<1>3. i \in D(f) <=> i \in D(g)
  BY <1>2
<1> HIDE DEF D
<1>4. QED
  BY <1>1, <1>2, <1>3 DEF SameRow

(* What a detection has stored and cached is what it would find again.      *)
LEMMA ClaimsRepeat ==
  ASSUME NEW dr, NEW cache, NEW decided, NEW stored,
         \A j \in DOMAIN decided : j \in ToClassify(dr) /\ dr.sentences[j].text \in DOMAIN stored,
         Remembers(dr, cache, decided, stored)
  PROVE  Repeats(dr, Claims(dr, Extended(CachedDecisions(dr, cache), decided)), stored)
<1> DEFINE old == CachedDecisions(dr, cache)
           all == Extended(old, decided)
           again == CachedDecisions(dr, stored)
<1>1. /\ \A i : i \in DOMAIN old <=> i \in ToClassify(dr) /\ dr.sentences[i].text \in DOMAIN cache
      /\ \A i \in DOMAIN old : old[i] = cache[dr.sentences[i].text]
      /\ \A i : i \in DOMAIN again <=> i \in ToClassify(dr) /\ dr.sentences[i].text \in DOMAIN stored
      /\ \A i \in DOMAIN again : again[i] = stored[dr.sentences[i].text]
  BY DEF CachedDecisions
<1> HIDE DEF old, again
<1>2. DOMAIN all = DOMAIN old \cup DOMAIN decided
  BY ExtendedDomain
<1>3. \A i \in DOMAIN old : all[i] = old[i]
  BY ExtendedKeeps
<1>4. \A i \in DOMAIN decided : i \notin DOMAIN old => all[i] = decided[i]
  BY ExtendedAdds
<1> HIDE DEF all
<1>5. ASSUME NEW i \in ToClassify(dr)
      PROVE  \E j \in ToClassify(dr) : /\ dr.sentences[j].text = dr.sentences[i].text
                                       /\ SameRow(Claims(dr, all), Claims(dr, again), j)
  <2> DEFINE t == dr.sentences[i].text
  <2>1. CASE t \in DOMAIN cache
    <3>1. i \in DOMAIN all /\ i \in DOMAIN again /\ all[i] = again[i]
      BY <1>1, <1>2, <1>3, <2>1 DEF Remembers
    <3>2. QED
      BY <3>1, SameDecision
  <2>2. CASE t \in DOMAIN stored \ DOMAIN cache
    <3>1. PICK j \in DOMAIN decided : dr.sentences[j].text = t /\ stored[t] = decided[j]
      BY <2>2 DEF Remembers
    <3>2. j \in ToClassify(dr) /\ j \in DOMAIN all /\ j \in DOMAIN again /\ all[j] = again[j]
      BY <1>1, <1>2, <1>4, <2>2, <3>1
    <3>3. QED
      BY <3>1, <3>2, SameDecision
  <2>3. CASE t \notin DOMAIN stored
    <3>1. i \notin DOMAIN all /\ i \notin DOMAIN again
      BY <1>1, <1>2, <2>3 DEF Remembers
    <3>2. QED
      BY <3>1, SameDecision
  <2>4. QED
    BY <2>1, <2>2, <2>3
<1>6. QED
  BY <1>5 DEF Repeats, all, old, again

-----------------------------------------------------------------------------
(* The goals.                                                               *)

(* A candidate goal shows keywords of its group that were found, and none   *)
(* only if none was.                                                        *)
SoundCandidate(found, c) ==
  /\ c.goal \in Goals
  /\ c.matched \in Seq(Range(GoalKeywords[c.goal]) \cap found)
  /\ c.matched = <<>> => Range(GoalKeywords[c.goal]) \cap found = {}

(* Every goal has keywords, each with a length.                             *)
LEMMA GroupsTyped ==
  ASSUME NEW g \in Goals
  PROVE  /\ GoalKeywords[g] \in Seq(Range(GoalKeywords[g]))
         /\ GoalKeywords[g][1] \in Range(GoalKeywords[g])
         /\ \A x \in Range(GoalKeywords[g]) : x \in Nat /\ x # 0 /\ Length[x] \in Int
<1> DEFINE s == GoalKeywords[g]
<1>1. s \in Seq(Nat \ {0}) /\ s # <<>>
  BY GoalsAssumption
<1>2. \A x \in Range(s) : x \in AllKeywords
  BY DEF AllKeywords
<1> HIDE DEF s
<1>3. s \in Seq(Range(s)) /\ 1 \in DOMAIN s
  BY <1>1, SequenceOfItsRange
<1>4. \A x \in Range(s) : x \in Nat /\ x # 0
  BY <1>1 DEF Range
<1>5. \A x \in AllKeywords : Length[x] \in Int
  BY GoalsAssumption
<1>6. s[1] \in Range(s)
  BY <1>3 DEF Range
<1>7. QED
  BY <1>2, <1>3, <1>4, <1>5, <1>6 DEF s

(* The keywords of a goal that were found, and the longest of them.         *)
GroupHits(g, found) ==
  Kept(GoalKeywords[g], {n \in DOMAIN GoalKeywords[g] : GoalKeywords[g][n] \in found})
GroupMatched(g, found) ==
  LET hits == GroupHits(g, found)
  IN Take(Descending(hits, [n \in DOMAIN hits |-> Length[hits[n]]]), MaxKeywords)

(* What is shown of a goal are found keywords of its group, and something   *)
(* is shown if anything was found.                                          *)
LEMMA MatchedOfGroup ==
  ASSUME NEW g \in Goals, NEW found
  PROVE  /\ GroupHits(g, found) = <<>> => Range(GoalKeywords[g]) \cap found = {}
         /\ Len(GroupHits(g, found)) \in Int
         /\ GroupMatched(g, found) \in Seq(Range(GoalKeywords[g]) \cap found)
         /\ GroupHits(g, found) # <<>> => GroupMatched(g, found) # <<>>
<1> DEFINE s == GoalKeywords[g]
           R == Range(s)
           S == {n \in DOMAIN s : s[n] \in found}
           hits == Kept(s, S)
           length == [n \in DOMAIN hits |-> Length[hits[n]]]
           sorted == Descending(hits, length)
           matched == Take(sorted, MaxKeywords)
           X == R \cap found
<1>1. s \in Seq(R) /\ \A x \in R : Length[x] \in Int
  BY GroupsTyped
<1>2. \A n \in S : n \in DOMAIN s /\ s[n] \in X
  BY DEF Range
<1>3. S = {} => X = {}
  BY DEF Range
<1>4. S \in SUBSET DOMAIN s
  OBVIOUS
<1> HIDE DEF s, S, R
<1>5. /\ hits \in Seq(R)
      /\ \E at : /\ at \in [DOMAIN hits -> S]
                 /\ \A k \in DOMAIN hits : hits[k] = s[at[k]]
                 /\ \A x \in S : \E k \in DOMAIN hits : at[k] = x
                 /\ \A i, j \in DOMAIN hits : i < j => at[i] < at[j]
  BY <1>1, <1>4, KeptInOrder
<1> HIDE DEF hits
<1>6. PICK at : /\ at \in [DOMAIN hits -> S]
                /\ \A k \in DOMAIN hits : hits[k] = s[at[k]]
                /\ \A x \in S : \E k \in DOMAIN hits : at[k] = x
  BY <1>5
<1>7. \A k \in DOMAIN hits : hits[k] \in X
  BY <1>2, <1>6
<1>8. hits = <<>> => X = {}
  <2>1. hits = <<>> => DOMAIN hits = {}
    OBVIOUS
  <2>2. QED
    BY <1>3, <1>6, <2>1
<1> HIDE DEF X
<1>9. hits \in Seq(X)
  <2>1. DOMAIN hits = 1 .. Len(hits) /\ Len(hits) \in Nat /\ hits = [k \in 1 .. Len(hits) |-> hits[k]]
    BY <1>5
  <2>2. QED
    BY <1>7, <2>1
<1>10. length \in [DOMAIN hits -> Int]
  BY <1>1, <1>5
<1> HIDE DEF length
<1>11. sorted \in Seq(X) /\ Len(sorted) = Len(hits)
  BY <1>9, <1>10, DescendingSorts
<1> HIDE DEF sorted
<1>12. MaxKeywords \in Nat /\ MaxKeywords # 0
  BY GoalsAssumption
<1>13. /\ matched \in Seq(X)
       /\ Len(matched) = IF MaxKeywords < Len(sorted) THEN MaxKeywords ELSE Len(sorted)
  BY <1>11, <1>12, TakeIsPrefix
<1> HIDE DEF matched
<1>14. Len(hits) \in Nat /\ (hits # <<>> => Len(hits) # 0)
  BY <1>9
<1>15. hits # <<>> => matched # <<>>
  <2>1. matched = <<>> => Len(matched) = 0
    OBVIOUS
  <2>2. QED
    BY <1>11, <1>12, <1>13, <1>14, <2>1
<1>16. hits = GroupHits(g, found) /\ matched = GroupMatched(g, found)
  BY DEF GroupHits, GroupMatched, matched, sorted, length, hits, S, s
<1>17. QED
  BY <1>8, <1>13, <1>14, <1>15, <1>16 DEF X, R, s

(* The prefilter leaves out no goal that a keyword was found of.            *)
LEMMA PrefilterIsSound ==
  ASSUME NEW found
  PROVE  /\ SdgPrefilter(found) \in Seq(Range(SdgPrefilter(found)))
         /\ \A c \in Range(SdgPrefilter(found)) : SoundCandidate(found, c)
         /\ \A g \in Goals : g \notin {c.goal : c \in Range(SdgPrefilter(found))} =>
              Range(GoalKeywords[g]) \cap found = {}
<1> DEFINE hits(g) == GroupHits(g, found)
           matched(g) == GroupMatched(g, found)
           H == {g \in Goals : hits(g) # <<>>}
           hit == Ascending(H)
           of(g) == [goal |-> g, count |-> Len(hits(g)), matched |-> matched(g)]
           all == [n \in DOMAIN hit |-> of(hit[n])]
           C == {of(g) : g \in H}
           key == [n \in DOMAIN all |-> all[n].count]
           final == Descending(all, key)
<1>1. \A g \in Goals : /\ hits(g) = <<>> => Range(GoalKeywords[g]) \cap found = {}
                       /\ Len(hits(g)) \in Int
                       /\ matched(g) \in Seq(Range(GoalKeywords[g]) \cap found)
                       /\ hits(g) # <<>> => matched(g) # <<>>
  BY MatchedOfGroup
<1>2. SdgPrefilter(found) = final
  BY DEF SdgPrefilter, GroupHits, GroupMatched
<1> HIDE DEF matched, hits
<1>3. \A g \in H : /\ g \in Goals /\ of(g) \in C /\ of(g).goal = g
                   /\ SoundCandidate(found, of(g)) /\ of(g).count \in Int
  BY <1>1 DEF SoundCandidate
<1>4. H \in SUBSET Int /\ IsFiniteSet(H)
  <2>1. H \subseteq Goals /\ Goals \subseteq Nat /\ IsFiniteSet(Goals)
    BY GoalsAssumption
  <2> HIDE DEF H
  <2>2. IsFiniteSet(H)
    BY <2>1, FS_Subset
  <2>3. QED
    BY <2>1, <2>2
<1>5. \A g \in Goals : g \notin H => Range(GoalKeywords[g]) \cap found = {}
  BY <1>1
<1> HIDE DEF H, of, C
<1>6. hit \in Seq(H) /\ \A g \in H : \E n \in DOMAIN hit : hit[n] = g
  BY <1>4, AscendingEnumerates
<1> HIDE DEF hit
<1>7. /\ all \in Seq(C) /\ DOMAIN all = DOMAIN hit
      /\ \A n \in DOMAIN hit : all[n] = of(hit[n]) /\ hit[n] \in H
  <2>1. /\ all \in [1 .. Len(hit) -> C] /\ Len(hit) \in Nat /\ DOMAIN all = DOMAIN hit
        /\ \A n \in DOMAIN hit : all[n] = of(hit[n]) /\ hit[n] \in H
    BY <1>3, <1>6
  <2> HIDE DEF all
  <2>2. QED
    BY <2>1
<1> HIDE DEF all
<1>8. key \in [DOMAIN all -> Int]
  BY <1>3, <1>7
<1> HIDE DEF key
<1>9. /\ final \in Seq(C) /\ DOMAIN final = DOMAIN all
      /\ \E order : /\ Permutes(order, all)
                    /\ \A k \in DOMAIN all : final[k] = all[order[k]]
                    /\ \A i, j \in DOMAIN all : i < j => key[order[i]] >= key[order[j]]
  BY <1>7, <1>8, DescendingSorts
<1>10. PICK order : Permutes(order, all) /\ \A k \in DOMAIN all : final[k] = all[order[k]]
  BY <1>9
<1> HIDE DEF final
<1>11. final \in Seq(Range(final))
  BY <1>9, SequenceOfItsRange
<1>12. \A c \in Range(final) : SoundCandidate(found, c)
  <2> SUFFICES ASSUME NEW k \in DOMAIN final PROVE SoundCandidate(found, final[k])
    BY DEF Range
  <2>1. order[k] \in DOMAIN hit /\ final[k] = all[order[k]]
    BY <1>7, <1>9, <1>10 DEF Permutes
  <2>2. QED
    BY <1>3, <1>7, <2>1
<1>13. \A g \in H : g \in {c.goal : c \in Range(final)}
  <2> TAKE g \in H
  <2>1. PICK n \in DOMAIN hit : hit[n] = g
    BY <1>6
  <2>2. PICK k \in DOMAIN all : order[k] = n
    BY <1>7, <1>10 DEF Permutes
  <2>3. final[k] = of(g) /\ final[k] \in Range(final)
    BY <1>7, <1>9, <1>10, <2>1, <2>2 DEF Range
  <2>4. QED
    BY <1>3, <2>3
<1>14. QED
  BY <1>2, <1>5, <1>11, <1>12, <1>13

(* The goal of a draft that found a keyword is supported by more than       *)
(* generic words.                                                           *)
SupportedGoal(found, g) ==
  g \in Goals /\ LET matched == Range(GoalKeywords[g]) \cap found
                 IN matched # {} => ~ matched \subseteq Generic

(* A stored result: confirmed on a supported goal, or not.                  *)
SoundSdg(found, s) ==
  /\ s \in [goal : Goals \cup {0}, keyword : AllKeywords \cup {0}, closest : Goals \cup {0}]
  /\ s.goal = 0 => s.keyword = 0
  /\ s.goal # 0 =>
       /\ SupportedGoal(found, s.goal)
       /\ s.closest = 0
       /\ s.keyword \in Range(GoalKeywords[s.goal]) \cup {0}
       /\ s.keyword = NameOf[s.goal] => s.keyword \in {0, GoalKeywords[s.goal][1]}

(* There is a candidate, and every one is sound.                            *)
LEMMA CandidatesAreSound ==
  ASSUME NEW found
  PROVE  /\ Candidates(found) \in Seq(Range(Candidates(found)))
         /\ Candidates(found) # <<>>
         /\ \A c \in Range(Candidates(found)) : SoundCandidate(found, c)
<1> DEFINE hit == SdgPrefilter(found)
           left == Goals \ {hit[n].goal : n \in DOMAIN hit}
           rest == Ascending(left)
           of(g) == [goal |-> g, count |-> 0, matched |-> <<>>]
           tail == [n \in DOMAIN rest |-> of(rest[n])]
           T == {of(g) : g \in left}
           X == Range(hit) \cup T
           all == hit \o tail
<1>1. Candidates(found) = all
  BY DEF Candidates
<1>2. /\ hit \in Seq(Range(hit)) /\ \A c \in Range(hit) : SoundCandidate(found, c)
      /\ \A g \in left : Range(GoalKeywords[g]) \cap found = {}
  <2>1. {c.goal : c \in Range(hit)} = {hit[n].goal : n \in DOMAIN hit}
    BY DEF Range
  <2>2. QED
    BY <2>1, PrefilterIsSound
<1> HIDE DEF hit
<1>3. left \subseteq Int /\ left \subseteq Goals /\ IsFiniteSet(left)
  <2>1. left \subseteq Goals /\ Goals \subseteq Nat /\ IsFiniteSet(Goals)
    BY GoalsAssumption
  <2> HIDE DEF left
  <2>2. IsFiniteSet(left)
    BY <2>1, FS_Subset
  <2>3. QED
    BY <2>1, <2>2
<1>4. left = {} => DOMAIN hit # {}
  BY GoalsAssumption
<1> HIDE DEF left
<1>5. rest \in Seq(left) /\ \A g \in left : \E n \in DOMAIN rest : rest[n] = g
  BY <1>3, AscendingEnumerates
<1>6. \A g \in left : of(g) \in T /\ of(g).goal = g /\ of(g).matched = <<>>
  OBVIOUS
<1>7. \A c \in T : SoundCandidate(found, c)
  <2> SUFFICES ASSUME NEW g \in left PROVE SoundCandidate(found, of(g))
    OBVIOUS
  <2>1. <<>> \in Seq(Range(GoalKeywords[g]) \cap found)
    OBVIOUS
  <2>2. QED
    BY <1>2, <1>3, <1>6, <2>1 DEF SoundCandidate
<1> HIDE DEF of, T, rest
<1>8. tail \in Seq(T) /\ DOMAIN tail = DOMAIN rest
  <2>1. tail \in [1 .. Len(rest) -> T] /\ Len(rest) \in Nat /\ DOMAIN tail = DOMAIN rest
    BY <1>5, <1>6
  <2> HIDE DEF tail
  <2>2. QED
    BY <2>1
<1> HIDE DEF tail
<1>9. DOMAIN hit # {} \/ DOMAIN tail # {}
  BY <1>4, <1>5, <1>8
<1>10. /\ hit \in Seq(X) /\ tail \in Seq(X) /\ Len(hit) \in Nat /\ Len(tail) \in Nat
       /\ DOMAIN hit = 1 .. Len(hit) /\ DOMAIN tail = 1 .. Len(tail)
  <2>1. Range(hit) \subseteq X /\ T \subseteq X
    OBVIOUS
  <2> HIDE DEF X
  <2>2. QED
    BY <1>2, <1>8, <2>1, SequenceOfMore
<1>11. \A c \in X : SoundCandidate(found, c)
  BY <1>2, <1>7
<1> HIDE DEF X
<1>12. all \in Seq(X) /\ Len(all) = Len(hit) + Len(tail)
  BY <1>10
<1>13. all # <<>>
  <2>1. Len(hit) # 0 \/ Len(tail) # 0
    BY <1>9, <1>10
  <2>2. Len(all) # 0
    BY <1>10, <1>12, <2>1
  <2>3. QED
    BY <2>2
<1> HIDE DEF all
<1>14. all \in Seq(Range(all)) /\ \A c \in Range(all) : c \in X
  BY <1>12, SequenceOfItsRange DEF Range
<1>15. QED
  BY <1>1, <1>11, <1>13, <1>14

(* The match is one of the candidates, whatever the model picked.           *)
LEMMA MatchIsSound ==
  ASSUME NEW found, NEW pick
  PROVE  SoundCandidate(found, Match(Candidates(found), pick))
<1> DEFINE all == Candidates(found)
           named == {n \in DOMAIN all : all[n].goal = pick.goal}
<1>1. all \in Seq(Range(all)) /\ all # <<>> /\ \A c \in Range(all) : SoundCandidate(found, c)
  BY CandidatesAreSound
<1>2. Match(all, pick) = all[IF named = {} THEN 1 ELSE Min(named)]
  BY DEF Match
<1> HIDE DEF all
<1>3. 1 \in DOMAIN all /\ DOMAIN all \subseteq Nat
  BY <1>1
<1>4. named \subseteq DOMAIN all
  OBVIOUS
<1> HIDE DEF named
<1>5. named # {} => Min(named) \in DOMAIN all
  BY <1>3, <1>4, MinOfNaturals
<1>6. \A n \in DOMAIN all : SoundCandidate(found, all[n])
  BY <1>1 DEF Range
<1>7. QED
  BY <1>2, <1>3, <1>5, <1>6 DEF all

(* The keywords that a candidate shows are of its group and were found.     *)
LEMMA MatchedKeywords ==
  ASSUME NEW found, NEW match, SoundCandidate(found, match)
  PROVE  /\ match.goal \in Goals /\ match.goal # 0
         /\ Range(match.matched) \subseteq Range(GoalKeywords[match.goal]) \cap found
         /\ match.matched # <<>> => match.matched[1] \in Range(match.matched)
         /\ match.matched = <<>> => Range(GoalKeywords[match.goal]) \cap found = {}
         /\ 0 \notin Range(GoalKeywords[match.goal]) /\ NameOf[match.goal] \notin Generic
<1> DEFINE X == Range(GoalKeywords[match.goal]) \cap found
           matched == match.matched
<1>1. match.goal \in Goals /\ matched \in Seq(X) /\ (matched = <<>> => X = {})
  BY DEF SoundCandidate
<1>2. match.goal # 0 /\ NameOf[match.goal] \notin Generic
  BY <1>1, GoalsAssumption
<1>3. 0 \notin Range(GoalKeywords[match.goal])
  BY <1>1, GroupsTyped
<1> HIDE DEF X, matched
<1>4. Range(matched) \subseteq X /\ (matched # <<>> => matched[1] \in Range(matched))
  BY <1>1 DEF Range
<1>5. QED
  BY <1>1, <1>2, <1>3, <1>4 DEF X, matched

(* A goal that fits is supported, with its keyword or with none.            *)
LEMMA FittingGoal ==
  ASSUME NEW found, NEW match, SoundCandidate(found, match), NEW pick, Fits(match, pick)
  PROVE  SupportedGoal(found, match.goal)
<1> DEFINE X == Range(GoalKeywords[match.goal]) \cap found
           chosen == IF pick.keyword \in Range(match.matched) THEN pick.keyword
                     ELSE IF match.matched = <<>> THEN 0 ELSE match.matched[1]
<1>1. SUFFICES ASSUME X # {} PROVE ~ X \subseteq Generic
  BY MatchedKeywords DEF SupportedGoal
<1>2. chosen \in Range(match.matched) /\ chosen \in X /\ chosen # 0
  BY <1>1, MatchedKeywords
<1>3. Keyword(match, pick) = IF chosen = NameOf[match.goal] THEN 0 ELSE chosen
  BY DEF Keyword
<1> HIDE DEF chosen
<1>4. CASE chosen = NameOf[match.goal]
  BY <1>2, <1>4, MatchedKeywords
<1>5. CASE chosen # NameOf[match.goal] /\ chosen \in Generic
  BY <1>3, <1>5, MatchedKeywords DEF Fits
<1>6. CASE chosen # NameOf[match.goal] /\ chosen \notin Generic
  BY <1>2, <1>6
<1>7. QED
  BY <1>4, <1>5, <1>6

(* A result that is stored at once is sound: confirmed,                     *)
LEMMA ConfirmedIsSound ==
  ASSUME NEW found, NEW match, SoundCandidate(found, match), NEW pick, Fits(match, pick),
         Keyword(match, pick) # 0
  PROVE  SoundSdg(found, Confirmed(match, Keyword(match, pick)))
<1>1. SupportedGoal(found, match.goal)
  BY FittingGoal
<1>2. /\ Keyword(match, pick) \in Range(match.matched)
      /\ Keyword(match, pick) # NameOf[match.goal]
  BY MatchedKeywords DEF Keyword
<1>3. Keyword(match, pick) \in AllKeywords
  BY <1>2, MatchedKeywords DEF AllKeywords
<1>4. QED
  BY <1>1, <1>2, <1>3, MatchedKeywords DEF SoundSdg, Confirmed

(* or declined.                                                             *)
LEMMA DeclinedIsSound ==
  ASSUME NEW found, NEW match, SoundCandidate(found, match)
  PROVE  SoundSdg(found, Declined(match))
BY DEF SoundSdg, Declined, SoundCandidate

(* So is one that is stored after the follow-up for a keyword.              *)
LEMMA FollowUpIsSound ==
  ASSUME NEW found, NEW goal, SupportedGoal(found, goal.goal), NEW keyword, NEW ok \in BOOLEAN
  PROVE  SoundSdg(found, Confirmed(goal, IF ok THEN FromFullGroup(goal.goal, keyword) ELSE 0))
<1>1. goal.goal \in Goals /\ GoalKeywords[goal.goal][1] \in Range(GoalKeywords[goal.goal])
  BY GroupsTyped DEF SupportedGoal
<1>2. goal.goal # 0
  BY <1>1, GoalsAssumption
<1>3. Range(GoalKeywords[goal.goal]) \subseteq AllKeywords
  BY <1>1 DEF AllKeywords
<1>4. QED
  BY <1>1, <1>2, <1>3 DEF SoundSdg, Confirmed, FromFullGroup

-----------------------------------------------------------------------------
(* The client.                                                              *)

(* What a call may have sent: the requests of the prompts before, and those *)
(* of this prompt's attempts that are over or under way.                    *)
Before(r) == IF r.prompt = 1 THEN 0 ELSE MaxAttempts
Paid(r) ==
  CASE r.pc \in {"ready", "paced"} -> r.sent <= Before(r) + r.attempt - 1
    [] r.pc \in {"sent", "backoff"} -> r.sent <= Before(r) + r.attempt
    [] r.pc = "gemini" -> r.sent <= Before(r) + MaxAttempts
    [] OTHER -> r.sent = 0

(* A booked start leaves its spacing before the next one that is free.      *)
Booked(r, next) == r.pc = "paced" /\ 0 < r.sleep => r.sleep + Spacing <= next

Apart(q, r) ==
  q.pc = "paced" /\ r.pc = "paced" /\ 0 < q.sleep /\ q.sleep <= r.sleep
    => r.sleep >= q.sleep + Spacing

ClientInv ==
  /\ ClientTypeOK
  /\ \A j \in Jobs : Paid(job[j]) /\ Booked(job[j], nextIn)
  /\ \A i, j \in Jobs : i # j => Apart(job[i], job[j])

(* A step of one call, and what it may do to the schedule.                  *)
StepOf(j) ==
  /\ job' = [job EXCEPT ![j] = job'[j]]
  /\ job'[j] \in Job /\ Paid(job'[j])
  /\ faults' \in 0 .. MaxFaults
  /\ \/ job'[j].pc # "paced" /\ nextIn' \in Nat /\ nextIn <= nextIn'
     \/ job'[j].pc = "paced" /\ job'[j].sleep = nextIn /\ nextIn' = nextIn + Spacing

LEMMA NoJobTyped == NoJob \in Job /\ Paid(NoJob)
  BY AttemptsAssumption, BackoffAssumption DEF NoJob, Job, JobPC, Paid

LEMMA EndTyped ==
  ASSUME NEW pc \in {"ok", "failed"}
  PROVE  End(pc) \in Job /\ Paid(End(pc)) /\ End(pc).pc = pc
  BY AttemptsAssumption, BackoffAssumption DEF End, NoJob, Job, JobPC, Paid

(* A call that gives up the primary has paid for what it sent.              *)
LEMMA GiveUpTyped ==
  ASSUME NEW r \in Job, Paid(r), r.pc \in {"sent", "backoff"}
  PROVE  GiveUp(r) \in Job /\ Paid(GiveUp(r)) /\ GiveUp(r).pc \in {"gemini", "failed"}
<1>1. CASE HasGemini
  <2> DEFINE g == [r EXCEPT !.pc = "gemini", !.sleep = 0]
  <2>1. GiveUp(r) = g
    BY <1>1 DEF GiveUp
  <2>2. /\ g \in Job /\ g.pc = "gemini"
        /\ g.prompt = r.prompt /\ g.sent = r.sent /\ r.attempt \in 1 .. MaxAttempts
        /\ r.sent \in Nat
    BY DEF Job, JobPC
  <2>3. r.sent <= Before(r) + r.attempt
    BY DEF Paid
  <2> HIDE DEF g
  <2>4. Paid(g)
    BY <2>2, <2>3, AttemptsAssumption DEF Paid, Before
  <2>5. QED
    BY <2>1, <2>2, <2>4
<1>2. CASE ~ HasGemini
  BY <1>2, EndTyped DEF GiveUp
<1>3. QED
  BY <1>1, <1>2

LEMMA BackOffTyped ==
  ASSUME ClientInv, NEW j \in Jobs, job[j].pc = "sent", NEW wait \in Nat, BackOff(j, wait),
         Fault, UNCHANGED nextIn
  PROVE  StepOf(j)
<1> DEFINE r == [job[j] EXCEPT !.pc = "backoff", !.sleep = wait, !.delay = Least(2 * @, MaxBackoff)]
<1>1. job[j] \in Job /\ Paid(job[j]) /\ faults \in 0 .. MaxFaults /\ nextIn \in Nat
  BY DEF ClientInv, ClientTypeOK
<1>2. Least(2 * job[j].delay, MaxBackoff) \in 0 .. MaxBackoff
  BY <1>1, BackoffAssumption DEF Least, Job
<1>3. r \in Job /\ r.pc = "backoff" /\ r.prompt = job[j].prompt
        /\ r.attempt = job[j].attempt /\ r.sent = job[j].sent
  BY <1>1, <1>2 DEF Job, JobPC
<1>4. Paid(r)
  BY <1>1, <1>3 DEF Paid, Before
<1>5. job'[j] = r /\ job' = [job EXCEPT ![j] = job'[j]]
  BY DEF BackOff, Become, ClientInv, ClientTypeOK
<1>6. faults' \in 0 .. MaxFaults
  BY <1>1, FaultsAssumption DEF Fault
<1> HIDE DEF r
<1>7. QED
  BY <1>1, <1>3, <1>4, <1>5, <1>6 DEF StepOf

LEMMA JobSteps ==
  ASSUME ClientInv, NEW j \in Jobs, JobStep(j) \/ Begin(j)
  PROVE  StepOf(j)
<1>1. /\ job \in [Jobs -> Job] /\ job[j] \in Job /\ Paid(job[j])
      /\ faults \in 0 .. MaxFaults /\ nextIn \in Nat
  BY DEF ClientInv, ClientTypeOK
<1>a. /\ job[j].sent \in Nat /\ job[j].sent + 1 \in Nat
      /\ job[j].attempt \in 1 .. MaxAttempts
      /\ job[j].attempt < MaxAttempts => job[j].attempt + 1 \in 1 .. MaxAttempts
  BY <1>1, AttemptsAssumption DEF Job
<1>2. ASSUME NEW r, Become(j, r)
      PROVE  job'[j] = r /\ job' = [job EXCEPT ![j] = job'[j]]
  BY <1>1, <1>2 DEF Become
<1>3. Fault => faults' \in 0 .. MaxFaults
  BY <1>1, FaultsAssumption DEF Fault
<1>4. CASE Begin(j)
  <2> DEFINE r == [NoJob EXCEPT !.pc = "ready"]
  <2>1. r \in Job /\ Paid(r) /\ r.pc = "ready"
    BY NoJobTyped, AttemptsAssumption DEF NoJob, Job, JobPC, Paid, Before
  <2>2. Become(j, r) /\ UNCHANGED <<nextIn, faults>>
    BY <1>4 DEF Begin
  <2> HIDE DEF r
  <2>3. QED
    BY <1>1, <1>2, <2>1, <2>2 DEF StepOf
<1>5. CASE Reserve(j)
  <2> DEFINE r == [job[j] EXCEPT !.pc = "paced", !.sleep = nextIn]
  <2>1. r \in Job /\ Paid(r) /\ r.pc = "paced" /\ r.sleep = nextIn
    BY <1>1, <1>5 DEF Reserve, Job, JobPC, Paid, Before
  <2>2. Become(j, r) /\ nextIn' = nextIn + Spacing /\ UNCHANGED faults
    BY <1>5 DEF Reserve
  <2> HIDE DEF r
  <2>3. QED
    BY <1>1, <1>2, <2>1, <2>2 DEF StepOf
<1>6. CASE Send(j)
  <2> DEFINE r == [job[j] EXCEPT !.pc = "sent", !.sent = @ + 1]
  <2>1. /\ r \in Job /\ r.pc = "sent" /\ r.sent = job[j].sent + 1
        /\ r.prompt = job[j].prompt /\ r.attempt = job[j].attempt
    BY <1>1, <1>a DEF Job, JobPC
  <2>2. Become(j, r) /\ UNCHANGED <<nextIn, faults>> /\ job[j].pc = "paced"
    BY <1>6 DEF Send
  <2> HIDE DEF r
  <2>3. Paid(r)
    BY <1>1, <2>1, <2>2, AttemptsAssumption DEF Paid, Before, Job
  <2>4. QED
    BY <1>1, <1>2, <2>1, <2>2, <2>3 DEF StepOf
<1>7. CASE Answer(j)
  <2>1. nextIn' \in Nat /\ nextIn <= nextIn' /\ faults' \in 0 .. MaxFaults
    BY <1>1, <1>3, <1>7, BackoffAssumption DEF Answer, Observe
  <2>2. job'[j] = End("ok") /\ job' = [job EXCEPT ![j] = job'[j]]
    BY <1>2, <1>7 DEF Answer
  <2>3. QED
    BY <2>1, <2>2, EndTyped DEF StepOf
<1>8. CASE Violate(j)
  <2> DEFINE r == IF job[j].prompt = 1
                  THEN [NoJob EXCEPT !.pc = "ready", !.prompt = 2, !.sent = job[j].sent]
                  ELSE GiveUp(job[j])
  <2>1. r \in Job /\ Paid(r) /\ r.pc # "paced"
    <3>1. CASE job[j].prompt = 1
      <4>0. 1 \in 1 .. MaxAttempts /\ BaseDelay \in 0 .. MaxBackoff /\ 2 \in 1 .. 2
        BY AttemptsAssumption, BackoffAssumption
      <4>1. /\ r \in Job /\ r.pc = "ready" /\ r.prompt = 2 /\ r.attempt = 1
            /\ r.sent = job[j].sent
        <5>1. r = [NoJob EXCEPT !.pc = "ready", !.prompt = 2, !.sent = job[j].sent]
          BY <3>1
        <5> HIDE DEF r
        <5>2. QED
          BY <1>a, <4>0, <5>1 DEF NoJob, Job, JobPC
      <4>2. job[j].pc = "sent" /\ job[j].sent <= job[j].attempt
        BY <1>1, <1>8, <3>1 DEF Violate, Paid, Before, Job
      <4> HIDE DEF r
      <4>3. QED
        BY <1>1, <4>1, <4>2, AttemptsAssumption DEF Paid, Before, Job
    <3>2. CASE job[j].prompt # 1
      BY <1>1, <1>8, <3>2, GiveUpTyped DEF Violate
    <3>3. QED
      BY <3>1, <3>2
  <2>2. Become(j, r) /\ Fault /\ UNCHANGED nextIn
    BY <1>8 DEF Violate, Repair
  <2> HIDE DEF r
  <2>3. QED
    BY <1>1, <1>2, <1>3, <2>1, <2>2 DEF StepOf
<1>9. CASE RateLimit(j)
  <2>1. PICK wait \in {job[j].delay} \cup 1 .. MaxBackoff : BackOff(j, wait)
    BY <1>9 DEF RateLimit
  <2>2. wait \in Nat /\ job[j].pc = "sent" /\ Fault /\ UNCHANGED nextIn
    BY <1>1, <1>9, BackoffAssumption DEF RateLimit, Job
  <2>3. QED
    BY <2>1, <2>2, BackOffTyped
<1>10. CASE TransportError(j)
  <2>1. job[j].delay \in Nat /\ job[j].pc = "sent" /\ Fault /\ UNCHANGED nextIn
    BY <1>1, <1>10, BackoffAssumption DEF TransportError, Job
  <2>2. BackOff(j, job[j].delay)
    BY <1>10 DEF TransportError
  <2>3. QED
    BY <2>1, <2>2, BackOffTyped
<1>11. CASE Reject(j)
  <2>1. Become(j, GiveUp(job[j])) /\ Fault /\ UNCHANGED nextIn /\ job[j].pc = "sent"
    BY <1>11 DEF Reject
  <2>2. job'[j] = GiveUp(job[j]) /\ job' = [job EXCEPT ![j] = job'[j]]
    BY <1>2, <2>1
  <2>3. QED
    BY <1>1, <1>3, <2>1, <2>2, GiveUpTyped DEF StepOf
<1>12. CASE Wake(j)
  <2> DEFINE r == IF job[j].attempt < MaxAttempts
                  THEN [job[j] EXCEPT !.pc = "ready", !.attempt = @ + 1]
                  ELSE GiveUp(job[j])
  <2>1. r \in Job /\ Paid(r) /\ r.pc # "paced"
    <3>1. CASE job[j].attempt < MaxAttempts
      <4>1. /\ r \in Job /\ r.pc = "ready" /\ r.attempt = job[j].attempt + 1
            /\ r.prompt = job[j].prompt /\ r.sent = job[j].sent
        BY <1>1, <1>a, <3>1 DEF Job, JobPC
      <4>2. job[j].pc = "backoff"
        BY <1>12 DEF Wake
      <4> HIDE DEF r
      <4>3. QED
        BY <1>1, <4>1, <4>2, AttemptsAssumption DEF Paid, Before, Job
    <3>2. CASE ~ (job[j].attempt < MaxAttempts)
      BY <1>1, <1>12, <3>2, GiveUpTyped DEF Wake
    <3>3. QED
      BY <3>1, <3>2
  <2>2. Become(j, r) /\ UNCHANGED <<nextIn, faults>>
    BY <1>12 DEF Wake
  <2> HIDE DEF r
  <2>3. QED
    BY <1>1, <1>2, <2>1, <2>2 DEF StepOf
<1>13. CASE AskGemini(j)
  <2>1. PICK pc \in {"ok", "failed"} : Become(j, End(pc))
    BY <1>13 DEF AskGemini
  <2>2. job'[j] = End(pc) /\ job' = [job EXCEPT ![j] = job'[j]]
    BY <1>2, <2>1
  <2>3. QED
    BY <1>1, <1>13, <2>2, EndTyped DEF StepOf, AskGemini
<1>14. QED
  BY <1>4, <1>5, <1>6, <1>7, <1>8, <1>9, <1>10, <1>11, <1>12, <1>13 DEF JobStep

LEMMA PassOfTime ==
  ASSUME ClientInv, Tick
  PROVE  ClientInv'
<1> DEFINE r(j) == [job[j] EXCEPT !.sleep = Less(@)]
<1>1. /\ job \in [Jobs -> Job] /\ nextIn \in Nat /\ nextIn' = Less(nextIn)
      /\ \A j \in Jobs : job[j] \in Job /\ job'[j] = r(j)
      /\ UNCHANGED faults /\ faults \in 0 .. MaxFaults
  BY DEF Tick, ClientInv, ClientTypeOK
<1>2. ASSUME NEW j \in Jobs
      PROVE  /\ r(j) \in Job /\ r(j).sleep = Less(job[j].sleep)
             /\ r(j).pc = job[j].pc /\ r(j).prompt = job[j].prompt
             /\ r(j).attempt = job[j].attempt /\ r(j).sent = job[j].sent
  BY <1>1 DEF Job, Less
<1> HIDE DEF r
<1>3. ClientTypeOK'
  <2>1. job' \in [Jobs -> Job]
    BY <1>1, <1>2 DEF Tick
  <2>2. QED
    BY <1>1, <2>1 DEF ClientTypeOK, Less
<1>4. ASSUME NEW j \in Jobs PROVE Paid(job'[j]) /\ Booked(job'[j], nextIn')
  <2>1. Paid(job'[j])
    BY <1>1, <1>2 DEF ClientInv, Paid, Before
  <2>2. Booked(job[j], nextIn) /\ job[j].sleep \in Nat
    BY <1>1 DEF ClientInv, Job
  <2>3. Booked(job'[j], nextIn')
    BY <1>1, <1>2, <2>2, SpacingAssumption DEF Booked, Less
  <2>4. QED
    BY <2>1, <2>3
<1>5. ASSUME NEW i \in Jobs, NEW j \in Jobs, i # j PROVE Apart(job'[i], job'[j])
  <2>1. Apart(job[i], job[j]) /\ job[i].sleep \in Nat /\ job[j].sleep \in Nat
    BY <1>1, <1>5 DEF ClientInv, Job
  <2>2. QED
    BY <1>1, <1>2, <2>1, SpacingAssumption DEF Apart, Less
<1>6. QED
  BY <1>3, <1>4, <1>5 DEF ClientInv

(* A call's step keeps the account, and books at most what is free.         *)
LEMMA StepKeeps ==
  ASSUME ClientInv, NEW j \in Jobs, StepOf(j)
  PROVE  ClientInv'
<1>0. job' \in [Jobs -> Job] /\ \A i \in Jobs : i # j => job'[i] = job[i]
  BY DEF StepOf, ClientInv, ClientTypeOK
<1>1. /\ nextIn \in Nat /\ nextIn' \in Nat /\ nextIn <= nextIn'
      /\ \A i \in Jobs : job[i] \in Job /\ job'[i] \in Job
  BY <1>0, SpacingAssumption DEF StepOf, ClientInv, ClientTypeOK
<1>2. ClientTypeOK'
  BY <1>0, <1>1 DEF ClientTypeOK, StepOf
<1>3. ASSUME NEW i \in Jobs PROVE Paid(job'[i]) /\ Booked(job'[i], nextIn')
  <2>1. CASE i = j
    BY <1>1, <2>1, SpacingAssumption DEF StepOf, Booked
  <2>2. CASE i # j
    <3>1. job'[i] = job[i] /\ Paid(job[i]) /\ Booked(job[i], nextIn) /\ job[i].sleep \in Nat
      BY <1>0, <1>1, <2>2 DEF ClientInv, Job
    <3>2. QED
      BY <1>1, <3>1, SpacingAssumption DEF Booked
  <2>3. QED
    BY <2>1, <2>2
<1>4. ASSUME NEW i \in Jobs, NEW k \in Jobs, i # k PROVE Apart(job'[i], job'[k])
  <2>1. CASE i # j /\ k # j
    BY <1>0, <1>4, <2>1 DEF ClientInv
  <2>2. CASE k = j
    <3>1. job'[i] = job[i] /\ Booked(job[i], nextIn) /\ job[i].sleep \in Nat
      BY <1>0, <1>1, <1>4, <2>2 DEF ClientInv, Job
    <3>2. job'[j].pc = "paced" => job'[j].sleep = nextIn
      BY DEF StepOf
    <3>3. QED
      BY <1>1, <2>2, <3>1, <3>2 DEF Apart, Booked
  <2>3. CASE i = j
    <3>1. job'[k] = job[k] /\ Booked(job[k], nextIn) /\ job[k].sleep \in Nat
      BY <1>0, <1>1, <1>4, <2>3 DEF ClientInv, Job
    <3>2. job'[j].pc = "paced" => job'[j].sleep = nextIn
      BY DEF StepOf
    <3>3. QED
      BY <1>1, <2>3, <3>1, <3>2, SpacingAssumption DEF Apart, Booked
  <2>4. QED
    BY <2>1, <2>2, <2>3
<1>5. QED
  BY <1>2, <1>3, <1>4 DEF ClientInv

(* What the stages do to the client: its own steps, the begin of a call,    *)
(* and its end with the pool.                                               *)
LeftPool == job' = [j \in Jobs |-> NoJob] /\ UNCHANGED <<nextIn, faults>>

LEMMA ClientSteps ==
  ASSUME [Next]_vars
  PROVE  LLMNext \/ (\E j \in Jobs : Begin(j)) \/ LeftPool \/ UNCHANGED llmVars
<1>1. CASE Pool
  BY <1>1 DEF Pool, Client, BeginCall, Cancel
<1>2. CASE StageStep
  <2>1. CASE Return \/ StartClassify \/ StartDetect \/ StartRecommend
    BY <2>1 DEF Return, StartClassify, StartDetect, StartRecommend, StartStage
  <2>2. CASE Fail
    BY <2>2 DEF Fail, LeavePool, LeftPool
  <2>3. CASE ClassifyGoal
    BY <2>3 DEF ClassifyGoal, Finish, LeavePool, LeftPool
  <2>4. CASE ClassifyKeyword \/ DetectCommit \/ RecommendCommit
    BY <2>4 DEF ClassifyKeyword, DetectCommit, RecommendCommit, Finish, LeavePool, LeftPool
  <2>5. QED
    BY <1>2, <2>1, <2>2, <2>3, <2>4 DEF StageStep
<1>3. CASE AbstractArrives \/ UNCHANGED vars
  BY <1>3 DEF AbstractArrives, vars
<1>4. QED
  BY <1>1, <1>2, <1>3 DEF Next

LEMMA ClientKept ==
  ASSUME ClientInv, [Next]_vars
  PROVE  ClientInv'
<1>1. CASE LLMNext
  BY <1>1, PassOfTime, JobSteps, StepKeeps DEF LLMNext
<1>2. CASE \E j \in Jobs : Begin(j)
  BY <1>2, JobSteps, StepKeeps
<1>3. CASE LeftPool
  <2>1. \A j \in Jobs : job'[j] = NoJob
    BY <1>3 DEF LeftPool
  <2>2. NoJob.pc = "idle"
    BY DEF NoJob
  <2>3. ClientTypeOK'
    BY <1>3, NoJobTyped DEF LeftPool, ClientInv, ClientTypeOK
  <2>4. QED
    BY <2>1, <2>2, <2>3, NoJobTyped DEF ClientInv, Booked, Apart
<1>4. CASE UNCHANGED llmVars
  BY <1>4 DEF llmVars, ClientInv, ClientTypeOK
<1>5. QED
  BY <1>1, <1>2, <1>3, <1>4, ClientSteps

LEMMA ClientInvariant == Spec => []ClientInv
<1>1. Init => ClientInv
  <2> SUFFICES ASSUME LLMInit PROVE ClientInv
    BY DEF Init
  <2>1. (\A j \in Jobs : job[j] = NoJob) /\ NoJob.pc = "idle"
    BY DEF LLMInit, NoJob
  <2>2. ClientTypeOK
    BY NoJobTyped, FaultsAssumption DEF LLMInit, ClientTypeOK
  <2>3. QED
    BY <2>1, <2>2, NoJobTyped DEF ClientInv, Booked, Apart
<1>2. ClientInv /\ [Next]_vars => ClientInv'
  BY ClientKept
<1>3. QED
  BY <1>1, <1>2, PTL DEF Spec

(* However long the chain, the drafts and the pool, the client's state is   *)
(* of its type (llm_client.py).                                             *)
THEOREM ClientTyped == Spec => []ClientTypeOK
<1>1. ClientInv => ClientTypeOK
  BY DEF ClientInv
<1>2. QED
  BY <1>1, ClientInvariant, PTL

(* For any llm_max_attempts and any mix of failures, one structured call    *)
(* pays for at most two prompts of that many requests                       *)
(* (llm_client.py:255-345).                                                 *)
THEOREM CallsAreBounded == Spec => []RequestsBounded
<1>1. ClientInv => RequestsBounded
  <2> SUFFICES ASSUME ClientInv, NEW j \in Jobs
               PROVE  job[j].prompt <= 2 /\ job[j].sent <= MaxAttempts * job[j].prompt
    BY DEF RequestsBounded
  <2>1. job[j] \in Job /\ Paid(job[j])
    BY DEF ClientInv, ClientTypeOK
  <2>2. job[j].prompt \in 1 .. 2 /\ job[j].attempt \in 1 .. MaxAttempts
          /\ job[j].sent \in Nat /\ job[j].pc \in JobPC
    BY <2>1 DEF Job
  <2>3. job[j].sent <= Before(job[j]) + MaxAttempts
    BY <2>1, <2>2, AttemptsAssumption DEF Paid, Before, JobPC
  <2>4. CASE job[j].prompt = 1
    BY <2>2, <2>3, <2>4, AttemptsAssumption DEF Before
  <2>5. CASE job[j].prompt = 2
    BY <2>2, <2>3, <2>5, AttemptsAssumption DEF Before
  <2>6. QED
    BY <2>2, <2>4, <2>5
<1>2. QED
  BY <1>1, ClientInvariant, PTL

(* For any number of threads, the starts they have booked are the spacing   *)
(* apart (llm_client.py:178-208).                                           *)
THEOREM StartsAreApart == Spec => []StartsApart
<1>1. ClientInv => StartsApart
  BY DEF ClientInv, StartsApart, Apart
<1>2. QED
  BY <1>1, ClientInvariant, PTL

-----------------------------------------------------------------------------
(* The tables.                                                              *)

(* The other claims that have the text of this one.                         *)
Twins(i) == {j \in DOMAIN claims \ {i} : claims[j].text = claims[i].text}

(* The stored rows of every claim, with the verdicts that are cached.       *)
RowsInv ==
  /\ DOMAIN recs = DOMAIN claims
  /\ \A i \in DOMAIN claims : SoundRows(verdicts, Twins(i), claims[i].text, recs[i])

(* What a stage that is at work has read and planned is still so.           *)
StageInv ==
  /\ DOMAIN stage = DOMAIN Idle
  /\ stage.name = "detect" => SoundBatches(draft, stage.calls)
  /\ stage.name = "recommend" =>
       /\ DOMAIN stage.calls \subseteq Nat /\ OwnClaims(stage.calls)
       /\ \A k \in DOMAIN stage.calls : SoundPlan(claims, verdicts, stage.calls[k])
  /\ stage.name = "classify" /\ stage.goal # 0 => SupportedGoal(draft.found, stage.goal)

(* The tables are made of what they are about.                              *)
TablesInv ==
  /\ SoundDraft(draft)
  /\ DecisionsSound(classified) /\ SoundClaims(draft, claims, classified)
  /\ Repeats(draft, claims, classified)
  /\ CacheSound(verdicts) /\ RowsInv
  /\ SoundSdg(draft.found, sdg)

(* The inductive invariant: the tables are sound, and so is what is planned *)
(* of them.                                                                 *)
DataInv == TablesInv /\ StageInv

(* No rows are sound rows.                                                  *)
LEMMA NoRows ==
  ASSUME NEW stored, NEW twins, NEW text
  PROVE  SoundRows(stored, twins, text, <<>>)
BY DEF SoundRows

(* Sound rows stay so when more verdicts are cached.                        *)
LEMMA MoreKnown ==
  ASSUME NEW stored, NEW more, NEW twins, NEW text, NEW rows,
         \A key \in DOMAIN stored : key \in DOMAIN more /\ more[key] = stored[key],
         SoundRows(stored, twins, text, rows)
  PROVE  SoundRows(more, twins, text, rows)
<1>1. \A k \in DOMAIN rows : SoundRow(more, twins, text, rows[k])
  BY DEF SoundRows, SoundRow, Known
<1>2. QED
  BY <1>1 DEF SoundRows

(* A sequence has finitely many places.                                     *)
LEMMA FiniteAnswers ==
  ASSUME NEW X, NEW s \in Seq(X)
  PROVE  /\ DOMAIN s \subseteq Nat /\ IsFiniteSet(DOMAIN s)
         /\ \A k \in DOMAIN s : s[k] \in X
<1>1. DOMAIN s = 1 .. Len(s) /\ Len(s) \in Nat
  OBVIOUS
<1>2. IsFiniteSet(1 .. Len(s))
  BY <1>1, FS_Interval
<1>3. QED
  BY <1>1, <1>2

(* An analysed draft without decisions or rows is where it begins.          *)
LEMMA DataInit == ASSUME Init PROVE DataInv
<1>1. PICK s \in Scenarios : draft = s.draft /\ claims = Claims(s.draft, <<>>)
  BY DEF Init
<1>2. SoundDraft(draft)
  <2> DEFINE sentences == draft.sentences
  <2>1. sentences \in Seq(Range(sentences)) /\ \A x \in Range(sentences) : x.text \in Texts
    BY <1>1, ScenariosAssumption
  <2> HIDE DEF sentences
  <2>2. DOMAIN sentences \subseteq Nat /\ IsFiniteSet(DOMAIN sentences)
    BY <2>1, FiniteAnswers
  <2>3. \A i \in DOMAIN sentences : sentences[i].text \in Texts
    BY <2>1 DEF Range
  <2>4. QED
    BY <2>2, <2>3 DEF SoundDraft, sentences
<1>3. DOMAIN classified = {} /\ DOMAIN verdicts = {}
  BY DEF Init
<1>4. DecisionsSound(classified) /\ CacheSound(verdicts)
  BY <1>3 DEF DecisionsSound, CacheSound
<1>5. SoundClaims(draft, claims, classified)
  <2>1. Decided(draft, <<>>, classified)
    BY DEF Decided
  <2>2. QED
    BY <1>1, <1>2, <2>1, ClaimsAreSound
<1>r. Repeats(draft, claims, classified)
  <2>1. DOMAIN CachedDecisions(draft, classified) = {}
    BY <1>3 DEF CachedDecisions
  <2>2. \A i : SameRow(Claims(draft, <<>>), Claims(draft, CachedDecisions(draft, classified)), i)
    <3> TAKE i
    <3> DEFINE again == CachedDecisions(draft, classified)
    <3> HIDE DEF again
    <3>1. i \notin DOMAIN again /\ i \notin DOMAIN <<>>
      BY <2>1 DEF again
    <3>2. SameRow(Claims(draft, <<>>), Claims(draft, again), i)
      BY <3>1, SameDecision
    <3>3. QED
      BY <3>2 DEF again
  <2>3. QED
    BY <1>1, <2>2 DEF Repeats
<1>6. RowsInv
  BY NoRows DEF Init, RowsInv
<1>7. SoundSdg(draft.found, sdg)
  BY GoalsAssumption DEF Init, SoundSdg, NoSdg
<1>8. StageInv
  BY DEF Init, StageInv, Idle
<1>9. QED
  BY <1>2, <1>4, <1>5, <1>6, <1>7, <1>8, <1>r DEF DataInv, TablesInv

(* What depends on the tables goes on while they stay.                      *)
LEMMA TablesKept ==
  ASSUME TablesInv, UNCHANGED draft, UNCHANGED tables
  PROVE  TablesInv'
BY DEF TablesInv, RowsInv, Twins, tables

LEMMA DataKept ==
  ASSUME DataInv, UNCHANGED <<draft, stage, tables>>
  PROVE  DataInv'
BY TablesKept DEF DataInv, StageInv, tables

(* A stage that has returned has nothing planned.                           *)
LEMMA IdleStage ==
  ASSUME stage' = Idle
  PROVE  StageInv'
BY DEF StageInv, Idle

(* The pool touches no table, and cancelling no plan.                       *)
LEMMA PoolKeeps ==
  ASSUME DataInv, Pool
  PROVE  DataInv'
<1>1. CASE Client \/ \E j \in Jobs : BeginCall(j)
  BY <1>1, DataKept DEF Client, BeginCall
<1>2. CASE Cancel
  <2>1. stage' = [stage EXCEPT !.cancelled = TRUE] /\ UNCHANGED <<draft, tables>>
    BY <1>2 DEF Cancel
  <2>2. DOMAIN stage = {"name", "calls", "goal", "cancelled"}
    BY DEF DataInv, StageInv, Idle
  <2>3. /\ DOMAIN stage' = DOMAIN stage
        /\ stage'.name = stage.name /\ stage'.calls = stage.calls /\ stage'.goal = stage.goal
    BY <2>1, <2>2
  <2>4. StageInv'
    BY <2>1, <2>3 DEF DataInv, StageInv, tables
  <2>5. QED
    BY <2>1, <2>4, TablesKept DEF DataInv
<1>3. QED
  BY <1>1, <1>2 DEF Pool

(* A stage that starts plans soundly.                                       *)
LEMMA StartsKeep ==
  ASSUME DataInv, StartClassify \/ StartDetect \/ StartRecommend
  PROVE  DataInv'
<1>1. ASSUME NEW name, NEW calls, StartStage(name, calls),
             name = "detect" => SoundBatches(draft, calls),
             name = "recommend" =>
               /\ DOMAIN calls \subseteq Nat /\ OwnClaims(calls)
               /\ \A k \in DOMAIN calls : SoundPlan(claims, verdicts, calls[k])
      PROVE  DataInv'
  <2>1. /\ DOMAIN stage' = DOMAIN Idle
        /\ stage'.name = name /\ stage'.calls = calls /\ stage'.goal = 0
        /\ UNCHANGED <<draft, tables>>
    BY <1>1 DEF StartStage, Idle
  <2>2. StageInv'
    BY <1>1, <2>1 DEF StageInv, tables
  <2>3. QED
    BY <2>1, <2>2, TablesKept DEF DataInv
<1>2. CASE StartClassify
  BY <1>1, <1>2 DEF StartClassify
<1>3. CASE StartDetect
  <2>1. SoundBatches(draft, Batches(draft, classified, BatchSize))
    BY BatchesAreOfTheDraft, BatchSizeAssumption DEF DataInv, TablesInv
  <2>2. QED
    BY <1>1, <1>3, <2>1 DEF StartDetect
<1>4. CASE StartRecommend
  <2> DEFINE plans == Plans(claims, verdicts, abstracts)
  <2>1. /\ DOMAIN plans \subseteq Nat /\ OwnClaims(plans)
        /\ \A k \in DOMAIN plans : SoundPlan(claims, verdicts, plans[k])
    <3>1. 1 .. VerifyClaimLimit \subseteq Nat
      OBVIOUS
    <3>2. QED
      BY <3>1, PlansAreSound DEF DataInv, TablesInv, SoundClaims
  <2>2. StartStage("recommend", plans)
    BY <1>4 DEF StartRecommend
  <2> HIDE DEF plans
  <2>3. QED
    BY <1>1, <2>1, <2>2
<1>5. QED
  BY <1>2, <1>3, <1>4

(* The goal that is stored, or kept for the follow-up, is supported.        *)
LEMMA ClassifyGoalKeeps ==
  ASSUME DataInv, ClassifyGoal
  PROVE  DataInv'
<1>1. PICK pick \in Picks :
        LET match == Match(Candidates(draft.found), pick)
            keyword == Keyword(match, pick)
        IN IF Fits(match, pick) /\ keyword = 0
           THEN /\ stage' = [stage EXCEPT !.goal = match.goal, !.calls = <<"goal", "keyword">>]
                /\ UNCHANGED <<llmVars, draft, todo, tables, abstracts>>
           ELSE /\ Finish
                /\ sdg' = IF Fits(match, pick) THEN Confirmed(match, keyword) ELSE Declined(match)
                /\ UNCHANGED <<claims, classified, recs, verdicts>>
  BY DEF ClassifyGoal
<1> DEFINE match == Match(Candidates(draft.found), pick)
           keyword == Keyword(match, pick)
<1>2. SoundCandidate(draft.found, match)
  BY MatchIsSound
<1> HIDE DEF match
<1>3. stage.name = "classify" /\ DOMAIN stage = {"name", "calls", "goal", "cancelled"}
  BY DEF ClassifyGoal, DataInv, StageInv, Idle
<1>4. CASE Fits(match, pick) /\ keyword = 0
  <2>1. /\ stage' = [stage EXCEPT !.goal = match.goal, !.calls = <<"goal", "keyword">>]
        /\ UNCHANGED draft /\ UNCHANGED tables
    BY <1>1, <1>4 DEF match
  <2>2. /\ DOMAIN stage' = DOMAIN stage
        /\ stage'.name = "classify" /\ stage'.goal = match.goal
    BY <1>3, <2>1
  <2>3. SupportedGoal(draft.found, match.goal)
    BY <1>2, <1>4, FittingGoal
  <2>4. StageInv'
    BY <1>3, <2>1, <2>2, <2>3 DEF StageInv, Idle
  <2>5. QED
    BY <2>1, <2>4, TablesKept DEF DataInv
<1>5. CASE ~ (Fits(match, pick) /\ keyword = 0)
  <2>1. /\ stage' = Idle /\ UNCHANGED <<draft, claims, classified, recs, verdicts>>
        /\ sdg' = IF Fits(match, pick) THEN Confirmed(match, keyword) ELSE Declined(match)
    BY <1>1, <1>5 DEF match, Finish, LeavePool
  <2>2. CASE Fits(match, pick)
    BY <1>2, <1>5, <2>1, <2>2, ConfirmedIsSound, IdleStage DEF DataInv, TablesInv, RowsInv, Twins
  <2>3. CASE ~ Fits(match, pick)
    BY <1>2, <2>1, <2>3, DeclinedIsSound, IdleStage DEF DataInv, TablesInv, RowsInv, Twins
  <2>4. QED
    BY <2>2, <2>3
<1>6. QED
  BY <1>4, <1>5

(* The follow-up adds a keyword of the group, or none.                      *)
LEMMA ClassifyKeywordKeeps ==
  ASSUME DataInv, ClassifyKeyword
  PROVE  DataInv'
<1>1. PICK keyword :
        sdg' = Confirmed(stage, IF job[2].pc = "ok" THEN FromFullGroup(stage.goal, keyword) ELSE 0)
  BY DEF ClassifyKeyword
<1>2. SupportedGoal(draft.found, stage.goal)
  BY DEF ClassifyKeyword, DataInv, StageInv
<1>3. SoundSdg(draft.found, sdg')
  BY <1>1, <1>2, FollowUpIsSound
<1>4. stage' = Idle /\ UNCHANGED <<draft, claims, classified, recs, verdicts>>
  BY DEF ClassifyKeyword, Finish, LeavePool
<1>5. QED
  BY <1>3, <1>4, IdleStage DEF DataInv, TablesInv, RowsInv, Twins

(* What the model says of a batch is about the sentences that it names.     *)
LEMMA ToldOfTheBatch ==
  ASSUME SoundDraft(draft), NEW batch, Range(batch) \subseteq DOMAIN draft.sentences,
         NEW answer \in Answers
  PROVE  SoundAnswer(draft, batch, Told(batch, answer))
<1>1. answer \in Seq([idx : Int, needs : BOOLEAN])
  BY AnswersAssumption
<1>2. /\ DOMAIN answer \subseteq Nat /\ IsFiniteSet(DOMAIN answer)
      /\ \A k \in DOMAIN answer : answer[k].needs \in BOOLEAN
  <2> DEFINE X == [idx : Int, needs : BOOLEAN]
  <2>1. \A x \in X : x.needs \in BOOLEAN
    OBVIOUS
  <2>2. answer \in Seq(X)
    BY <1>1
  <2> HIDE DEF X
  <2>3. QED
    BY <2>1, <2>2, FiniteAnswers
<1> DEFINE told == Told(batch, answer)
           text(k) == draft.sentences[batch[told[k].idx + 1]].text
<1>3. /\ DOMAIN told = DOMAIN answer
      /\ \A k \in DOMAIN answer :
           told[k].decision =
             [about |-> IF told[k].idx + 1 \in DOMAIN batch THEN text(k) ELSE 0,
              needs |-> answer[k].needs, confidence |-> 90]
  BY DEF Told
<1> HIDE DEF told, text
<1>4. ASSUME NEW k \in DOMAIN told, told[k].idx + 1 \in DOMAIN batch
      PROVE  SoundDecision(text(k), told[k].decision)
  <2>1. told[k].decision = [about |-> text(k), needs |-> answer[k].needs, confidence |-> 90]
    BY <1>3, <1>4
  <2>2. answer[k].needs \in BOOLEAN
    BY <1>2, <1>3
  <2>3. text(k) \in Texts
    BY <1>4 DEF SoundDraft, text, Range
  <2>4. QED
    BY <2>1, <2>2, <2>3 DEF SoundDecision
<1>5. QED
  BY <1>2, <1>3, <1>4 DEF SoundAnswer, text, told

(* The claims of a committed detection are sound, and have no rows.         *)
LEMMA DetectCommitKeeps ==
  ASSUME DataInv, DetectCommit
  PROVE  DataInv'
<1> DEFINE calls == stage.calls
<1>1. PICK shapes \in [DOMAIN calls -> Answers] :
        LET answers == [b \in DOMAIN calls |-> Told(calls[b], shapes[b])] IN
        /\ claims' = Claims(draft, Extended(CachedDecisions(draft, classified),
                                            Classified(calls, answers)))
        /\ classified' = StoreCache(draft, classified, calls, answers)
  BY DEF DetectCommit
<1> DEFINE answers == [b \in DOMAIN calls |-> Told(calls[b], shapes[b])]
           now == Classified(calls, answers)
           decided == Extended(CachedDecisions(draft, classified), now)
<1>2. claims' = Claims(draft, decided) /\ classified' = StoreCache(draft, classified, calls, answers)
  BY <1>1
<1>3. SoundAnswers(draft, calls, answers)
  <2>1. SoundBatches(draft, calls)
    BY DEF DetectCommit, DataInv, StageInv
  <2>2. \A b \in DOMAIN calls : SoundAnswer(draft, calls[b], answers[b])
    BY <2>1, ToldOfTheBatch DEF DataInv, TablesInv, SoundBatches
  <2>3. QED
    BY <2>1, <2>2 DEF SoundAnswers
<1> HIDE DEF answers
<1>4. SoundDraft(draft) /\ DecisionsSound(classified)
  BY DEF DataInv, TablesInv
<1>5. /\ DecisionsSound(classified') /\ DOMAIN classified \subseteq DOMAIN classified'
      /\ Decided(draft, now, classified') /\ Remembers(draft, classified, now, classified')
  BY <1>2, <1>3, <1>4, StoredDecisions
<1>r. \A j \in DOMAIN now : j \in ToClassify(draft) /\ draft.sentences[j].text \in DOMAIN classified'
  BY <1>3, <1>5, ClassifiedAsked DEF Decided, SoundAnswers
<1> HIDE DEF now
<1>s. Repeats(draft, claims', classified')
  <2> DEFINE stored == classified'
  <2>1. /\ \A j \in DOMAIN now : j \in ToClassify(draft) /\ draft.sentences[j].text \in DOMAIN stored
        /\ Remembers(draft, classified, now, stored)
    BY <1>5, <1>r
  <2> HIDE DEF stored
  <2>2. Repeats(draft, Claims(draft, decided), stored)
    BY <2>1, ClaimsRepeat
  <2>3. QED
    BY <1>2, <2>2 DEF stored
<1>6. Decided(draft, decided, classified')
  BY <1>4, <1>5, DecisionsTogether
<1> HIDE DEF decided
<1>7. SoundClaims(draft, claims', classified')
  BY <1>2, <1>4, <1>6, ClaimsAreSound
<1>8. /\ recs' = [i \in DOMAIN claims' |-> <<>>]
      /\ stage' = Idle /\ UNCHANGED <<draft, verdicts, sdg>>
  BY DEF DetectCommit, Finish, LeavePool
<1>9. RowsInv'
  BY <1>8, NoRows DEF RowsInv
<1>10. QED
  BY <1>4, <1>5, <1>7, <1>8, <1>9, <1>s, IdleStage DEF DataInv, TablesInv

(* What the model says of a plan is about the candidates that it names.     *)
LEMMA BatchOfThePlan ==
  ASSUME NEW k \in DOMAIN stage.calls, SoundPlan(claims, verdicts, stage.calls[k]),
         NEW judgements \in Judgements
  PROVE  SoundBatch(stage.calls[k], Batch(k, judgements))
<1> DEFINE plan == stage.calls[k]
           of(e) ==
             [idx |-> judgements[e].idx,
              outcome |-> [verdict |-> judgements[e].verdict,
                           about |-> IF judgements[e].idx + 1 \in DOMAIN plan.pending
                                     THEN <<plan.text, plan.pending[judgements[e].idx + 1]>>
                                     ELSE Nobody]]
           batch == [e \in DOMAIN judgements |-> of(e)]
<1>p. DOMAIN plan.pending \subseteq Int
  BY DEF SoundPlan
<1>1. judgements \in Seq([idx : Int, verdict : Verdicts])
  BY AnswersAssumption
<1>2. /\ DOMAIN judgements \subseteq Nat /\ IsFiniteSet(DOMAIN judgements)
      /\ \A e \in DOMAIN judgements : judgements[e].idx \in Int /\ judgements[e].verdict \in Verdicts
  <2> DEFINE X == [idx : Int, verdict : Verdicts]
  <2>1. \A x \in X : x.idx \in Int /\ x.verdict \in Verdicts
    OBVIOUS
  <2>2. judgements \in Seq(X)
    BY <1>1
  <2> HIDE DEF X
  <2>3. QED
    BY <2>1, <2>2, FiniteAnswers
<1>3. Batch(k, judgements) = NoBatch \/ Batch(k, judgements) = batch
  BY DEF Batch
<1>4. SoundBatch(plan, NoBatch)
  <2>1. DOMAIN NoBatch = {}
    BY DEF NoBatch
  <2>2. IsFiniteSet({})
    BY FS_EmptySet
  <2>3. QED
    BY <2>1, <2>2 DEF SoundBatch
<1>5. SoundBatch(plan, batch)
  <2>1. DOMAIN batch = DOMAIN judgements /\ \A e \in DOMAIN judgements : batch[e] = of(e)
    OBVIOUS
  <2>2. ASSUME NEW e \in DOMAIN judgements
        PROVE  /\ of(e).idx \in Int /\ of(e).outcome.verdict \in Verdicts
               /\ \A n \in DOMAIN plan.pending :
                    of(e).idx = n - 1 => of(e).outcome.about = <<plan.text, plan.pending[n]>>
    <3>1. of(e).idx \in Int /\ of(e).outcome.verdict \in Verdicts
      BY <1>2
    <3>2. ASSUME NEW n \in DOMAIN plan.pending, judgements[e].idx = n - 1
          PROVE  of(e).outcome.about = <<plan.text, plan.pending[n]>>
      <4>1. judgements[e].idx + 1 = n
        BY <1>2, <1>p, <3>2
      <4>2. QED
        BY <4>1
    <3>3. QED
      BY <3>1, <3>2
  <2> HIDE DEF batch, of, plan
  <2>3. QED
    BY <1>2, <2>1, <2>2 DEF SoundBatch
<1>6. QED
  BY <1>3, <1>4, <1>5

(* A committed recommendation replaces rows by sound ones, or by none.      *)
LEMMA RecommendCommitKeeps ==
  ASSUME DataInv, RecommendCommit
  PROVE  DataInv'
<1> DEFINE cleared == {item.claim : item \in Range(Prepared(claims, abstracts))}
           plans == stage.calls
           planned(i) == \E k \in DOMAIN plans : plans[k].claim = i
           plan(i) == CHOOSE k \in DOMAIN plans : plans[k].claim = i
<1>1. PICK shapes \in [DOMAIN plans -> Judgements] :
        LET batches == [k \in DOMAIN plans |-> Batch(k, shapes[k])] IN
        /\ verdicts' = StoreVerdicts(verdicts, plans, batches)
        /\ recs' = [i \in DOMAIN claims |->
             CASE planned(i) -> LET k == plan(i) IN Rows(plans[k], batches[k])
               [] OTHER -> IF i \in cleared THEN <<>> ELSE recs[i]]
  BY DEF RecommendCommit
<1> DEFINE batches == [k \in DOMAIN plans |-> Batch(k, shapes[k])]
<1>2. /\ verdicts' = StoreVerdicts(verdicts, plans, batches)
      /\ recs' = [i \in DOMAIN claims |->
             IF planned(i) THEN Rows(plans[plan(i)], batches[plan(i)])
             ELSE IF i \in cleared THEN <<>> ELSE recs[i]]
  BY <1>1
<1>3. SoundWork(claims, verdicts, plans, batches)
  <2>1. /\ DOMAIN plans \subseteq Nat
        /\ \A k \in DOMAIN plans : SoundPlan(claims, verdicts, plans[k])
    BY DEF RecommendCommit, DataInv, StageInv
  <2>2. \A k \in DOMAIN plans : SoundBatch(plans[k], batches[k])
    BY <2>1, BatchOfThePlan
  <2>3. QED
    BY <2>1, <2>2 DEF SoundWork
<1>o. OwnClaims(plans)
  BY DEF RecommendCommit, DataInv, StageInv
<1>4. /\ stage' = Idle /\ UNCHANGED <<draft, claims, classified, sdg>>
  BY DEF RecommendCommit, Finish, LeavePool
<1>5. /\ TablesInv /\ CacheSound(verdicts) /\ ClaimTable(claims)
      /\ DOMAIN recs = DOMAIN claims
      /\ \A i \in DOMAIN claims : SoundRows(verdicts, Twins(i), claims[i].text, recs[i])
  BY DEF DataInv, TablesInv, RowsInv, SoundClaims
<1> HIDE DEF batches, plans, cleared
<1>6. CacheSound(verdicts') /\ Cached(verdicts, plans, batches, verdicts')
  <2> DEFINE stored == StoreVerdicts(verdicts, plans, batches)
  <2>1. CacheSound(stored) /\ Cached(verdicts, plans, batches, stored)
    BY <1>3, <1>5, StoredVerdicts
  <2> HIDE DEF stored
  <2>2. verdicts' = stored
    BY <1>2 DEF stored
  <2>3. QED
    BY <2>1, <2>2
<1>7. ASSUME NEW i \in DOMAIN claims
      PROVE  SoundRows(verdicts', Twins(i), claims[i].text, recs'[i])
  <2>1. CASE planned(i)
    <3> DEFINE k == plan(i)
    <3>1. k \in DOMAIN plans /\ plans[k].claim = i
      BY <2>1
    <3>2. recs'[i] = Rows(plans[k], batches[k])
      BY <1>2, <2>1
    <3> HIDE DEF k
    <3>3. SoundPlan(claims, verdicts, plans[k]) /\ SoundBatch(plans[k], batches[k])
      BY <1>3, <3>1 DEF SoundWork
    <3>4. plans[k].text = claims[i].text
      BY <3>1, <3>3 DEF SoundPlan
    <3>t. ASSUME Twins(i) = {}, NEW q \in DOMAIN plans, plans[q].text = plans[k].text
          PROVE  q = k
      <4>1. plans[q].claim \in DOMAIN claims /\ claims[plans[q].claim].text = claims[i].text
        BY <1>3, <3>4, <3>t DEF SoundWork, SoundPlan
      <4>2. plans[q].claim = i
        BY <3>t, <4>1 DEF Twins
      <4>3. QED
        BY <1>o, <3>1, <3>t, <4>2 DEF OwnClaims
    <3>k. ASSUME NEW n \in Judged(plans[k], batches[k])
          PROVE  Known(verdicts', Twins(i), <<plans[k].text, plans[k].pending[n]>>,
                       ApplyVerification(plans[k], batches[k])[plans[k].pending[n]].verdict)
      <4>1. \/ Twins(i) # {}
            \/ \A q \in DOMAIN plans : plans[q].text = plans[k].text => q = k
        BY <3>t
      <4>2. QED
        BY <1>6, <3>1, <4>1 DEF Known, Cached
    <3>5. SoundRows(verdicts', Twins(i), plans[k].text, Rows(plans[k], batches[k]))
      BY <1>5, <1>6, <3>1, <3>3, <3>k, RowsAreSound DEF Cached
    <3>6. QED
      BY <3>2, <3>4, <3>5
  <2>2. CASE ~ planned(i) /\ i \in cleared
    BY <1>2, <2>2, NoRows
  <2>3. CASE ~ planned(i) /\ i \notin cleared
    <3>1. recs'[i] = recs[i]
      BY <1>2, <2>3
    <3>2. QED
      BY <1>5, <1>6, <3>1, MoreKnown DEF Cached
  <2>4. QED
    BY <2>1, <2>2, <2>3
<1>8. RowsInv'
  <2>1. \A i : Twins(i)' = Twins(i)
    BY <1>4 DEF Twins
  <2>2. DOMAIN recs' = DOMAIN claims' /\ claims' = claims
    BY <1>2, <1>4
  <2>3. QED
    BY <1>7, <2>1, <2>2 DEF RowsInv
<1>9. QED
  BY <1>4, <1>5, <1>6, <1>8, IdleStage DEF DataInv, TablesInv

(* Every step keeps the invariant.                                          *)
LEMMA DataNext ==
  ASSUME DataInv, [Next]_vars
  PROVE  DataInv'
<1>1. CASE Return
  BY <1>1, DataKept DEF Return
<1>2. CASE Fail
  BY <1>2, IdleStage, TablesKept DEF Fail, LeavePool, DataInv
<1>3. CASE AbstractArrives
  BY <1>3, DataKept DEF AbstractArrives
<1>4. CASE UNCHANGED vars
  BY <1>4, DataKept DEF vars
<1>5. QED
  BY <1>1, <1>2, <1>3, <1>4, PoolKeeps, StartsKeep, ClassifyGoalKeeps, ClassifyKeywordKeeps,
     DetectCommitKeeps, RecommendCommitKeeps DEF Next, StageStep

(* It holds of every behaviour.                                             *)
LEMMA DataInvariant == Spec => []DataInv
BY DataInit, DataNext, PTL DEF Spec

-----------------------------------------------------------------------------
(* The types.                                                               *)

(* What the tables of a parsed draft may hold, and the calls of a stage.    *)
TypedInv ==
  /\ \E s \in Scenarios : draft = s.draft
  /\ stage.name \in DOMAIN StageNo \cup {"none"} /\ DOMAIN stage.calls \subseteq Jobs
  /\ DOMAIN verdicts \subseteq {d.text : d \in Range(draft.sentences)} \X References

(* A stage has a call for every batch or plan, and there is a job for it.   *)
LEMMA StageTyped ==
  ASSUME DataInv, TypedInv, Next, stage' # stage
  PROVE  stage'.name \in DOMAIN StageNo \cup {"none"} /\ DOMAIN stage'.calls \subseteq Jobs
<1> DEFINE Names == DOMAIN StageNo \cup {"none"}
<1>1. Names = {"classify", "detect", "recommend", "none"}
  BY DEF StageNo
<1>2. DOMAIN stage = {"name", "calls", "goal", "cancelled"}
  BY DEF DataInv, StageInv, Idle
<1>3. ASSUME NEW name \in Names, NEW calls, DOMAIN calls \subseteq Jobs, StartStage(name, calls)
      PROVE  stage'.name \in Names /\ DOMAIN stage'.calls \subseteq Jobs
  BY <1>3 DEF StartStage, Idle
<1>4. 1 .. 2 \subseteq Jobs /\ 1 .. 1 \subseteq 1 .. 2
  BY JobsAssumption
<1>5. CASE StartClassify
  BY <1>1, <1>3, <1>4, <1>5 DEF StartClassify
<1>6. CASE StartDetect
  <2>1. PICK s \in Scenarios : draft = s.draft
    BY DEF TypedInv
  <2>2. DOMAIN Batches(draft, classified, BatchSize) \subseteq Jobs
    BY <2>1, BatchesAreBounded, BatchSizeAssumption, JobsAssumption DEF DataInv, TablesInv
  <2>3. QED
    BY <1>1, <1>3, <1>6, <2>2 DEF StartDetect
<1>7. CASE StartRecommend
  <2>1. DOMAIN Plans(claims, verdicts, abstracts) \subseteq Jobs
    BY PlansAreSound, JobsAssumption DEF DataInv, TablesInv, SoundClaims
  <2>2. QED
    BY <1>1, <1>3, <1>7, <2>1 DEF StartRecommend
<1>8. CASE Cancel
  BY <1>2, <1>8 DEF Cancel, TypedInv
<1>9. CASE ClassifyGoal
  <2>1. PICK g : \/ stage' = [stage EXCEPT !.goal = g, !.calls = <<"goal", "keyword">>]
                 \/ stage' = Idle
    BY <1>9 DEF ClassifyGoal, Finish, LeavePool
  <2>2. DOMAIN <<"goal", "keyword">> = 1 .. 2
    OBVIOUS
  <2>3. CASE stage' = [stage EXCEPT !.goal = g, !.calls = <<"goal", "keyword">>]
    <3>1. stage'.name = stage.name /\ stage'.calls = <<"goal", "keyword">>
      BY <1>2, <2>3
    <3>2. QED
      BY <1>4, <2>2, <3>1 DEF TypedInv
  <2>4. CASE stage' = Idle
    BY <1>1, <2>4 DEF Idle
  <2>5. QED
    BY <2>1, <2>3, <2>4
<1>10. CASE stage' = Idle
  BY <1>1, <1>10 DEF Idle
<1>11. QED
  BY <1>5, <1>6, <1>7, <1>8, <1>9, <1>10 DEF Next, Pool, Client, BeginCall, StageStep, Return,
     Fail, LeavePool, ClassifyKeyword, DetectCommit, RecommendCommit, Finish, AbstractArrives

(* A verdict that is stored is of the text of a claim, which a sentence has.*)
LEMMA VerdictsTyped ==
  ASSUME DataInv, TypedInv, RecommendCommit
  PROVE  DOMAIN verdicts' \subseteq {d.text : d \in Range(draft.sentences)} \X References
<1> DEFINE plans == stage.calls
           X == {d.text : d \in Range(draft.sentences)}
<1>1. PICK shapes \in [DOMAIN plans -> Judgements] :
        verdicts' = StoreVerdicts(verdicts, plans, [k \in DOMAIN plans |-> Batch(k, shapes[k])])
  BY DEF RecommendCommit
<1> DEFINE batches == [k \in DOMAIN plans |-> Batch(k, shapes[k])]
<1>2. verdicts' = StoreVerdicts(verdicts, plans, batches)
  BY <1>1
<1>3. /\ DOMAIN plans \subseteq Nat
      /\ \A k \in DOMAIN plans : SoundPlan(claims, verdicts, plans[k])
  BY DEF RecommendCommit, DataInv, StageInv
<1>4. SoundWork(claims, verdicts, plans, batches)
  <2>1. \A k \in DOMAIN plans : SoundBatch(plans[k], batches[k])
    BY <1>3, BatchOfThePlan
  <2>2. QED
    BY <1>3, <2>1 DEF SoundWork
<1> HIDE DEF batches, plans
<1>5. DOMAIN verdicts' \subseteq
        DOMAIN verdicts \cup {plans[p].text : p \in DOMAIN plans} \X References
  BY <1>2, <1>4, StoredVerdicts DEF DataInv, TablesInv
<1>6. ASSUME NEW p \in DOMAIN plans PROVE plans[p].text \in X
  <2>1. plans[p].claim \in DOMAIN claims /\ plans[p].text = claims[plans[p].claim].text
    BY <1>3, <1>6 DEF SoundPlan, plans
  <2>2. /\ plans[p].claim \in DOMAIN draft.sentences
        /\ plans[p].text = draft.sentences[plans[p].claim].text
    BY <2>1 DEF DataInv, TablesInv, SoundClaims
  <2>3. QED
    BY <2>2 DEF Range
<1>7. QED
  BY <1>5, <1>6 DEF TypedInv

(* The types are kept, above the soundness of the tables.                   *)
LEMMA TypedNext ==
  ASSUME DataInv, TypedInv, [Next]_vars
  PROVE  TypedInv'
<1>1. UNCHANGED draft
  BY DEF Next, Pool, Client, BeginCall, Cancel, StageStep, Return, StartClassify, StartDetect,
     StartRecommend, StartStage, Fail, LeavePool, ClassifyGoal, ClassifyKeyword, DetectCommit,
     RecommendCommit, Finish, AbstractArrives, vars
<1>2. stage'.name \in DOMAIN StageNo \cup {"none"} /\ DOMAIN stage'.calls \subseteq Jobs
  BY StageTyped DEF TypedInv, vars
<1>3. UNCHANGED verdicts \/ RecommendCommit
  BY DEF Next, Pool, Client, BeginCall, Cancel, StageStep, Return, StartClassify, StartDetect,
     StartRecommend, StartStage, Fail, LeavePool, ClassifyGoal, ClassifyKeyword, DetectCommit,
     Finish, AbstractArrives, vars, tables
<1>4. DOMAIN verdicts' \subseteq {d.text : d \in Range(draft.sentences)} \X References
  BY <1>3, VerdictsTyped DEF TypedInv
<1>5. QED
  BY <1>1, <1>2, <1>4 DEF TypedInv

LEMMA TypedInit == ASSUME Init PROVE TypedInv
BY DEF Init, TypedInv, Idle

-----------------------------------------------------------------------------
(* What the invariant gives.                                                *)

(* For any draft, settings and answers, the jobs, the stage and the tables  *)
(* are of their types: every call of a stage has its job, a decision is of  *)
(* a text that is scored, a cached verdict of a sentence and a reference    *)
(* (app/db/models).                                                         *)
THEOREM StagesTyped == Spec => []TypeOK
<1>1. ASSUME ClientTypeOK, DataInv, TypedInv PROVE TypeOK
  <2>1. DOMAIN claims \subseteq DOMAIN draft.sentences /\ DOMAIN recs = DOMAIN claims
    BY <1>1 DEF DataInv, TablesInv, RowsInv, SoundClaims
  <2>2. ASSUME NEW t \in DOMAIN classified PROVE classified[t] \in Decision
    <3>1. SoundDecision(t, classified[t])
      BY <1>1 DEF DataInv, TablesInv, DecisionsSound
    <3>2. QED
      BY <3>1 DEF SoundDecision, Decision
  <2>3. \A key \in DOMAIN verdicts : verdicts[key].verdict \in Verdicts
    BY <1>1 DEF DataInv, TablesInv, CacheSound
  <2>4. sdg \in [goal : Goals \cup {0}, keyword : AllKeywords \cup {0}, closest : Goals \cup {0}]
    BY <1>1 DEF DataInv, TablesInv, SoundSdg
  <2>5. QED
    BY <1>1, <2>1, <2>2, <2>3, <2>4 DEF TypeOK, TypedInv
<1>2. Spec => [](DataInv /\ TypedInv)
  BY DataInit, DataNext, TypedInit, TypedNext, PTL DEF Spec
<1>3. QED
  BY <1>1, <1>2, ClientTyped, PTL

(* Whatever the model answers and however the batches are cut, a decision   *)
(* is stored with the sentence, and cached under the text, that it was made *)
(* of (claim_detection_service.py:261-306).                                 *)
THEOREM DecisionsStayOnTheirSentence == Spec => []DecisionsOnTheirSentence
<1>1. DataInv => DecisionsOnTheirSentence
  BY DEF DataInv, TablesInv, SoundClaims, DecisionsSound, SoundDecision, DecisionsOnTheirSentence
<1>2. QED
  BY <1>1, DataInvariant, PTL

(* For any draft, the committed claims have every analysed sentence with a  *)
(* citation, and every strong one that no decision is cached for, whichever *)
(* stages failed (claim_detection_service.py:380, 465-532).                 *)
THEOREM CommittedClaimsAreComplete == Spec => []ClaimsAreComplete
<1>1. DataInv => ClaimsAreComplete
  BY DEF DataInv, TablesInv, SoundClaims, ClaimsAreComplete
<1>2. QED
  BY <1>1, DataInvariant, PTL

(* A row that is stored for a claim is a sound one.                         *)
LEMMA StoredRow ==
  ASSUME DataInv, NEW i \in DOMAIN recs, NEW row \in Range(recs[i])
  PROVE  SoundRow(verdicts, Twins(i), claims[i].text, row)
BY DEF DataInv, TablesInv, RowsInv, SoundRows, Range

(* However the stages follow one another, and for any answers: what a run   *)
(* shows is what the caches tell the next one.  Of equal sentences one at   *)
(* least has the claim that a detection would find again from the cache     *)
(* alone, and the verdict of a row is the cached one of its pair unless     *)
(* another claim has the same text (claim_detection_service.py:423-468,     *)
(* verification_service.py:131-190).                                        *)
THEOREM RerunsRepeat == Spec => []RerunRepeats
<1>1. ASSUME DataInv PROVE RerunRepeats
  <2>1. \A i \in ToClassify(draft) : \E j \in ToClassify(draft) :
          /\ draft.sentences[j].text = draft.sentences[i].text
          /\ SameIn(Claims(draft, CachedDecisions(draft, classified)), j)
    BY <1>1 DEF DataInv, TablesInv, Repeats, SameRow, SameIn
  <2>2. \A i \in DOMAIN claims :
          claims[i].method = "LLM" => claims[i].text \in DOMAIN classified
    BY <1>1 DEF DataInv, TablesInv, SoundClaims
  <2>3. ASSUME NEW i \in DOMAIN recs, NEW row \in Range(recs[i]), row.about # Nobody
        PROVE  /\ row.about \in DOMAIN verdicts
               /\ \/ verdicts[row.about].verdict = row.verdict
                  \/ \E j \in DOMAIN claims \ {i} : claims[j].text = claims[i].text
    <3>1. SoundRow(verdicts, Twins(i), claims[i].text, row)
      BY <1>1, StoredRow
    <3>2. Known(verdicts, Twins(i), row.about, row.verdict)
      BY <2>3, <3>1 DEF SoundRow
    <3>3. Twins(i) # {} => \E j \in DOMAIN claims \ {i} : claims[j].text = claims[i].text
      BY DEF Twins
    <3>4. QED
      BY <3>2, <3>3 DEF Known
  <2>4. QED
    BY <2>1, <2>2, <2>3 DEF RerunRepeats
<1>2. QED
  BY <1>1, DataInvariant, PTL

(* For any answers, a verdict is cached and stored with the claim and the   *)
(* reference it was given for, and what no model said is never cached       *)
(* (verification_service.py:188-292).                                       *)
THEOREM VerdictsStayOnTheirPair == Spec => []VerdictsOnTheirPair
<1>1. DataInv => VerdictsOnTheirPair
  BY StoredRow DEF DataInv, TablesInv, CacheSound, SoundRow, VerdictsOnTheirPair
<1>2. QED
  BY <1>1, DataInvariant, PTL

(* For any scores and limits, the rows of a claim are of distinct           *)
(* references, best percentage first, each with the reranker score of its   *)
(* own pair, although the pairs of all claims are scored in one list        *)
(* (recommendation_pipeline.py:85-213).                                     *)
THEOREM RanksStaySound == Spec => []RanksAreSound
<1>1. DataInv => RanksAreSound
  <2> SUFFICES ASSUME DataInv, NEW i \in DOMAIN recs, NEW k \in DOMAIN recs[i]
               PROVE  /\ recs[i][k].reranker = CrossEncoder[claims[i].text][recs[i][k].ref]
                      /\ \A l \in 1 .. k - 1 : /\ recs[i][l].ref # recs[i][k].ref
                                              /\ recs[i][l].percentage >= recs[i][k].percentage
    BY DEF RanksAreSound
  <2> DEFINE rows == recs[i]
  <2>1. SoundRows(verdicts, Twins(i), claims[i].text, rows)
    BY DEF DataInv, TablesInv, RowsInv
  <2> HIDE DEF rows
  <2>2. DOMAIN rows = 1 .. Len(rows) /\ Len(rows) \in Nat /\ k \in DOMAIN rows
    BY <2>1 DEF SoundRows, rows
  <2>3. \A l \in 1 .. k - 1 : l \in DOMAIN rows /\ l < k /\ l # k
    BY <2>2
  <2>4. QED
    BY <2>1, <2>2, <2>3 DEF SoundRows, SoundRow, rows
<1>2. QED
  BY <1>1, DataInvariant, PTL

(* For any similarities, a row that was not verified, or was contradicted,  *)
(* is not labelled as a recommendation (scoring.py:53-133).                 *)
THEOREM NoSupportIsFalse == Spec => []NoFalseSupport
<1>1. ASSUME NEW stored, NEW twins, NEW text, NEW row, SoundRow(stored, twins, text, row),
             row.label \in {"Strong recommendation", "Recommended"}
      PROVE  /\ row.hasAbstract
             /\ row.verdict \notin {"SKIPPED", "INSUFFICIENT_EVIDENCE", "CONTRADICTED"}
  <2>1. /\ row.percentage \in Int /\ row.hasAbstract \in BOOLEAN
        /\ row.label = LabelFor(row.percentage, row.verdict, row.hasAbstract)
        /\ row.verdict = "CONTRADICTED" => row.percentage <= 200
    BY <1>1 DEF SoundRow, ContradictedCap
  <2>2. row.hasAbstract
    BY <1>1, <2>1 DEF LabelFor
  <2>3. row.verdict \notin {"SKIPPED", "INSUFFICIENT_EVIDENCE"}
    BY <1>1, <2>1, <2>2 DEF LabelFor
  <2>4. row.percentage <= 200 => Band(row.percentage) = "Do not recommend"
    BY <2>1 DEF Band
  <2>5. row.verdict = "CONTRADICTED" => row.label = "Do not recommend"
    BY <2>1, <2>2, <2>4 DEF LabelFor
  <2>6. QED
    BY <1>1, <2>2, <2>3, <2>5
<1>2. DataInv => NoFalseSupport
  BY <1>1, StoredRow DEF NoFalseSupport
<1>3. QED
  BY <1>2, DataInvariant, PTL

(* For any tables, the shortlist repeats no reference and leaves out the    *)
(* best one of a claim only for as many at least as good                    *)
(* (recommendations.py:173-222).                                            *)
THEOREM ShortlistStaysBest == Spec => []ShortlistIsBest
<1>1. ASSUME DataInv PROVE ShortlistIsBest
  <2>1. DOMAIN recs \subseteq Nat /\ IsFiniteSet(DOMAIN recs)
    BY <1>1 DEF DataInv, TablesInv, RowsInv, SoundClaims, ClaimTable
  <2>2. \A i \in DOMAIN recs : recs[i] \in Seq(Range(recs[i]))
    BY <1>1 DEF DataInv, TablesInv, RowsInv, SoundRows
  <2>3. \A i \in DOMAIN recs : \A row \in Range(recs[i]) : row.percentage \in Int
    BY <1>1, StoredRow DEF SoundRow
  <2>4. RowTable(recs)
    BY <2>1, <2>2, <2>3 DEF RowTable
  <2>5. 1 .. 2 \subseteq Nat
    OBVIOUS
  <2>6. QED
    BY <2>4, <2>5, ShortlistOfTheBest DEF ShortlistIsBest
<1>2. QED
  BY <1>1, DataInvariant, PTL

(* For any goals, keywords and picks, a confirmed goal is supported by more *)
(* than generic words where it was matched at all, and its keyword is of    *)
(* its group (sdg_classification_service.py:236-372).                       *)
THEOREM SdgStaysGrounded == Spec => []SdgIsGrounded
<1>1. DataInv => SdgIsGrounded
  BY DEF DataInv, TablesInv, SoundSdg, SupportedGoal, SdgIsGrounded
<1>2. QED
  BY <1>1, DataInvariant, PTL
=============================================================================
