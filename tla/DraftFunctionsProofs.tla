------------------------ MODULE DraftFunctionsProofs ------------------------
(***************************************************************************)
(* The functions an export is made of, for every argument.  What the       *)
(* parser makes of a file: its normalized texts, its blocks and sentences  *)
(* and their offsets.  What citations and reference lists show of the      *)
(* papers.  And the texts and sequences these are about.                   *)
(***************************************************************************)
EXTENDS DraftParsing, CitationFormatting, OrderingProofs

LEMMA MinIsLeast ==
  ASSUME NEW S \in SUBSET Nat, S # {}
  PROVE  Min(S) \in S /\ \A x \in S : Min(S) <= x
<1>1. \E x \in S : \A y \in S : x <= y
  BY LeastNatural
<1>2. QED
  BY <1>1 DEF Min

LEMMA MaxIsGreatest ==
  ASSUME NEW S \in SUBSET Int, IsFiniteSet(S), S # {}
  PROVE  Max(S) \in S /\ \A x \in S : Max(S) >= x
<1>1. \E x \in S : \A y \in S : x >= y
  BY GreatestOfFinite
<1>2. QED
  BY <1>1 DEF Max

-----------------------------------------------------------------------------
(* Slices.                                                                  *)

LEMMA SameSequence ==
  ASSUME NEW X, NEW s \in Seq(X), NEW t \in Seq(X), Len(s) = Len(t),
         \A i \in 1 .. Len(s) : s[i] = t[i]
  PROVE  s = t
OBVIOUS

LEMMA SliceIsPart ==
  ASSUME NEW X, NEW s \in Seq(X), NEW a \in Nat, NEW b \in Nat, a <= b, b <= Len(s)
  PROVE  /\ Slice(s, a, b) \in Seq(X) /\ Len(Slice(s, a, b)) = b - a
         /\ \A i \in 1 .. b - a : Slice(s, a, b)[i] = s[a + i]
<1>1. a + 1 \in 1 .. Len(s) + 1 /\ b \in 0 .. Len(s) /\ Len(s) \in Nat
  OBVIOUS
<1>2. CASE a = b
  <2>1. Slice(s, a, b) = <<>>
    BY <1>2 DEF Slice
  <2>2. QED
    BY <2>1, <1>2
<1>3. CASE a < b
  BY <1>1, <1>3 DEF Slice
<1>4. QED
  BY <1>2, <1>3

LEMMA SliceOfSlice ==
  ASSUME NEW X, NEW s \in Seq(X), NEW a \in Nat, NEW b \in Nat, a <= b, b <= Len(s),
         NEW x \in Nat, NEW y \in Nat, x <= y, y <= b - a
  PROVE  Slice(Slice(s, a, b), x, y) = Slice(s, a + x, a + y)
<1>1. PICK t : t = Slice(s, a, b)
  OBVIOUS
<1>2. t \in Seq(X) /\ Len(t) = b - a /\ \A i \in 1 .. b - a : t[i] = s[a + i]
  BY <1>1, SliceIsPart
<1>3. PICK u : u = Slice(t, x, y)
  OBVIOUS
<1>4. u \in Seq(X) /\ Len(u) = y - x /\ \A i \in 1 .. y - x : u[i] = t[x + i]
  <2>1. x <= y /\ y <= Len(t) /\ t \in Seq(X)
    BY <1>2
  <2>2. QED
    BY <1>3, <2>1, SliceIsPart, ZenonT(40)
<1>5. PICK p \in Nat, q \in Nat : p = a + x /\ q = a + y /\ p <= q /\ q <= Len(s)
  OBVIOUS
<1>6. PICK v : v = Slice(s, p, q)
  OBVIOUS
<1>7. v \in Seq(X) /\ Len(v) = q - p /\ \A i \in 1 .. q - p : v[i] = s[p + i]
  <2>1. p <= q /\ q <= Len(s)
    BY <1>5
  <2>2. QED
    BY <1>6, <2>1, SliceIsPart, ZenonT(40)
<1>8. \A i \in 1 .. y - x : u[i] = v[i]
  <2> TAKE i \in 1 .. y - x
  <2>1. x + i \in 1 .. b - a
    OBVIOUS
  <2>2. u[i] = s[a + (x + i)]
    BY <1>2, <1>4, <2>1
  <2>3. p + i = a + (x + i) /\ i \in 1 .. q - p
    BY <1>5
  <2>5. v[i] = s[p + i]
    BY <1>7, <2>3
  <2>4. QED
    BY <2>2, <2>3, <2>5
<1>9. q - p = y - x
  BY <1>5
<1>10. u = v
  BY <1>4, <1>7, <1>8, <1>9, SameSequence
<1>11. QED
  BY <1>1, <1>3, <1>5, <1>6, <1>10

LEMMA TotalsGrow ==
  ASSUME NEW counts \in Seq(Nat), NEW l \in 0 .. Len(counts), NEW k \in 0 .. l
  PROVE  Totals(counts)[k] <= Totals(counts)[l]
<1> DEFINE at == Totals(counts)
           n == Len(counts)
           T == {m \in Nat : m <= n => \A j \in 0 .. m : at[j] <= at[m]}
<1>1. /\ n \in Nat /\ at \in [0 .. n -> Nat]
      /\ \A j \in 1 .. n : at[j] = at[j - 1] + counts[j]
  BY TotalsAdd
<1>2. \A j \in 1 .. n : counts[j] \in Nat
  OBVIOUS
<1> HIDE DEF at, n
<1>3. 0 \in T
  <2>1. \A j \in 0 .. 0 : j = 0
    OBVIOUS
  <2>2. at[0] \in Nat
    BY <1>1
  <2>3. QED
    BY <2>1, <2>2
<1>4. ASSUME NEW m \in Nat, m \in T PROVE m + 1 \in T
  <2>1. SUFFICES ASSUME m + 1 <= n, NEW j \in 0 .. m + 1 PROVE at[j] <= at[m + 1]
    OBVIOUS
  <2>2. m + 1 \in 1 .. n /\ (m + 1) - 1 = m /\ m \in 0 .. n /\ m <= n
    BY <1>1, <2>1
  <2>3. at[m + 1] = at[m] + counts[m + 1] /\ counts[m + 1] \in Nat /\ at[m] \in Nat
    BY <1>1, <1>2, <2>2
  <2>4. CASE j = m + 1
    BY <2>3, <2>4
  <2>5. CASE j \in 0 .. m
    <3>1. at[j] <= at[m]
      BY <1>4, <2>2, <2>5
    <3>2. at[j] \in Nat
      BY <1>1, <2>2, <2>5
    <3>3. QED
      BY <2>3, <3>1, <3>2
  <2>6. QED
    BY <2>4, <2>5
<1> HIDE DEF T
<1>5. \A m \in Nat : m \in T
  BY <1>3, <1>4, SetInduction
<1>6. l \in Nat /\ l <= n
  BY DEF n
<1>7. QED
  BY <1>5, <1>6 DEF T, at

(* Of two elements of a concatenation, the earlier one comes from an        *)
(* earlier part or from an earlier place of the same part.                  *)
LEMMA ConcatenatedInOrder ==
  ASSUME NEW X, NEW parts \in Seq(Seq(X)),
         NEW p \in DOMAIN Concatenated(parts), NEW q \in DOMAIN Concatenated(parts), p < q
  PROVE  \E b, d \in DOMAIN parts : \E c \in DOMAIN parts[b], e \in DOMAIN parts[d] :
           /\ Concatenated(parts)[p] = parts[b][c] /\ Concatenated(parts)[q] = parts[d][e]
           /\ b < d \/ (b = d /\ c < e)
<1> DEFINE counts == [k \in DOMAIN parts |-> Len(parts[k])]
           at == Totals(counts)
           n == Len(parts)
<1>1. n \in Nat /\ DOMAIN parts = 1 .. n /\ \A k \in 1 .. n : parts[k] \in Seq(X)
  OBVIOUS
<1>2. counts \in Seq(Nat) /\ Len(counts) = n /\ \A k \in 1 .. n : counts[k] = Len(parts[k])
  <2>1. \A k \in 1 .. n : Len(parts[k]) \in Nat
    BY <1>1
  <2>2. QED
    BY <1>1, <2>1
<1>3. PICK b \in DOMAIN parts : \E c \in DOMAIN parts[b] :
        p = at[b - 1] + c /\ Concatenated(parts)[p] = parts[b][c]
  BY ConcatenatedCovers
<1>4. PICK c \in DOMAIN parts[b] : p = at[b - 1] + c /\ Concatenated(parts)[p] = parts[b][c]
  BY <1>3
<1>5. PICK d \in DOMAIN parts : \E e \in DOMAIN parts[d] :
        q = at[d - 1] + e /\ Concatenated(parts)[q] = parts[d][e]
  BY ConcatenatedCovers
<1>6. PICK e \in DOMAIN parts[d] : q = at[d - 1] + e /\ Concatenated(parts)[q] = parts[d][e]
  BY <1>5
<1> HIDE DEF counts, n
<1>7. /\ at \in [0 .. n -> Nat] /\ at[d] = at[d - 1] + counts[d]
  <2>1. \A k \in 1 .. n : at[k] = at[k - 1] + counts[k]
    BY <1>2, TotalsAdd
  <2>2. at \in [0 .. n -> Nat]
    BY <1>2, TotalsAdd
  <2>3. QED
    BY <1>1, <2>1, <2>2
<1>8. b \in 1 .. n /\ d \in 1 .. n /\ c \in 1 .. Len(parts[b]) /\ e \in 1 .. Len(parts[d])
      /\ Len(parts[b]) \in Nat /\ Len(parts[d]) \in Nat
  BY <1>1
<1>9. at[d] \in Nat /\ at[b - 1] \in Nat /\ at[d - 1] \in Nat
  <2>1. d \in 0 .. n /\ b - 1 \in 0 .. n /\ d - 1 \in 0 .. n
    BY <1>1, <1>8
  <2>2. QED
    BY <1>7, <2>1
<1>10. ASSUME d < b PROVE FALSE
  <2>1. b - 1 \in 0 .. Len(counts) /\ d \in 0 .. b - 1
    BY <1>1, <1>2, <1>8, <1>10, SMTT(40)
  <2>2. at[d] <= at[b - 1]
    BY <1>2, <2>1, TotalsGrow
  <2> HIDE DEF at
  <2>3. at[d] = at[d - 1] + Len(parts[d])
    BY <1>2, <1>7, <1>8
  <2>4. q <= at[d] /\ p > at[b - 1] /\ p \in Int /\ q \in Int
    <3>1. c \in Nat /\ e \in Nat /\ c >= 1 /\ e <= Len(parts[d]) /\ Len(parts[d]) \in Nat
      BY <1>8
    <3>2. q = at[d - 1] + e /\ p = at[b - 1] + c
      BY <1>4, <1>6
    <3>3. PICK u, v, w : u = at[b - 1] /\ v = at[d - 1] /\ w = at[d]
      OBVIOUS
    <3>4. u \in Nat /\ v \in Nat /\ w \in Nat /\ w = v + Len(parts[d]) /\ q = v + e /\ p = u + c
      BY <1>9, <2>3, <3>2, <3>3
    <3>5. q <= w /\ p > u /\ p \in Int /\ q \in Int
      BY <3>1, <3>4
    <3>6. QED
      BY <3>3, <3>5
  <2>5. QED
    BY <1>9, <2>2, <2>4, SMTT(40)
<1>11. ASSUME b = d PROVE c < e
  BY <1>4, <1>6, <1>8, <1>9, <1>11
<1>12. b < d \/ (b = d /\ c < e)
  <2>1. b < d \/ b = d \/ d < b
    BY <1>8
  <2>2. QED
    BY <1>10, <1>11, <2>1, Zenon
<1>13. QED
  BY <1>4, <1>6, <1>12

-----------------------------------------------------------------------------
(* Blocks and sentences.                                                    *)

LEMMA StripIsText ==
  ASSUME NEW X, NEW s \in Seq(X)
  PROVE  Strip(s) \in Seq(X)
<1> DEFINE solid == {i \in DOMAIN s : s[i] \notin Blank \cup {"lf"}}
<1>1. DOMAIN s = 1 .. Len(s) /\ Len(s) \in Nat
  OBVIOUS
<1>2. solid \in SUBSET (1 .. Len(s)) /\ solid \in SUBSET Nat /\ solid \in SUBSET Int
  BY <1>1
<1>3. Strip(s) = IF solid = {} THEN <<>> ELSE SubSeq(s, Min(solid), Max(solid))
  BY DEF Strip
<1> HIDE DEF solid
<1>4. CASE solid # {}
  <2>1. IsFiniteSet(1 .. Len(s))
    BY <1>1, FS_Interval
  <2>2. IsFiniteSet(solid)
    BY <1>2, <2>1, FS_Subset
  <2>3. Min(solid) \in solid
    BY <1>2, <1>4, MinIsLeast
  <2>4. Max(solid) \in solid
    BY <1>2, <1>4, <2>2, MaxIsGreatest
  <2>5. PICK a \in 1 .. Len(s), b \in 1 .. Len(s) : a = Min(solid) /\ b = Max(solid)
    BY <1>2, <2>3, <2>4
  <2>6. SubSeq(s, a, b) \in Seq(X)
    BY <1>1, <2>5
  <2>7. QED
    BY <1>3, <1>4, <2>5, <2>6
<1>5. QED
  BY <1>3, <1>4

LEMMA StripIsSlice ==
  ASSUME NEW X, NEW s \in Seq(X)
  PROVE  \E a \in Nat, b \in Nat : a <= b /\ b <= Len(s) /\ Strip(s) = Slice(s, a, b)
<1> DEFINE solid == {i \in DOMAIN s : s[i] \notin Blank \cup {"lf"}}
<1>1. DOMAIN s = 1 .. Len(s) /\ Len(s) \in Nat
  OBVIOUS
<1>2. solid \in SUBSET (1 .. Len(s)) /\ solid \in SUBSET Nat /\ solid \in SUBSET Int
  BY <1>1
<1>3. Strip(s) = IF solid = {} THEN <<>> ELSE SubSeq(s, Min(solid), Max(solid))
  BY DEF Strip
<1> HIDE DEF solid
<1>4. CASE solid # {}
  <2>1. IsFiniteSet(solid)
    <3>1. IsFiniteSet(1 .. Len(s))
      BY <1>1, FS_Interval
    <3>2. QED
      BY <1>2, <3>1, FS_Subset
  <2>2. Min(solid) \in solid /\ \A x \in solid : Min(solid) <= x
    BY <1>2, <1>4, MinIsLeast
  <2>3. Max(solid) \in solid
    BY <1>2, <1>4, <2>1, MaxIsGreatest
  <2>4. PICK p \in 1 .. Len(s), q \in 1 .. Len(s) : p = Min(solid) /\ q = Max(solid) /\ p <= q
    BY <1>2, <2>2, <2>3
  <2>5. PICK a \in Nat : p = a + 1 /\ a <= q
    <3>1. p - 1 \in Nat /\ p = (p - 1) + 1 /\ p - 1 <= q
      BY <1>1, <2>4
    <3>2. QED
      BY <3>1
  <2>6. Strip(s) = Slice(s, a, q)
    BY <1>3, <1>4, <2>4, <2>5 DEF Slice
  <2>7. q \in Nat /\ q <= Len(s)
    BY <1>1
  <2>8. QED
    BY <2>5, <2>6, <2>7
<1>5. CASE solid = {}
  <2>1. Slice(s, 0, 0) = <<>>
    BY DEF Slice
  <2>2. Strip(s) = Slice(s, 0, 0) /\ 0 <= Len(s)
    BY <1>1, <1>3, <1>5, <2>1
  <2>3. QED
    BY <2>2
<1>6. QED
  BY <1>4, <1>5

(* What normalization and the elements of a run put in are characters of    *)
(* their own: no prover knows them for strings.                             *)
Character == Characters \cup {" ", "lf", "tab", "dash"}

LEMMA NormalizedIsText ==
  ASSUME NEW text \in Seq(Character)
  PROVE  NormalizeParagraph(text) \in Seq(Character)
<1> DEFINE S == {i \in DOMAIN text : text[i] # "cr"}
           kept == Kept(text, S)
           first == {i \in DOMAIN kept : ~ (i > 1 /\ kept[i] \in Blank /\ kept[i - 1] \in Blank)}
           plain == [i \in DOMAIN kept |-> IF kept[i] \in Blank THEN " " ELSE kept[i]]
<1>1. kept \in Seq(Character)
  <2>1. S \in SUBSET DOMAIN text
    OBVIOUS
  <2> HIDE DEF S
  <2>2. QED
    BY <2>1, KeptElements
<1>2. NormalizeParagraph(text) = Strip(Kept(plain, first))
  BY DEF NormalizeParagraph
<1> HIDE DEF kept
<1>3. plain \in Seq(Character) /\ DOMAIN plain = DOMAIN kept
  <2>1. DOMAIN kept = 1 .. Len(kept) /\ Len(kept) \in Nat
        /\ \A i \in 1 .. Len(kept) : kept[i] \in Character
    BY <1>1
  <2>2. \A i \in 1 .. Len(kept) : plain[i] = " " \/ plain[i] = kept[i]
    BY <2>1
  <2>3. DOMAIN plain = DOMAIN kept /\ plain = [i \in DOMAIN plain |-> plain[i]]
    OBVIOUS
  <2> HIDE DEF plain
  <2>4. " " \in Character
    BY DEF Character
  <2>5. \A i \in 1 .. Len(kept) : plain[i] \in Character
    BY <2>1, <2>2, <2>4
  <2>6. QED
    BY <2>1, <2>3, <2>5, TypedSequence
<1>4. first \in SUBSET DOMAIN plain
  BY <1>3
<1> HIDE DEF plain, first
<1>5. Kept(plain, first) \in Seq(Character)
  BY <1>3, <1>4, KeptElements
<1>6. QED
  BY <1>2, <1>5, StripIsText

(* Sentences and blocks are sequences; their offsets and paragraphs are     *)
(* naturals, and no two blocks are of one paragraph.                        *)
IsSentences(sentences) ==
  /\ sentences \in Seq(Range(sentences))
  /\ \A k \in DOMAIN sentences : sentences[k].start \in Nat /\ sentences[k].paragraph \in Nat
IsBlocks(blocks) ==
  /\ blocks \in Seq(Range(blocks))
  /\ \A k \in DOMAIN blocks : /\ blocks[k].text \in Seq(Character)
                              /\ blocks[k].start \in Nat /\ blocks[k].paragraph \in Nat
  /\ \A k, l \in DOMAIN blocks : blocks[k].paragraph = blocks[l].paragraph => k = l

LEMMA FromFunction ==
  ASSUME NEW n \in Nat, NEW s, DOMAIN s = 1 .. n, s = [k \in DOMAIN s |-> s[k]]
  PROVE  s \in Seq(Range(s)) /\ Len(s) = n
BY DEF Range

LEMMA AssembledBlocks ==
  ASSUME NEW n \in Nat, NEW rawBlocks, DOMAIN rawBlocks = 1 .. n,
         \A i \in 1 .. n : rawBlocks[i].text \in Seq(Character)
  PROVE  IsBlocks(Assemble(rawBlocks).blocks)
<1> DEFINE text(i) == NormalizeParagraph(rawBlocks[i].text)
           S == {i \in DOMAIN rawBlocks : text(i) # <<>>}
           kept == Ascending(S)
           texts == [k \in DOMAIN kept |-> text(kept[k])]
           m == Cardinality(S)
           blocks == [k \in DOMAIN kept |->
             [text |-> texts[k], start |-> BlockStart(texts, k),
              end |-> BlockStart(texts, k) + Len(texts[k]),
              paragraph |-> kept[k], role |-> rawBlocks[kept[k]].role]]
<1>1. Assemble(rawBlocks).blocks = blocks
  BY DEF Assemble
<1>2. S \in SUBSET (1 .. n) /\ S \in SUBSET Int
  OBVIOUS
<1> HIDE DEF S
<1>3. IsFiniteSet(S)
  <2>1. IsFiniteSet(1 .. n)
    BY FS_Interval
  <2>2. QED
    BY <1>2, <2>1, FS_Subset
<1>4. /\ m \in Nat /\ kept \in Seq(S) /\ Len(kept) = m /\ DOMAIN kept = 1 .. m
      /\ \A i, j \in DOMAIN kept : i < j => kept[i] < kept[j]
  BY <1>2, <1>3, AscendingEnumerates
<1> HIDE DEF kept, m
<1>5. \A k \in 1 .. m : kept[k] \in 1 .. n
  <2>1. \A k \in DOMAIN kept : kept[k] \in S
    BY <1>4
  <2>2. QED
    BY <1>2, <1>4, <2>1
<1>6. \A k \in 1 .. m : texts[k] \in Seq(Character)
  <2> TAKE k \in 1 .. m
  <2>1. rawBlocks[kept[k]].text \in Seq(Character)
    BY <1>5
  <2>2. text(kept[k]) \in Seq(Character)
    BY <2>1, NormalizedIsText
  <2>3. QED
    BY <1>4, <2>2
<1>7. DOMAIN texts = 1 .. m
  BY <1>4
<1> HIDE DEF texts
<1>8. \A k \in 1 .. m : BlockStart(texts, k) \in Nat
  <2> DEFINE counts == [i \in DOMAIN texts |-> Len(texts[i])]
  <2>1. counts \in Seq(Nat) /\ Len(counts) = m
    <3>1. \A i \in 1 .. m : Len(texts[i]) \in Nat
      BY <1>6
    <3>2. QED
      BY <1>4, <1>7, <3>1
  <2> HIDE DEF counts
  <2>2. Totals(counts) \in [0 .. m -> Nat]
    BY <2>1, TotalsAdd
  <2>3. ASSUME NEW k \in 1 .. m PROVE BlockStart(texts, k) \in Nat
    <3>1. k - 1 \in 0 .. m /\ k - 1 \in Nat
      BY <1>4
    <3>2. Totals(counts)[k - 1] \in Nat
      BY <2>2, <3>1
    <3>3. Len(Separator) = 2
      BY DEF Separator
    <3>4. BlockStart(texts, k) = Totals(counts)[k - 1] + (k - 1) * 2
      BY <3>3 DEF BlockStart, Size, counts
    <3>5. QED
      BY <3>1, <3>2, <3>4
  <2>4. QED
    BY <2>3
<1>9. DOMAIN blocks = 1 .. m /\ blocks = [k \in DOMAIN blocks |-> blocks[k]]
  BY <1>4
<1>10. \A k \in 1 .. m : /\ blocks[k].text = texts[k] /\ blocks[k].start = BlockStart(texts, k)
                         /\ blocks[k].paragraph = kept[k]
  BY <1>4
<1> HIDE DEF blocks
<1>11. blocks \in Seq(Range(blocks))
  BY <1>4, <1>9, FromFunction
<1>12. ASSUME NEW k \in 1 .. m, NEW l \in 1 .. m, kept[k] = kept[l] PROVE k = l
  <2>1. k \in Int /\ l \in Int /\ kept[k] \in Int /\ kept[l] \in Int
    BY <1>5
  <2>2. ~ (k < l) /\ ~ (l < k)
    BY <1>4, <1>12, <2>1
  <2>3. QED
    BY <2>1, <2>2
<1>13. \A k \in 1 .. m : kept[k] \in Nat
  BY <1>5
<1>14. IsBlocks(blocks)
  BY <1>6, <1>8, <1>9, <1>10, <1>11, <1>12, <1>13 DEF IsBlocks
<1>15. QED
  BY <1>1, <1>14

(* What a raw block becomes; blocks slice the text they are joined to, one  *)
(* after another.                                                           *)
IsBlockOf(b, rawBlocks) ==
  /\ b.paragraph \in DOMAIN rawBlocks /\ b.role = rawBlocks[b.paragraph].role
  /\ b.text = NormalizeParagraph(rawBlocks[b.paragraph].text) /\ b.text # <<>>
BlocksExact(raw, blocks) ==
  /\ raw \in Seq(Character)
  /\ \A k \in DOMAIN blocks :
       /\ blocks[k].end = blocks[k].start + Len(blocks[k].text) /\ blocks[k].end <= Len(raw)
       /\ Slice(raw, blocks[k].start, blocks[k].end) = blocks[k].text
  /\ \A k, l \in DOMAIN blocks : k < l => blocks[k].end <= blocks[l].start

(* Texts joined with a separator: where each begins.                        *)
LEMMA JoinedTexts ==
  ASSUME NEW m \in Nat, NEW texts, DOMAIN texts = 1 .. m, \A k \in 1 .. m : texts[k] \in Seq(Character)
  PROVE  LET raw == Concatenated([k \in DOMAIN texts |->
                      IF k = 1 THEN texts[k] ELSE Separator \o texts[k]])
             start(k) == BlockStart(texts, k)
         IN /\ raw \in Seq(Character)
            /\ \A k \in 1 .. m : /\ start(k) \in Nat /\ start(k) + Len(texts[k]) <= Len(raw)
                                 /\ Slice(raw, start(k), start(k) + Len(texts[k])) = texts[k]
            /\ \A k, l \in 1 .. m : k < l => start(k) + Len(texts[k]) <= start(l)
<1> DEFINE counts == [i \in DOMAIN texts |-> Len(texts[i])]
           total == Totals(counts)
           parts == [k \in DOMAIN texts |-> IF k = 1 THEN texts[k] ELSE Separator \o texts[k]]
           raw == Concatenated(parts)
           start(k) == BlockStart(texts, k)
           sizes == [k \in DOMAIN parts |-> Len(parts[k])]
           at == Totals(sizes)
<1>1. counts \in Seq(Nat) /\ Len(counts) = m /\ \A k \in 1 .. m : counts[k] = Len(texts[k]) /\ counts[k] \in Nat
  <2>1. \A k \in 1 .. m : Len(texts[k]) \in Nat
    OBVIOUS
  <2>2. QED
    BY <2>1
<1>2. Separator \in Seq(Character) /\ Len(Separator) = 2
  <2>1. "lf" \in Character
    BY DEF Character
  <2>2. QED
    BY <2>1 DEF Separator
<1>3. /\ DOMAIN parts = 1 .. m /\ parts = [k \in DOMAIN parts |-> parts[k]]
      /\ \A k \in 1 .. m : parts[k] = IF k = 1 THEN texts[k] ELSE Separator \o texts[k]
  OBVIOUS
<1>4. \A k \in 1 .. m : BlockStart(texts, k) = total[k - 1] + (k - 1) * 2
  <2>1. \A k : BlockStart(texts, k) = total[k - 1] + (k - 1) * Len(Separator)
    BY DEF BlockStart, Size
  <2>2. QED
    BY <1>2, <2>1
<1> HIDE DEF counts, parts
<1>5. ASSUME NEW k \in 1 .. m
      PROVE  /\ parts[k] \in Seq(Character)
             /\ Len(parts[k]) = IF k = 1 THEN counts[k] ELSE 2 + counts[k]
             /\ k > 1 => \A i \in 1 .. counts[k] : parts[k][2 + i] = texts[k][i]
  <2>1. texts[k] \in Seq(Character)
    OBVIOUS
  <2>2. CASE k = 1
    BY <1>1, <1>3, <2>1, <2>2
  <2>3. CASE k # 1
    <3>1. PICK p : p = Separator \o texts[k]
      OBVIOUS
    <3>5. PICK u \in Seq(Character), v \in Seq(Character) : u = Separator /\ v = texts[k]
      BY <1>2, <2>1
    <3>6. /\ u \o v \in Seq(Character) /\ Len(u \o v) = Len(u) + Len(v)
          /\ \A i \in 1 .. Len(v) : (u \o v)[Len(u) + i] = v[i]
      BY TwoPartsPutTogether
    <3>2. /\ p \in Seq(Character) /\ Len(p) = Len(Separator) + Len(texts[k])
          /\ \A i \in 1 .. Len(texts[k]) : p[Len(Separator) + i] = texts[k][i]
      BY <3>1, <3>5, <3>6
    <3>3. parts[k] = p
      BY <1>3, <2>3, <3>1
    <3>4. QED
      BY <1>1, <1>2, <2>3, <3>2, <3>3
  <2>4. QED
    BY <2>2, <2>3
<1>6. parts \in Seq(Seq(Character)) /\ Len(parts) = m
  <2>1. parts \in Seq(Seq(Character))
    BY <1>3, <1>5, TypedSequence
  <2>2. QED
    BY <1>3, <2>1
<1>7. /\ total \in [0 .. m -> Nat] /\ total[0] = 0
      /\ \A k \in 1 .. m : total[k] = total[k - 1] + counts[k]
  <2>1. /\ total \in [0 .. Len(counts) -> Nat] /\ total[0] = 0
        /\ \A k \in 1 .. Len(counts) : total[k] = total[k - 1] + counts[k]
    BY <1>1, TotalsAdd
  <2>2. QED
    BY <1>1, <2>1
<1>8. sizes \in Seq(Nat) /\ Len(sizes) = m /\ \A k \in 1 .. m : sizes[k] = Len(parts[k])
  <2>1. \A k \in 1 .. m : Len(parts[k]) \in Nat
    BY <1>5
  <2>2. QED
    BY <1>3, <2>1
<1>9. at[0] = 0
  <2> HIDE DEF sizes
  <2>1. QED
    BY <1>8, TotalsAdd
<1>10. /\ raw \in Seq(Character) /\ Len(raw) = at[m] /\ at \in [0 .. m -> Nat]
       /\ \A k \in 1 .. m :
            /\ at[k] = at[k - 1] + Len(parts[k]) /\ at[k] <= Len(raw)
            /\ \A c \in 1 .. Len(parts[k]) : raw[at[k - 1] + c] = parts[k][c]
  <2>1. /\ raw \in Seq(Character) /\ Len(raw) = at[Len(parts)] /\ at \in [0 .. Len(parts) -> Nat]
        /\ \A k \in 1 .. Len(parts) :
             /\ at[k] = at[k - 1] + Len(parts[k]) /\ at[k] <= Len(raw)
             /\ \A c \in 1 .. Len(parts[k]) : raw[at[k - 1] + c] = parts[k][c]
    BY <1>6, ConcatenatedSlices, ZenonT(40)
  <2>2. QED
    BY <1>6, <2>1
<1> HIDE DEF sizes, at, raw, total
<1>11. \A k \in 1 .. m : at[k] = total[k] + (k - 1) * 2
  <2> DEFINE T == {k \in Nat : k \in 1 .. m => at[k] = total[k] + (k - 1) * 2}
  <2>1. 0 \in T
    OBVIOUS
  <2>2. ASSUME NEW k \in Nat, k \in T PROVE k + 1 \in T
    <3>1. SUFFICES ASSUME k + 1 \in 1 .. m PROVE at[k + 1] = total[k + 1] + k * 2
      OBVIOUS
    <3>2. (k + 1) - 1 = k /\ k \in 0 .. m
      BY <3>1
    <3>3. at[k + 1] = at[k] + Len(parts[k + 1]) /\ total[k + 1] = total[k] + counts[k + 1]
      BY <1>7, <1>10, <3>1, <3>2
    <3>4. at[k] \in Nat /\ total[k] \in Nat /\ counts[k + 1] \in Nat
      BY <1>1, <1>7, <1>10, <3>1, <3>2
    <3>5. CASE k = 0
      <4>1. Len(parts[k + 1]) = counts[k + 1]
        BY <1>5, <3>1, <3>5
      <4>2. QED
        BY <1>7, <1>9, <3>3, <3>4, <3>5, <4>1
    <3>6. CASE k # 0
      <4>1. Len(parts[k + 1]) = 2 + counts[k + 1]
        BY <1>5, <3>1, <3>6
      <4>2. at[k] = total[k] + (k - 1) * 2
        BY <2>2, <3>2, <3>6
      <4>3. PICK x, y, z : x = at[k] /\ y = total[k] /\ z = counts[k + 1]
        OBVIOUS
      <4>4. x \in Nat /\ y \in Nat /\ z \in Nat /\ x = y + (k - 1) * 2
        BY <3>4, <4>2, <4>3
      <4>5. x + (2 + z) = (y + z) + k * 2
        BY <4>4
      <4>6. QED
        BY <3>3, <4>1, <4>3, <4>5
    <3>7. QED
      BY <3>5, <3>6
  <2> HIDE DEF T
  <2>3. \A k \in Nat : k \in T
    BY <2>1, <2>2, SetInduction
  <2>4. QED
    BY <2>3 DEF T
<1>12. ASSUME NEW k \in 1 .. m
       PROVE  /\ start(k) \in Nat /\ total[k - 1] \in Nat /\ start(k) + Len(texts[k]) = at[k]
              /\ start(k) = total[k - 1] + (k - 1) * 2
              /\ \A i \in 1 .. counts[k] : raw[start(k) + i] = texts[k][i]
  <2>1. start(k) = total[k - 1] + (k - 1) * 2
    BY <1>4
  <2>2. k - 1 \in 0 .. m /\ k \in Nat
    OBVIOUS
  <2>3. total[k - 1] \in Nat /\ total[k] = total[k - 1] + counts[k] /\ counts[k] \in Nat /\ counts[k] = Len(texts[k])
    BY <1>1, <1>7, <2>2
  <2>4. at[k] = total[k] + (k - 1) * 2
    BY <1>11
  <2> HIDE DEF start
  <2>5. start(k) \in Nat /\ start(k) + Len(texts[k]) = at[k]
    BY <2>1, <2>2, <2>3, <2>4
  <2>6. ASSUME NEW i \in 1 .. counts[k] PROVE raw[start(k) + i] = texts[k][i]
    <3>1. CASE k = 1
      <4>1. total[k - 1] = 0
        BY <1>7, <3>1
      <4>2. start(k) = 0 /\ at[k - 1] = 0
        BY <1>9, <2>1, <3>1, <4>1
      <4>3. parts[k] = texts[k] /\ i \in 1 .. Len(parts[k])
        BY <1>3, <2>3, <3>1
      <4>4. raw[at[k - 1] + i] = parts[k][i]
        BY <1>10, <4>3
      <4>5. QED
        BY <4>2, <4>3, <4>4
    <3>2. CASE k # 1
      <4>1. k - 1 \in 1 .. m
        BY <3>2
      <4>2. at[k - 1] = total[k - 1] + ((k - 1) - 1) * 2
        BY <1>11, <4>1
      <4>3. 2 + i \in 1 .. Len(parts[k]) /\ parts[k][2 + i] = texts[k][i]
        BY <1>5, <2>3, <3>2
      <4>4. raw[at[k - 1] + (2 + i)] = parts[k][2 + i]
        BY <1>10, <4>3
      <4>5. at[k - 1] + (2 + i) = start(k) + i
        <5>1. PICK x \in Nat : x = total[k - 1]
          BY <2>3
        <5>2. (x + ((k - 1) - 1) * 2) + (2 + i) = (x + (k - 1) * 2) + i
          OBVIOUS
        <5>3. QED
          BY <2>1, <4>2, <5>1, <5>2
      <4>6. QED
        BY <4>3, <4>4, <4>5
    <3>3. QED
      BY <3>1, <3>2
  <2>7. QED
    BY <2>1, <2>3, <2>5, <2>6
<1>13. ASSUME NEW k \in 1 .. m
       PROVE  /\ start(k) + Len(texts[k]) <= Len(raw)
              /\ Slice(raw, start(k), start(k) + Len(texts[k])) = texts[k]
  <2>1. PICK a, b, s : a = start(k) /\ b = start(k) + Len(texts[k]) /\ s = Slice(raw, a, b)
    OBVIOUS
  <2>2. texts[k] \in Seq(Character) /\ counts[k] = Len(texts[k]) /\ counts[k] \in Nat
    BY <1>1
  <2>3. /\ a \in Nat /\ b = a + counts[k] /\ b <= Len(raw)
        /\ \A i \in 1 .. counts[k] : raw[a + i] = texts[k][i]
    BY <1>10, <1>12, <2>1, <2>2
  <2>4. b \in Nat /\ a <= b /\ b - a = counts[k]
    BY <2>2, <2>3
  <2>10. PICK w \in Seq(Character), x \in Nat, y \in Nat : w = raw /\ x = a /\ y = b
    BY <1>10, <2>3, <2>4
  <2>11. x <= y /\ y <= Len(w)
    BY <2>3, <2>4, <2>10
  <2>12. /\ Slice(w, x, y) \in Seq(Character) /\ Len(Slice(w, x, y)) = y - x
         /\ \A i \in 1 .. y - x : Slice(w, x, y)[i] = w[x + i]
    BY <2>11, SliceIsPart
  <2>5. s \in Seq(Character) /\ Len(s) = b - a /\ \A i \in 1 .. b - a : s[i] = raw[a + i]
    BY <2>1, <2>10, <2>12
  <2>6. \A i \in 1 .. Len(s) : s[i] = texts[k][i]
    BY <2>3, <2>4, <2>5
  <2>7. s = texts[k]
    BY <2>2, <2>4, <2>5, <2>6, SameSequence
  <2>8. QED
    BY <2>1, <2>3, <2>7
<1>14. ASSUME NEW k \in 1 .. m, NEW l \in 1 .. m, k < l
       PROVE  start(k) + Len(texts[k]) <= start(l)
  <2>1. l - 1 \in 0 .. Len(counts) /\ k \in 0 .. l - 1
    BY <1>1, <1>14
  <2>2. total[k] <= total[l - 1]
    BY <1>1, <2>1, TotalsGrow DEF total
  <2>3. start(k) + Len(texts[k]) = total[k] + (k - 1) * 2 /\ start(l) = total[l - 1] + (l - 1) * 2
    BY <1>11, <1>12
  <2>4. total[k] \in Nat /\ total[l - 1] \in Nat
    <3>1. k \in 0 .. m
      OBVIOUS
    <3>2. QED
      BY <1>7, <1>12, <3>1
  <2> HIDE DEF start
  <2>5. QED
    BY <1>14, <2>2, <2>3, <2>4
<1>15. QED
  BY <1>10, <1>12, <1>13, <1>14 DEF raw, parts

LEMMA AssembledExactly ==
  ASSUME NEW n \in Nat, NEW rawBlocks, DOMAIN rawBlocks = 1 .. n,
         \A i \in 1 .. n : rawBlocks[i].text \in Seq(Character)
  PROVE  /\ BlocksExact(Assemble(rawBlocks).raw, Assemble(rawBlocks).blocks)
         /\ \A k \in DOMAIN Assemble(rawBlocks).blocks : IsBlockOf(Assemble(rawBlocks).blocks[k], rawBlocks)
<1> DEFINE text(i) == NormalizeParagraph(rawBlocks[i].text)
           S == {i \in DOMAIN rawBlocks : text(i) # <<>>}
           kept == Ascending(S)
           texts == [k \in DOMAIN kept |-> text(kept[k])]
           m == Cardinality(S)
           blocks == [k \in DOMAIN kept |->
             [text |-> texts[k], start |-> BlockStart(texts, k),
              end |-> BlockStart(texts, k) + Len(texts[k]),
              paragraph |-> kept[k], role |-> rawBlocks[kept[k]].role]]
           raw == Concatenated([k \in DOMAIN texts |->
                    IF k = 1 THEN texts[k] ELSE Separator \o texts[k]])
<1>1. Assemble(rawBlocks) = [raw |-> raw, blocks |-> blocks]
  BY DEF Assemble
<1>2. S \in SUBSET (1 .. n) /\ S \in SUBSET Int /\ \A i \in S : i \in DOMAIN rawBlocks /\ text(i) # <<>>
  OBVIOUS
<1> HIDE DEF S
<1>3. IsFiniteSet(S)
  <2>1. IsFiniteSet(1 .. n)
    BY FS_Interval
  <2>2. QED
    BY <1>2, <2>1, FS_Subset
<1>4. m \in Nat /\ kept \in Seq(S) /\ DOMAIN kept = 1 .. m
  BY <1>2, <1>3, AscendingEnumerates
<1> HIDE DEF kept, m
<1>5. \A k \in 1 .. m : kept[k] \in S
  BY <1>4, MembersOfSequence
<1>6. DOMAIN texts = 1 .. m /\ \A k \in 1 .. m : texts[k] = text(kept[k])
  BY <1>4
<1>7. \A k \in 1 .. m : texts[k] \in Seq(Character)
  <2> TAKE k \in 1 .. m
  <2>1. rawBlocks[kept[k]].text \in Seq(Character)
    BY <1>2, <1>5
  <2>2. text(kept[k]) \in Seq(Character)
    BY <2>1, NormalizedIsText
  <2>3. QED
    BY <1>6, <2>2
<1>8. DOMAIN blocks = 1 .. m
      /\ \A k \in 1 .. m : /\ blocks[k].text = texts[k] /\ blocks[k].start = BlockStart(texts, k)
                           /\ blocks[k].end = BlockStart(texts, k) + Len(texts[k])
                           /\ blocks[k].paragraph = kept[k] /\ blocks[k].role = rawBlocks[kept[k]].role
  BY <1>4
<1> HIDE DEF texts, blocks
<1>9. /\ raw \in Seq(Character)
      /\ \A k \in 1 .. m :
           /\ BlockStart(texts, k) + Len(texts[k]) <= Len(raw)
           /\ Slice(raw, BlockStart(texts, k), BlockStart(texts, k) + Len(texts[k])) = texts[k]
      /\ \A k, l \in 1 .. m : k < l => BlockStart(texts, k) + Len(texts[k]) <= BlockStart(texts, l)
  BY <1>4, <1>6, <1>7, JoinedTexts, ZenonT(40)
<1> HIDE DEF raw
<1>10. BlocksExact(raw, blocks)
  BY <1>8, <1>9 DEF BlocksExact
<1>11. \A k \in DOMAIN blocks : IsBlockOf(blocks[k], rawBlocks)
  <2> TAKE k \in DOMAIN blocks
  <2>1. kept[k] \in S
    BY <1>5, <1>8
  <2>2. kept[k] \in DOMAIN rawBlocks /\ text(kept[k]) # <<>>
    BY <1>2, <2>1
  <2>3. blocks[k].paragraph = kept[k] /\ blocks[k].role = rawBlocks[kept[k]].role
        /\ blocks[k].text = text(kept[k])
    BY <1>6, <1>8
  <2>4. QED
    BY <2>2, <2>3 DEF IsBlockOf
<1>12. QED
  BY <1>1, <1>10, <1>11

(* The spans of a text follow one another in it.                            *)
LEMMA SpansInText ==
  ASSUME NEW text \in Seq(Character)
  PROVE  LET spans == SentenceSpans(text) IN
         \E n \in Nat :
           /\ DOMAIN spans = 1 .. n /\ spans = [k \in DOMAIN spans |-> spans[k]]
           /\ \A k \in 1 .. n : /\ spans[k][1] \in Nat /\ spans[k][2] \in Nat
                                /\ spans[k][1] <= spans[k][2] /\ spans[k][2] <= Len(text)
           /\ \A k, l \in 1 .. n : k < l => spans[k][2] <= spans[l][1]
<1> DEFINE ends == {i \in DOMAIN text : text[i] \in Terminal
                      /\ (i = Len(text) \/ text[i + 1] \in {" ", "lf"})} \cup {Len(text)}
           order == Ascending(ends)
           spans == SentenceSpans(text)
           n == Cardinality(ends)
           size == Len(text)
<1>1. spans = [k \in DOMAIN order |-> <<IF k = 1 THEN 0 ELSE order[k - 1], order[k]>>]
  BY DEF SentenceSpans
<1>2. DOMAIN text = 1 .. size /\ size \in Nat
  OBVIOUS
<1>3. \A i \in ends : i \in 0 .. size
  <2>1. \A i \in ends : i \in DOMAIN text \/ i = size
    OBVIOUS
  <2> HIDE DEF ends, size
  <2>2. QED
    BY <1>2, <2>1
<1> HIDE DEF ends, size, spans
<1>4. IsFiniteSet(ends)
  <2>1. IsFiniteSet(0 .. size)
    BY <1>2, FS_Interval
  <2>2. QED
    BY <1>3, <2>1, FS_Subset
<1>5. /\ n \in Nat /\ order \in Seq(ends) /\ DOMAIN order = 1 .. n
      /\ \A k, l \in DOMAIN order : k < l => order[k] < order[l]
  <2>1. ends \in SUBSET Int
    BY <1>2, <1>3
  <2>2. QED
    BY <1>4, <2>1, AscendingEnumerates
<1> HIDE DEF order, n
<1>6. \A k \in 1 .. n : order[k] \in 0 .. size
  BY <1>3, <1>5, MembersOfSequence
<1>7. /\ DOMAIN spans = 1 .. n /\ spans = [k \in DOMAIN spans |-> spans[k]]
      /\ \A k \in 1 .. n : /\ spans[k][1] = IF k = 1 THEN 0 ELSE order[k - 1]
                           /\ spans[k][2] = order[k]
  BY <1>1, <1>5
<1>8. ASSUME NEW k \in 1 .. n
      PROVE  /\ spans[k][1] \in Nat /\ spans[k][2] \in Nat
             /\ spans[k][1] <= spans[k][2] /\ spans[k][2] <= size
  <2>1. CASE k = 1
    BY <1>2, <1>6, <1>7, <2>1
  <2>2. CASE k # 1
    <3>1. PICK j \in 1 .. n : j = k - 1 /\ j < k
      BY <1>5, <2>2
    <3>2. order[j] < order[k] /\ order[j] \in 0 .. size /\ order[k] \in 0 .. size
      BY <1>5, <1>6, <3>1
    <3>3. spans[k][1] = order[j] /\ spans[k][2] = order[k]
      BY <1>7, <2>2, <3>1
    <3>4. QED
      BY <1>2, <3>2, <3>3
  <2>3. QED
    BY <2>1, <2>2
<1>9. ASSUME NEW k \in 1 .. n, NEW l \in 1 .. n, k < l
      PROVE  spans[k][2] <= spans[l][1]
  <2>1. PICK j \in 1 .. n : j = l - 1 /\ k <= j /\ l # 1
    BY <1>5, <1>9
  <2>2. spans[k][2] = order[k] /\ spans[l][1] = order[j]
    BY <1>7, <2>1
  <2>3. order[k] \in 0 .. size /\ order[j] \in 0 .. size /\ (k < j => order[k] < order[j])
    BY <1>5, <1>6
  <2>4. QED
    BY <1>2, <2>1, <2>2, <2>3
<1>10. QED
  BY <1>5, <1>7, <1>8, <1>9 DEF spans, size

(* A stripped part of a text, sought from where the part begins, is found   *)
(* within it.                                                               *)
LEMMA AnchoredInPart ==
  ASSUME NEW X, NEW text \in Seq(X), NEW from \in Nat, NEW to \in Nat, from <= to, to <= Len(text),
         NEW part, part = Strip(Slice(text, from, to)), part # <<>>
  PROVE  /\ part \in Seq(X) /\ Anchor(text, part, from) \in Nat
         /\ from <= Anchor(text, part, from) /\ Anchor(text, part, from) + Len(part) <= to
         /\ Slice(text, Anchor(text, part, from), Anchor(text, part, from) + Len(part)) = part
<1> DEFINE found == {i \in from .. Len(text) - Len(part) : Slice(text, i, i + Len(part)) = part}
           at == Anchor(text, part, from)
<1>1. PICK whole \in Seq(X) : whole = Slice(text, from, to) /\ Len(whole) = to - from
  BY SliceIsPart
<1>2. PICK a \in Nat, b \in Nat : a <= b /\ b <= to - from /\ part = Slice(whole, a, b)
  BY <1>1, StripIsSlice
<1>3. part \in Seq(X) /\ Len(part) = b - a
  <2>1. b <= Len(whole)
    BY <1>1, <1>2
  <2>2. Slice(whole, a, b) \in Seq(X) /\ Len(Slice(whole, a, b)) = b - a
    BY <1>2, <2>1, SliceIsPart, ZenonT(40)
  <2>3. QED
    BY <1>2, <2>2
<1>4. part = Slice(text, from + a, from + b)
  BY <1>1, <1>2, SliceOfSlice
<1>5. PICK p \in Nat, q \in Nat, n \in Nat, size \in Nat :
        /\ p = from + a /\ q = from + b /\ n = Len(part) /\ size = Len(text)
        /\ q = p + n /\ from <= p /\ q <= to /\ p \in from .. size - n
  <2>1. Len(text) \in Nat /\ Len(part) \in Nat
    BY <1>3
  <2>2. /\ from + b = (from + a) + Len(part) /\ from <= from + a /\ from + b <= to
        /\ from + a \in from .. Len(text) - Len(part) /\ from + a \in Nat /\ from + b \in Nat
    BY <1>2, <1>3, <2>1
  <2>3. QED
    BY <2>1, <2>2, ZenonT(40)
<1>6. p \in found
  BY <1>4, <1>5
<1>7. \A i \in found : i \in Nat /\ from <= i /\ Slice(text, i, i + Len(part)) = part
  BY <1>5
<1>8. at = IF found = {} THEN from ELSE Min(found)
  BY DEF Anchor
<1> HIDE DEF found, at
<1>9. Min(found) \in found /\ \A x \in found : Min(found) <= x
  <2>1. found \in SUBSET Nat /\ found # {}
    BY <1>6, <1>7
  <2>2. QED
    BY <2>1, MinIsLeast
<1>10. at \in Nat /\ from <= at /\ at <= p /\ Slice(text, at, at + Len(part)) = part
  BY <1>6, <1>7, <1>8, <1>9
<1>11. at + Len(part) <= to
  BY <1>5, <1>10
<1>12. QED
  BY <1>3, <1>10, <1>11 DEF at

(* Sentences lie in blocks of their paragraphs and follow one another.      *)
LiesIn(s, b) ==
  /\ s.paragraph = b.paragraph /\ b.role \notin Headings
  /\ s.start \in Nat /\ s.end \in Nat /\ b.start <= s.start /\ s.start < s.end
  /\ s.end <= b.start + Len(b.text)
  /\ s.text = Slice(b.text, s.start - b.start, s.end - b.start)
SentencesExact(blocks, sentences) ==
  /\ \A k \in DOMAIN sentences : \E b \in DOMAIN blocks : LiesIn(sentences[k], blocks[b])
  /\ \A k, l \in DOMAIN sentences : k < l => sentences[k].end <= sentences[l].start

SentencesLie(sentences, block) ==
  /\ sentences \in Seq(Range(sentences))
  /\ \A k \in DOMAIN sentences : LiesIn(sentences[k], block)
  /\ \A k, l \in DOMAIN sentences : k < l => sentences[k].end <= sentences[l].start

LEMMA SentencesOfBlock ==
  ASSUME NEW block, block.text \in Seq(Character), block.start \in Nat, block.role \notin Headings
  PROVE  SentencesLie(Sentences(block), block)
<1> DEFINE spans == SentenceSpans(block.text)
           text(k) == Strip(Slice(block.text, spans[k][1], spans[k][2]))
           at(k) == block.start + Anchor(block.text, text(k), spans[k][1])
           all == [k \in DOMAIN spans |->
                    [text |-> text(k), start |-> at(k), end |-> at(k) + Len(text(k)),
                     paragraph |-> block.paragraph]]
           S == {k \in DOMAIN all : all[k].text # <<>>}
           out == Kept(all, S)
<1>1. Sentences(block) = out
  BY DEF Sentences
<1>2. PICK t \in Seq(Character), z \in Nat, size \in Nat :
        t = block.text /\ z = block.start /\ size = Len(t)
  OBVIOUS
<1>3. PICK n \in Nat :
        /\ DOMAIN spans = 1 .. n
        /\ \A k \in 1 .. n : /\ spans[k][1] \in Nat /\ spans[k][2] \in Nat
                             /\ spans[k][1] <= spans[k][2] /\ spans[k][2] <= size
        /\ \A k, l \in 1 .. n : k < l => spans[k][2] <= spans[l][1]
  <2>1. PICK s : s = spans
    OBVIOUS
  <2>2. s = SentenceSpans(t)
    BY <1>2, <2>1
  <2> HIDE DEF spans
  <2>3. QED
    BY <1>2, <2>1, <2>2, SpansInText
<1> HIDE DEF spans
<1>4. ASSUME NEW k \in 1 .. n, text(k) # <<>>
      PROVE  /\ at(k) \in Nat /\ z + spans[k][1] <= at(k) /\ at(k) + Len(text(k)) <= z + spans[k][2]
             /\ Len(text(k)) \in Nat /\ Len(text(k)) > 0
             /\ text(k) = Slice(t, at(k) - z, (at(k) + Len(text(k))) - z)
  <2>1. PICK from \in Nat, to \in Nat : from = spans[k][1] /\ to = spans[k][2] /\ from <= to /\ to <= Len(t)
    BY <1>2, <1>3
  <2>2. PICK part : part = text(k) /\ part = Strip(Slice(t, from, to)) /\ part # <<>>
    BY <1>2, <1>4, <2>1
  <2>3. PICK x : x = Anchor(t, part, from)
    OBVIOUS
  <2>4. /\ part \in Seq(Character) /\ x \in Nat /\ from <= x /\ x + Len(part) <= to
        /\ Slice(t, x, x + Len(part)) = part
    BY <2>1, <2>2, <2>3, AnchoredInPart
  <2>5. at(k) = z + x
    BY <1>2, <2>1, <2>2, <2>3
  <2> HIDE DEF at, text
  <2>6. Len(part) \in Nat /\ Len(part) > 0
    BY <2>2, <2>4
  <2>7. (z + x) - z = x /\ ((z + x) + Len(part)) - z = x + Len(part)
    BY <2>4, <2>6
  <2>8. QED
    BY <2>1, <2>2, <2>4, <2>5, <2>6, <2>7
<1>5. DOMAIN all = 1 .. n /\ all = [k \in DOMAIN all |-> all[k]]
  BY <1>3
<1>6. \A k \in 1 .. n : /\ all[k].text = text(k) /\ all[k].start = at(k)
                        /\ all[k].end = at(k) + Len(text(k)) /\ all[k].paragraph = block.paragraph
  BY <1>3
<1> HIDE DEF all, at, text
<1>7. all \in Seq(Range(all)) /\ Len(all) = n
  BY <1>5, FromFunction
<1>8. S \in SUBSET DOMAIN all /\ \A k \in S : k \in 1 .. n /\ text(k) # <<>>
  BY <1>5, <1>6
<1> HIDE DEF S
<1>9. PICK from : /\ from \in [DOMAIN out -> S] /\ \A k \in DOMAIN out : out[k] = all[from[k]]
                  /\ \A k, l \in DOMAIN out : k < l => from[k] < from[l]
  BY <1>7, <1>8, KeptInOrder
<1>10. out \in Seq(Range(all))
  BY <1>7, <1>8, KeptInOrder
<1> HIDE DEF out
<1>11. \A k \in S : LiesIn(all[k], block)
  <2> TAKE k \in S
  <2>1. k \in 1 .. n /\ text(k) # <<>>
    BY <1>8
  <2>2. /\ at(k) \in Nat /\ z + spans[k][1] <= at(k) /\ at(k) + Len(text(k)) <= z + spans[k][2]
        /\ Len(text(k)) \in Nat /\ Len(text(k)) > 0
        /\ text(k) = Slice(t, at(k) - z, (at(k) + Len(text(k))) - z)
    BY <1>4, <2>1
  <2>3. spans[k][1] \in Nat /\ spans[k][2] \in Nat /\ spans[k][2] <= size
    BY <1>3, <2>1
  <2>4. PICK x \in Nat, y \in Nat : x = at(k) /\ y = at(k) + Len(text(k))
    BY <2>2
  <2>5. z <= x /\ x < y /\ y <= z + size
    <3>1. PICK u \in Nat, v \in Nat, m \in Nat : u = spans[k][1] /\ v = spans[k][2] /\ m = Len(text(k))
      BY <2>2, <2>3
    <3>2. z + u <= x /\ y = x + m /\ m > 0 /\ y <= z + v /\ v <= size
      BY <2>2, <2>3, <2>4, <3>1
    <3>3. QED
      BY <3>2
  <2>6. /\ all[k].paragraph = block.paragraph /\ all[k].start = x /\ all[k].end = y
        /\ all[k].text = Slice(block.text, x - block.start, y - block.start)
    BY <1>2, <1>6, <2>1, <2>2, <2>4
  <2>7. QED
    BY <1>2, <2>5, <2>6 DEF LiesIn
<1>12. \A k, l \in S : k < l => all[k].end <= all[l].start
  <2> TAKE k, l \in S
  <2>1. SUFFICES ASSUME k < l PROVE all[k].end <= all[l].start
    OBVIOUS
  <2>2. k \in 1 .. n /\ l \in 1 .. n /\ text(k) # <<>> /\ text(l) # <<>>
    BY <1>8
  <2>3. at(k) + Len(text(k)) <= z + spans[k][2] /\ at(k) \in Nat /\ Len(text(k)) \in Nat
    BY <1>4, <2>2
  <2>4. z + spans[l][1] <= at(l) /\ at(l) \in Nat
    BY <1>4, <2>2
  <2>5. spans[k][2] <= spans[l][1] /\ spans[k][2] \in Nat /\ spans[l][1] \in Nat
    BY <1>3, <2>1, <2>2
  <2>6. at(k) + Len(text(k)) <= at(l)
    <3>1. PICK u \in Nat, m \in Nat, v \in Nat, p \in Nat, q \in Nat :
             /\ u = at(k) /\ m = Len(text(k)) /\ v = at(l)
             /\ p = spans[k][2] /\ q = spans[l][1]
      BY <2>3, <2>4, <2>5
    <3>2. u + m <= z + p /\ z + q <= v /\ p <= q
      BY <2>3, <2>4, <2>5, <3>1
    <3>3. u + m <= v
      BY <3>2
    <3>4. QED
      BY <3>1, <3>3
  <2>7. QED
    BY <1>6, <2>2, <2>6
<1>13. \A k \in DOMAIN out : LiesIn(out[k], block)
  BY <1>9, <1>11
<1>14. \A k, l \in DOMAIN out : k < l => out[k].end <= out[l].start
  BY <1>8, <1>9, <1>12
<1>15. out \in Seq(Range(out))
  BY <1>10 DEF Range
<1>16. QED
  BY <1>1, <1>13, <1>14, <1>15 DEF SentencesLie

LEMMA SegmentedExactly ==
  ASSUME NEW blocks, NEW raw, IsBlocks(blocks), BlocksExact(raw, blocks)
  PROVE  IsSentences(Segment(blocks)) /\ SentencesExact(blocks, Segment(blocks))
<1> DEFINE part(b) == IF blocks[b].role \in Headings THEN <<>> ELSE Sentences(blocks[b])
           parts == [b \in DOMAIN blocks |-> part(b)]
           X == UNION {Range(parts[b]) : b \in DOMAIN blocks}
           whole == Concatenated(parts)
<1>1. Segment(blocks) = whole
  BY DEF Segment
<1>2. DOMAIN blocks = 1 .. Len(blocks) /\ Len(blocks) \in Nat
  BY DEF IsBlocks
<1>3. ASSUME NEW b \in DOMAIN blocks PROVE SentencesLie(part(b), blocks[b])
  <2>1. CASE blocks[b].role \in Headings
    <3>1. part(b) = <<>>
      BY <2>1
    <3>2. <<>> \in Seq(Range(<<>>)) /\ \A k \in DOMAIN <<>> : FALSE
      OBVIOUS
    <3> HIDE DEF part
    <3>3. QED
      BY <3>1, <3>2 DEF SentencesLie
  <2>2. CASE blocks[b].role \notin Headings
    <3>1. PICK block : block = blocks[b]
      OBVIOUS
    <3>2. block.text \in Seq(Character) /\ block.start \in Nat
      BY <3>1 DEF IsBlocks
    <3>3. SentencesLie(Sentences(block), block)
      BY <2>2, <3>1, <3>2, SentencesOfBlock
    <3>4. part(b) = Sentences(block)
      BY <2>2, <3>1
    <3>5. QED
      BY <3>1, <3>3, <3>4
  <2>3. QED
    BY <2>1, <2>2
<1> HIDE DEF part
<1>4. ASSUME NEW b \in DOMAIN blocks
      PROVE  /\ parts[b] \in Seq(Range(parts[b]))
             /\ \A k \in DOMAIN parts[b] : LiesIn(parts[b][k], blocks[b])
             /\ \A k, l \in DOMAIN parts[b] : k < l => parts[b][k].end <= parts[b][l].start
  <2>1. parts[b] = part(b)
    OBVIOUS
  <2> HIDE DEF parts
  <2>2. QED
    BY <1>3, <2>1 DEF SentencesLie
<1>5. parts \in Seq(Seq(X)) /\ DOMAIN parts = DOMAIN blocks
  <2>1. DOMAIN parts = 1 .. Len(blocks)
    BY <1>2
  <2>2. parts = [b \in DOMAIN parts |-> parts[b]]
    OBVIOUS
  <2>3. ASSUME NEW b \in 1 .. Len(blocks) PROVE parts[b] \in Seq(X)
    <3> HIDE DEF parts
    <3>1. parts[b] \in Seq(Range(parts[b])) /\ Range(parts[b]) \subseteq X
      BY <1>2, <1>4
    <3>2. QED
      BY <3>1
  <2> HIDE DEF parts, X
  <2>4. QED
    BY <1>2, <2>1, <2>2, <2>3
<1> HIDE DEF parts, X
<1>6. whole \in Seq(X)
      /\ \A p \in DOMAIN whole : \E b \in DOMAIN parts : \E c \in DOMAIN parts[b] : whole[p] = parts[b][c]
  BY <1>5, ConcatenatedElements
<1>7. \A p \in DOMAIN whole : \E b \in DOMAIN blocks : LiesIn(whole[p], blocks[b])
  BY <1>4, <1>5, <1>6
<1>8. ASSUME NEW p \in DOMAIN whole, NEW q \in DOMAIN whole, p < q
      PROVE  whole[p].end <= whole[q].start
  <2>1. PICK b \in DOMAIN parts, d \in DOMAIN parts : \E c \in DOMAIN parts[b], e \in DOMAIN parts[d] :
          /\ whole[p] = parts[b][c] /\ whole[q] = parts[d][e]
          /\ b < d \/ (b = d /\ c < e)
    BY <1>5, <1>8, ConcatenatedInOrder
  <2>2. PICK c \in DOMAIN parts[b], e \in DOMAIN parts[d] :
          /\ whole[p] = parts[b][c] /\ whole[q] = parts[d][e]
          /\ b < d \/ (b = d /\ c < e)
    BY <2>1
  <2>3. CASE b = d /\ c < e
    BY <1>4, <1>5, <2>2, <2>3
  <2>4. CASE b < d
    <3>1. b \in DOMAIN blocks /\ d \in DOMAIN blocks
      BY <1>5
    <3>2. blocks[b].end <= blocks[d].start /\ blocks[b].end = blocks[b].start + Len(blocks[b].text)
      BY <2>4, <3>1 DEF BlocksExact
    <3>3. LiesIn(whole[p], blocks[b]) /\ LiesIn(whole[q], blocks[d])
      BY <1>4, <2>2, <3>1
    <3>4. blocks[b].start \in Nat /\ blocks[d].start \in Nat /\ Len(blocks[b].text) \in Nat
      BY <3>1 DEF IsBlocks
    <3>5. /\ whole[p].end \in Nat /\ whole[p].end <= blocks[b].start + Len(blocks[b].text)
          /\ whole[q].start \in Nat /\ blocks[d].start <= whole[q].start
      BY <3>3 DEF LiesIn
    <3>6. QED
      BY <3>2, <3>4, <3>5
  <2>5. QED
    BY <2>2, <2>3, <2>4
<1>9. whole \in Seq(Range(whole))
  BY <1>6 DEF Range
<1>10. \A p \in DOMAIN whole : whole[p].start \in Nat /\ whole[p].paragraph \in Nat
  <2>1. \A b \in DOMAIN blocks : blocks[b].paragraph \in Nat
    BY DEF IsBlocks
  <2>2. QED
    BY <1>7, <2>1 DEF LiesIn
<1>11. QED
  BY <1>1, <1>7, <1>8, <1>9, <1>10 DEF IsSentences, SentencesExact

LEMMA SentenceSlices ==
  ASSUME NEW raw, NEW blocks, IsBlocks(blocks), BlocksExact(raw, blocks),
         NEW k \in DOMAIN blocks, NEW s, LiesIn(s, blocks[k])
  PROVE  /\ s.start \in Nat /\ s.end \in Nat /\ s.start < s.end /\ s.end <= Len(raw)
         /\ s.end <= blocks[k].end
         /\ Slice(raw, s.start, s.end) = s.text
<1>1. PICK a, c, size : a = blocks[k].start /\ c = blocks[k].end /\ size = Len(blocks[k].text)
  OBVIOUS
<1>2. /\ a \in Nat /\ size \in Nat /\ c = a + size /\ c <= Len(raw) /\ raw \in Seq(Character)
      /\ Slice(raw, a, c) = blocks[k].text
  BY <1>1 DEF IsBlocks, BlocksExact
<1>3. /\ s.start \in Nat /\ s.end \in Nat /\ a <= s.start /\ s.start < s.end /\ s.end <= a + size
      /\ s.text = Slice(blocks[k].text, s.start - a, s.end - a)
  BY <1>1 DEF LiesIn
<1>4. PICK w \in Seq(Character), p \in Nat, q \in Nat, x \in Nat, y \in Nat :
        w = raw /\ p = a /\ q = c /\ x = s.start - a /\ y = s.end - a
  <2>1. raw \in Seq(Character) /\ a \in Nat /\ c \in Nat /\ s.start - a \in Nat /\ s.end - a \in Nat
    BY <1>2, <1>3
  <2>2. QED
    BY <2>1
<1>5. p <= q /\ q <= Len(w) /\ x <= y /\ y <= q - p
  BY <1>2, <1>3, <1>4
<1>6. Slice(Slice(w, p, q), x, y) = Slice(w, p + x, p + y)
  BY <1>5, SliceOfSlice
<1>7. p + x = s.start /\ p + y = s.end
  BY <1>2, <1>3, <1>4, SMTT(40)
<1>8. Slice(raw, s.start, s.end) = s.text
  BY <1>2, <1>3, <1>4, <1>6, <1>7
<1>9. s.end <= Len(raw) /\ s.end <= c
  <2>1. Len(raw) \in Nat
    BY <1>2
  <2>2. QED
    BY <1>2, <1>3, <2>1
<1>10. QED
  BY <1>1, <1>3, <1>8, <1>9

LEMMA SpelledOut ==
  ASSUME NEW s \in Seq(Characters)
  PROVE  s \in Seq(Character)
<1>1. Characters \subseteq Character
  BY DEF Character
<1>2. QED
  BY <1>1, WiderSequence

LEMMA PutTogether ==
  ASSUME NEW X, NEW n \in Nat, NEW parts, DOMAIN parts = 1 .. n,
         parts = [k \in DOMAIN parts |-> parts[k]], \A k \in 1 .. n : parts[k] \in Seq(X)
  PROVE  Concatenated(parts) \in Seq(X)
<1>1. parts \in Seq(Seq(X))
  BY TypedSequence
<1>2. QED
  BY <1>1, ConcatenatedElements

LEMMA WithoutIsText ==
  ASSUME NEW X, NEW s \in Seq(X), NEW B
  PROVE  Without(s, B) \in Seq(X) /\ Only(s, B) \in Seq(X)
<1> DEFINE out == [i \in DOMAIN s |-> IF s[i] \in B THEN <<>> ELSE <<s[i]>>]
           in == [i \in DOMAIN s |-> IF s[i] \in B THEN <<s[i]>> ELSE <<>>]
           n == Len(s)
<1>1. n \in Nat /\ DOMAIN s = 1 .. n /\ \A i \in 1 .. n : <<>> \in Seq(X) /\ <<s[i]>> \in Seq(X)
  OBVIOUS
<1>2. /\ DOMAIN out = 1 .. n /\ out = [i \in DOMAIN out |-> out[i]]
      /\ DOMAIN in = 1 .. n /\ in = [i \in DOMAIN in |-> in[i]]
  BY <1>1
<1>3. \A i \in 1 .. n : /\ out[i] = <<>> \/ out[i] = <<s[i]>>
                        /\ in[i] = <<>> \/ in[i] = <<s[i]>>
  BY <1>1
<1>4. Without(s, B) = Concatenated(out) /\ Only(s, B) = Concatenated(in)
  BY DEF Without, Only
<1> HIDE DEF out, in, n
<1>5. \A i \in 1 .. n : out[i] \in Seq(X) /\ in[i] \in Seq(X)
  BY <1>1, <1>3
<1>6. QED
  BY <1>1, <1>2, <1>4, <1>5, PutTogether

LEMMA ShownIsText ==
  ASSUME NEW run \in Runs
  PROVE  RunShown(run) \in Seq(Character)
<1> DEFINE kept == Without(run.chars, {"page"})
           shown == [i \in DOMAIN kept |-> CASE kept[i] = "hyphen" -> "dash"
                                              [] kept[i] = "ptab" -> "tab"
                                              [] OTHER -> kept[i]]
           n == Len(kept)
<1>1. kept \in Seq(Characters)
  <2>1. run.chars \in Seq(Characters)
    BY DEF Runs
  <2>2. QED
    BY <2>1, WithoutIsText
<1>2. RunShown(run) = shown
  BY DEF RunShown
<1> HIDE DEF kept
<1>3. n \in Nat /\ DOMAIN kept = 1 .. n /\ \A i \in 1 .. n : kept[i] \in Characters
  BY <1>1
<1>4. DOMAIN shown = 1 .. n /\ shown = [i \in DOMAIN shown |-> shown[i]]
  BY <1>3
<1>5. \A i \in 1 .. n : shown[i] = "dash" \/ shown[i] = "tab" \/ shown[i] = kept[i]
  BY <1>3
<1>6. "dash" \in Character /\ "tab" \in Character
  BY DEF Character
<1> HIDE DEF shown, n
<1>7. \A i \in 1 .. n : shown[i] \in Character
  <2>1. Characters \subseteq Character
    BY DEF Character
  <2>2. QED
    BY <1>3, <1>5, <1>6, <2>1
<1>8. QED
  BY <1>2, <1>3, <1>4, <1>7, TypedSequence

LEMMA ParagraphIsText ==
  ASSUME NEW p, p.runs \in Seq(Runs)
  PROVE  ParagraphText(p) \in Seq(Character)
<1> DEFINE parts == [r \in DOMAIN p.runs |->
                      IF p.runs[r].tracked = "no" THEN RunShown(p.runs[r]) ELSE <<>>]
           n == Len(p.runs)
<1>1. n \in Nat /\ DOMAIN p.runs = 1 .. n /\ \A r \in 1 .. n : p.runs[r] \in Runs
  OBVIOUS
<1>2. \A r \in 1 .. n : RunShown(p.runs[r]) \in Seq(Character)
  BY <1>1, ShownIsText
<1>3. DOMAIN parts = 1 .. n /\ parts = [r \in DOMAIN parts |-> parts[r]]
  BY <1>1
<1>4. \A r \in 1 .. n : parts[r] = RunShown(p.runs[r]) \/ parts[r] = <<>>
  BY <1>1
<1>5. ParagraphText(p) = Concatenated(parts)
  BY DEF ParagraphText
<1> HIDE DEF parts, n
<1>6. \A r \in 1 .. n : parts[r] \in Seq(Character)
  <2>1. <<>> \in Seq(Character)
    OBVIOUS
  <2>2. QED
    BY <1>2, <1>4, <2>1
<1>7. QED
  BY <1>1, <1>3, <1>5, <1>6, PutTogether

LEMMA LinesAreText ==
  ASSUME NEW chunk \in Seq(Seq(Characters))
  PROVE  OneLine(chunk) \in Seq(Character)
<1> DEFINE parts == [l \in DOMAIN chunk |-> IF l = 1 THEN chunk[l] ELSE <<" ">> \o chunk[l]]
           n == Len(chunk)
<1>1. n \in Nat /\ DOMAIN chunk = 1 .. n /\ \A l \in 1 .. n : chunk[l] \in Seq(Characters)
  OBVIOUS
<1>2. ASSUME NEW l \in 1 .. n
      PROVE  chunk[l] \in Seq(Character) /\ <<" ">> \o chunk[l] \in Seq(Character)
  <2>1. chunk[l] \in Seq(Character)
    BY <1>1, SpelledOut
  <2>2. <<" ">> \in Seq(Character)
    BY DEF Character
  <2>3. QED
    BY <2>1, <2>2, TwoPartsPutTogether
<1>3. DOMAIN parts = 1 .. n /\ parts = [l \in DOMAIN parts |-> parts[l]]
  BY <1>1
<1>4. \A l \in 1 .. n : parts[l] = chunk[l] \/ parts[l] = <<" ">> \o chunk[l]
  BY <1>1
<1>5. OneLine(chunk) = Concatenated(parts)
  BY DEF OneLine
<1> HIDE DEF parts, n
<1>6. \A l \in 1 .. n : parts[l] \in Seq(Character)
  BY <1>2, <1>4
<1>7. QED
  BY <1>1, <1>3, <1>5, <1>6, PutTogether

LEMMA ChunksAreLines ==
  ASSUME NEW f, IsFile(f)
  PROVE  Chunks(f) \in Seq(Seq(Seq(Characters)))
<1> DEFINE Y == Seq(Seq(Characters))
           each == [k \in DOMAIN f.chunks |-> Lines(f.chunks[k])]
           S == {k \in DOMAIN each : each[k] # <<>>}
           n == Len(f.chunks)
<1>1. f.chunks \in Seq(Y \ {<<>>})
  BY DEF IsFile
<1>2. n \in Nat /\ DOMAIN f.chunks = 1 .. n /\ \A k \in 1 .. n : f.chunks[k] \in Y
  BY <1>1
<1>3. ASSUME NEW k \in 1 .. n PROVE Lines(f.chunks[k]) \in Y
  <2>1. PICK chunk \in Seq(Seq(Characters)) : chunk = f.chunks[k]
    BY <1>2
  <2>2. PICK T : T = {l \in DOMAIN chunk : Strip(chunk[l]) # <<>>}
    OBVIOUS
  <2>3. T \in SUBSET DOMAIN chunk
    BY <2>2
  <2>4. Lines(chunk) = Kept(chunk, T)
    BY <2>2 DEF Lines
  <2>5. Kept(chunk, T) \in Seq(Seq(Characters))
    BY <2>3, KeptElements
  <2>6. QED
    BY <2>1, <2>4, <2>5
<1>4. DOMAIN each = 1 .. n /\ each = [k \in DOMAIN each |-> each[k]]
      /\ \A k \in 1 .. n : each[k] = Lines(f.chunks[k])
  BY <1>2
<1>5. Chunks(f) = Kept(each, S)
  BY DEF Chunks
<1>6. S \in SUBSET DOMAIN each
  OBVIOUS
<1> HIDE DEF each, S, n, Y
<1>7. each \in Seq(Y)
  <2>1. \A k \in 1 .. n : each[k] \in Y
    BY <1>3, <1>4
  <2>2. QED
    BY <1>2, <1>4, <2>1, TypedSequence
<1>8. Kept(each, S) \in Seq(Y)
  BY <1>6, <1>7, KeptElements
<1>9. QED
  BY <1>5, <1>8 DEF Y

LEMMA WalkedParagraphs ==
  ASSUME NEW f, IsFile(f)
  PROVE  Walk(f) \in Seq(DOMAIN f.paras)
<1>1. Concatenated(f.cells) \in Seq(DOMAIN f.paras)
  <2>1. PICK cells, X : cells = f.cells /\ X = DOMAIN f.paras /\ cells \in Seq(Seq(X))
    BY DEF IsFile
  <2>2. Concatenated(cells) \in Seq(X)
    BY <2>1, ConcatenatedElements
  <2>3. QED
    BY <2>1, <2>2
<1>2. f.body \in Seq(DOMAIN f.paras)
  BY DEF IsFile
<1>3. f.body \o Concatenated(f.cells) \in Seq(DOMAIN f.paras)
  BY <1>1, <1>2, TwoPartsPutTogether
<1>4. QED
  BY <1>3 DEF Walk

(* All of a parse: its blocks and sentences are where they say.             *)
Whole(d) == IsBlocks(d.blocks) /\ BlocksExact(d.raw, d.blocks)
IsDraft(d) ==
  /\ IsSentences(d.sentences) /\ IsBlocks(d.blocks)
  /\ BlocksExact(d.raw, d.blocks) /\ SentencesExact(d.blocks, d.sentences)

LEMMA AssembledWhole ==
  ASSUME NEW n \in Nat, NEW rawBlocks, DOMAIN rawBlocks = 1 .. n,
         \A i \in 1 .. n : rawBlocks[i].text \in Seq(Character)
  PROVE  Whole(Assemble(rawBlocks))
<1>1. IsBlocks(Assemble(rawBlocks).blocks)
  BY AssembledBlocks
<1>2. BlocksExact(Assemble(rawBlocks).raw, Assemble(rawBlocks).blocks)
  BY AssembledExactly
<1>3. QED
  BY <1>1, <1>2 DEF Whole

LEMMA ParsedFile ==
  ASSUME NEW f, IsFile(f)
  PROVE  /\ IsDraft(ParseFile(f))
         /\ f.kind = "docx" => \A k \in DOMAIN ParseFile(f).blocks :
                                 IsBlockOf(ParseFile(f).blocks[k], DocxBlocks(f))
<1>1. /\ Whole(Assemble(DocxBlocks(f)))
      /\ \A k \in DOMAIN Assemble(DocxBlocks(f)).blocks :
           IsBlockOf(Assemble(DocxBlocks(f)).blocks[k], DocxBlocks(f))
  <2> DEFINE walk == Walk(f)
             raw == [k \in DOMAIN walk |->
               [text |-> ParagraphText(f.paras[walk[k]]), role |-> f.paras[walk[k]].role]]
             n == Len(walk)
  <2>1. walk \in Seq(DOMAIN f.paras)
    BY WalkedParagraphs
  <2>2. DocxBlocks(f) = raw
    BY DEF DocxBlocks
  <2> HIDE DEF walk
  <2>3. n \in Nat /\ DOMAIN walk = 1 .. n /\ \A k \in 1 .. n : walk[k] \in DOMAIN f.paras
    BY <2>1
  <2>4. \A i \in DOMAIN f.paras : f.paras[i].runs \in Seq(Runs)
    <3>1. PICK paras, X : /\ paras = f.paras /\ X = [role : STRING, runs : Seq(Runs)]
                          /\ paras \in Seq(X)
      BY DEF IsFile
    <3>2. \A i \in DOMAIN paras : paras[i] \in X
      BY <3>1, MembersOfSequence
    <3>3. \A p \in X : p.runs \in Seq(Runs)
      BY <3>1
    <3>4. QED
      BY <3>1, <3>2, <3>3
  <2>5. \A k \in 1 .. n : ParagraphText(f.paras[walk[k]]) \in Seq(Character)
    BY <2>3, <2>4, ParagraphIsText
  <2>6. DOMAIN raw = 1 .. n /\ \A k \in 1 .. n : raw[k].text \in Seq(Character)
    BY <2>3, <2>5
  <2> HIDE DEF raw, n
  <2>7. \A k \in DOMAIN Assemble(raw).blocks : IsBlockOf(Assemble(raw).blocks[k], raw)
    BY <2>3, <2>6, AssembledExactly
  <2>8. Whole(Assemble(raw))
    BY <2>3, <2>6, AssembledWhole
  <2>9. QED
    BY <2>2, <2>7, <2>8
<1>2. PICK chunks \in Seq(Seq(Seq(Characters))) : chunks = Chunks(f)
  BY ChunksAreLines
<1> DEFINE n == Len(chunks)
<1>3. /\ n \in Nat /\ DOMAIN chunks = 1 .. n
      /\ \A k \in 1 .. n : chunks[k] \in Seq(Seq(Characters))
  OBVIOUS
<1> HIDE DEF n
<1>4. \A k \in 1 .. n : OneLine(chunks[k]) \in Seq(Character)
  BY <1>3, LinesAreText
<1>5. ASSUME NEW k \in 1 .. n, IsHeading(chunks[k])
      PROVE  Tail(Strip(chunks[k][1])) \in Seq(Character)
  <2>1. PICK chunk \in Seq(Seq(Characters)) : chunk = chunks[k]
    BY <1>3
  <2>2. PICK line : line = Strip(chunk[1])
    OBVIOUS
  <2>3. Len(chunk) = 1 /\ Len(line) > 1
    BY <1>5, <2>1, <2>2 DEF IsHeading
  <2>4. line \in Seq(Characters)
    <3>1. 1 \in 1 .. Len(chunk)
      BY <2>3
    <3>2. chunk[1] \in Seq(Characters)
      BY <3>1
    <3>3. QED
      BY <2>2, <3>2, StripIsText
  <2>5. Tail(line) \in Seq(Characters)
    <3>1. line # <<>>
      BY <2>3
    <3>2. QED
      BY <2>4, <3>1, TailIsSequence
  <2>6. Tail(line) \in Seq(Character)
    BY <2>5, SpelledOut
  <2>7. QED
    BY <2>1, <2>2, <2>6
<1>6. Whole(Assemble(MarkdownBlocks(f)))
  <2> DEFINE raw == [k \in DOMAIN chunks |->
               IF IsHeading(chunks[k]) THEN [text |-> Tail(Strip(chunks[k][1])), role |-> "heading"]
               ELSE [text |-> OneLine(chunks[k]), role |-> "body"]]
  <2>1. Assemble(MarkdownBlocks(f)) = Assemble(raw)
    BY <1>2 DEF MarkdownBlocks
  <2>2. DOMAIN raw = 1 .. n
    BY <1>3
  <2>3. ASSUME NEW k \in 1 .. n PROVE raw[k].text \in Seq(Character)
    <3>1. CASE IsHeading(chunks[k])
      <4>1. raw[k].text = Tail(Strip(chunks[k][1]))
        BY <1>3, <3>1
      <4>2. QED
        BY <1>5, <3>1, <4>1
    <3>2. CASE ~ IsHeading(chunks[k])
      <4>1. raw[k].text = OneLine(chunks[k])
        BY <1>3, <3>2
      <4>2. QED
        BY <1>4, <4>1
    <3>3. QED
      BY <3>1, <3>2
  <2> HIDE DEF raw
  <2>4. QED
    BY <1>3, <2>1, <2>2, <2>3, AssembledWhole
<1>7. Whole(Assemble(PlaintextBlocks(f)))
  <2> DEFINE raw == [k \in DOMAIN chunks |-> [text |-> OneLine(chunks[k]), role |-> "body"]]
  <2>1. Assemble(PlaintextBlocks(f)) = Assemble(raw)
    BY <1>2 DEF PlaintextBlocks
  <2>2. DOMAIN raw = 1 .. n /\ \A k \in 1 .. n : raw[k].text = OneLine(chunks[k])
    BY <1>3
  <2> HIDE DEF raw
  <2>3. QED
    BY <1>3, <1>4, <2>1, <2>2, AssembledWhole
<1> DEFINE d == Assemble(CASE f.kind = "docx" -> DocxBlocks(f)
                           [] f.kind = "md" -> MarkdownBlocks(f)
                           [] OTHER -> PlaintextBlocks(f))
<1>8. \/ d = Assemble(DocxBlocks(f))
      \/ d = Assemble(MarkdownBlocks(f))
      \/ d = Assemble(PlaintextBlocks(f))
  OBVIOUS
<1>9. ParseFile(f) = [raw |-> d.raw, blocks |-> d.blocks, sentences |-> Segment(d.blocks)]
  BY DEF ParseFile
<1> HIDE DEF d
<1>10. IsBlocks(d.blocks) /\ BlocksExact(d.raw, d.blocks)
  BY <1>1, <1>6, <1>7, <1>8 DEF Whole
<1>11. IsSentences(Segment(d.blocks)) /\ SentencesExact(d.blocks, Segment(d.blocks))
  BY <1>10, SegmentedExactly
<1>12. IsDraft(ParseFile(f))
  BY <1>9, <1>10, <1>11 DEF IsDraft
<1>13. ASSUME f.kind = "docx"
       PROVE  \A k \in DOMAIN ParseFile(f).blocks : IsBlockOf(ParseFile(f).blocks[k], DocxBlocks(f))
  <2>1. d = Assemble(DocxBlocks(f))
    BY <1>13 DEF d
  <2>2. QED
    BY <1>1, <1>9, <2>1
<1>14. QED
  BY <1>12, <1>13

-----------------------------------------------------------------------------
(* Sequences put together from what a function makes of each element.       *)

Mapped(F, s) == Concatenated([i \in DOMAIN s |-> F[s[i]]])

LEMMA ConcatenatedSteps ==
  ASSUME NEW X, NEW parts \in Seq(Seq(X)), NEW x \in Seq(X)
  PROVE  Concatenated(parts \o <<x>>) = Concatenated(parts) \o x
<1>0. PICK more \in Seq(Seq(X)) : more = parts \o <<x>>
  <2>1. parts \o <<x>> \in Seq(Seq(X))
    OBVIOUS
  <2>2. QED
    BY <2>1
<1> DEFINE n == Len(parts)
           whole == Concatenated(parts)
           longer == Concatenated(more)
           sizes == [k \in DOMAIN parts |-> Len(parts[k])]
           sizes2 == [k \in DOMAIN more |-> Len(more[k])]
           at == Totals(sizes)
           at2 == Totals(sizes2)
<1>1. n \in Nat /\ DOMAIN parts = 1 .. n /\ \A k \in 1 .. n : parts[k] \in Seq(X)
  OBVIOUS
<1>2. /\ more \in Seq(Seq(X)) /\ Len(more) = n + 1 /\ DOMAIN more = 1 .. n + 1
      /\ \A k \in 1 .. n : more[k] = parts[k]
      /\ more[n + 1] = x
  BY <1>0
<1> HIDE DEF n
<1>3. /\ whole \in Seq(X) /\ Len(whole) = at[n] /\ at \in [0 .. n -> Nat]
      /\ \A k \in 1 .. n : /\ at[k] = at[k - 1] + Len(parts[k])
                           /\ \A c \in 1 .. Len(parts[k]) : whole[at[k - 1] + c] = parts[k][c]
  <2>1. /\ whole \in Seq(X) /\ Len(whole) = at[Len(parts)] /\ at \in [0 .. Len(parts) -> Nat]
        /\ \A k \in 1 .. Len(parts) :
             /\ at[k] = at[k - 1] + Len(parts[k]) /\ at[k] <= Len(whole)
             /\ \A c \in 1 .. Len(parts[k]) : whole[at[k - 1] + c] = parts[k][c]
    BY ConcatenatedSlices, ZenonT(40)
  <2>2. QED
    BY <2>1 DEF n
<1>4. /\ longer \in Seq(X) /\ Len(longer) = at2[n + 1] /\ at2 \in [0 .. n + 1 -> Nat]
      /\ \A k \in 1 .. n + 1 : /\ at2[k] = at2[k - 1] + Len(more[k])
                               /\ \A c \in 1 .. Len(more[k]) : longer[at2[k - 1] + c] = more[k][c]
  <2>1. /\ longer \in Seq(X) /\ Len(longer) = at2[Len(more)] /\ at2 \in [0 .. Len(more) -> Nat]
        /\ \A k \in 1 .. Len(more) :
             /\ at2[k] = at2[k - 1] + Len(more[k]) /\ at2[k] <= Len(longer)
             /\ \A c \in 1 .. Len(more[k]) : longer[at2[k - 1] + c] = more[k][c]
    BY ConcatenatedSlices, ZenonT(40)
  <2>2. QED
    BY <1>2, <2>1
<1>5. at[0] = 0 /\ at2[0] = 0
  <2>1. sizes \in Seq(Nat)
    <3>1. \A k \in 1 .. n : Len(parts[k]) \in Nat
      BY <1>1
    <3>2. QED
      BY <1>1, <3>1
  <2>2. sizes2 \in Seq(Nat)
    <3>1. \A k \in 1 .. n + 1 : more[k] \in Seq(X)
      BY <1>2
    <3>2. \A k \in 1 .. n + 1 : Len(more[k]) \in Nat
      BY <3>1
    <3>3. QED
      BY <1>1, <1>2, <3>2
  <2> HIDE DEF sizes, sizes2
  <2>3. QED
    BY <2>1, <2>2, TotalsAdd
<1> HIDE DEF at, at2, whole, longer
<1>6. \A k \in 0 .. n : at2[k] = at[k]
  <2> DEFINE T == {k \in Nat : k <= n => at2[k] = at[k]}
  <2>1. 0 \in T
    BY <1>5
  <2>2. ASSUME NEW k \in Nat, k \in T PROVE k + 1 \in T
    <3>1. SUFFICES ASSUME k + 1 <= n PROVE at2[k + 1] = at[k + 1]
      OBVIOUS
    <3>2. k + 1 \in 1 .. n /\ k + 1 \in 1 .. n + 1 /\ (k + 1) - 1 = k /\ k <= n
      BY <1>1, <3>1
    <3>3. at2[k] = at[k]
      BY <2>2, <3>2
    <3>4. at2[k + 1] = at2[k] + Len(more[k + 1]) /\ at[k + 1] = at[k] + Len(parts[k + 1])
      BY <1>3, <1>4, <3>2
    <3>5. QED
      BY <1>2, <3>2, <3>3, <3>4
  <2> HIDE DEF T
  <2>3. \A k \in Nat : k \in T
    BY <2>1, <2>2, SetInduction
  <2>4. QED
    BY <1>1, <2>3 DEF T
<1>7. n + 1 \in 1 .. n + 1 /\ (n + 1) - 1 = n /\ n \in 0 .. n
  BY <1>1
<1>8. Len(longer) = Len(whole) + Len(x) /\ Len(whole) \in Nat /\ Len(x) \in Nat
  BY <1>2, <1>3, <1>4, <1>6, <1>7
<1>9. ASSUME NEW i \in 1 .. Len(whole) PROVE longer[i] = whole[i]
  <2>1. PICK b \in DOMAIN parts : \E c \in DOMAIN parts[b] : i = at[b - 1] + c /\ whole[i] = parts[b][c]
    <3>1. i \in DOMAIN Concatenated(parts)
      BY <1>3 DEF whole
    <3>2. QED
      BY <3>1, ConcatenatedCovers DEF whole, at
  <2>2. PICK c \in DOMAIN parts[b] : i = at[b - 1] + c /\ whole[i] = parts[b][c]
    BY <2>1
  <2>3. b \in 1 .. n /\ b \in 1 .. n + 1 /\ b - 1 \in 0 .. n /\ c \in 1 .. Len(parts[b])
    <3>1. parts[b] \in Seq(X)
      BY <1>1
    <3>2. QED
      BY <1>1, <3>1
  <2>4. longer[at2[b - 1] + c] = more[b][c] /\ more[b] = parts[b]
    BY <1>2, <1>4, <2>3
  <2>5. QED
    BY <1>6, <2>2, <2>3, <2>4
<1>10. ASSUME NEW c \in 1 .. Len(x) PROVE longer[Len(whole) + c] = x[c]
  <2>1. longer[at2[n] + c] = x[c]
    BY <1>2, <1>4, <1>7
  <2>2. QED
    BY <1>3, <1>6, <1>7, <2>1
<1>11. PICK w : w = whole \o x
  OBVIOUS
<1>12. /\ w \in Seq(X) /\ Len(w) = Len(whole) + Len(x)
       /\ \A i \in 1 .. Len(whole) : w[i] = whole[i]
       /\ \A c \in 1 .. Len(x) : w[Len(whole) + c] = x[c]
  <2>1. PICK u \in Seq(X), v \in Seq(X) : u = whole /\ v = x
    BY <1>3
  <2>2. /\ u \o v \in Seq(X) /\ Len(u \o v) = Len(u) + Len(v)
        /\ \A k \in 1 .. Len(u) : (u \o v)[k] = u[k]
        /\ \A k \in 1 .. Len(v) : (u \o v)[Len(u) + k] = v[k]
    BY TwoPartsPutTogether
  <2>3. QED
    BY <1>11, <2>1, <2>2
<1>13. \A i \in 1 .. Len(longer) : longer[i] = w[i]
  <2> TAKE i \in 1 .. Len(longer)
  <2>1. CASE i <= Len(whole)
    <3>1. i \in 1 .. Len(whole)
      BY <1>8, <2>1
    <3>2. QED
      BY <1>9, <1>12, <3>1
  <2>2. CASE ~ (i <= Len(whole))
    <3>1. PICK c \in 1 .. Len(x) : i = Len(whole) + c
      <4>1. i - Len(whole) \in 1 .. Len(x) /\ i = Len(whole) + (i - Len(whole))
        BY <1>8, <2>2
      <4>2. QED
        BY <4>1
    <3>2. QED
      BY <1>10, <1>12, <3>1
  <2>3. QED
    BY <2>1, <2>2
<1>14. longer = w
  BY <1>4, <1>8, <1>12, <1>13, SameSequence
<1>15. QED
  BY <1>0, <1>11, <1>14 DEF longer, whole

-----------------------------------------------------------------------------
(* Induction over sequences, as a set of sequences closed under appending,  *)
(* and what a map of each element to a sequence makes of a sequence.        *)

(* A set of sequences with the empty one, closed under appending, holds     *)
(* all.                                                                     *)
LEMMA SequenceInduction ==
  ASSUME NEW X, NEW T, <<>> \in T,
         \A s \in Seq(X) : \A x \in X : s \in T => s \o <<x>> \in T
  PROVE  \A s \in Seq(X) : s \in T
<1> DEFINE N == {n \in Nat : \A s \in Seq(X) : Len(s) = n => s \in T}
<1>1. 0 \in N
  <2>1. \A s \in Seq(X) : Len(s) = 0 => s = <<>>
    OBVIOUS
  <2>2. QED
    BY <2>1
<1>2. ASSUME NEW n \in Nat, n \in N PROVE n + 1 \in N
  <2>1. SUFFICES ASSUME NEW s \in Seq(X), Len(s) = n + 1 PROVE s \in T
    OBVIOUS
  <2>2. PICK t : t = SubSeq(s, 1, n)
    OBVIOUS
  <2>3. PICK x \in X : x = s[n + 1]
    <3>1. n + 1 \in 1 .. Len(s)
      BY <2>1
    <3>2. s[n + 1] \in X
      BY <3>1
    <3>3. QED
      BY <3>2
  <2>4. t \in Seq(X) /\ Len(t) = n /\ \A i \in 1 .. n : t[i] = s[i]
    BY <2>1, <2>2
  <2>5. t \in T
    BY <1>2, <2>4
  <2>6. t \o <<x>> \in T
    BY <2>4, <2>5
  <2>7. t \o <<x>> = s
    <3>1. /\ t \o <<x>> \in Seq(X) /\ Len(t \o <<x>>) = n + 1
          /\ \A i \in 1 .. n : (t \o <<x>>)[i] = t[i]
          /\ (t \o <<x>>)[n + 1] = x
      BY <2>4
    <3>2. \A i \in 1 .. n + 1 : i \in 1 .. n \/ i = n + 1
      OBVIOUS
    <3>3. \A i \in 1 .. n + 1 : (t \o <<x>>)[i] = s[i]
      BY <2>3, <2>4, <3>1, <3>2
    <3>4. PICK u \in Seq(X) : u = t \o <<x>>
      BY <3>1
    <3>5. Len(u) = Len(s) /\ \A i \in 1 .. Len(u) : u[i] = s[i]
      BY <2>1, <3>1, <3>3, <3>4
    <3>6. u = s
      BY <3>5, SameSequence
    <3>7. QED
      BY <3>4, <3>6
  <2>8. QED
    BY <2>6, <2>7
<1> HIDE DEF N
<1>3. \A n \in Nat : n \in N
  BY <1>1, <1>2, SetInduction
<1>4. ASSUME NEW s \in Seq(X) PROVE s \in T
  <2>1. Len(s) \in Nat
    OBVIOUS
  <2>2. QED
    BY <1>3, <2>1 DEF N
<1>5. QED
  BY <1>4

(* Appending to the second part of a sequence is appending to the whole.    *)
LEMMA AppendedParts ==
  ASSUME NEW X, NEW r \in Seq(X), NEW s \in Seq(X), NEW t \in Seq(X)
  PROVE  (r \o s) \o t = r \o (s \o t)
OBVIOUS

(* Kept folded, such an equality is a symbol to the provers.                *)
Regroups(r, s, t) == (r \o s) \o t = r \o (s \o t)

(* Three parts may be grouped either way.                                   *)
LEMMA Regrouped ==
  ASSUME NEW X, NEW r \in Seq(X), NEW s \in Seq(X), NEW t \in Seq(X)
  PROVE  Regroups(r, s, t)
BY AppendedParts DEF Regroups

LEMMA NothingAppended ==
  ASSUME NEW X, NEW s \in Seq(X)
  PROVE  s \o <<>> = s /\ <<>> \o s = s
OBVIOUS

(* What makes a sequence over Y of each element of X.                       *)
Expansions(X, Y) == [X -> Seq(Y)]

LEMMA Expanded ==
  ASSUME NEW X, NEW Y, NEW F \in Expansions(X, Y), NEW x \in X
  PROVE  F[x] \in Seq(Y)
BY DEF Expansions

(* Mapped, one element at a time: the parts are laid out one behind         *)
(* another.                                                                 *)
LEMMA MappedSteps ==
  ASSUME NEW X, NEW Y, NEW F \in Expansions(X, Y)
  PROVE  /\ Mapped(F, <<>>) = <<>>
         /\ \A s \in Seq(X) : Mapped(F, s) \in Seq(Y)
         /\ \A s \in Seq(X), x \in X : Mapped(F, s \o <<x>>) = Mapped(F, s) \o F[x]
<1>1. Mapped(F, <<>>) = <<>>
  <2>1. PICK parts : parts = [i \in DOMAIN <<>> |-> F[<<>>[i]]]
    OBVIOUS
  <2>2. parts \in Seq(Seq(Y)) /\ Len(parts) = 0
    BY <2>1
  <2>3. LET whole == Concatenated(parts)
            at == Totals([k \in DOMAIN parts |-> Len(parts[k])])
        IN whole \in Seq(Y) /\ Len(whole) = at[Len(parts)]
    BY <2>2, ConcatenatedSlices
  <2>4. Totals([k \in DOMAIN parts |-> Len(parts[k])])[0] = 0
    <3>1. PICK sizes : sizes = [k \in DOMAIN parts |-> Len(parts[k])]
      OBVIOUS
    <3>2. sizes \in Seq(Nat)
      BY <2>2, <3>1
    <3>3. QED
      BY <3>1, <3>2, TotalsAdd
  <2>5. Concatenated(parts) = <<>>
    BY <2>2, <2>3, <2>4
  <2>6. QED
    BY <2>1, <2>5 DEF Mapped
<1>2. ASSUME NEW s \in Seq(X)
      PROVE  [i \in DOMAIN s |-> F[s[i]]] \in Seq(Seq(Y)) /\ Mapped(F, s) \in Seq(Y)
  <2>1. PICK parts : parts = [i \in DOMAIN s |-> F[s[i]]]
    OBVIOUS
  <2>2. parts \in Seq(Seq(Y))
    <3>1. DOMAIN s = 1 .. Len(s) /\ Len(s) \in Nat /\ \A i \in 1 .. Len(s) : s[i] \in X
      OBVIOUS
    <3>2. \A i \in 1 .. Len(s) : F[s[i]] \in Seq(Y)
      BY <3>1, Expanded
    <3>3. QED
      BY <2>1, <3>1, <3>2
  <2>3. Concatenated(parts) \in Seq(Y)
    BY <2>2, ConcatenatedElements
  <2>4. QED
    BY <2>1, <2>2, <2>3 DEF Mapped
<1>3. ASSUME NEW s \in Seq(X), NEW x \in X
      PROVE  Mapped(F, s \o <<x>>) = Mapped(F, s) \o F[x]
  <2>1. PICK parts \in Seq(Seq(Y)) : parts = [i \in DOMAIN s |-> F[s[i]]]
    BY <1>2
  <2>2. PICK t : t = s \o <<x>>
    OBVIOUS
  <2>3. PICK n \in Nat : n = Len(s) /\ DOMAIN s = 1 .. n
    OBVIOUS
  <2>4. /\ t \in Seq(X) /\ DOMAIN t = 1 .. n + 1 /\ Len(t) = n + 1
        /\ \A i \in 1 .. n : t[i] = s[i]
        /\ t[n + 1] = x
    BY <2>2, <2>3
  <2>5. PICK more : more = [i \in DOMAIN t |-> F[t[i]]]
    OBVIOUS
  <2>6. more \in Seq(Seq(Y)) /\ Len(more) = n + 1
    <3>1. more \in Seq(Seq(Y))
      BY <1>2, <2>4, <2>5
    <3>2. QED
      BY <2>4, <2>5, <3>1
  <2>7. F[x] \in Seq(Y)
    BY Expanded
  <2>8. PICK u : u = parts \o <<F[x]>>
    OBVIOUS
  <2>9. u \in Seq(Seq(Y)) /\ Len(u) = n + 1 /\ (\A i \in 1 .. n : u[i] = parts[i]) /\ u[n + 1] = F[x]
    <3>1. Len(parts) = n
      BY <2>1, <2>3
    <3>2. PICK y \in Seq(Y) : y = F[x]
      BY <2>7
    <3>3. u = parts \o <<y>>
      BY <2>8, <3>2
    <3>4. QED
      BY <3>1, <3>2, <3>3
  <2>10. \A i \in 1 .. n + 1 : i \in 1 .. n \/ i = n + 1
    OBVIOUS
  <2>11. \A i \in 1 .. n : more[i] = F[s[i]] /\ parts[i] = F[s[i]]
    BY <2>1, <2>3, <2>4, <2>5
  <2>12. more[n + 1] = F[x]
    BY <2>4, <2>5
  <2>13. \A i \in 1 .. Len(more) : more[i] = u[i]
    BY <2>6, <2>9, <2>10, <2>11, <2>12
  <2>14. more = u
    BY <2>6, <2>9, <2>13, SameSequence
  <2>15. Concatenated(parts \o <<F[x]>>) = Concatenated(parts) \o F[x]
    BY <2>7, ConcatenatedSteps
  <2>16. QED
    BY <2>1, <2>2, <2>5, <2>8, <2>14, <2>15 DEF Mapped
<1>4. QED
  BY <1>1, <1>2, <1>3

LEMMA MappedStep ==
  ASSUME NEW X, NEW Y, NEW F \in Expansions(X, Y), NEW s \in Seq(X), NEW x \in X
  PROVE  Mapped(F, s \o <<x>>) = Mapped(F, s) \o F[x]
<1>1. \A u \in Seq(X), y \in X : Mapped(F, u \o <<y>>) = Mapped(F, u) \o F[y]
  BY MappedSteps
<1>2. QED
  BY <1>1

LEMMA MappedIsSequence ==
  ASSUME NEW X, NEW Y, NEW F \in Expansions(X, Y), NEW s \in Seq(X)
  PROVE  Mapped(F, s) \in Seq(Y)
<1>1. \A u \in Seq(X) : Mapped(F, u) \in Seq(Y)
  BY MappedSteps
<1>2. QED
  BY <1>1

LEMMA MappedOne ==
  ASSUME NEW X, NEW Y, NEW F \in Expansions(X, Y), NEW x \in X
  PROVE  Mapped(F, <<x>>) = F[x]
<1>1. <<>> \o <<x>> = <<x>> /\ <<>> \in Seq(X) /\ F[x] \in Seq(Y)
  BY Expanded
<1>2. Mapped(F, <<>> \o <<x>>) = Mapped(F, <<>>) \o F[x] /\ Mapped(F, <<>>) = <<>>
  <2>1. PICK s \in Seq(X) : s = <<>>
    BY <1>1
  <2>2. Mapped(F, s \o <<x>>) = Mapped(F, s) \o F[x]
    BY MappedStep
  <2>3. Mapped(F, <<>>) = <<>>
    BY MappedSteps, MappedIsSequence
  <2>4. QED
    BY <2>1, <2>2, <2>3
<1>3. <<>> \o F[x] = F[x]
  BY <1>1
<1>4. QED
  BY <1>1, <1>2, <1>3

(* The map of two sequences, one behind the other.                          *)
LEMMA MappedOfParts ==
  ASSUME NEW X, NEW Y, NEW F \in Expansions(X, Y), NEW s \in Seq(X), NEW t \in Seq(X)
  PROVE  Mapped(F, s \o t) = Mapped(F, s) \o Mapped(F, t)
<1>0. \A u, v, w \in Seq(Y) : Regroups(u, v, w)
  BY Regrouped
<1> DEFINE T == {u \in Seq(X) : Mapped(F, s \o u) = Mapped(F, s) \o Mapped(F, u)}
<1>1. <<>> \in T
  <2>1. s \o <<>> = s /\ Mapped(F, <<>>) = <<>> /\ Mapped(F, s) \in Seq(Y)
    BY NothingAppended, MappedSteps
  <2>2. Mapped(F, s) \o <<>> = Mapped(F, s)
    BY <2>1, NothingAppended
  <2>3. QED
    BY <2>1, <2>2
<1>2. ASSUME NEW u \in Seq(X), NEW x \in X, u \in T PROVE u \o <<x>> \in T
  <2>1. u \o <<x>> \in Seq(X) /\ <<x>> \in Seq(X) /\ s \o u \in Seq(X) /\ F[x] \in Seq(Y)
    BY Expanded
  <2>2. s \o (u \o <<x>>) = (s \o u) \o <<x>>
    BY <2>1, AppendedParts
  <2>3. Mapped(F, (s \o u) \o <<x>>) = Mapped(F, s \o u) \o F[x]
    <3>1. PICK w \in Seq(X) : w = s \o u
      BY <2>1
    <3>2. Mapped(F, w \o <<x>>) = Mapped(F, w) \o F[x]
      BY MappedStep
    <3>3. QED
      BY <3>1, <3>2
  <2>4. Mapped(F, u \o <<x>>) = Mapped(F, u) \o F[x]
    BY MappedStep
  <2>5. Mapped(F, s) \in Seq(Y) /\ Mapped(F, u) \in Seq(Y)
    BY MappedSteps, MappedIsSequence
  <2>6. (Mapped(F, s) \o Mapped(F, u)) \o F[x] = Mapped(F, s) \o (Mapped(F, u) \o F[x])
    <3>1. PICK y \in Seq(Y), v \in Seq(Y), w \in Seq(Y) : y = F[x] /\ v = Mapped(F, s) /\ w = Mapped(F, u)
      BY <2>1, <2>5
    <3>2. Regroups(v, w, y)
      BY <1>0
    <3>3. (v \o w) \o y = v \o (w \o y)
      BY <3>2, Zenon DEF Regroups
    <3>4. QED
      BY <3>1, <3>3
  <2>7. Mapped(F, s \o u) = Mapped(F, s) \o Mapped(F, u)
    BY <1>2
  <2>8. Mapped(F, s \o (u \o <<x>>)) = Mapped(F, s) \o Mapped(F, u \o <<x>>)
    BY <2>2, <2>3, <2>4, <2>6, <2>7
  <2>9. QED
    BY <2>1, <2>8
<1> HIDE DEF T
<1>3. \A u \in Seq(X) : u \in T
  BY <1>1, <1>2, SequenceInduction
<1>4. QED
  BY <1>3 DEF T

(* One function after another, element by element.                          *)
Composes(F, G, H, X) == \A x \in X : Mapped(G, F[x]) = H[x]

(* A map of a map is the map of the composition.                            *)
LEMMA MappedTwice ==
  ASSUME NEW X, NEW Y, NEW Z, NEW F \in Expansions(X, Y), NEW G \in Expansions(Y, Z),
         NEW H \in Expansions(X, Z), Composes(F, G, H, X), NEW s \in Seq(X)
  PROVE  Mapped(G, Mapped(F, s)) = Mapped(H, s)
<1>0. \A v, w \in Seq(Y) : Mapped(G, v \o w) = Mapped(G, v) \o Mapped(G, w)
  BY MappedOfParts
<1> DEFINE T == {u \in Seq(X) : Mapped(G, Mapped(F, u)) = Mapped(H, u)}
<1>1. <<>> \in T
  <2>1. Mapped(F, <<>>) = <<>> /\ Mapped(G, <<>>) = <<>> /\ Mapped(H, <<>>) = <<>>
    BY MappedSteps, MappedIsSequence
  <2>2. QED
    BY <2>1
<1>2. ASSUME NEW u \in Seq(X), NEW x \in X, u \in T PROVE u \o <<x>> \in T
  <2>1. Mapped(F, u \o <<x>>) = Mapped(F, u) \o F[x] /\ Mapped(F, u) \in Seq(Y) /\ F[x] \in Seq(Y)
    <3>1. F[x] \in Seq(Y)
      BY Expanded
    <3>2. QED
      BY <3>1, MappedStep, MappedIsSequence
  <2>2. Mapped(G, Mapped(F, u) \o F[x]) = Mapped(G, Mapped(F, u)) \o Mapped(G, F[x])
    BY <1>0, <2>1
  <2>3. Mapped(H, u \o <<x>>) = Mapped(H, u) \o H[x]
    BY MappedStep
  <2>4. Mapped(G, Mapped(F, u)) = Mapped(H, u) /\ Mapped(G, F[x]) = H[x]
    BY <1>2 DEF Composes
  <2>5. u \o <<x>> \in Seq(X)
    OBVIOUS
  <2>6. QED
    BY <2>1, <2>2, <2>3, <2>4, <2>5
<1> HIDE DEF T
<1>3. \A u \in Seq(X) : u \in T
  BY <1>1, <1>2, SequenceInduction
<1>4. QED
  BY <1>3 DEF T

LEMMA MappedToNothing ==
  ASSUME NEW X, NEW Y, NEW F \in Expansions(X, Y), NEW s \in Seq(X),
         \A i \in DOMAIN s : F[s[i]] = <<>>
  PROVE  Mapped(F, s) = <<>>
<1> DEFINE T == {u \in Seq(X) : (\A i \in DOMAIN u : F[u[i]] = <<>>) => Mapped(F, u) = <<>>}
<1>1. <<>> \in T
  BY MappedSteps
<1>2. ASSUME NEW u \in Seq(X), NEW x \in X, u \in T PROVE u \o <<x>> \in T
  <2>1. PICK v \in Seq(X) : v = u \o <<x>>
    <3>1. u \o <<x>> \in Seq(X)
      OBVIOUS
    <3>2. QED
      BY <3>1
  <2>2. SUFFICES ASSUME \A i \in DOMAIN v : F[v[i]] = <<>> PROVE Mapped(F, v) = <<>>
    BY <2>1
  <2>3. /\ DOMAIN u \subseteq DOMAIN v /\ \A i \in DOMAIN u : v[i] = u[i]
        /\ Len(u) + 1 \in DOMAIN v /\ v[Len(u) + 1] = x
    BY <2>1
  <2>4. Mapped(F, u) = <<>> /\ F[x] = <<>>
    <3>1. \A i \in DOMAIN u : F[u[i]] = <<>>
      BY <2>2, <2>3
    <3>2. QED
      BY <1>2, <2>2, <2>3, <3>1
  <2>5. Mapped(F, v) = Mapped(F, u) \o F[x]
    <3>1. Mapped(F, u \o <<x>>) = Mapped(F, u) \o F[x]
      BY MappedStep
    <3>2. QED
      BY <2>1, <3>1
  <2>6. QED
    BY <2>4, <2>5
<1> HIDE DEF T
<1>3. \A u \in Seq(X) : u \in T
  BY <1>1, <1>2, SequenceInduction
<1>4. QED
  BY <1>3 DEF T

LEMMA MappedToItself ==
  ASSUME NEW X, NEW F \in Expansions(X, X), NEW s \in Seq(X),
         \A i \in DOMAIN s : F[s[i]] = <<s[i]>>
  PROVE  Mapped(F, s) = s
<1> DEFINE T == {u \in Seq(X) : (\A i \in DOMAIN u : F[u[i]] = <<u[i]>>) => Mapped(F, u) = u}
<1>1. <<>> \in T
  BY MappedSteps
<1>2. ASSUME NEW u \in Seq(X), NEW x \in X, u \in T PROVE u \o <<x>> \in T
  <2>1. PICK v \in Seq(X) : v = u \o <<x>>
    <3>1. u \o <<x>> \in Seq(X)
      OBVIOUS
    <3>2. QED
      BY <3>1
  <2>2. SUFFICES ASSUME \A i \in DOMAIN v : F[v[i]] = <<v[i]>> PROVE Mapped(F, v) = v
    BY <2>1
  <2>3. /\ DOMAIN u \subseteq DOMAIN v /\ \A i \in DOMAIN u : v[i] = u[i]
        /\ Len(u) + 1 \in DOMAIN v /\ v[Len(u) + 1] = x
    BY <2>1
  <2>4. Mapped(F, u) = u /\ F[x] = <<x>>
    <3>1. \A i \in DOMAIN u : F[u[i]] = <<u[i]>>
      BY <2>2, <2>3
    <3>2. QED
      BY <1>2, <2>2, <2>3, <3>1
  <2>5. Mapped(F, v) = Mapped(F, u) \o F[x]
    <3>1. Mapped(F, u \o <<x>>) = Mapped(F, u) \o F[x]
      BY MappedStep
    <3>2. QED
      BY <2>1, <3>1
  <2>6. QED
    BY <2>1, <2>4, <2>5
<1> HIDE DEF T
<1>3. \A u \in Seq(X) : u \in T
  BY <1>1, <1>2, SequenceInduction
<1>4. QED
  BY <1>3 DEF T

-----------------------------------------------------------------------------
(* Leaving characters out.                                                  *)

LeavesOut(X, B) == [x \in X |-> IF x \in B THEN <<>> ELSE <<x>>]
Picks(X, A) == [x \in X |-> IF x \in A THEN <<x>> ELSE <<>>]

LEMMA LeavesOutMaps ==
  ASSUME NEW X, NEW B
  PROVE  /\ LeavesOut(X, B) \in Expansions(X, X) /\ Picks(X, B) \in Expansions(X, X)
         /\ \A x \in X : /\ x \in B => LeavesOut(X, B)[x] = <<>> /\ Picks(X, B)[x] = <<x>>
                         /\ x \notin B => LeavesOut(X, B)[x] = <<x>> /\ Picks(X, B)[x] = <<>>
<1>1. \A x \in X : <<x>> \in Seq(X) /\ <<>> \in Seq(X)
  OBVIOUS
<1>2. QED
  BY <1>1 DEF LeavesOut, Picks, Expansions

LEMMA WithoutIsMapped ==
  ASSUME NEW X, NEW s \in Seq(X), NEW B
  PROVE  Without(s, B) = Mapped(LeavesOut(X, B), s) /\ Only(s, B) = Mapped(Picks(X, B), s)
<1>1. \A i \in DOMAIN s : s[i] \in X
  OBVIOUS
<1>2. [i \in DOMAIN s |-> IF s[i] \in B THEN <<>> ELSE <<s[i]>>] = [i \in DOMAIN s |-> LeavesOut(X, B)[s[i]]]
  BY <1>1 DEF LeavesOut
<1>3. [i \in DOMAIN s |-> IF s[i] \in B THEN <<s[i]>> ELSE <<>>] = [i \in DOMAIN s |-> Picks(X, B)[s[i]]]
  BY <1>1 DEF Picks
<1>4. QED
  BY <1>2, <1>3 DEF Without, Only, Mapped

LEMMA WithoutOfParts ==
  ASSUME NEW X, NEW s \in Seq(X), NEW t \in Seq(X), NEW B
  PROVE  /\ Without(s \o t, B) = Without(s, B) \o Without(t, B)
         /\ Only(s \o t, B) = Only(s, B) \o Only(t, B)
<1>0. ASSUME NEW F \in Expansions(X, X) PROVE Mapped(F, s \o t) = Mapped(F, s) \o Mapped(F, t)
  BY MappedOfParts
<1>1. LeavesOut(X, B) \in Expansions(X, X) /\ Picks(X, B) \in Expansions(X, X)
  BY LeavesOutMaps
<1>2. Mapped(LeavesOut(X, B), s \o t) = Mapped(LeavesOut(X, B), s) \o Mapped(LeavesOut(X, B), t)
  BY <1>0, <1>1
<1>3. Mapped(Picks(X, B), s \o t) = Mapped(Picks(X, B), s) \o Mapped(Picks(X, B), t)
  BY <1>0, <1>1
<1>4. s \o t \in Seq(X)
  OBVIOUS
<1>5. \A u \in Seq(X) : Without(u, B) = Mapped(LeavesOut(X, B), u) /\ Only(u, B) = Mapped(Picks(X, B), u)
  BY WithoutIsMapped
<1> HIDE <1>0
<1>6. QED
  BY <1>2, <1>3, <1>4, <1>5

(* The same, folded.                                                        *)
Splits(s, t, B) ==
  /\ Without(s \o t, B) = Without(s, B) \o Without(t, B)
  /\ Only(s \o t, B) = Only(s, B) \o Only(t, B)

LEMMA SplitParts ==
  ASSUME NEW X, NEW s \in Seq(X), NEW t \in Seq(X), NEW B
  PROVE  Splits(s, t, B)
BY WithoutOfParts DEF Splits

LEMMA WithoutOfNone ==
  ASSUME NEW X, NEW s \in Seq(X), NEW B, \A i \in DOMAIN s : s[i] \notin B
  PROVE  Without(s, B) = s /\ Only(s, B) = <<>>
<1>1. \A i \in DOMAIN s : s[i] \in X
  OBVIOUS
<1>2. Mapped(LeavesOut(X, B), s) = s
  <2>1. PICK F \in Expansions(X, X) : F = LeavesOut(X, B)
    BY LeavesOutMaps
  <2>2. \A i \in DOMAIN s : F[s[i]] = <<s[i]>>
    BY <1>1, <2>1, LeavesOutMaps
  <2>3. Mapped(F, s) = s
    <3>1. \A u \in Seq(X) : (\A i \in DOMAIN u : F[u[i]] = <<u[i]>>) => Mapped(F, u) = u
      BY MappedToItself
    <3>2. QED
      BY <2>2, <3>1
  <2>4. QED
    BY <2>1, <2>3
<1>3. Mapped(Picks(X, B), s) = <<>>
  <2>1. PICK F \in Expansions(X, X) : F = Picks(X, B)
    BY LeavesOutMaps
  <2>2. \A i \in DOMAIN s : F[s[i]] = <<>>
    BY <1>1, <2>1, LeavesOutMaps
  <2>3. Mapped(F, s) = <<>>
    BY <2>2, MappedToNothing
  <2>4. QED
    BY <2>1, <2>3
<1>5. QED
  BY <1>2, <1>3, WithoutIsMapped

LEMMA WithoutOfAll ==
  ASSUME NEW X, NEW s \in Seq(X), NEW B, \A i \in DOMAIN s : s[i] \in B
  PROVE  Without(s, B) = <<>>
<1>1. PICK F \in Expansions(X, X) : F = LeavesOut(X, B)
  BY LeavesOutMaps
<1>2. \A i \in DOMAIN s : s[i] \in X /\ F[s[i]] = <<>>
  BY <1>1, LeavesOutMaps
<1>3. Mapped(F, s) = <<>>
  BY <1>2, MappedToNothing
<1>4. QED
  BY <1>1, <1>3, WithoutIsMapped

LEMMA WithoutTwice ==
  ASSUME NEW X, NEW s \in Seq(X), NEW A, NEW B, A \subseteq B
  PROVE  Without(Without(s, A), B) = Without(s, B) /\ Without(Only(s, A), B) = <<>>
<1>1. PICK F \in Expansions(X, X), G \in Expansions(X, X), P \in Expansions(X, X) :
        F = LeavesOut(X, A) /\ G = LeavesOut(X, B) /\ P = Picks(X, A)
  BY LeavesOutMaps
<1>2. PICK N \in Expansions(X, X) : N = [x \in X |-> <<>>]
  <2>1. [x \in X |-> <<>>] \in Expansions(X, X)
    BY DEF Expansions
  <2>2. QED
    BY <2>1
<1>3. \A x \in X : Mapped(G, <<x>>) = G[x]
  BY MappedOne
<1>4. Mapped(G, <<>>) = <<>>
  BY MappedSteps
<1>5. \A x \in X : /\ F[x] = IF x \in A THEN <<>> ELSE <<x>>
                   /\ G[x] = IF x \in B THEN <<>> ELSE <<x>>
                   /\ P[x] = IF x \in A THEN <<x>> ELSE <<>>
  BY <1>1 DEF LeavesOut, Picks
<1>6. Composes(F, G, G, X)
  BY <1>3, <1>4, <1>5 DEF Composes
<1>7. Composes(P, G, N, X)
  BY <1>2, <1>3, <1>4, <1>5 DEF Composes
<1>8. ASSUME NEW K \in Expansions(X, X), NEW H \in Expansions(X, X), Composes(K, G, H, X)
      PROVE  Mapped(G, Mapped(K, s)) = Mapped(H, s)
  <2>1. Composes(K, G, H, X)
    BY <1>8
  <2> HIDE <1>1, <1>2, <1>3, <1>4, <1>5, <1>6, <1>7, <1>8
  <2>2. \A u \in Seq(X) : Composes(K, G, H, X) => Mapped(G, Mapped(K, u)) = Mapped(H, u)
    BY MappedTwice
  <2>3. QED
    BY <2>1, <2>2
<1>9. Mapped(G, Mapped(F, s)) = Mapped(G, s) /\ Mapped(G, Mapped(P, s)) = Mapped(N, s)
  BY <1>6, <1>7, <1>8
<1>10. Mapped(N, s) = <<>>
  <2>1. \A i \in DOMAIN s : N[s[i]] = <<>>
    <3>1. \A i \in DOMAIN s : s[i] \in X
      OBVIOUS
    <3>2. QED
      BY <1>2, <3>1
  <2>2. QED
    BY <2>1, MappedToNothing
<1>11. Without(s, A) = Mapped(F, s) /\ Only(s, A) = Mapped(P, s) /\ Without(s, B) = Mapped(G, s)
  BY <1>1, WithoutIsMapped
<1>12. Mapped(F, s) \in Seq(X) /\ Mapped(P, s) \in Seq(X)
  BY MappedIsSequence
<1>13. Without(Mapped(F, s), B) = Mapped(G, Mapped(F, s)) /\ Without(Mapped(P, s), B) = Mapped(G, Mapped(P, s))
  BY <1>1, <1>12, WithoutIsMapped
<1>14. QED
  BY <1>9, <1>10, <1>11, <1>13

LEMMA OnlyHasThose ==
  ASSUME NEW X, NEW s \in Seq(X), NEW A
  PROVE  Only(s, A) \in Seq(A) /\ \A i \in DOMAIN Only(s, A) : Only(s, A)[i] \in A
<1> DEFINE T == {u \in Seq(X) : Only(u, A) \in Seq(A)}
<1>1. <<>> \in T
  <2>1. <<>> \in Seq(X) /\ \A i \in DOMAIN <<>> : <<>>[i] \notin A
    OBVIOUS
  <2>2. Only(<<>>, A) = <<>>
    BY <2>1, WithoutOfNone
  <2>3. <<>> \in Seq(A)
    OBVIOUS
  <2>4. QED
    BY <2>1, <2>2, <2>3
<1>2. ASSUME NEW u \in Seq(X), NEW x \in X, u \in T PROVE u \o <<x>> \in T
  <2>1. PICK v \in Seq(X) : v = <<x>>
    <3>1. <<x>> \in Seq(X)
      OBVIOUS
    <3>2. QED
      BY <3>1
  <2>2. Only(u \o v, A) = Only(u, A) \o Only(v, A)
    <3>1. Splits(u, v, A)
      BY SplitParts
    <3>2. QED
      BY <3>1, Zenon DEF Splits
  <2>3. Only(v, A) \in Seq(A)
    <3>1. PICK G \in Expansions(X, X) : G = Picks(X, A)
      BY LeavesOutMaps
    <3>2. Only(v, A) = Mapped(G, v) /\ Mapped(G, <<x>>) = G[x]
      BY <3>1, WithoutIsMapped, MappedOne
    <3>3. G[x] = IF x \in A THEN <<x>> ELSE <<>>
      BY <3>1 DEF Picks
    <3>4. Only(v, A) = IF x \in A THEN <<x>> ELSE <<>>
      BY <2>1, <3>2, <3>3
    <3>5. (x \in A => <<x>> \in Seq(A)) /\ <<>> \in Seq(A)
      OBVIOUS
    <3>6. QED
      BY <3>4, <3>5
  <2>4. Only(u, A) \in Seq(A)
    BY <1>2
  <2>5. Only(u, A) \o Only(v, A) \in Seq(A)
    BY <2>3, <2>4
  <2>6. u \o v \in Seq(X)
    OBVIOUS
  <2>7. QED
    BY <2>1, <2>2, <2>5, <2>6
<1> HIDE DEF T
<1>3. \A u \in Seq(X) : u \in T
  BY <1>1, <1>2, SequenceInduction
<1>4. Only(s, A) \in Seq(A)
  BY <1>3 DEF T
<1>5. QED
  BY <1>4, MembersOfSequence

LEMMA WithoutHasNone ==
  ASSUME NEW X, NEW s \in Seq(X), NEW B
  PROVE  Without(s, B) \in Seq(X \ B) /\ \A i \in DOMAIN Without(s, B) : Without(s, B)[i] \notin B
<1> DEFINE T == {u \in Seq(X) : Without(u, B) \in Seq(X \ B)}
<1>1. <<>> \in T
  <2>1. <<>> \in Seq(X) /\ \A i \in DOMAIN <<>> : <<>>[i] \notin B
    OBVIOUS
  <2>2. Without(<<>>, B) = <<>>
    BY <2>1, WithoutOfNone
  <2>3. <<>> \in Seq(X \ B)
    OBVIOUS
  <2>4. QED
    BY <2>1, <2>2, <2>3
<1>2. ASSUME NEW u \in Seq(X), NEW x \in X, u \in T PROVE u \o <<x>> \in T
  <2>1. PICK v \in Seq(X) : v = <<x>>
    <3>1. <<x>> \in Seq(X)
      OBVIOUS
    <3>2. QED
      BY <3>1
  <2>2. Without(u \o v, B) = Without(u, B) \o Without(v, B)
    <3>1. Splits(u, v, B)
      BY SplitParts
    <3>2. QED
      BY <3>1, Zenon DEF Splits
  <2>3. Without(v, B) \in Seq(X \ B)
    <3>1. PICK G \in Expansions(X, X) : G = LeavesOut(X, B)
      BY LeavesOutMaps
    <3>2. Without(v, B) = Mapped(G, v) /\ Mapped(G, <<x>>) = G[x]
      BY <3>1, WithoutIsMapped, MappedOne
    <3>3. G[x] = IF x \in B THEN <<>> ELSE <<x>>
      BY <3>1 DEF LeavesOut
    <3>4. Without(v, B) = IF x \in B THEN <<>> ELSE <<x>>
      BY <2>1, <3>2, <3>3
    <3>5. (x \notin B => <<x>> \in Seq(X \ B)) /\ <<>> \in Seq(X \ B)
      OBVIOUS
    <3>6. QED
      BY <3>4, <3>5
  <2>4. Without(u, B) \in Seq(X \ B)
    BY <1>2
  <2>5. Without(u, B) \o Without(v, B) \in Seq(X \ B)
    BY <2>3, <2>4
  <2>6. u \o v \in Seq(X)
    OBVIOUS
  <2>7. QED
    BY <2>1, <2>2, <2>5, <2>6
<1> HIDE DEF T
<1>3. \A u \in Seq(X) : u \in T
  BY <1>1, <1>2, SequenceInduction
<1>4. Without(s, B) \in Seq(X \ B)
  BY <1>3 DEF T
<1>5. \A i \in DOMAIN Without(s, B) : Without(s, B)[i] \in X \ B
  BY <1>4, MembersOfSequence
<1>6. QED
  BY <1>4, <1>5

-----------------------------------------------------------------------------
(* The first elements of a sequence.                                        *)

LEMMA TakeAll ==
  ASSUME NEW X, NEW s \in Seq(X), NEW k \in Nat
  PROVE  /\ k >= Len(s) => Take(s, k) = s
         /\ k <= Len(s) => Take(s, k) = SubSeq(s, 1, k)
         /\ Take(s, 0) = <<>>
<1>1. SubSeq(s, 1, Len(s)) = s /\ Len(s) \in Nat
  OBVIOUS
<1>2. SubSeq(s, 1, 0) = <<>> /\ (Len(s) = 0 => s = <<>>)
  OBVIOUS
<1>0. PICK n \in Nat : n = Len(s)
  BY <1>1
<1>6. Take(s, k) = SubSeq(s, 1, IF k < n THEN k ELSE n)
  BY <1>0 DEF Take
<1>7. /\ k >= n => (IF k < n THEN k ELSE n) = n
      /\ k <= n => (IF k < n THEN k ELSE n) = k
  OBVIOUS
<1>3. k >= Len(s) => Take(s, k) = s
  BY <1>0, <1>1, <1>6, <1>7
<1>4. k <= Len(s) => Take(s, k) = SubSeq(s, 1, k)
  BY <1>0, <1>6, <1>7
<1>5. Take(s, 0) = <<>>
  BY <1>1, <1>2 DEF Take
<1>8. QED
  BY <1>3, <1>4, <1>5

LEMMA TakeOfTaken ==
  ASSUME NEW X, NEW s \in Seq(X), NEW k \in Nat, NEW j \in Nat, j <= k
  PROVE  Take(Take(s, k), j) = Take(s, j)
<1>1. PICK t \in Seq(X) : t = Take(s, k)
  BY TakeIsPrefix
<1>2. PICK u \in Seq(X), v \in Seq(X) : u = Take(t, j) /\ v = Take(s, j)
  BY TakeIsPrefix
<1>3. /\ Len(t) = IF k < Len(s) THEN k ELSE Len(s)
      /\ \A i \in DOMAIN t : t[i] = s[i]
  BY <1>1, TakeIsPrefix
<1>4. /\ Len(u) = IF j < Len(t) THEN j ELSE Len(t)
      /\ DOMAIN u \subseteq DOMAIN t /\ \A i \in DOMAIN u : u[i] = t[i]
  BY <1>2, TakeIsPrefix
<1>5. /\ Len(v) = IF j < Len(s) THEN j ELSE Len(s)
      /\ \A i \in DOMAIN v : v[i] = s[i]
  BY <1>2, TakeIsPrefix
<1>6. Len(u) = Len(v)
  BY <1>3, <1>4, <1>5
<1>7. \A i \in 1 .. Len(u) : u[i] = v[i]
  BY <1>3, <1>4, <1>5, <1>6
<1>8. u = v
  BY <1>6, <1>7, SameSequence
<1>9. QED
  BY <1>1, <1>2, <1>8

LEMMA TakeOfParts ==
  ASSUME NEW X, NEW s \in Seq(X), NEW t \in Seq(X), NEW k \in Nat
  PROVE  /\ k <= Len(s) => Take(s \o t, k) = Take(s, k)
         /\ k > Len(s) => k - Len(s) \in Nat /\ Take(s \o t, k) = s \o Take(t, k - Len(s))
<1>1. PICK w \in Seq(X) : w = s \o t
  BY TwoPartsPutTogether
<1>2. /\ Len(w) = Len(s) + Len(t) /\ Len(s) \in Nat /\ Len(t) \in Nat
      /\ \A i \in 1 .. Len(s) : w[i] = s[i]
      /\ \A i \in 1 .. Len(t) : w[Len(s) + i] = t[i]
  <2>1. Len(s) \in Nat /\ Len(t) \in Nat
    OBVIOUS
  <2>2. QED
    BY <1>1, <2>1, TwoPartsPutTogether
<1>3. PICK u \in Seq(X) : u = Take(w, k)
  BY TakeIsPrefix
<1>4. /\ Len(u) = IF k < Len(w) THEN k ELSE Len(w)
      /\ \A i \in DOMAIN u : u[i] = w[i]
  BY <1>3, TakeIsPrefix
<1>5. CASE k <= Len(s)
  <2>1. PICK v \in Seq(X) : v = Take(s, k)
    BY TakeIsPrefix
  <2>2. /\ Len(v) = IF k < Len(s) THEN k ELSE Len(s)
        /\ \A i \in DOMAIN v : v[i] = s[i]
    BY <2>1, TakeIsPrefix
  <2>3. Len(u) = Len(v) /\ \A i \in 1 .. Len(u) : u[i] = v[i]
    BY <1>2, <1>4, <1>5, <2>2
  <2>4. u = v
    BY <2>3, SameSequence
  <2>5. QED
    BY <1>1, <1>2, <1>3, <1>5, <2>1, <2>4
<1>6. CASE k > Len(s)
  <2>1. PICK m \in Nat : m = k - Len(s)
    <3>1. k - Len(s) \in Nat
      BY <1>2, <1>6
    <3>2. QED
      BY <3>1
  <2>2. PICK r \in Seq(X) : r = Take(t, m)
    BY TakeIsPrefix
  <2>3. /\ Len(r) = IF m < Len(t) THEN m ELSE Len(t)
        /\ \A i \in DOMAIN r : r[i] = t[i]
    BY <2>2, TakeIsPrefix
  <2>4. PICK v \in Seq(X) : v = s \o r
    BY TwoPartsPutTogether
  <2>5. /\ Len(v) = Len(s) + Len(r) /\ Len(r) \in Nat
        /\ \A i \in 1 .. Len(s) : v[i] = s[i]
        /\ \A i \in 1 .. Len(r) : v[Len(s) + i] = r[i]
    <3>1. /\ Len(s \o r) = Len(s) + Len(r)
          /\ \A i \in 1 .. Len(s) : (s \o r)[i] = s[i]
          /\ \A i \in 1 .. Len(r) : (s \o r)[Len(s) + i] = r[i]
      BY TwoPartsPutTogether
    <3>2. Len(r) \in Nat
      OBVIOUS
    <3>3. QED
      BY <2>4, <3>1, <3>2
  <2>6. Len(u) = Len(v)
    BY <1>2, <1>4, <2>1, <2>3, <2>5
  <2>7. \A i \in 1 .. Len(u) : u[i] = v[i]
    <3> TAKE i \in 1 .. Len(u)
    <3>1. CASE i <= Len(s)
      <4>1. i \in 1 .. Len(s) /\ i \in DOMAIN u
        BY <1>2, <3>1
      <4>2. QED
        BY <1>2, <1>4, <2>5, <4>1
    <3>2. CASE ~ (i <= Len(s))
      <4>1. PICK c \in 1 .. Len(r) : i = Len(s) + c
        <5>1. i - Len(s) \in 1 .. Len(r) /\ i = Len(s) + (i - Len(s))
          BY <1>2, <2>5, <2>6, <3>2
        <5>2. QED
          BY <5>1
      <4>2. c \in DOMAIN r /\ c \in 1 .. Len(t)
        BY <1>2, <2>3, <4>1
      <4>3. v[i] = r[c] /\ w[i] = t[c] /\ r[c] = t[c]
        BY <1>2, <2>3, <2>5, <4>1, <4>2
      <4>4. QED
        BY <1>4, <4>3
    <3>3. QED
      BY <3>1, <3>2
  <2>8. u = v
    BY <2>6, <2>7, SameSequence
  <2>9. QED
    BY <1>1, <1>2, <1>3, <1>6, <2>1, <2>2, <2>4, <2>8
<1>7. QED
  BY <1>2, <1>5, <1>6

LEMMA TakeAndRest ==
  ASSUME NEW X, NEW s \in Seq(X), NEW k \in 0 .. Len(s)
  PROVE  SubSeq(s, 1, k) \in Seq(X) /\ SubSeq(s, k + 1, Len(s)) \in Seq(X)
         /\ s = SubSeq(s, 1, k) \o SubSeq(s, k + 1, Len(s))
<1>1. PICK n \in Nat : n = Len(s)
  OBVIOUS
<1>2. PICK u \in Seq(X), v \in Seq(X) : u = SubSeq(s, 1, k) /\ v = SubSeq(s, k + 1, n)
  <2>1. SubSeq(s, 1, k) \in Seq(X) /\ SubSeq(s, k + 1, n) \in Seq(X)
    BY <1>1
  <2>2. QED
    BY <2>1
<1>3. Len(u) = k /\ \A i \in 1 .. k : u[i] = s[i]
  BY <1>2
<1>4. Len(v) = n - k /\ \A i \in 1 .. n - k : v[i] = s[k + i]
  BY <1>1, <1>2
<1>5. PICK w \in Seq(X) : w = u \o v
  BY TwoPartsPutTogether
<1>6. /\ Len(w) = Len(u) + Len(v) /\ \A i \in 1 .. Len(u) : w[i] = u[i]
      /\ \A i \in 1 .. Len(v) : w[Len(u) + i] = v[i]
  BY <1>5, TwoPartsPutTogether
<1>7. Len(w) = n
  BY <1>1, <1>3, <1>4, <1>6
<1>8. \A i \in 1 .. Len(s) : s[i] = w[i]
  <2> TAKE i \in 1 .. Len(s)
  <2>1. CASE i <= k
    BY <1>3, <1>6, <2>1
  <2>2. CASE ~ (i <= k)
    <3>1. PICK c \in 1 .. n - k : i = k + c
      <4>1. i - k \in 1 .. n - k /\ i = k + (i - k)
        BY <1>1, <2>2
      <4>2. QED
        BY <4>1
    <3>2. QED
      BY <1>3, <1>4, <1>6, <3>1
  <2>3. QED
    BY <2>1, <2>2
<1>9. s = w
  BY <1>1, <1>7, <1>8, SameSequence
<1>10. QED
  BY <1>1, <1>2, <1>5, <1>9

Takes(s, t, k) ==
  /\ k <= Len(s) => Take(s \o t, k) = Take(s, k)
  /\ k > Len(s) => k - Len(s) \in Nat /\ Take(s \o t, k) = s \o Take(t, k - Len(s))

LEMMA TakeParts ==
  ASSUME NEW X, NEW s \in Seq(X), NEW t \in Seq(X), NEW k \in Nat
  PROVE  Takes(s, t, k)
BY TakeOfParts DEF Takes

LEMMA TakenWithout ==
  ASSUME NEW X, NEW s \in Seq(X), NEW t \in Seq(X), NEW B, \A i \in DOMAIN t : t[i] \in B,
         NEW k \in Nat
  PROVE  Without(Take(s \o t, k), B) = Without(Take(s, k), B)
<1>1. CASE k <= Len(s)
  BY <1>1, TakeOfParts
<1>2. CASE ~ (k <= Len(s))
  <2>1. PICK m \in Nat : m = k - Len(s) /\ Take(s \o t, k) = s \o Take(t, m)
    <3>1. k > Len(s)
      BY <1>2
    <3>2. k > Len(s) => k - Len(s) \in Nat /\ Take(s \o t, k) = s \o Take(t, k - Len(s))
      BY TakeOfParts
    <3>3. QED
      BY <3>1, <3>2
  <2>2. PICK r \in Seq(X) : r = Take(t, m)
    BY TakeIsPrefix
  <2>3. \A i \in DOMAIN r : r[i] \in B
    <3>1. DOMAIN r \subseteq DOMAIN t /\ \A i \in DOMAIN r : r[i] = t[i]
      BY <2>2, TakeIsPrefix
    <3>2. QED
      BY <3>1
  <2>4. Without(r, B) = <<>>
    BY <2>3, WithoutOfAll
  <2>5. Without(s \o r, B) = Without(s, B) \o Without(r, B)
    <3>1. Splits(s, r, B)
      BY SplitParts
    <3>2. QED
      BY <3>1, Zenon DEF Splits
  <2>6. Without(s, B) \o <<>> = Without(s, B)
    <3>1. PICK w \in Seq(X) : w = Without(s, B)
      BY WithoutIsText
    <3>2. w \o <<>> = w
      OBVIOUS
    <3>3. QED
      BY <3>1, <3>2
  <2>7. Take(s, k) = s
    <3>1. k >= Len(s)
      BY <1>2
    <3>2. QED
      BY <3>1, TakeAll
  <2>8. QED
    BY <2>1, <2>2, <2>4, <2>5, <2>6, <2>7
<1>3. QED
  BY <1>1, <1>2

EndsWith(s, t, x) ==
  s = t \o <<x>> /\ Len(s) = Len(t) + 1 /\ (\A i \in 1 .. Len(t) : t[i] = s[i]) /\ s[Len(s)] = x

LEMMA LastOne ==
  ASSUME NEW X, NEW s \in Seq(X), Len(s) > 0
  PROVE  \E t \in Seq(X), x \in X : EndsWith(s, t, x)
<1>0. PICK n \in Nat : Len(s) = n + 1
  <2>1. Len(s) - 1 \in Nat /\ Len(s) = (Len(s) - 1) + 1
    OBVIOUS
  <2>2. QED
    BY <2>1
<1>1. PICK t \in Seq(X) : t = SubSeq(s, 1, n)
  <2>1. SubSeq(s, 1, n) \in Seq(X)
    BY <1>0
  <2>2. QED
    BY <2>1
<1>2. PICK x \in X : x = s[n + 1]
  <2>1. n + 1 \in 1 .. Len(s)
    BY <1>0
  <2>2. s[n + 1] \in X
    BY <2>1
  <2>3. QED
    BY <2>2
<1>3. Len(t) = n /\ \A i \in 1 .. n : t[i] = s[i]
  BY <1>0, <1>1
<1>4. PICK u \in Seq(X) : u = t \o <<x>>
  <2>1. t \o <<x>> \in Seq(X)
    OBVIOUS
  <2>2. QED
    BY <2>1
<1>5. Len(u) = n + 1 /\ (\A i \in 1 .. n : u[i] = t[i]) /\ u[n + 1] = x
  BY <1>3, <1>4
<1>6. \A i \in 1 .. n + 1 : i \in 1 .. n \/ i = n + 1
  OBVIOUS
<1>7. \A i \in 1 .. Len(u) : u[i] = s[i]
  BY <1>2, <1>3, <1>5, <1>6
<1>8. u = s
  BY <1>0, <1>5, <1>7, SameSequence
<1>9. QED
  BY <1>0, <1>2, <1>3, <1>4, <1>8 DEF EndsWith

-----------------------------------------------------------------------------
(* What normalization leaves of a text: all but blanks and breaks.          *)

Picked(s, u, src, B) ==
  /\ Len(src) = Len(u)
  /\ \A k \in 1 .. Len(u) : src[k] \in 1 .. Len(s)
  /\ \A k, l \in 1 .. Len(u) : k < l => src[k] < src[l]
  /\ \A k \in 1 .. Len(u) : u[k] = s[src[k]] \/ (u[k] \in B /\ s[src[k]] \in B)
  /\ \A i \in 1 .. Len(s) : s[i] \notin B => \E k \in 1 .. Len(u) : src[k] = i

LEMMA PickedStep ==
  ASSUME NEW X, NEW B
  PROVE  \A n \in Nat : \A t, v \in Seq(X), at \in Seq(Nat) :
           Len(t) = n /\ Picked(t, v, at, B) => Without(v, B) = Without(t, B)
<1>5. \A t \in Seq(X) : Len(t) > 0 => \E v \in Seq(X), x \in X : EndsWith(t, v, x)
  BY LastOne
<1>6. \A t \in Seq(Nat) : Len(t) > 0 => \E v \in Seq(Nat), x \in Nat : EndsWith(t, v, x)
  BY LastOne
<1>7. \A t, v \in Seq(X) : Without(t \o v, B) = Without(t, B) \o Without(v, B)
  BY WithoutOfParts
<1> DEFINE N == {n \in Nat : \A t, v \in Seq(X), at \in Seq(Nat) :
                   Len(t) = n /\ Picked(t, v, at, B) => Without(v, B) = Without(t, B)}
<1>1. 0 \in N
  <2>1. SUFFICES ASSUME NEW t \in Seq(X), NEW v \in Seq(X), NEW at \in Seq(Nat), Len(t) = 0,
                        Picked(t, v, at, B)
                 PROVE  v = t
    OBVIOUS
  <2>2. Len(v) = 0
    <3>1. Len(v) \in Nat /\ \A k \in 1 .. Len(v) : at[k] \in 1 .. 0
      BY <2>1 DEF Picked
    <3>2. QED
      BY <3>1
  <2>3. QED
    BY <2>1, <2>2
<1>2. ASSUME NEW n \in Nat, n \in N PROVE n + 1 \in N
  <2>1. SUFFICES ASSUME NEW t \in Seq(X), NEW v \in Seq(X), NEW at \in Seq(Nat), Len(t) = n + 1,
                        Picked(t, v, at, B)
                 PROVE  Without(v, B) = Without(t, B)
    OBVIOUS
  <2>2. PICK m \in Nat : m = Len(v) /\ Len(at) = m
    BY <2>1 DEF Picked
  <2>3. /\ \A k \in 1 .. m : at[k] \in 1 .. n + 1
        /\ \A k, l \in 1 .. m : k < l => at[k] < at[l]
        /\ \A k \in 1 .. m : v[k] = t[at[k]] \/ (v[k] \in B /\ t[at[k]] \in B)
        /\ \A i \in 1 .. n + 1 : t[i] \notin B => \E k \in 1 .. m : at[k] = i
    BY <2>1, <2>2 DEF Picked
  <2>4. PICK w \in Seq(X), x \in X : t = w \o <<x>> /\ Len(w) = n /\ (\A i \in 1 .. n : w[i] = t[i])
                                     /\ t[n + 1] = x
    <3>1. PICK w \in Seq(X), x \in X : EndsWith(t, w, x)
      BY <1>5, <2>1, SMTT(40)
    <3>2. Len(w) \in Nat /\ Len(w) + 1 = n + 1
      BY <2>1, <3>1 DEF EndsWith
    <3>3. Len(w) = n
      BY <3>2
    <3>4. QED
      BY <2>1, <3>1, <3>3 DEF EndsWith
  <2>5. PICK one \in Seq(X) : one = <<x>>
    <3>1. <<x>> \in Seq(X)
      OBVIOUS
    <3>2. QED
      BY <3>1
  <2>6. Without(t, B) = Without(w, B) \o Without(one, B)
    BY <1>7, <2>4, <2>5
  <2>7. CASE m > 0 /\ at[m] = n + 1
    <3>1. PICK q \in Nat : m = q + 1
      <4>1. m - 1 \in Nat /\ m = (m - 1) + 1
        BY <2>7
      <4>2. QED
        BY <4>1
    <3>2. PICK y \in Seq(X), z \in X : v = y \o <<z>> /\ Len(y) = q /\ (\A i \in 1 .. q : y[i] = v[i])
                                       /\ v[q + 1] = z
      <4>1. PICK f \in Seq(X), g \in X : EndsWith(v, f, g)
        BY <1>5, <2>2, <2>7
      <4>2. Len(f) \in Nat /\ Len(v) = Len(f) + 1 /\ Len(v) = q + 1
        <5>1. Len(f) \in Nat
          OBVIOUS
        <5>2. Len(v) = q + 1
          BY <2>2, <3>1
        <5>3. QED
          BY <4>1, <5>1, <5>2 DEF EndsWith
      <4>3. Len(f) = q /\ Len(v) = q + 1
        BY <4>2
      <4>4. QED
        BY <4>1, <4>3 DEF EndsWith
    <3>3. PICK a \in Seq(Nat), b \in Nat : at = a \o <<b>> /\ Len(a) = q /\ (\A i \in 1 .. q : a[i] = at[i])
                                       /\ at[q + 1] = b
      <4>1. PICK f \in Seq(Nat), g \in Nat : EndsWith(at, f, g)
        BY <1>6, <2>2, <2>7
      <4>2. Len(f) \in Nat /\ Len(f) + 1 = q + 1
        BY <2>2, <3>1, <4>1 DEF EndsWith
      <4>3. Len(f) = q /\ Len(at) = q + 1
        BY <2>2, <3>1, <4>2
      <4>4. QED
        BY <4>1, <4>3 DEF EndsWith
    <3>4. \A k \in 1 .. q : k \in 1 .. m /\ q + 1 \in 1 .. m /\ k < q + 1
      BY <3>1
    <3>5. \A k \in 1 .. q : at[k] \in 1 .. n
      <4> TAKE k \in 1 .. q
      <4>1. at[k] < at[q + 1] /\ at[k] \in 1 .. n + 1
        BY <2>3, <3>4
      <4>2. QED
        BY <2>7, <3>1, <4>1
    <3>6. Picked(w, y, a, B)
      <4>1. Len(a) = Len(y)
        BY <3>2, <3>3
      <4>2. \A k \in 1 .. q : a[k] \in 1 .. n
        BY <3>3, <3>5
      <4>3. \A k, l \in 1 .. q : k < l => a[k] < a[l]
        BY <2>3, <3>3, <3>4
      <4>4. \A k \in 1 .. q : y[k] = w[a[k]] \/ (y[k] \in B /\ w[a[k]] \in B)
        <5> TAKE k \in 1 .. q
        <5>1. k \in 1 .. m /\ at[k] \in 1 .. n /\ a[k] = at[k] /\ y[k] = v[k]
          BY <3>2, <3>3, <3>4, <3>5
        <5>2. w[at[k]] = t[at[k]]
          BY <2>4, <5>1
        <5>3. v[k] = t[at[k]] \/ (v[k] \in B /\ t[at[k]] \in B)
          BY <2>3, <5>1
        <5>4. QED
          BY <5>1, <5>2, <5>3
      <4>5. ASSUME NEW i \in 1 .. n, w[i] \notin B PROVE \E k \in 1 .. q : a[k] = i
        <5>1. i \in 1 .. n + 1 /\ t[i] \notin B
          BY <2>4, <4>5
        <5>2. PICK k \in 1 .. m : at[k] = i
          BY <2>3, <5>1
        <5>3. k # m
          BY <2>7, <5>2
        <5>4. k \in 1 .. q
          BY <3>1, <5>3
        <5>5. QED
          BY <3>3, <5>2, <5>4
      <4>6. QED
        BY <2>4, <3>2, <4>1, <4>2, <4>3, <4>4, <4>5 DEF Picked
    <3>7. Without(y, B) = Without(w, B)
      BY <1>2, <2>4, <3>6
    <3>8. PICK two \in Seq(X) : two = <<z>>
      <4>1. <<z>> \in Seq(X)
        OBVIOUS
      <4>2. QED
        BY <4>1
    <3>9. z = x \/ (z \in B /\ x \in B)
      <4>1. m \in 1 .. m /\ at[m] = n + 1 /\ v[m] = z
        <5>1. m \in 1 .. m /\ at[m] = n + 1
          BY <2>7
        <5>2. v[m] = z
          BY <3>1, <3>2
        <5>3. QED
          BY <5>1, <5>2
      <4>2. v[m] = t[at[m]] \/ (v[m] \in B /\ t[at[m]] \in B)
        BY <2>3, <4>1
      <4>3. QED
        BY <2>4, <4>1, <4>2
    <3>10. Without(two, B) = Without(one, B)
      <4>1. CASE z = x
        BY <2>5, <3>8, <4>1
      <4>2. CASE z \in B /\ x \in B
        <5>1. (\A i \in DOMAIN one : one[i] \in B) /\ (\A i \in DOMAIN two : two[i] \in B)
          BY <2>5, <3>8, <4>2
        <5>2. Without(one, B) = <<>>
          BY <5>1, WithoutOfAll
        <5>3. Without(two, B) = <<>>
          BY <5>1, WithoutOfAll
        <5>4. QED
          BY <5>2, <5>3
      <4>3. QED
        BY <3>9, <4>1, <4>2
    <3>11. Without(v, B) = Without(y, B) \o Without(two, B)
      BY <1>7, <3>2, <3>8
    <3>12. QED
      BY <2>6, <3>7, <3>10, <3>11
  <2>8. CASE ~ (m > 0 /\ at[m] = n + 1)
    <3>1. \A k \in 1 .. m : at[k] \in 1 .. n
      <4> TAKE k \in 1 .. m
      <4>1. m \in 1 .. m /\ m > 0 /\ at[m] # n + 1 /\ at[m] \in 1 .. n + 1 /\ at[k] \in 1 .. n + 1
        BY <2>3, <2>8
      <4>2. k = m \/ at[k] < at[m]
        BY <2>3, <4>1
      <4>3. QED
        BY <4>1, <4>2
    <3>2. Picked(w, v, at, B)
      <4>1. \A k \in 1 .. m : v[k] = w[at[k]] \/ (v[k] \in B /\ w[at[k]] \in B)
        BY <2>3, <2>4, <3>1
      <4>2. \A i \in 1 .. n : w[i] \notin B => \E k \in 1 .. m : at[k] = i
        <5>1. \A i \in 1 .. n : i \in 1 .. n + 1
          OBVIOUS
        <5>2. QED
          BY <2>3, <2>4, <5>1
      <4>3. QED
        BY <2>2, <2>3, <2>4, <3>1, <4>1, <4>2 DEF Picked
    <3>3. Without(v, B) = Without(w, B)
      BY <1>2, <2>4, <3>2
    <3>4. x \in B
      <4>1. n + 1 \in 1 .. n + 1
        OBVIOUS
      <4>2. \A k \in 1 .. m : at[k] # n + 1
        BY <3>1
      <4>3. QED
        BY <2>3, <2>4, <4>1, <4>2
    <3>5. Without(one, B) = <<>>
      <4>1. \A i \in DOMAIN one : one[i] \in B
        BY <2>5, <3>4
      <4>2. QED
        BY <4>1, WithoutOfAll
    <3>6. Without(w, B) \o <<>> = Without(w, B)
      <4>1. PICK y \in Seq(X) : y = Without(w, B)
        BY WithoutIsText
      <4>2. y \o <<>> = y
        OBVIOUS
      <4>3. QED
        BY <4>1, <4>2
    <3>7. QED
      BY <2>6, <3>3, <3>5, <3>6
  <2>9. QED
    BY <2>7, <2>8
<1> HIDE DEF N
<1>3. \A n \in Nat : n \in N
  BY <1>1, <1>2, SetInduction
<1>8. QED
  BY <1>3 DEF N

LEMMA PickedWords ==
  ASSUME NEW X, NEW B, NEW s \in Seq(X), NEW u \in Seq(X), NEW src \in Seq(Nat), Picked(s, u, src, B)
  PROVE  Without(u, B) = Without(s, B)
<1>1. Len(s) \in Nat
  OBVIOUS
<1>2. QED
  BY <1>1, PickedStep

-----------------------------------------------------------------------------
(* Normalization with its map: the words before an offset of the normalized *)
(* text are those before its place in the raw text.                         *)

Gap == " "

LEMMA GapIsSpace == Gap \in Space /\ Gap \in Blank
  BY DEF Gap, Space, Blank

(* The positions that Sources chooses from.                                 *)
BlankBefore(raw, i) ==
  LET kept == {j \in 1 .. i - 1 : raw[j] # "cr"} IN kept # {} /\ raw[Max(kept)] \in Blank
FirstBlanks(raw) == {i \in DOMAIN raw : raw[i] # "cr" /\ ~ (raw[i] \in Blank /\ BlankBefore(raw, i))}
SolidOnes(raw) == {i \in FirstBlanks(raw) : raw[i] \notin Blank \cup {"lf"}}

(* Sources lists, in their order, the positions whose character is kept.    *)
LEMMA SourcesChoose ==
  ASSUME NEW raw
  PROVE  Sources(raw) = IF SolidOnes(raw) = {} THEN <<>>
                        ELSE Ascending(FirstBlanks(raw) \cap Min(SolidOnes(raw)) .. Max(SolidOnes(raw)))
BY DEF Sources, SolidOnes, FirstBlanks, BlankBefore

(* The kept positions of a raw text: in order, all solid characters among   *)
(* them.                                                                    *)
AreSources(raw, src) ==
  /\ src \in Seq(Nat)
  /\ \A k \in 1 .. Len(src) : src[k] \in 1 .. Len(raw) /\ src[k] \in FirstBlanks(raw)
  /\ \A k, l \in 1 .. Len(src) : k < l => src[k] < src[l]
  /\ \A i \in 1 .. Len(raw) : raw[i] \notin Space => \E k \in 1 .. Len(src) : src[k] = i

LEMMA SourcesAre ==
  ASSUME NEW X, NEW raw \in Seq(X)
  PROVE  AreSources(raw, Sources(raw))
<1>0. PICK src : src = Sources(raw)
  OBVIOUS
<1> DEFINE F == FirstBlanks(raw)
           S == SolidOnes(raw)
<1>1. PICK n \in Nat : n = Len(raw) /\ DOMAIN raw = 1 .. n
  OBVIOUS
<1>2. F \subseteq 1 .. n /\ S \subseteq F
  BY <1>1 DEF FirstBlanks, SolidOnes
<1>3. ASSUME NEW i \in 1 .. n, raw[i] \notin Space PROVE i \in S
  BY <1>1, <1>3 DEF FirstBlanks, SolidOnes, Space
<1>4. src = IF S = {} THEN <<>> ELSE Ascending(F \cap Min(S) .. Max(S))
  BY <1>0, SourcesChoose
<1> HIDE DEF F, S
<1>5. CASE S = {}
  <2>1. src = <<>>
    BY <1>4, <1>5
  <2>2. src \in Seq(Nat) /\ Len(src) = 0
    BY <2>1
  <2>3. QED
    BY <1>0, <1>1, <1>3, <1>5, <2>2 DEF AreSources
<1>6. CASE S # {}
  <2>1. S \in SUBSET Nat /\ S \in SUBSET Int /\ IsFiniteSet(S)
    <3>1. S \subseteq 1 .. n
      BY <1>2
    <3>2. IsFiniteSet(1 .. n)
      BY FS_Interval
    <3>3. IsFiniteSet(S)
      BY <3>1, <3>2, FS_Subset
    <3>4. QED
      BY <3>1, <3>3
  <2>2. Min(S) \in S /\ \A x \in S : Min(S) <= x
    BY <1>6, <2>1, MinIsLeast
  <2>3. Max(S) \in S /\ \A x \in S : Max(S) >= x
    BY <1>6, <2>1, MaxIsGreatest
  <2>4. PICK P : P = F \cap Min(S) .. Max(S)
    OBVIOUS
  <2>5. P \in SUBSET Int /\ P \subseteq F /\ P \subseteq 1 .. n
    BY <1>2, <2>4
  <2>6. IsFiniteSet(P)
    <3>1. IsFiniteSet(1 .. n)
      BY FS_Interval
    <3>2. QED
      BY <2>5, <3>1, FS_Subset
  <2>7. src = Ascending(P)
    BY <1>4, <1>6, <2>4
  <2>8. /\ src \in Seq(P) /\ \A x \in P : \E k \in DOMAIN src : src[k] = x
        /\ \A i, j \in DOMAIN src : i < j => src[i] < src[j]
    <3>1. LET o == Ascending(P) IN
          /\ o \in Seq(P) /\ \A x \in P : \E k \in DOMAIN o : o[k] = x
          /\ \A i, j \in DOMAIN o : i < j => o[i] < o[j]
      BY <2>5, <2>6, AscendingEnumerates
    <3>2. QED
      BY <2>7, <3>1
  <2>9. DOMAIN src = 1 .. Len(src) /\ \A k \in 1 .. Len(src) : src[k] \in P
    BY <2>8
  <2>10. src \in Seq(Nat)
    <3>1. P \subseteq Nat
      BY <2>5
    <3>2. QED
      BY <2>8, <3>1, WiderSequence
  <2>11. ASSUME NEW i \in 1 .. n, raw[i] \notin Space PROVE i \in P
    <3>1. i \in S
      BY <1>3, <2>11
    <3>2. Min(S) <= i /\ i <= Max(S) /\ Min(S) \in Nat /\ Max(S) \in Nat
      BY <2>1, <2>2, <2>3, <3>1
    <3>3. QED
      BY <1>2, <2>4, <3>1, <3>2
  <2>12. QED
    BY <1>0, <1>1, <2>5, <2>8, <2>9, <2>10, <2>11 DEF F, AreSources
<1>7. QED
  BY <1>0, <1>5, <1>6

(* What NormalizeWithMap returns for a raw text.                            *)
Normal(X, raw, live) ==
  /\ live.src = Sources(raw) /\ live.text \in Seq(X) /\ Len(live.text) = Len(live.src)
  /\ \A k \in 1 .. Len(live.src) :
       live.text[k] = IF raw[live.src[k]] \in Blank THEN Gap ELSE raw[live.src[k]]

LEMMA MappedText ==
  ASSUME NEW X, Gap \in X, NEW raw \in Seq(X), NEW live, live = NormalizeWithMap(raw)
  PROVE  Normal(X, raw, live)
<1>1. PICK src \in Seq(Nat) : src = Sources(raw)
  BY SourcesAre DEF AreSources
<1>2. PICK n \in Nat : n = Len(src) /\ DOMAIN src = 1 .. n
  OBVIOUS
<1>3. \A k \in 1 .. n : src[k] \in 1 .. Len(raw)
  <2>1. AreSources(raw, src)
    BY <1>1, SourcesAre
  <2>2. QED
    BY <1>2, <2>1 DEF AreSources
<1>4. PICK text : text = [k \in DOMAIN src |-> IF raw[src[k]] \in Blank THEN Gap ELSE raw[src[k]]]
  OBVIOUS
<1>5. live.src = src /\ live.text = text
  BY <1>1, <1>4 DEF NormalizeWithMap, Gap
<1>6. \A k \in 1 .. n : (IF raw[src[k]] \in Blank THEN Gap ELSE raw[src[k]]) \in X
  <2>1. \A i \in 1 .. Len(raw) : raw[i] \in X
    OBVIOUS
  <2>2. QED
    BY <1>3, <2>1
<1>7. text \in Seq(X) /\ Len(text) = n
  BY <1>2, <1>4, <1>6
<1>8. QED
  BY <1>1, <1>2, <1>4, <1>5, <1>7 DEF Normal

(* Where an offset in the normalized text lies in the raw one.              *)
RawPosition(live, at) == IF at < Len(live.src) THEN live.src[at + 1] - 1 ELSE Last(live.src)

(* Up to these two places the raw and the normalized text have the same     *)
(* words.                                                                   *)
SameWords(raw, pos, text, at) ==
  /\ pos \in 0 .. Len(raw)
  /\ Without(Take(raw, pos), Space) = Without(Take(text, at), Space)

(* An offset of the normalized text and its place in the raw one divide the *)
(* same words.                                                              *)
LEMMA NormalizedWords ==
  ASSUME NEW X, Gap \in X, NEW raw \in Seq(X), NEW live, live = NormalizeWithMap(raw),
         Len(live.src) > 0, NEW at \in 0 .. Len(live.src),
         NEW pos, pos = RawPosition(live, at)
  PROVE  SameWords(raw, pos, live.text, at)
<1>0. Normal(X, raw, live)
  BY MappedText
<1>1. PICK src \in Seq(Nat), text \in Seq(X) : src = live.src /\ text = live.text /\ src = Sources(raw)
  <2>1. live.src = Sources(raw) /\ live.text \in Seq(X)
    BY <1>0 DEF Normal
  <2>2. Sources(raw) \in Seq(Nat)
    BY SourcesAre DEF AreSources
  <2>3. QED
    BY <2>1, <2>2
<1>2. PICK n \in Nat, m \in Nat : n = Len(raw) /\ m = Len(src) /\ m > 0 /\ DOMAIN src = 1 .. m
  BY <1>1
<1>3. /\ \A k \in 1 .. m : src[k] \in 1 .. n
      /\ \A k, l \in 1 .. m : k < l => src[k] < src[l]
      /\ \A i \in 1 .. n : raw[i] \notin Space => \E k \in 1 .. m : src[k] = i
  <2>1. src = Sources(raw)
    BY <1>1
  <2>2. AreSources(raw, src)
    BY <2>1, SourcesAre
  <2>3. QED
    BY <1>2, <2>2 DEF AreSources
<1>4. Len(text) = m /\ \A k \in 1 .. m : text[k] = IF raw[src[k]] \in Blank THEN Gap ELSE raw[src[k]]
  BY <1>0, <1>1, <1>2 DEF Normal
<1>5. at \in 0 .. m /\ pos = IF at < m THEN src[at + 1] - 1 ELSE src[m]
  BY <1>1, <1>2 DEF RawPosition, Last
<1>6. /\ pos \in 0 .. n
      /\ \A k \in 1 .. m : k <= at <=> src[k] <= pos
  <2>1. CASE at < m
    <3>1. at + 1 \in 1 .. m /\ src[at + 1] \in 1 .. n /\ pos = src[at + 1] - 1
      BY <1>3, <1>5, <2>1
    <3>2. \A k \in 1 .. m : /\ src[k] \in 1 .. n
                            /\ k < at + 1 => src[k] < src[at + 1]
                            /\ at + 1 < k => src[at + 1] < src[k]
      BY <1>3, <3>1
    <3>3. \A k \in 1 .. m : k <= at <=> src[k] <= pos
      <4> TAKE k \in 1 .. m
      <4>1. PICK a \in 1 .. n, b \in 1 .. n : a = src[k] /\ b = src[at + 1]
        BY <3>1, <3>2
      <4>2. (k < at + 1 => a < b) /\ (at + 1 < k => b < a) /\ (k = at + 1 => a = b)
        BY <3>2, <4>1
      <4>3. k <= at <=> a <= b - 1
        BY <1>5, <4>2
      <4>4. QED
        BY <3>1, <4>1, <4>3
    <3>4. QED
      BY <3>1, <3>3
  <2>2. CASE ~ (at < m)
    <3>1. at = m /\ m \in 1 .. m /\ pos = src[m] /\ src[m] \in 1 .. n
      BY <1>2, <1>3, <1>5, <2>2
    <3>2. \A k \in 1 .. m : /\ src[k] \in 1 .. n
                            /\ k = m \/ src[k] < src[m]
      BY <1>3, <3>1
    <3>3. QED
      BY <3>1, <3>2
  <2>3. QED
    BY <2>1, <2>2
<1>7. PICK s \in Seq(X) : s = Take(raw, pos)
  BY <1>6, TakeIsPrefix
<1>8. Len(s) = pos /\ \A i \in 1 .. pos : s[i] = raw[i]
  <2>1. /\ Len(s) = IF pos < n THEN pos ELSE n
        /\ \A i \in DOMAIN s : s[i] = raw[i]
    BY <1>2, <1>6, <1>7, TakeIsPrefix
  <2>2. Len(s) = pos
    BY <1>6, <2>1
  <2>3. DOMAIN s = 1 .. pos
    BY <2>2
  <2>4. QED
    BY <2>1, <2>2, <2>3
<1>9. PICK u \in Seq(X) : u = Take(text, at)
  BY <1>5, TakeIsPrefix
<1>10. Len(u) = at /\ \A i \in 1 .. at : u[i] = text[i]
  <2>1. /\ Len(u) = IF at < m THEN at ELSE m
        /\ \A i \in DOMAIN u : u[i] = text[i]
    BY <1>4, <1>5, <1>9, TakeIsPrefix
  <2>2. Len(u) = at
    BY <1>5, <2>1
  <2>3. DOMAIN u = 1 .. at
    BY <2>2
  <2>4. QED
    BY <2>1, <2>2, <2>3
<1>11. PICK q \in Seq(Nat) : q = Take(src, at)
  BY <1>5, TakeIsPrefix
<1>12. Len(q) = at /\ \A i \in 1 .. at : q[i] = src[i]
  <2>1. /\ Len(q) = IF at < m THEN at ELSE m
        /\ \A i \in DOMAIN q : q[i] = src[i]
    <3>1. at \in Nat
      BY <1>5
    <3>2. /\ Len(Take(src, at)) = IF at < Len(src) THEN at ELSE Len(src)
          /\ \A i \in DOMAIN Take(src, at) : Take(src, at)[i] = src[i]
      BY <3>1, TakeIsPrefix
    <3>3. QED
      BY <1>2, <1>11, <3>2
  <2>2. Len(q) = at
    BY <1>5, <2>1
  <2>3. DOMAIN q = 1 .. at
    BY <2>2
  <2>4. QED
    BY <2>1, <2>2, <2>3
<1>13. \A k \in 1 .. at : k \in 1 .. m
  BY <1>5
<1>14. Picked(s, u, q, Space)
  <2>1. \A k \in 1 .. at : q[k] \in 1 .. pos
    <3> TAKE k \in 1 .. at
    <3>1. k \in 1 .. m /\ q[k] = src[k] /\ src[k] \in 1 .. n
      BY <1>3, <1>12, <1>13
    <3>2. src[k] <= pos
      BY <1>6, <3>1
    <3>3. QED
      BY <1>6, <3>1, <3>2
  <2>2. \A k, l \in 1 .. at : k < l => q[k] < q[l]
    BY <1>3, <1>12, <1>13
  <2>3. \A k \in 1 .. at : u[k] = s[q[k]] \/ (u[k] \in Space /\ s[q[k]] \in Space)
    <3> TAKE k \in 1 .. at
    <3>1. u[k] = text[k] /\ q[k] = src[k] /\ s[q[k]] = raw[src[k]]
      BY <1>8, <1>10, <1>12, <2>1
    <3>2. text[k] = IF raw[src[k]] \in Blank THEN Gap ELSE raw[src[k]]
      BY <1>4, <1>13
    <3>3. Gap \in Space /\ Blank \subseteq Space
      BY GapIsSpace DEF Space
    <3>4. QED
      BY <3>1, <3>2, <3>3
  <2>4. \A i \in 1 .. pos : s[i] \notin Space => \E k \in 1 .. at : q[k] = i
    <3>1. SUFFICES ASSUME NEW i \in 1 .. pos, s[i] \notin Space PROVE \E k \in 1 .. at : q[k] = i
      OBVIOUS
    <3>2. i \in 1 .. n /\ raw[i] \notin Space
      BY <1>6, <1>8, <3>1
    <3>3. PICK k \in 1 .. m : src[k] = i
      BY <1>3, <3>2
    <3>4. k <= at
      BY <1>6, <3>3
    <3>5. k \in 1 .. at
      BY <1>5, <3>4
    <3>6. QED
      BY <1>12, <3>3, <3>5
  <2>5. QED
    BY <1>8, <1>10, <1>12, <2>1, <2>2, <2>3, <2>4 DEF Picked
<1>15. Without(u, Space) = Without(s, Space)
  BY <1>14, PickedWords
<1>16. QED
  BY <1>1, <1>2, <1>6, <1>7, <1>9, <1>15 DEF SameWords

-----------------------------------------------------------------------------
(* The text of a run: its characters in place, then its elements.           *)

RunParts(X, run, z) ==
  /\ z \in Seq(X) /\ (\A i \in DOMAIN z : z[i] \in Elements)
  /\ RunText(run) = Without(run.chars, Elements) \o z
  /\ (\A i \in DOMAIN run.chars : run.chars[i] \notin Elements) => z = <<>>

LEMMA RunTextParts ==
  ASSUME NEW X, "lf" \in X, NEW run, run.chars \in Seq(X)
  PROVE  \E z : RunParts(X, run, z)
<1>1. PICK chars \in Seq(X) : chars = run.chars
  OBVIOUS
<1>2. PICK w \in Seq(X), t \in Seq(X), breaks \in Seq(X) :
        w = Without(chars, Elements) /\ t = Only(chars, {"tab"}) /\ breaks = Only(chars, {"lf", "page"})
  BY WithoutIsText
<1>3. PICK l : l = [i \in DOMAIN breaks |-> "lf"]
  OBVIOUS
<1>4. l \in Seq(X) /\ l \in Seq({"lf"}) /\ (breaks = <<>> => l = <<>>)
  BY <1>3
<1>5. PICK z \in Seq(X) : z = t \o l
  BY <1>4, TwoPartsPutTogether
<1>6. \A i \in DOMAIN z : z[i] \in Elements
  <2>1. {"tab"} \subseteq Elements /\ {"lf"} \subseteq Elements
    BY DEF Elements
  <2>2. t \in Seq({"tab"})
    BY <1>2, OnlyHasThose
  <2>3. t \in Seq(Elements)
    BY <2>1, <2>2, WiderSequence
  <2>4. l \in Seq(Elements)
    BY <1>4, <2>1, WiderSequence
  <2>5. z \in Seq(Elements)
    BY <1>5, <2>3, <2>4, TwoPartsPutTogether
  <2>6. QED
    BY <2>5, MembersOfSequence
<1>7. RunText(run) = w \o z
  <2>1. RunText(run) = w \o t \o l
    BY <1>1, <1>2, <1>3 DEF RunText
  <2>2. (w \o t) \o l = w \o (t \o l)
    <3>1. Regroups(w, t, l)
      BY <1>4, Regrouped
    <3>2. QED
      BY <3>1, Zenon DEF Regroups
  <2>3. QED
    BY <1>5, <2>1, <2>2
<1>8. ASSUME \A i \in DOMAIN run.chars : run.chars[i] \notin Elements PROVE z = <<>>
  <2>1. \A i \in DOMAIN chars : chars[i] \notin {"tab"} /\ chars[i] \notin {"lf", "page"}
    BY <1>1, <1>8 DEF Elements
  <2>2. t = <<>>
    <3>1. \A i \in DOMAIN chars : chars[i] \notin {"tab"}
      BY <2>1
    <3>2. QED
      BY <1>2, <3>1, WithoutOfNone
  <2>3. breaks = <<>>
    <3>1. \A i \in DOMAIN chars : chars[i] \notin {"lf", "page"}
      BY <2>1
    <3>2. QED
      BY <1>2, <3>1, WithoutOfNone
  <2>4. QED
    BY <1>4, <1>5, <2>2, <2>3
<1>9. QED
  BY <1>1, <1>2, <1>6, <1>7, <1>8 DEF RunParts

LEMMA ElementsAreSpace == Elements \subseteq Space
  BY DEF Space

LEMMA RunTextWords ==
  ASSUME NEW X, "lf" \in X, NEW run, run.chars \in Seq(X)
  PROVE  /\ RunText(run) \in Seq(X)
         /\ Without(RunText(run), Space) = Without(run.chars, Space)
         /\ (\A i \in DOMAIN run.chars : run.chars[i] \notin Elements) => RunText(run) = run.chars
<1>1. PICK chars \in Seq(X) : chars = run.chars
  OBVIOUS
<1>2. PICK z0 : RunParts(X, run, z0)
  BY RunTextParts
<1>3. PICK z \in Seq(X), w \in Seq(X) :
        /\ z = z0 /\ w = Without(chars, Elements) /\ RunText(run) = w \o z
        /\ \A i \in DOMAIN z : z[i] \in Space
  <2>1. z0 \in Seq(X) /\ (\A i \in DOMAIN z0 : z0[i] \in Elements)
        /\ RunText(run) = Without(chars, Elements) \o z0
    BY <1>1, <1>2 DEF RunParts
  <2>2. Without(chars, Elements) \in Seq(X)
    BY WithoutIsText
  <2>3. QED
    BY <2>1, <2>2, ElementsAreSpace
<1>4. Without(w \o z, Space) = Without(w, Space) \o Without(z, Space)
  <2>1. Splits(w, z, Space)
    BY SplitParts
  <2>2. QED
    BY <2>1, Zenon DEF Splits
<1>5. Without(z, Space) = <<>>
  BY <1>3, WithoutOfAll
<1>6. Without(Without(chars, Elements), Space) = Without(chars, Space)
  BY ElementsAreSpace, WithoutTwice
<1>7. Without(w, Space) \o <<>> = Without(w, Space)
  <2>1. PICK y \in Seq(X) : y = Without(w, Space)
    BY WithoutIsText
  <2>2. y \o <<>> = y
    OBVIOUS
  <2>3. QED
    BY <2>1, <2>2
<1>8. (\A i \in DOMAIN run.chars : run.chars[i] \notin Elements) => RunText(run) = run.chars
  <2>1. SUFFICES ASSUME \A i \in DOMAIN run.chars : run.chars[i] \notin Elements
                 PROVE  RunText(run) = run.chars
    OBVIOUS
  <2>2. z = <<>>
    BY <1>2, <1>3, <2>1 DEF RunParts
  <2>3. Without(chars, Elements) = chars
    <3>1. \A i \in DOMAIN chars : chars[i] \notin Elements
      BY <1>1, <2>1
    <3>2. QED
      BY <3>1, WithoutOfNone
  <2>4. w \o <<>> = w
    OBVIOUS
  <2>5. QED
    BY <1>1, <1>3, <2>2, <2>3, <2>4
<1>9. w \o z \in Seq(X)
  BY TwoPartsPutTogether
<1>10. QED
  BY <1>1, <1>3, <1>4, <1>5, <1>6, <1>7, <1>8, <1>9

(* The first half of a run that is split: up to where it was split, it has  *)
(* the words of the run.                                                    *)
HalfFrom(X, run, b, off, half) ==
  /\ b \in Seq(X) /\ (\A i \in DOMAIN b : b[i] \in Elements)
  /\ half.chars = b \o Take(RunText(run), off)

LEMMA HalfWords ==
  ASSUME NEW X, "lf" \in X, NEW run, run.chars \in Seq(X), NEW off \in Nat, NEW k \in Nat, k <= off,
         NEW b, NEW half, HalfFrom(X, run, b, off, half)
  PROVE  Without(Take(RunText(half), k), Space) = Without(Take(RunText(run), k), Space)
<1>12. b \in Seq(X) /\ (\A i \in DOMAIN b : b[i] \in Elements) /\ half.chars = b \o Take(RunText(run), off)
  BY DEF HalfFrom
<1>1. PICK chars \in Seq(X), text \in Seq(X) : chars = run.chars /\ text = RunText(run)
  BY RunTextWords
<1>2. PICK z \in Seq(X), w \in Seq(X) :
        /\ w = Without(chars, Elements) /\ text = w \o z
        /\ \A i \in DOMAIN z : z[i] \in Elements
  <2>1. PICK z0 : RunParts(X, run, z0)
    BY RunTextParts
  <2>2. z0 \in Seq(X) /\ (\A i \in DOMAIN z0 : z0[i] \in Elements)
        /\ RunText(run) = Without(chars, Elements) \o z0
    BY <1>1, <2>1 DEF RunParts
  <2>3. Without(chars, Elements) \in Seq(X)
    BY WithoutIsText
  <2>4. QED
    BY <1>1, <2>2, <2>3
<1>3. PICK part \in Seq(X), first \in Seq(X) : part = Take(text, off) /\ first = Take(w, off)
  BY TakeIsPrefix
<1>4. Without(part, Elements) = first
  <2>1. Without(Take(w \o z, off), Elements) = Without(Take(w, off), Elements)
    BY <1>2, TakenWithout
  <2>2. \A i \in DOMAIN w : w[i] \notin Elements
    BY <1>2, WithoutHasNone
  <2>3. DOMAIN first \subseteq DOMAIN w /\ \A i \in DOMAIN first : first[i] = w[i]
    BY <1>3, TakeIsPrefix
  <2>4. \A i \in DOMAIN first : first[i] \notin Elements
    BY <2>2, <2>3
  <2>5. Without(first, Elements) = first
    BY <2>4, WithoutOfNone
  <2>6. QED
    BY <1>2, <1>3, <2>1, <2>5
<1>5. PICK more \in Seq(X) : more = b \o part /\ more = half.chars
  <2>1. b \o part \in Seq(X)
    BY <1>12, TwoPartsPutTogether
  <2>2. QED
    BY <1>1, <1>3, <1>12, <2>1
<1>6. Without(more, Elements) = first
  <2>1. Without(b \o part, Elements) = Without(b, Elements) \o Without(part, Elements)
    <3>1. Splits(b, part, Elements)
      BY <1>12, SplitParts
    <3>2. QED
      BY <3>1, Zenon DEF Splits
  <2>2. Without(b, Elements) = <<>>
    BY <1>12, WithoutOfAll
  <2>3. <<>> \o first = first
    OBVIOUS
  <2>4. QED
    BY <1>4, <1>5, <2>1, <2>2, <2>3
<1>7. PICK y \in Seq(X) : RunText(half) = first \o y /\ \A i \in DOMAIN y : y[i] \in Space
  <2>1. half.chars \in Seq(X)
    BY <1>5
  <2>2. PICK y0 : RunParts(X, half, y0)
    BY <2>1, RunTextParts
  <2>3. y0 \in Seq(X) /\ (\A i \in DOMAIN y0 : y0[i] \in Elements)
        /\ RunText(half) = Without(half.chars, Elements) \o y0
    BY <2>2 DEF RunParts
  <2>4. QED
    BY <1>5, <1>6, <2>3, ElementsAreSpace
<1>8. Without(Take(first \o y, k), Space) = Without(Take(first, k), Space)
  BY <1>7, TakenWithout
<1>9. Take(first, k) = Take(w, k)
  BY <1>3, TakeOfTaken
<1>10. Without(Take(w \o z, k), Space) = Without(Take(w, k), Space)
  <2>1. \A i \in DOMAIN z : z[i] \in Space
    BY <1>2, ElementsAreSpace
  <2>2. QED
    BY <2>1, TakenWithout
<1>11. QED
  BY <1>1, <1>2, <1>7, <1>8, <1>9, <1>10

-----------------------------------------------------------------------------
(* Sequences in parts.  Joined is concatenation kept folded: the provers    *)
(* take it for a symbol.                                                    *)

(* A sequence around one of its elements.                                   *)
Around(s, r, a, b) ==
  /\ a = SubSeq(s, 1, r - 1) /\ b = SubSeq(s, r + 1, Len(s))
  /\ Len(a) = r - 1 /\ s = a \o (<<s[r]>> \o b)

(* Any place divides a sequence.                                            *)
LEMMA AroundOne ==
  ASSUME NEW X, NEW s \in Seq(X), NEW r \in 1 .. Len(s)
  PROVE  \E a, b \in Seq(X) : Around(s, r, a, b)
<1>1. PICK n \in Nat : n = Len(s) /\ \A i \in 1 .. n : s[i] \in X
  OBVIOUS
<1>2. r - 1 \in Nat /\ r \in 1 .. n /\ r - 1 \in 0 .. n /\ r \in 0 .. n
  BY <1>1
<1>3. PICK a \in Seq(X) : a = SubSeq(s, 1, r - 1) /\ Len(a) = r - 1 /\ \A i \in 1 .. r - 1 : a[i] = s[i]
  <2>1. SubSeq(s, 1, r - 1) \in Seq(X) /\ Len(SubSeq(s, 1, r - 1)) = r - 1
        /\ \A i \in 1 .. r - 1 : SubSeq(s, 1, r - 1)[i] = s[i]
    BY <1>1, <1>2
  <2>2. QED
    BY <2>1
<1>4. PICK b \in Seq(X) : b = SubSeq(s, r + 1, Len(s)) /\ Len(b) = n - r /\ \A i \in 1 .. n - r : b[i] = s[r + i]
  <2>1. SubSeq(s, r + 1, Len(s)) \in Seq(X) /\ Len(SubSeq(s, r + 1, Len(s))) = n - r
        /\ \A i \in 1 .. n - r : SubSeq(s, r + 1, Len(s))[i] = s[r + i]
    BY <1>1, <1>2
  <2>2. QED
    BY <2>1
<1>5. PICK x \in X : x = s[r]
  BY <1>1, <1>2
<1>6. PICK c \in Seq(X) : c = <<x>> \o b /\ Len(c) = n - r + 1 /\ c[1] = x /\ \A i \in 1 .. n - r : c[1 + i] = b[i]
  <2>1. <<x>> \o b \in Seq(X) /\ Len(<<x>> \o b) = 1 + Len(b) /\ (<<x>> \o b)[1] = x
        /\ \A i \in 1 .. Len(b) : (<<x>> \o b)[1 + i] = b[i]
    OBVIOUS
  <2>2. 1 + Len(b) = n - r + 1 /\ Len(b) = n - r
    BY <1>1, <1>2, <1>4
  <2>3. QED
    BY <2>1, <2>2
<1>7. PICK d \in Seq(X) : d = a \o c /\ Len(d) = n /\ (\A i \in 1 .. r - 1 : d[i] = a[i])
                         /\ \A i \in 1 .. n - r + 1 : d[r - 1 + i] = c[i]
  <2>1. a \o c \in Seq(X) /\ Len(a \o c) = Len(a) + Len(c) /\ (\A i \in 1 .. Len(a) : (a \o c)[i] = a[i])
        /\ \A i \in 1 .. Len(c) : (a \o c)[Len(a) + i] = c[i]
    OBVIOUS
  <2>2. Len(a) = r - 1 /\ Len(c) = n - r + 1
    BY <1>3, <1>6
  <2>3. Len(a) + Len(c) = n
    BY <1>1, <1>2, <2>2
  <2>4. QED
    BY <2>1, <2>2, <2>3, ZenonT(40)
<1>8. \A i \in 1 .. n : d[i] = s[i]
  <2> TAKE i \in 1 .. n
  <2>1. CASE i < r
    <3>1. i \in 1 .. r - 1
      BY <2>1
    <3>2. QED
      BY <1>3, <1>7, <3>1
  <2>2. CASE i = r
    <3>1. 1 \in 1 .. n - r + 1 /\ r - 1 + 1 = r
      BY <1>2
    <3>2. d[r] = c[1]
      BY <1>7, <3>1
    <3>3. QED
      BY <1>5, <1>6, <2>2, <3>2
  <2>3. CASE i > r
    <3>1. i - r \in 1 .. n - r /\ 1 + (i - r) \in 1 .. n - r + 1 /\ r - 1 + (1 + (i - r)) = i /\ r + (i - r) = i
      BY <1>2, <2>3
    <3>2. d[i] = c[1 + (i - r)]
      BY <1>7, <3>1
    <3>3. c[1 + (i - r)] = b[i - r] /\ b[i - r] = s[i]
      BY <1>4, <1>6, <3>1
    <3>4. QED
      BY <3>2, <3>3
  <2>4. QED
    BY <2>1, <2>2, <2>3
<1>9. s = d
  BY <1>1, <1>7, <1>8, SameSequence
<1>10. QED
  BY <1>3, <1>4, <1>5, <1>6, <1>7, <1>9 DEF Around

(* Kept folded, the concatenation is a symbol to the provers.               *)
Joined(a, b) == a \o b

(* Concatenation, folded, is associative.                                   *)
LEMMA JoinedParts ==
  ASSUME NEW X, NEW r \in Seq(X), NEW s \in Seq(X), NEW t \in Seq(X)
  PROVE  /\ Joined(Joined(r, s), t) = Joined(r, Joined(s, t)) /\ Joined(r, s) \in Seq(X)
<1>1. Joined(r, s) \in Seq(X)
  BY DEF Joined
<1>2. Joined(Joined(r, s), t) = Joined(r, Joined(s, t))
  BY AppendedParts DEF Joined
<1>3. QED
  BY <1>1, <1>2

LEMMA FiveJoined ==
  ASSUME NEW X, NEW a \in Seq(X), NEW f \in Seq(X), NEW o \in Seq(X), NEW g \in Seq(X), NEW b \in Seq(X)
  PROVE  Joined(Joined(a, Joined(f, Joined(o, g))), b) = Joined(Joined(a, f), Joined(o, Joined(g, b)))
BY JoinedParts

LEMMA TwoOnes ==
  ASSUME NEW X, NEW y \in X, NEW z \in X
  PROVE  <<y, z>> = <<y>> \o <<z>>
<1>1. PICK s \in Seq(X), t \in Seq(X) : s = <<y>> \o <<z>> /\ t = <<y, z>>
  <2>1. <<y>> \o <<z>> \in Seq(X) /\ <<y, z>> \in Seq(X)
    OBVIOUS
  <2>2. QED
    BY <2>1
<1>2. Len(t) = 2 /\ t[1] = y /\ t[2] = z
  BY <1>1
<1>3. Len(s) = 2 /\ s[1] = y /\ s[2] = z
  <2>1. \A u, v \in Seq(X) : /\ Len(u \o v) = Len(u) + Len(v)
                            /\ (\A i \in 1 .. Len(u) : (u \o v)[i] = u[i])
                            /\ \A i \in 1 .. Len(v) : (u \o v)[Len(u) + i] = v[i]
    OBVIOUS
  <2>2. PICK u \in Seq(X), v \in Seq(X) : u = <<y>> /\ v = <<z>>
    <3>1. <<y>> \in Seq(X) /\ <<z>> \in Seq(X)
      OBVIOUS
    <3>2. QED
      BY <3>1
  <2>3. Len(u) = 1 /\ u[1] = y /\ Len(v) = 1 /\ v[1] = z
    BY <2>2
  <2>4. (u \o v)[1] = u[1] /\ (u \o v)[Len(u) + 1] = v[1] /\ Len(u \o v) = Len(u) + Len(v)
    <3>1. 1 \in 1 .. Len(u) /\ 1 \in 1 .. Len(v)
      BY <2>3
    <3>2. QED
      BY <2>1, <3>1
  <2>5. s = u \o v
    BY <1>1, <2>2
  <2>6. QED
    BY <2>3, <2>4, <2>5
<1>4. \A i \in 1 .. 2 : i = 1 \/ i = 2
  OBVIOUS
<1>5. \A i \in 1 .. Len(s) : s[i] = t[i]
  BY <1>2, <1>3, <1>4
<1>6. s = t
  BY <1>2, <1>3, <1>5, SameSequence
<1>7. QED
  BY <1>1, <1>6

LEMMA ThreeOnes ==
  ASSUME NEW X, NEW x \in X, NEW y \in X, NEW z \in X
  PROVE  <<x, y, z>> = <<x>> \o (<<y>> \o <<z>>) /\ <<x>> \in Seq(X) /\ <<z>> \in Seq(X)
<1>1. <<y>> \o <<z>> = <<y, z>>
  BY TwoOnes
<1>2. <<x>> \o <<y, z>> = <<x, y, z>>
  <2>1. PICK s \in Seq(X), t \in Seq(X), u \in Seq(X) : s = <<x, y, z>> /\ t = <<y, z>> /\ u = <<x>>
    <3>1. <<x, y, z>> \in Seq(X) /\ <<y, z>> \in Seq(X) /\ <<x>> \in Seq(X)
      OBVIOUS
    <3>2. QED
      BY <3>1
  <2>2. Len(s) = 3 /\ s[1] = x /\ s[2] = y /\ s[3] = z
    BY <2>1
  <2>3. Len(t) = 2 /\ t[1] = y /\ t[2] = z /\ Len(u) = 1 /\ u[1] = x
    BY <2>1
  <2>4. u \o t \in Seq(X) /\ Len(u \o t) = Len(u) + Len(t)
        /\ (\A i \in 1 .. Len(u) : (u \o t)[i] = u[i])
        /\ \A i \in 1 .. Len(t) : (u \o t)[Len(u) + i] = t[i]
    OBVIOUS
  <2>5. Len(u \o t) = 3 /\ (u \o t)[1] = x /\ (u \o t)[2] = y /\ (u \o t)[3] = z
    <3>1. 1 \in 1 .. Len(u) /\ 1 \in 1 .. Len(t) /\ 2 \in 1 .. Len(t)
      BY <2>3
    <3>2. (u \o t)[1] = u[1] /\ (u \o t)[Len(u) + 1] = t[1] /\ (u \o t)[Len(u) + 2] = t[2]
      BY <2>4, <3>1
    <3>3. QED
      BY <2>3, <2>4, <3>2
  <2>6. \A i \in 1 .. 3 : i = 1 \/ i = 2 \/ i = 3
    OBVIOUS
  <2>7. \A i \in 1 .. Len(s) : s[i] = (u \o t)[i]
    BY <2>2, <2>5, <2>6
  <2>8. s = u \o t
    BY <2>2, <2>4, <2>5, <2>7, SameSequence
  <2>9. QED
    BY <2>1, <2>8
<1>3. <<x>> \in Seq(X) /\ <<z>> \in Seq(X)
  OBVIOUS
<1>4. QED
  BY <1>1, <1>2, <1>3

(* Sequences alike at their first places have the same prefix.              *)
LEMMA SamePrefix ==
  ASSUME NEW X, NEW s \in Seq(X), NEW t \in Seq(X), NEW n \in Nat, n <= Len(s), n <= Len(t),
         \A i \in 1 .. n : s[i] = t[i]
  PROVE  SubSeq(s, 1, n) = SubSeq(t, 1, n)
<1>1. SubSeq(s, 1, n) \in Seq(X) /\ Len(SubSeq(s, 1, n)) = n /\ \A i \in 1 .. n : SubSeq(s, 1, n)[i] = s[i]
  OBVIOUS
<1>2. SubSeq(t, 1, n) \in Seq(X) /\ Len(SubSeq(t, 1, n)) = n /\ \A i \in 1 .. n : SubSeq(t, 1, n)[i] = t[i]
  OBVIOUS
<1>3. PICK u \in Seq(X), v \in Seq(X) : u = SubSeq(s, 1, n) /\ v = SubSeq(t, 1, n)
  BY <1>1, <1>2
<1>4. Len(u) = Len(v) /\ \A i \in 1 .. Len(u) : u[i] = v[i]
  BY <1>1, <1>2, <1>3
<1>5. u = v
  BY <1>4, SameSequence
<1>6. QED
  BY <1>3, <1>5

(* A sequence in three parts: its beginning.                                *)
Begins(X, new, a, f, x) ==
  /\ new \in Seq(X) /\ Len(new) > Len(a) /\ \A i \in 1 .. Len(a) : new[i] = a[i]
  /\ f = <<>> => new[Len(a) + 1] = x
  /\ Len(f) > 0 => new[Len(a) + 1] = f[1]

LEMMA Beginning ==
  ASSUME NEW X, NEW a \in Seq(X), NEW f \in Seq(X), NEW x \in X, NEW c \in Seq(X), NEW new,
         new = Joined(Joined(a, f), Joined(<<x>>, c))
  PROVE  Begins(X, new, a, f, x)
<1>0. \A u, v \in Seq(X) : /\ Joined(u, v) \in Seq(X) /\ Len(Joined(u, v)) = Len(u) + Len(v)
                           /\ (\A i \in 1 .. Len(u) : Joined(u, v)[i] = u[i])
                           /\ \A i \in 1 .. Len(v) : Joined(u, v)[Len(u) + i] = v[i]
  BY DEF Joined
<1>1. PICK o \in Seq(X) : o = <<x>> /\ Len(o) = 1 /\ o[1] = x
  <2>1. <<x>> \in Seq(X) /\ Len(<<x>>) = 1 /\ <<x>>[1] = x
    OBVIOUS
  <2>2. QED
    BY <2>1
<1>2. PICK d \in Seq(X) : d = Joined(o, c) /\ Len(d) >= 1 /\ d[1] = x
  <2>1. Joined(o, c) \in Seq(X) /\ Len(Joined(o, c)) = Len(o) + Len(c)
        /\ \A i \in 1 .. Len(o) : Joined(o, c)[i] = o[i]
    BY <1>0
  <2>2. 1 \in 1 .. Len(o) /\ Len(c) \in Nat
    BY <1>1
  <2>3. Joined(o, c)[1] = x
    BY <1>1, <2>1, <2>2
  <2>4. Len(Joined(o, c)) >= 1
    BY <1>1, <2>1, <2>2
  <2>5. QED
    BY <2>1, <2>3, <2>4
<1>3. Joined(a, f) \in Seq(X) /\ Len(Joined(a, f)) = Len(a) + Len(f)
      /\ (\A i \in 1 .. Len(a) : Joined(a, f)[i] = a[i])
      /\ \A i \in 1 .. Len(f) : Joined(a, f)[Len(a) + i] = f[i]
  BY <1>0
<1>4. PICK e \in Seq(X) : e = Joined(a, f)
  BY <1>3
<1>5. Len(e) = Len(a) + Len(f) /\ (\A i \in 1 .. Len(a) : e[i] = a[i]) /\ \A i \in 1 .. Len(f) : e[Len(a) + i] = f[i]
  BY <1>3, <1>4
<1>6. new = Joined(e, d)
  BY <1>1, <1>2, <1>4
<1>7. Joined(e, d) \in Seq(X) /\ Len(Joined(e, d)) = Len(e) + Len(d) /\ (\A i \in 1 .. Len(e) : Joined(e, d)[i] = e[i])
      /\ \A i \in 1 .. Len(d) : Joined(e, d)[Len(e) + i] = d[i]
  BY <1>0
<1>8. PICK n \in Seq(X) : n = new /\ Len(n) = Len(e) + Len(d) /\ (\A i \in 1 .. Len(e) : n[i] = e[i])
      /\ \A i \in 1 .. Len(d) : n[Len(e) + i] = d[i]
  BY <1>6, <1>7
<1> HIDE <1>0, <1>1, <1>3, <1>4, <1>6, <1>7
<1>20. d[1] = x /\ Len(d) >= 1
  BY <1>2
<1>21. n = new
  BY <1>8
<1> HIDE <1>2
<1>9. Len(a) \in Nat /\ Len(f) \in Nat /\ Len(d) \in Nat /\ Len(e) \in Nat
  OBVIOUS
<1>10. Len(n) > Len(a)
  BY <1>20, <1>5, <1>8, <1>9
<1>11. \A i \in 1 .. Len(a) : n[i] = a[i]
  <2>1. \A i \in 1 .. Len(a) : i \in 1 .. Len(e)
    BY <1>5, <1>9
  <2>2. QED
    BY <1>5, <1>8, <2>1
<1>12. f = <<>> => n[Len(a) + 1] = x
  <2>1. SUFFICES ASSUME f = <<>> PROVE n[Len(a) + 1] = x
    OBVIOUS
  <2>2. Len(f) = 0
    BY <2>1
  <2>3. Len(e) = Len(a) /\ 1 \in 1 .. Len(d)
    BY <1>20, <1>5, <1>9, <2>2
  <2>4. n[Len(e) + 1] = d[1]
    BY <1>8, <2>3
  <2>5. QED
    BY <1>20, <2>3, <2>4
<1>13. Len(f) > 0 => n[Len(a) + 1] = f[1]
  <2>1. SUFFICES ASSUME Len(f) > 0 PROVE n[Len(a) + 1] = f[1]
    OBVIOUS
  <2>2. 1 \in 1 .. Len(f) /\ Len(a) + 1 \in 1 .. Len(e)
    BY <1>5, <1>9, <2>1
  <2>3. QED
    BY <1>5, <1>8, <2>2
<1>14. QED
  BY <1>10, <1>11, <1>12, <1>13, <1>21 DEF Begins

(* Runs that begin with the same words.                                     *)
SameStart(half, run, n) ==
  Without(Take(RunText(half), n), Space) = Without(Take(RunText(run), n), Space)
HalvesStart(X, off) ==
  \A run, b, half : HalfFrom(X, run, b, off, half) /\ run.chars \in Seq(X) =>
    \A k \in 0 .. off : SameStart(half, run, k)

LEMMA HalvesStartAlike ==
  ASSUME NEW X, "lf" \in X, NEW off \in Nat
  PROVE  HalvesStart(X, off)
<1>1. SUFFICES ASSUME NEW run, NEW b, NEW half, HalfFrom(X, run, b, off, half), run.chars \in Seq(X),
                      NEW k \in 0 .. off
               PROVE  SameStart(half, run, k)
  BY DEF HalvesStart
<1>2. k \in Nat /\ k <= off
  OBVIOUS
<1>3. Without(Take(RunText(half), k), Space) = Without(Take(RunText(run), k), Space)
  BY <1>1, <1>2, HalfWords
<1>4. QED
  BY <1>3 DEF SameStart

(* A sequence in two parts, place by place.                                 *)
Joins(X, u, v, t) ==
  /\ t \in Seq(X) /\ Len(t) = Len(u) + Len(v)
  /\ \A i \in 1 .. Len(u) : t[i] = u[i]
  /\ \A i \in 1 .. Len(v) : t[Len(u) + i] = v[i]

LEMMA JoinedJoins ==
  ASSUME NEW X, NEW u \in Seq(X), NEW v \in Seq(X)
  PROVE  /\ Joins(X, u, v, Joined(u, v))
         /\ \E t \in Seq(X) : t = Joined(u, v) /\ Joins(X, u, v, t)
<1>1. Joins(X, u, v, Joined(u, v))
  BY DEF Joined, Joins
<1>2. Joined(u, v) \in Seq(X)
  BY DEF Joined
<1>3. QED
  BY <1>1, <1>2

(* A sequence that has the parts, place by place, is their concatenation.   *)
LEMMA JoinsAreJoined ==
  ASSUME NEW X, NEW u \in Seq(X), NEW v \in Seq(X), NEW t, Joins(X, u, v, t)
  PROVE  t = Joined(u, v)
<1>1. PICK s \in Seq(X) : s = Joined(u, v) /\ Joins(X, u, v, s)
  BY JoinedJoins
<1>2. PICK r \in Seq(X) : r = t /\ Joins(X, u, v, r)
  BY DEF Joins
<1>3. Len(r) = Len(s)
  BY <1>1, <1>2 DEF Joins
<1>4. ASSUME NEW i \in 1 .. Len(r) PROVE r[i] = s[i]
  <2>1. CASE i \in 1 .. Len(u)
    BY <1>1, <1>2, <2>1 DEF Joins
  <2>2. CASE i \notin 1 .. Len(u)
    <3>1. Len(u) \in Nat /\ Len(v) \in Nat /\ Len(r) = Len(u) + Len(v)
      BY <1>2 DEF Joins
    <3>2. i - Len(u) \in 1 .. Len(v) /\ Len(u) + (i - Len(u)) = i
      BY <2>2, <3>1
    <3>3. r[Len(u) + (i - Len(u))] = v[i - Len(u)]
      BY <1>2, <3>2 DEF Joins
    <3>4. s[Len(u) + (i - Len(u))] = v[i - Len(u)]
      BY <1>1, <3>2 DEF Joins
    <3>5. QED
      BY <3>2, <3>3, <3>4
  <2>3. QED
    BY <2>1, <2>2
<1>5. r = s
  BY <1>3, <1>4, SameSequence
<1>6. QED
  BY <1>1, <1>2, <1>5

(* Two ways to divide one sequence.                                         *)
LEMMA JoinedPrefix ==
  ASSUME NEW X, NEW a \in Seq(X), NEW b \in Seq(X), NEW x \in Seq(X), NEW y \in Seq(X),
         Joined(a, b) = Joined(x, y), Len(a) <= Len(x)
  PROVE  \E z \in Seq(X) : x = Joined(a, z) /\ b = Joined(z, y)
<1>1. PICK t \in Seq(X) : t = Joined(a, b) /\ Joins(X, a, b, t)
  BY JoinedJoins
<1>2. Joins(X, x, y, t)
  <2>1. Joins(X, x, y, Joined(x, y))
    BY JoinedJoins
  <2>2. QED
    BY <1>1, <2>1
<1>3. /\ Len(a) \in Nat /\ Len(b) \in Nat /\ Len(x) \in Nat /\ Len(y) \in Nat
      /\ Len(a) + Len(b) = Len(x) + Len(y)
  BY <1>1, <1>2 DEF Joins
<1>4. PICK n \in Nat : n = Len(x) - Len(a)
  <2>1. Len(x) - Len(a) \in Nat
    BY <1>3
  <2>2. QED
    BY <2>1
<1>5. PICK z \in Seq(X) : Len(z) = n /\ \A i \in 1 .. n : z[i] = x[Len(a) + i]
  <2>1. [i \in 1 .. n |-> x[Len(a) + i]] \in Seq(X)
    <3>1. \A i \in 1 .. n : x[Len(a) + i] \in X
      BY <1>3, <1>4
    <3>2. QED
      BY <3>1
  <2>2. PICK z \in Seq(X) : z = [i \in 1 .. n |-> x[Len(a) + i]]
    BY <2>1
  <2>3. Len(z) = n /\ \A i \in 1 .. n : z[i] = x[Len(a) + i]
    BY <2>2
  <2>4. QED
    BY <2>3
<1>6. Joins(X, a, z, x)
  <2>1. Len(x) = Len(a) + Len(z)
    BY <1>3, <1>4, <1>5
  <2>2. \A i \in 1 .. Len(a) : i \in 1 .. Len(x)
    BY <1>3
  <2>3. \A i \in 1 .. Len(a) : x[i] = a[i]
    BY <1>1, <1>2, <2>2 DEF Joins
  <2>4. QED
    BY <1>5, <2>1, <2>3 DEF Joins
<1>7. Joins(X, z, y, b)
  <2>1. Len(b) = Len(z) + Len(y)
    BY <1>3, <1>4, <1>5
  <2>2. ASSUME NEW i \in 1 .. Len(z) PROVE b[i] = z[i]
    <3>1. i \in 1 .. Len(b) /\ Len(a) + i \in 1 .. Len(x) /\ i \in 1 .. n
      BY <1>3, <1>4, <1>5
    <3>2. t[Len(a) + i] = b[i] /\ t[Len(a) + i] = x[Len(a) + i]
      BY <1>1, <1>2, <3>1 DEF Joins
    <3>3. QED
      BY <1>5, <3>1, <3>2
  <2>3. ASSUME NEW i \in 1 .. Len(y) PROVE b[Len(z) + i] = y[i]
    <3>1. Len(z) + i \in 1 .. Len(b) /\ Len(x) + i = Len(a) + (Len(z) + i)
      BY <1>3, <1>4, <1>5
    <3>2. t[Len(a) + (Len(z) + i)] = b[Len(z) + i]
      BY <1>1, <3>1 DEF Joins
    <3>3. t[Len(x) + i] = y[i]
      BY <1>2 DEF Joins
    <3>4. QED
      BY <3>1, <3>2, <3>3
  <2>4. QED
    BY <2>1, <2>2, <2>3 DEF Joins
<1>8. QED
  BY <1>6, <1>7, JoinsAreJoined

Holds(X, m, u, v, t) ==
  /\ t \in Seq(X) /\ Len(t) = Len(u) + (1 + Len(v)) /\ t[Len(u) + 1] = m
  /\ \A i \in 1 .. Len(u) : t[i] = u[i]
  /\ \A i \in 1 .. Len(v) : t[Len(u) + (1 + i)] = v[i]

LEMMA JoinedOne ==
  ASSUME NEW X, NEW m \in X, NEW u \in Seq(X), NEW v \in Seq(X), NEW t,
         t = Joined(u, Joined(<<m>>, v))
  PROVE  Holds(X, m, u, v, t)
<1>1. PICK o \in Seq(X) : o = <<m>> /\ Len(o) = 1 /\ o[1] = m
  <2>1. <<m>> \in Seq(X) /\ Len(<<m>>) = 1 /\ <<m>>[1] = m
    OBVIOUS
  <2>2. QED
    BY <2>1
<1>2. PICK d \in Seq(X) : d = Joined(o, v) /\ Joins(X, o, v, d)
  BY JoinedJoins
<1>3. Joins(X, u, d, Joined(u, d))
  BY JoinedJoins
<1>4. Joins(X, u, d, t)
  BY <1>1, <1>2, <1>3
<1>5. Len(d) = 1 + Len(v) /\ d[1] = m /\ \A i \in 1 .. Len(v) : d[1 + i] = v[i]
  BY <1>1, <1>2 DEF Joins
<1>6. Len(v) \in Nat /\ Len(u) \in Nat
  OBVIOUS
<1>7. \A i \in 1 .. Len(v) : 1 + i \in 1 .. Len(d)
  BY <1>5, <1>6
<1>8. 1 \in 1 .. Len(d)
  BY <1>5, <1>6
<1>9. QED
  BY <1>4, <1>5, <1>7, <1>8 DEF Joins, Holds

(* A member that stands once divides a sequence in one way.                 *)
SameParts(u, v, x, y) == u = x /\ v = y

LEMMA OneToken ==
  ASSUME NEW X, NEW m \in X, NEW u \in Seq(X), NEW v \in Seq(X),
         NEW x \in Seq(X \ {m}), NEW y \in Seq(X \ {m}),
         NEW d, NEW e, d = Joined(<<m>>, v), e = Joined(<<m>>, y), Joined(u, d) = Joined(x, e)
  PROVE  SameParts(u, v, x, y)
<1>1. PICK t : t = Joined(u, Joined(<<m>>, v)) /\ t = Joined(x, Joined(<<m>>, y))
  OBVIOUS
<1>2. /\ t \in Seq(X) /\ Len(t) = Len(u) + (1 + Len(v)) /\ t[Len(u) + 1] = m
      /\ \A i \in 1 .. Len(u) : t[i] = u[i]
      /\ \A i \in 1 .. Len(v) : t[Len(u) + (1 + i)] = v[i]
  <2>1. Holds(X, m, u, v, t)
    BY <1>1, JoinedOne
  <2>2. QED
    BY <2>1 DEF Holds
<1>3. PICK p \in Seq(X), q \in Seq(X) : p = x /\ q = y
  <2>1. X \ {m} \subseteq X
    OBVIOUS
  <2>2. QED
    BY <2>1, WiderSequence
<1>4. /\ Len(t) = Len(p) + (1 + Len(q)) /\ t[Len(p) + 1] = m
      /\ \A i \in 1 .. Len(p) : t[i] = p[i]
      /\ \A i \in 1 .. Len(q) : t[Len(p) + (1 + i)] = q[i]
  <2>1. t = Joined(p, Joined(<<m>>, q))
    BY <1>1, <1>3
  <2>2. Holds(X, m, p, q, t)
    BY <2>1, JoinedOne
  <2>3. QED
    BY <2>2 DEF Holds
<1>5. (\A i \in 1 .. Len(p) : p[i] # m) /\ \A i \in 1 .. Len(q) : q[i] # m
  BY <1>3
<1> HIDE <1>1
<1>6. Len(u) \in Nat /\ Len(v) \in Nat /\ Len(p) \in Nat /\ Len(q) \in Nat
  OBVIOUS
<1>7. Len(u) = Len(p)
  <2>1. CASE Len(u) < Len(p)
    <3>1. Len(u) + 1 \in 1 .. Len(p)
      BY <1>6, <2>1
    <3>2. QED
      BY <1>2, <1>4, <1>5, <3>1
  <2>2. CASE Len(u) > Len(p)
    <3>3. Len(u) - Len(p) \in Nat
      BY <1>6, <2>2
    <3>1. PICK i \in Nat : i = Len(u) - Len(p)
      BY <3>3
    <3>2. i \in 1 .. Len(q) /\ Len(p) + (1 + i) = Len(u) + 1
      BY <1>2, <1>4, <1>6, <2>2, <3>1
    <3>4. QED
      BY <1>2, <1>4, <1>5, <3>2, ZenonT(40)
  <2>3. QED
    BY <1>6, <2>1, <2>2
<1>8. Len(v) = Len(q)
  BY <1>2, <1>4, <1>6, <1>7
<1>9. u = p
  <2>1. \A i \in 1 .. Len(u) : u[i] = p[i]
    BY <1>2, <1>4, <1>7
  <2>2. QED
    BY <1>7, <2>1, SameSequence
<1>10. v = q
  <2>1. \A i \in 1 .. Len(v) : v[i] = q[i]
    BY <1>2, <1>4, <1>7, <1>8
  <2>2. QED
    BY <1>8, <2>1, SameSequence
<1>11. QED
  BY <1>3, <1>9, <1>10 DEF SameParts

-----------------------------------------------------------------------------
(* Dividing a sequence: extensions, absent members and slices.              *)

(* The parts of a sequence over a set are over it.                          *)
LEMMA PartsWithin ==
  ASSUME NEW X, NEW T, NEW a \in Seq(X), NEW b \in Seq(X), Joined(a, b) \in Seq(T)
  PROVE  a \in Seq(T) /\ b \in Seq(T)
<1>1. Joins(X, a, b, Joined(a, b))
  BY JoinedJoins
<1>2. PICK t \in Seq(T) : t = Joined(a, b) /\ Joins(X, a, b, t)
  BY <1>1
<1>3. Len(t) = Len(a) + Len(b) /\ Len(a) \in Nat /\ Len(b) \in Nat
  BY <1>2 DEF Joins
<1>4. ASSUME NEW i \in 1 .. Len(a) PROVE a[i] \in T
  <2>1. i \in 1 .. Len(t) /\ t[i] = a[i]
    BY <1>2, <1>3 DEF Joins
  <2>2. QED
    BY <2>1
<1>5. ASSUME NEW i \in 1 .. Len(b) PROVE b[i] \in T
  <2>1. Len(a) + i \in 1 .. Len(t) /\ t[Len(a) + i] = b[i]
    BY <1>2, <1>3 DEF Joins
  <2>2. QED
    BY <2>1
<1>6. a \in Seq(T)
  BY <1>4
<1>7. b \in Seq(T)
  BY <1>5
<1>8. QED
  BY <1>6, <1>7

(* A sequence without a member; two ways to divide one, the second further  *)
(* on.                                                                      *)
Lacks(a, m) == \A i \in DOMAIN a : a[i] # m
Extends(X, a, b, x, d) == \E z \in Seq(X) : x = Joined(a, z) /\ b = Joined(z, d)

(* A division before one that another extends.                              *)
LEMMA ExtendsBefore ==
  ASSUME NEW X, NEW a \in Seq(X), NEW b \in Seq(X), NEW x \in Seq(X), NEW y \in Seq(X), NEW m \in X,
         NEW d, d = Joined(<<m>>, y), Joined(a, b) = Joined(x, d), Lacks(a, m)
  PROVE  Extends(X, a, b, x, d)
<1>1. PICK t : t = Joined(x, Joined(<<m>>, y)) /\ t = Joined(a, b)
  OBVIOUS
<1>2. Holds(X, m, x, y, t)
  BY <1>1, JoinedOne
<1>3. Joins(X, a, b, t)
  <2>1. Joins(X, a, b, Joined(a, b))
    BY JoinedJoins
  <2>2. QED
    BY <1>1, <2>1
<1>4. Len(a) <= Len(x)
  <2>1. Len(a) \in Nat /\ Len(x) \in Nat
    OBVIOUS
  <2>2. SUFFICES ASSUME Len(a) > Len(x) PROVE FALSE
    BY <2>1
  <2>3. Len(x) + 1 \in 1 .. Len(a)
    BY <2>1, <2>2
  <2>4. t[Len(x) + 1] = a[Len(x) + 1]
    BY <1>3, <2>3 DEF Joins
  <2>5. t[Len(x) + 1] = m
    BY <1>2 DEF Holds
  <2>6. Len(x) + 1 \in DOMAIN a
    BY <2>3
  <2>7. QED
    BY <2>4, <2>5, <2>6 DEF Lacks
<1>5. PICK e \in Seq(X) : e = d
  <2>1. <<m>> \in Seq(X)
    OBVIOUS
  <2>2. QED
    BY <2>1, JoinedParts
<1>6. Joined(a, b) = Joined(x, e)
  BY <1>5
<1>7. \E z \in Seq(X) : x = Joined(a, z) /\ b = Joined(z, e)
  BY <1>4, <1>6, JoinedPrefix
<1>8. QED
  BY <1>5, <1>7 DEF Extends

(* A member that is not taken out stays.                                    *)
LEMMA NotWithout ==
  ASSUME NEW X, NEW m \in X, NEW u \in Seq(X), NEW v \in Seq(X)
  PROVE  Joined(u, Joined(<<m>>, v)) \notin Seq(X \ {m})
<1>1. PICK t : t = Joined(u, Joined(<<m>>, v))
  OBVIOUS
<1>2. Holds(X, m, u, v, t)
  BY <1>1, JoinedOne
<1>3. Len(u) + 1 \in 1 .. Len(t) /\ t[Len(u) + 1] = m
  <2>1. Len(u) \in Nat /\ Len(v) \in Nat
    OBVIOUS
  <2>2. QED
    BY <1>2, <2>1 DEF Holds
<1>4. t \notin Seq(X \ {m})
  BY <1>3
<1>5. QED
  BY <1>1, <1>4

LEMMA JoinedMaps ==
  ASSUME NEW X, NEW Y, NEW F \in Expansions(X, Y), NEW s \in Seq(X), NEW t \in Seq(X)
  PROVE  Mapped(F, Joined(s, t)) = Joined(Mapped(F, s), Mapped(F, t))
<1>1. Mapped(F, s \o t) = Mapped(F, s) \o Mapped(F, t)
  BY MappedOfParts
<1>2. QED
  BY <1>1, Zenon DEF Joined

LEMMA TakeJoined ==
  ASSUME NEW X, NEW s \in Seq(X), NEW t \in Seq(X), NEW k \in Nat
  PROVE  Take(Joined(s, t), Len(s) + k) = Joined(s, Take(t, k))
<1>1. Len(s) \in Nat
  OBVIOUS
<1>2. CASE k = 0
  <2>1. Take(s \o t, Len(s)) = Take(s, Len(s))
    BY <1>1, TakeOfParts
  <2>2. Take(s, Len(s)) = s
    BY <1>1, TakeAll
  <2>3. Take(t, 0) = <<>>
    BY TakeAll
  <2>4. s \o <<>> = s
    BY NothingAppended
  <2>5. Joined(s, t) = s \o t /\ Joined(s, <<>>) = s \o <<>>
    BY Zenon DEF Joined
  <2>6. Len(s) + k = Len(s)
    BY <1>1, <1>2
  <2>7. QED
    BY <1>2, <2>1, <2>2, <2>3, <2>4, <2>5, <2>6
<1>3. CASE k > 0
  <2>1. PICK n \in Nat : n = Len(s) + k
    BY <1>1
  <2>2. n > Len(s) /\ n - Len(s) = k
    BY <1>1, <1>3, <2>1
  <2>3. Take(s \o t, n) = s \o Take(t, n - Len(s))
    <3>1. Takes(s, t, n)
      BY TakeParts
    <3>2. QED
      BY <2>2, <3>1, Zenon DEF Takes
  <2>4. s \o Take(t, n - Len(s)) = s \o Take(t, k)
    BY <2>2
  <2>5. Take(s \o t, n) = s \o Take(t, k)
    BY <2>3, <2>4
  <2>6. QED
    BY <2>1, <2>5, Zenon DEF Joined
<1>4. QED
  BY <1>2, <1>3

LEMMA OneLonger ==
  ASSUME NEW X, NEW s \in Seq(X), NEW q \in 1 .. Len(s)
  PROVE  /\ SubSeq(s, 1, q - 1) \in Seq(X) /\ SubSeq(s, 1, q) \in Seq(X) /\ <<s[q]>> \in Seq(X)
         /\ SubSeq(s, 1, q) = Joined(SubSeq(s, 1, q - 1), <<s[q]>>)
<1>1. SubSeq(s, 1, q - 1) \in Seq(X) /\ SubSeq(s, 1, q) \in Seq(X) /\ <<s[q]>> \in Seq(X)
  OBVIOUS
<1>2. PICK u \in Seq(X), v \in Seq(X), o \in Seq(X) :
        u = SubSeq(s, 1, q) /\ v = SubSeq(s, 1, q - 1) /\ o = <<s[q]>>
  BY <1>1
<1>3. /\ Len(u) = q /\ (\A i \in 1 .. q : u[i] = s[i])
      /\ Len(v) = q - 1 /\ (\A i \in 1 .. q - 1 : v[i] = s[i])
      /\ Len(o) = 1 /\ o[1] = s[q]
  BY <1>2
<1>4. Joins(X, v, o, u)
  <2>1. Len(u) = Len(v) + Len(o)
    BY <1>3
  <2>2. \A i \in 1 .. Len(v) : u[i] = v[i]
    BY <1>3, SMTT(40)
  <2>3. \A i \in 1 .. Len(o) : u[Len(v) + i] = o[i]
    BY <1>3
  <2>4. QED
    BY <2>1, <2>2, <2>3 DEF Joins
<1>5. u = Joined(v, o)
  BY <1>4, JoinsAreJoined
<1>6. QED
  BY <1>1, <1>2, <1>5

(* A slice of a text is a text.                                             *)
LEMMA SliceTyped ==
  ASSUME NEW X, NEW s \in Seq(X), NEW a \in Nat, NEW b \in Nat, a <= b, b <= Len(s)
  PROVE  Slice(s, a, b) \in Seq(X) /\ Len(Slice(s, a, b)) = b - a
BY DEF Slice

LEMMA TwoPieces ==
  ASSUME NEW X, NEW a \in Seq(X), NEW b \in Seq(X), NEW c \in Seq(X), Len(c) = Len(a) + Len(b),
         \A k \in 1 .. Len(a) : c[k] = a[k], \A k \in 1 .. Len(b) : c[Len(a) + k] = b[k]
  PROVE  Joined(a, b) = c
<1>0. a \o b \in Seq(X)
  OBVIOUS
<1>1. PICK d \in Seq(X) : d = a \o b
  BY <1>0
<1>2. Len(d) = Len(a) + Len(b)
  BY <1>1
<1>3. ASSUME NEW k \in 1 .. Len(a) + Len(b)
      PROVE  d[k] = c[k]
  <2>1. CASE k <= Len(a)
    BY <1>1, <2>1
  <2>2. CASE k > Len(a)
    <3>1. k - Len(a) \in 1 .. Len(b) /\ k = Len(a) + (k - Len(a))
      BY <2>2
    <3>2. d[k] = b[k - Len(a)]
      BY <1>1, <2>2
    <3> QED
      BY <3>1, <3>2
  <2> QED
    BY <2>1, <2>2
<1>4. d = c
  BY <1>2, <1>3, SameSequence
<1> QED
  BY <1>1, <1>4 DEF Joined

(* The text before an offset in a part of a text.                           *)
LEMMA TextBefore ==
  ASSUME NEW X, NEW t \in Seq(X), NEW i \in Nat, NEW j \in Nat, i <= j, j <= Len(t),
         NEW u, u = Slice(t, i, j), NEW n \in Nat, n <= j - i
  PROVE  Joined(Slice(t, 0, i), SubSeq(u, 1, n)) = Take(t, i + n)
<1>0. Slice(t, 0, i) \in Seq(X)
  BY DEF Slice
<1>1. PICK a \in Seq(X) : a = Slice(t, 0, i)
  BY <1>0
<1>2. Len(a) = i /\ \A k \in 1 .. i : a[k] = t[k]
  BY <1>1 DEF Slice
<1>3. u \in Seq(X) /\ Len(u) = j - i /\ \A k \in 1 .. j - i : u[k] = t[i + k]
  BY DEF Slice
<1>4. PICK b \in Seq(X) : b = SubSeq(u, 1, n)
  <2>1. SubSeq(u, 1, n) \in Seq(X)
    BY <1>3
  <2> QED
    BY <2>1
<1>5. Len(b) = n /\ \A k \in 1 .. n : b[k] = t[i + k]
  BY <1>3, <1>4
<1>6. i + n \in Nat /\ i + n <= Len(t)
  OBVIOUS
<1>7. Take(t, i + n) = SubSeq(t, 1, i + n)
  BY <1>6 DEF Take
<1>8. PICK c \in Seq(X) : c = SubSeq(t, 1, i + n)
  <2>1. SubSeq(t, 1, i + n) \in Seq(X)
    BY <1>6
  <2> QED
    BY <2>1
<1>9. Len(c) = i + n /\ \A k \in 1 .. i + n : c[k] = t[k]
  BY <1>6, <1>8
<1>10. /\ Len(c) = Len(a) + Len(b)
       /\ \A k \in 1 .. Len(a) : c[k] = a[k]
       /\ \A k \in 1 .. Len(b) : c[Len(a) + k] = b[k]
  <2>1. \A k \in 1 .. n : i + k \in 1 .. i + n
    OBVIOUS
  <2>2. \A k \in 1 .. i : k \in 1 .. i + n
    OBVIOUS
  <2>3. \A k \in 1 .. n : c[i + k] = b[k]
    BY <1>5, <1>9, <2>1
  <2>4. \A k \in 1 .. i : c[k] = a[k]
    BY <1>2, <1>9, <2>2
  <2> QED
    BY <1>2, <1>5, <1>9, <2>3, <2>4
<1>11. Joined(a, b) = c
  BY <1>10, TwoPieces
<1> QED
  BY <1>1, <1>4, <1>7, <1>8, <1>11

-----------------------------------------------------------------------------
(* Normalization drops no word, and a sequence has one division at a        *)
(* length.                                                                  *)

(* What follows the same beginning is the same.                             *)
LEMMA SameBeginning ==
  ASSUME NEW X, NEW a \in Seq(X), NEW b \in Seq(X), NEW y \in Seq(X), Joined(a, b) = Joined(a, y)
  PROVE  b = y
<1>1. PICK t \in Seq(X) : t = Joined(a, b) /\ Joins(X, a, b, t)
  BY JoinedJoins
<1>2. Joins(X, a, y, t)
  <2>1. Joins(X, a, y, Joined(a, y))
    BY JoinedJoins
  <2> QED
    BY <1>1, <2>1
<1>3. Len(a) \in Nat /\ Len(b) \in Nat /\ Len(y) \in Nat
  OBVIOUS
<1>4. Len(b) = Len(y)
  BY <1>1, <1>2, <1>3 DEF Joins
<1>5. \A i \in 1 .. Len(b) : b[i] = y[i]
  BY <1>1, <1>2, <1>4 DEF Joins
<1> QED
  BY <1>4, <1>5, SameSequence

(* A beginning of the first part of a sequence, and what follows it.        *)
Split(X, t, n, a, b, c, d) ==
  /\ c \in Seq(X) /\ d \in Seq(X) /\ a = Joined(c, d) /\ c = Take(a, n)
  /\ SubSeq(t, 1, n) = c /\ SubSeq(t, n + 1, Len(t)) = Joined(d, b)

(* The division of the first part, and of the whole.                        *)
LEMMA SplitPart ==
  ASSUME NEW X, NEW a \in Seq(X), NEW b \in Seq(X), NEW n \in Nat, n <= Len(a), NEW t, t = Joined(a, b)
  PROVE  \E c, d : Split(X, t, n, a, b, c, d)
<1>1. t \in Seq(X) /\ Joins(X, a, b, t)
  BY JoinedJoins
<1>2. PICK p \in Nat, q \in Nat : p = Len(a) /\ q = Len(b) /\ Len(t) = p + q /\ n <= p
  BY <1>1 DEF Joins
<1>3. PICK c \in Seq(X) : c = SubSeq(a, 1, n) /\ Len(c) = n /\ \A i \in 1 .. n : c[i] = a[i]
  <2>1. n \in 0 .. Len(a)
    BY <1>2
  <2>2. SubSeq(a, 1, n) \in Seq(X) /\ Len(SubSeq(a, 1, n)) = n /\ \A i \in 1 .. n : SubSeq(a, 1, n)[i] = a[i]
    BY <2>1
  <2> QED
    BY <2>2
<1>4. PICK d \in Seq(X) : d = Slice(a, n, p) /\ Len(d) = p - n /\ \A i \in 1 .. p - n : d[i] = a[n + i]
  <2>1. Slice(a, n, p) \in Seq(X) /\ Len(Slice(a, n, p)) = p - n
        /\ \A i \in 1 .. p - n : Slice(a, n, p)[i] = a[n + i]
    <3>1. n <= p /\ p <= Len(a) /\ p \in Nat /\ n \in Nat
      BY <1>2
    <3> QED
      BY <3>1, SliceIsPart, Zenon
  <2> QED
    BY <2>1
<1>5. a = Joined(c, d)
  <2>1. Len(a) = Len(c) + Len(d)
    BY <1>2, <1>3, <1>4
  <2>2. (\A i \in 1 .. Len(c) : a[i] = c[i]) /\ \A i \in 1 .. Len(d) : a[Len(c) + i] = d[i]
    BY <1>3, <1>4
  <2> QED
    BY <2>1, <2>2, JoinsAreJoined DEF Joins
<1>6. c = Take(a, n)
  BY <1>2, <1>3 DEF Take
<1>7. SubSeq(t, 1, n) = c
  <2>1. \A i \in 1 .. n : t[i] = a[i]
    BY <1>1, <1>2 DEF Joins
  <2>2. n <= Len(t)
    BY <1>2
  <2> QED
    BY <1>1, <1>2, <1>3, <2>1, <2>2, SamePrefix
<1>8. SubSeq(t, n + 1, Len(t)) = Joined(d, b)
  <2>0. PICK m \in Nat : m = p + q
    BY <1>2
  <2>1. PICK e \in Seq(X) : e = Slice(t, n, m) /\ Len(e) = m - n
                            /\ \A i \in 1 .. m - n : e[i] = t[n + i]
    <3>1. n <= m /\ m <= Len(t) /\ t \in Seq(X) /\ n \in Nat
      BY <1>1, <1>2, <2>0
    <3>2. Slice(t, n, m) \in Seq(X) /\ Len(Slice(t, n, m)) = m - n
          /\ \A i \in 1 .. m - n : Slice(t, n, m)[i] = t[n + i]
      BY <3>1, SliceIsPart, ZenonT(40)
    <3> QED
      BY <3>2
  <2>2. Len(e) = Len(d) + Len(b)
    BY <1>2, <1>4, <2>0, <2>1
  <2>3. ASSUME NEW i \in 1 .. Len(d) PROVE e[i] = d[i]
    <3>1. i \in 1 .. m - n /\ n + i \in 1 .. p /\ i \in 1 .. p - n
      BY <1>2, <1>4, <2>0
    <3>2. e[i] = t[n + i] /\ t[n + i] = a[n + i] /\ d[i] = a[n + i]
      BY <1>1, <1>2, <1>4, <2>1, <3>1 DEF Joins
    <3> QED
      BY <3>2
  <2>4. ASSUME NEW i \in 1 .. Len(b) PROVE e[Len(d) + i] = b[i]
    <3>1. Len(d) + i \in 1 .. m - n /\ n + (Len(d) + i) = p + i
      BY <1>2, <1>4, <2>0
    <3>2. e[Len(d) + i] = t[p + i]
      BY <2>1, <3>1
    <3>3. t[p + i] = b[i]
      BY <1>1, <1>2 DEF Joins
    <3> QED
      BY <3>2, <3>3
  <2>5. Joins(X, d, b, e)
    BY <2>1, <2>2, <2>3, <2>4 DEF Joins
  <2>7. e = Joined(d, b)
    BY <2>5, JoinsAreJoined
  <2>6. SubSeq(t, n + 1, Len(t)) = Slice(t, n, m)
    BY <1>2, <2>0 DEF Slice
  <2> QED
    BY <2>1, <2>6, <2>7
<1> QED
  BY <1>3, <1>4, <1>5, <1>6, <1>7, <1>8 DEF Split

(* Normalization loses no word.                                             *)
LEMMA NormalizedAll ==
  ASSUME NEW X, Gap \in X, NEW raw \in Seq(X), NEW live, live = NormalizeWithMap(raw)
  PROVE  Without(raw, Space) = Without(live.text, Space)
<1>0. Normal(X, raw, live)
  BY MappedText
<1>1. PICK src \in Seq(Nat), text \in Seq(X) : src = live.src /\ text = live.text /\ src = Sources(raw)
  <2>1. live.src = Sources(raw) /\ live.text \in Seq(X)
    BY <1>0 DEF Normal
  <2>2. Sources(raw) \in Seq(Nat)
    BY SourcesAre DEF AreSources
  <2>3. QED
    BY <2>1, <2>2
<1>2. AreSources(raw, src)
  <2>1. AreSources(raw, Sources(raw))
    BY SourcesAre
  <2> QED
    BY <1>1, <2>1
<1>3. Len(text) = Len(src)
      /\ \A k \in 1 .. Len(src) : text[k] = IF raw[src[k]] \in Blank THEN Gap ELSE raw[src[k]]
  BY <1>0, <1>1 DEF Normal
<1>4. Gap \in Space /\ Blank \subseteq Space
  BY GapIsSpace DEF Space
<1>5. \A k \in 1 .. Len(src) : text[k] = raw[src[k]] \/ (text[k] \in Space /\ raw[src[k]] \in Space)
  BY <1>3, <1>4
<1>6. Picked(raw, text, src, Space)
  BY <1>2, <1>3, <1>5 DEF AreSources, Picked
<1> QED
  BY <1>1, <1>6, PickedWords

-----------------------------------------------------------------------------
(* Sequences in falling order: one with the same members is the same.       *)

(* f falls along s; the members of s are members of t.                      *)
Falls(f, s) == \A i, j \in 1 .. Len(s) : i < j => f[s[j]] < f[s[i]]
Within(s, t) == \A i \in 1 .. Len(s) : \E j \in 1 .. Len(t) : s[i] = t[j]

(* Two falling sequences with the same members begin alike.                 *)
LEMMA FallBegins ==
  ASSUME NEW X, NEW f \in [X -> Int], NEW s \in Seq(X), NEW t \in Seq(X),
         Falls(f, s), Falls(f, t), Within(s, t), Within(t, s)
  PROVE  \A i \in 1 .. Len(s) : i \in 1 .. Len(t) /\ s[i] = t[i]
<1> DEFINE T == {i \in 1 .. Len(s) : ~ (i \in 1 .. Len(t) /\ s[i] = t[i])}
<1>1. SUFFICES ASSUME T # {} PROVE FALSE
  OBVIOUS
<1>2. Len(s) \in Nat /\ Len(t) \in Nat /\ T \in SUBSET Nat
  OBVIOUS
<1> HIDE DEF T
<1>3. PICK m \in T : \A n \in T : m <= n
  BY <1>1, <1>2, LeastNatural
<1>4. m \in 1 .. Len(s) /\ ~ (m \in 1 .. Len(t) /\ s[m] = t[m])
  BY DEF T
<1>5. ASSUME NEW n \in 1 .. Len(s), n < m PROVE n \in 1 .. Len(t) /\ s[n] = t[n]
  <2>1. n \notin T
    <3>1. n \in Nat /\ m \in Nat
      BY <1>2
    <3> QED
      BY <1>3, <1>5, <3>1
  <2> QED
    BY <2>1 DEF T
<1>6. PICK j \in 1 .. Len(t) : s[m] = t[j]
  BY <1>4 DEF Within
<1>7. \A i \in 1 .. Len(s) : f[s[i]] \in Int
  OBVIOUS
<1>8. \A i \in 1 .. Len(t) : f[t[i]] \in Int
  OBVIOUS
<1>9. ~ (j < m)
  <2>1. SUFFICES ASSUME j < m PROVE FALSE
    OBVIOUS
  <2>2. j \in 1 .. Len(s) /\ s[j] = s[m]
    <3>1. j \in 1 .. Len(s)
      BY <1>2, <1>4, <2>1
    <3> QED
      BY <1>5, <1>6, <2>1, <3>1
  <2> QED
    BY <1>4, <1>7, <2>1, <2>2 DEF Falls
<1>10. m \in 1 .. Len(t) /\ m < j
  BY <1>2, <1>4, <1>6, <1>9
<1>11. f[t[j]] < f[t[m]]
  BY <1>10 DEF Falls
<1>12. PICK l \in 1 .. Len(s) : t[m] = s[l]
  BY <1>10 DEF Within
<1>13. l # m /\ ~ (l < m)
  <2>1. l # m
    BY <1>4, <1>10, <1>12
  <2>2. ASSUME l < m PROVE FALSE
    <3>1. l \in 1 .. Len(t) /\ t[l] = t[m]
      BY <1>5, <1>12, <2>2
    <3> QED
      BY <1>8, <1>10, <2>2, <3>1 DEF Falls
  <2> QED
    BY <2>1, <2>2
<1>14. f[s[l]] < f[s[m]]
  <2>1. m < l
    BY <1>2, <1>4, <1>13
  <2> QED
    BY <1>4, <2>1 DEF Falls
<1> QED
  BY <1>4, <1>6, <1>7, <1>8, <1>10, <1>11, <1>12, <1>14, SMTT(40)

(* And so they are the same.                                                *)
LEMMA SameFall ==
  ASSUME NEW X, NEW f \in [X -> Int], NEW s \in Seq(X), NEW t \in Seq(X),
         Falls(f, s), Falls(f, t), Within(s, t), Within(t, s)
  PROVE  s = t
<1>1. \A i \in 1 .. Len(s) : i \in 1 .. Len(t) /\ s[i] = t[i]
  BY FallBegins
<1>2. \A i \in 1 .. Len(t) : i \in 1 .. Len(s)
  BY FallBegins
<1>3. Len(s) = Len(t)
  <2>1. Len(s) \in Nat /\ Len(t) \in Nat
    OBVIOUS
  <2>2. Len(s) <= Len(t)
    <3>1. Len(s) > 0 => Len(s) \in 1 .. Len(t)
      BY <1>1, <2>1
    <3> QED
      BY <2>1, <3>1
  <2>3. Len(t) <= Len(s)
    <3>1. Len(t) > 0 => Len(t) \in 1 .. Len(s)
      BY <1>2, <2>1
    <3> QED
      BY <2>1, <3>1
  <2> QED
    BY <2>1, <2>2, <2>3
<1> QED
  BY <1>1, <1>3

-----------------------------------------------------------------------------
(* Finite sets and sequences: images, choices of positions, and what the    *)
(* parts of a sequence say of the whole.                                    *)

LEMMA ImageIsFinite ==
  ASSUME NEW S, IsFiniteSet(S), NEW T, NEW f \in [S -> T], \A t \in T : \E x \in S : f[x] = t
  PROVE  IsFiniteSet(T)
<1>1. f \in Surjection(S, T)
  BY DEF Surjection
<1>2. QED
  BY <1>1, FS_Surjection

LEMMA RangeIsFinite ==
  ASSUME NEW X, NEW seq \in Seq(X)
  PROVE  IsFiniteSet(Range(seq)) /\ Range(seq) \in SUBSET X
<1>1. seq \in [1 .. Len(seq) -> X] /\ Len(seq) \in Nat
  OBVIOUS
<1>2. IsFiniteSet(1 .. Len(seq))
  BY <1>1, FS_Interval
<1>3. /\ seq \in [1 .. Len(seq) -> Range(seq)] /\ Range(seq) \in SUBSET X
      /\ \A t \in Range(seq) : \E k \in 1 .. Len(seq) : seq[k] = t
  BY <1>1 DEF Range
<1>4. IsFiniteSet(Range(seq))
  BY <1>2, <1>3, ImageIsFinite
<1>5. QED
  BY <1>3, <1>4

(* out holds the elements of seq at the positions in S, each once, the      *)
(* element at k from position at[k].                                        *)
Chooses(at, out, seq, S) ==
  /\ at \in [DOMAIN out -> S]
  /\ \A k \in DOMAIN out : out[k] = seq[at[k]]
  /\ \A k, l \in DOMAIN out : at[k] = at[l] => k = l
  /\ \A x \in S : \E k \in DOMAIN out : at[k] = x

Selects(out, seq, S) == \E at : Chooses(at, out, seq, S)

LEMMA KeptSelects ==
  ASSUME NEW X, NEW seq \in Seq(X), NEW S \in SUBSET DOMAIN seq
  PROVE  Kept(seq, S) \in Seq(X) /\ Selects(Kept(seq, S), seq, S)
<1>1. PICK out : out = Kept(seq, S)
  OBVIOUS
<1>2. /\ out \in Seq(X)
      /\ \E at : /\ at \in [DOMAIN out -> S]
                 /\ \A k \in DOMAIN out : out[k] = seq[at[k]]
                 /\ \A x \in S : \E k \in DOMAIN out : at[k] = x
                 /\ \A i, j \in DOMAIN out : i < j => at[i] < at[j]
  BY <1>1, KeptInOrder
<1>3. PICK at \in [DOMAIN out -> S] :
        /\ \A k \in DOMAIN out : out[k] = seq[at[k]]
        /\ \A x \in S : \E k \in DOMAIN out : at[k] = x
        /\ \A i, j \in DOMAIN out : i < j => at[i] < at[j]
  BY <1>2
<1>4. ASSUME NEW k \in DOMAIN out, NEW l \in DOMAIN out, at[k] = at[l] PROVE k = l
  <2>1. k \in Int /\ l \in Int
    <3>1. out \in Seq(X)
      BY <1>2
    <3>2. DOMAIN out \subseteq Int
      BY <3>1
    <3>3. QED
      BY <3>2
  <2>2. at[k] \in Int
    <3>1. at[k] \in S
      OBVIOUS
    <3>2. S \subseteq Int
      OBVIOUS
    <3>3. QED
      BY <3>1, <3>2
  <2>3. ~ (k < l) /\ ~ (l < k)
    BY <1>3, <1>4, <2>1, <2>2
  <2>4. QED
    BY <2>1, <2>3
<1>5. Chooses(at, out, seq, S)
  BY <1>3, <1>4 DEF Chooses
<1>6. QED
  BY <1>1, <1>2, <1>5 DEF Selects

LEMMA DescendingSelects ==
  ASSUME NEW X, NEW seq \in Seq(X), NEW key \in [DOMAIN seq -> Int]
  PROVE  Descending(seq, key) \in Seq(X) /\ Selects(Descending(seq, key), seq, DOMAIN seq)
<1>1. PICK out : out = Descending(seq, key)
  OBVIOUS
<1>2. /\ out \in Seq(X) /\ DOMAIN out = DOMAIN seq
      /\ \E order : /\ Permutes(order, seq)
                    /\ \A k \in DOMAIN seq : out[k] = seq[order[k]]
  BY <1>1, DescendingSorts
<1>3. PICK order : Permutes(order, seq) /\ \A k \in DOMAIN seq : out[k] = seq[order[k]]
  BY <1>2
<1>4. Chooses(order, out, seq, DOMAIN seq)
  BY <1>2, <1>3 DEF Permutes, Chooses
<1>5. QED
  BY <1>1, <1>2, <1>4 DEF Selects

LEMMA SelectsThrough ==
  ASSUME NEW out, NEW mid, NEW seq, NEW S, Selects(out, mid, DOMAIN mid), Selects(mid, seq, S)
  PROVE  Selects(out, seq, S)
<1>1. PICK a : Chooses(a, out, mid, DOMAIN mid)
  BY DEF Selects
<1>2. PICK b : Chooses(b, mid, seq, S)
  BY DEF Selects
<1> DEFINE at == [k \in DOMAIN out |-> b[a[k]]]
<1>3. \A k \in DOMAIN out : a[k] \in DOMAIN mid
  BY <1>1 DEF Chooses
<1>4. \A m \in DOMAIN mid : b[m] \in S
  BY <1>2 DEF Chooses
<1>5. at \in [DOMAIN out -> S]
  BY <1>3, <1>4
<1>6. \A k \in DOMAIN out : at[k] = b[a[k]]
  OBVIOUS
<1> HIDE DEF at
<1>7. \A k \in DOMAIN out : out[k] = seq[at[k]]
  BY <1>1, <1>2, <1>3, <1>6 DEF Chooses
<1>8. \A k, l \in DOMAIN out : at[k] = at[l] => k = l
  BY <1>1, <1>2, <1>3, <1>6 DEF Chooses
<1>9. \A x \in S : \E k \in DOMAIN out : at[k] = x
  <2> TAKE x \in S
  <2>1. PICK m \in DOMAIN mid : b[m] = x
    BY <1>2 DEF Chooses
  <2>2. PICK k \in DOMAIN out : a[k] = m
    BY <1>1 DEF Chooses
  <2>3. QED
    BY <1>6, <2>1, <2>2
<1>10. Chooses(at, out, seq, S)
  BY <1>5, <1>7, <1>8, <1>9 DEF Chooses
<1>11. QED
  BY <1>10 DEF Selects

LEMMA NothingWithout ==
  ASSUME NEW B
  PROVE  Without(<<>>, B) = <<>>
<1>1. PICK X : X = {}
  OBVIOUS
<1>2. PICK e \in Seq(X) : e = <<>>
  <2>1. <<>> \in Seq(X)
    OBVIOUS
  <2>2. QED
    BY <2>1
<1>3. \A i \in DOMAIN e : e[i] \in B
  BY <1>2
<1>4. Without(e, B) = <<>>
  BY <1>3, WithoutOfAll
<1>5. QED
  BY <1>2, <1>4

LEMMA NothingJoined ==
  ASSUME NEW X, NEW s \in Seq(X)
  PROVE  Joined(s, <<>>) = s /\ Joined(<<>>, s) = s
BY NothingAppended DEF Joined

LEMMA RegroupedParts ==
  ASSUME NEW X, NEW a \in Seq(X), NEW f \in Seq(X), NEW g \in Seq(X), NEW b \in Seq(X)
  PROVE  Joined(Joined(a, f), Joined(<<>>, Joined(g, b))) = Joined(a, Joined(Joined(f, g), b))
<1>1. Joined(a, Joined(Joined(f, g), b)) = Joined(Joined(a, f), Joined(g, b))
  BY JoinedParts
<1>2. Joined(g, b) \in Seq(X)
  BY JoinedParts
<1>3. Joined(<<>>, Joined(g, b)) = Joined(g, b)
  BY <1>2, NothingJoined
<1>4. QED
  BY <1>1, <1>3

(* The same, folded.                                                        *)
Regroup(a, f, g, b) ==
  /\ Joined(a, Joined(Joined(f, g), b)) = Joined(Joined(a, f), Joined(g, b))
  /\ Joined(a, Joined(Joined(f, g), b)) = Joined(Joined(a, f), Joined(<<>>, Joined(g, b)))

LEMMA PartsRegroup ==
  ASSUME NEW X, NEW a \in Seq(X), NEW f \in Seq(X), NEW g \in Seq(X), NEW b \in Seq(X)
  PROVE  Regroup(a, f, g, b)
<1>1. Joined(a, Joined(Joined(f, g), b)) = Joined(Joined(a, f), Joined(g, b))
  BY JoinedParts
<1>2. Joined(a, Joined(Joined(f, g), b)) = Joined(Joined(a, f), Joined(<<>>, Joined(g, b)))
  BY RegroupedParts
<1>3. QED
  BY <1>1, <1>2, Zenon DEF Regroup

LEMMA AllOfParts ==
  ASSUME NEW X, NEW a \in Seq(X), NEW b \in Seq(X), NEW T,
         \A i \in DOMAIN a : a[i] \in T, \A i \in DOMAIN b : b[i] \in T
  PROVE  \A i \in DOMAIN Joined(a, b) : Joined(a, b)[i] \in T
<1>1. PICK s \in Seq(X) : s = Joined(a, b)
  BY JoinedParts
<1>2. /\ Len(s) = Len(a) + Len(b) /\ (\A i \in 1 .. Len(a) : s[i] = a[i])
      /\ \A i \in 1 .. Len(b) : s[Len(a) + i] = b[i]
  BY <1>1 DEF Joined
<1>3. ASSUME NEW i \in DOMAIN s PROVE s[i] \in T
  <2>1. i \in 1 .. Len(a) \/ (i - Len(a) \in 1 .. Len(b) /\ Len(a) + (i - Len(a)) = i)
    BY <1>2
  <2>2. CASE i \in 1 .. Len(a)
    BY <1>2, <2>2
  <2>3. CASE i - Len(a) \in 1 .. Len(b) /\ Len(a) + (i - Len(a)) = i
    BY <1>2, <2>3
  <2>4. QED
    BY <2>1, <2>2, <2>3
<1>4. QED
  BY <1>1, <1>3

LEMMA MembersOfParts ==
  ASSUME NEW X, NEW a \in Seq(X), NEW b \in Seq(X), NEW T,
         \A i \in DOMAIN Joined(a, b) : Joined(a, b)[i] \in T
  PROVE  (\A i \in DOMAIN a : a[i] \in T) /\ (\A i \in DOMAIN b : b[i] \in T)
<1>1. PICK s \in Seq(X) : s = Joined(a, b)
  BY JoinedParts
<1>2. /\ Len(s) = Len(a) + Len(b) /\ (\A i \in 1 .. Len(a) : s[i] = a[i])
      /\ \A i \in 1 .. Len(b) : s[Len(a) + i] = b[i]
  BY <1>1 DEF Joined
<1>3. \A i \in DOMAIN s : s[i] \in T
  BY <1>1
<1>4. ASSUME NEW i \in DOMAIN a PROVE a[i] \in T
  <2>1. i \in DOMAIN s /\ i \in 1 .. Len(a)
    BY <1>2
  <2>2. QED
    BY <1>2, <1>3, <2>1
<1>5. ASSUME NEW i \in DOMAIN b PROVE b[i] \in T
  <2>1. Len(a) + i \in DOMAIN s /\ i \in 1 .. Len(b)
    BY <1>2
  <2>2. QED
    BY <1>2, <1>3, <2>1
<1>6. QED
  BY <1>4, <1>5

LEMMA NothingMore ==
  ASSUME NEW X, NEW s \in Seq(X)
  PROVE  s \o <<>> = s
OBVIOUS

(* The words of two parts.                                                  *)
LEMMA WithoutJoined ==
  ASSUME NEW X, NEW s \in Seq(X), NEW t \in Seq(X), NEW B
  PROVE  Without(Joined(s, t), B) = Joined(Without(s, B), Without(t, B))
<1>1. Without(s \o t, B) = Without(s, B) \o Without(t, B)
  BY WithoutOfParts
<1> QED
  BY <1>1, Zenon DEF Joined

(* A sequence without members.                                              *)
LEMMA EmptyIs ==
  ASSUME NEW X, NEW t \in Seq(X)
  PROVE  t = <<>> <=> Len(t) = 0
OBVIOUS

-----------------------------------------------------------------------------
(* Texts with labels: each character with the number that its run has.      *)

Written == Character \cup Markers
Marks == Written \X Nat
SpaceMarks == Space \X Nat

LEMMA BreakIsWritten == "lf" \in Character /\ "lf" \in Written
  BY DEF Character, Written

LEMMA GapIsCharacter == Gap \in Character /\ Character \subseteq Written
  BY DEF Gap, Character, Written

Labelled(chars, c) == [k \in DOMAIN chars |-> <<chars[k], c>>]
LabelOf(c) == [x \in Written |-> <<<<x, c>>>>]
LabelSolid(c) == [x \in Written |-> IF x \in Space THEN <<>> ELSE <<<<x, c>>>>]

LEMMA LabelsAre ==
  ASSUME NEW c \in Nat
  PROVE  /\ LabelOf(c) \in Expansions(Written, Marks) /\ LabelSolid(c) \in Expansions(Written, Marks)
         /\ \A x \in Written : LabelOf(c)[x] = <<<<x, c>>>>
                               /\ LabelSolid(c)[x] = IF x \in Space THEN <<>> ELSE <<<<x, c>>>>
<1>1. \A x \in Written : <<<<x, c>>>> \in Seq(Marks) /\ <<>> \in Seq(Marks)
  <2>1. \A x \in Written : <<x, c>> \in Marks
    BY DEF Marks
  <2>2. QED
    BY <2>1
<1>2. QED
  BY <1>1 DEF Expansions, LabelOf, LabelSolid

LEMMA LabelledText ==
  ASSUME NEW s \in Seq(Written), NEW c \in Nat
  PROVE  /\ Labelled(s, c) \in Seq(Marks) /\ Len(Labelled(s, c)) = Len(s)
         /\ DOMAIN Labelled(s, c) = DOMAIN s /\ \A i \in DOMAIN s : Labelled(s, c)[i] = <<s[i], c>>
<1>3. PICK n \in Nat : n = Len(s) /\ DOMAIN s = 1 .. n /\ \A i \in 1 .. n : s[i] \in Written
  OBVIOUS
<1>4. PICK t : t = Labelled(s, c)
  OBVIOUS
<1>5. DOMAIN t = 1 .. n /\ t = [k \in 1 .. n |-> <<s[k], c>>]
  BY <1>3, <1>4 DEF Labelled
<1>6. t \in Seq(Marks) /\ Len(t) = n /\ \A i \in 1 .. n : t[i] = <<s[i], c>>
  <2>1. \A i \in 1 .. n : <<s[i], c>> \in Marks
    BY <1>3 DEF Marks
  <2>2. QED
    BY <1>5, <2>1
<1>7. QED
  BY <1>3, <1>4, <1>5, <1>6

LEMMA OneMore ==
  ASSUME NEW X, NEW s \in Seq(X), NEW x \in X
  PROVE  /\ s \o <<x>> \in Seq(X) /\ Len(s \o <<x>>) = Len(s) + 1
         /\ (\A i \in 1 .. Len(s) : (s \o <<x>>)[i] = s[i]) /\ (s \o <<x>>)[Len(s) + 1] = x
OBVIOUS

LEMMA LabelledMapped ==
  ASSUME NEW c \in Nat
  PROVE  \A s \in Seq(Written) : Labelled(s, c) = Mapped(LabelOf(c), s)
<1>1. PICK F \in Expansions(Written, Marks) : F = LabelOf(c)
  BY LabelsAre
<1> DEFINE T == {u \in Seq(Written) : Labelled(u, c) = Mapped(F, u)}
<1>2. <<>> \in T
  <2>1. PICK e \in Seq(Written) : e = <<>>
    <3>1. <<>> \in Seq(Written)
      OBVIOUS
    <3>2. QED
      BY <3>1
  <2>2. Labelled(e, c) \in Seq(Marks) /\ Len(Labelled(e, c)) = Len(e)
    BY LabelledText
  <2>3. Labelled(e, c) = <<>>
    BY <2>1, <2>2
  <2>4. Mapped(F, <<>>) = <<>>
    BY MappedSteps
  <2>5. QED
    BY <2>1, <2>3, <2>4
<1>3. ASSUME NEW u \in Seq(Written), NEW x \in Written, u \in T PROVE u \o <<x>> \in T
  <2>1. PICK v \in Seq(Written) : v = u \o <<x>>
    <3>1. u \o <<x>> \in Seq(Written)
      OBVIOUS
    <3>2. QED
      BY <3>1
  <2>2. Mapped(F, u \o <<x>>) = Mapped(F, u) \o F[x]
    BY MappedStep
  <2>3. F[x] = <<<<x, c>>>> /\ Mapped(F, u) = Labelled(u, c)
    BY <1>1, <1>3, LabelsAre
  <2>4. PICK a \in Seq(Marks), m \in Marks : a = Labelled(u, c) /\ m = <<x, c>>
    BY LabelledText DEF Marks
  <2>5. PICK b \in Seq(Marks) : b = a \o <<m>>
    <3>1. a \o <<m>> \in Seq(Marks)
      OBVIOUS
    <3>2. QED
      BY <3>1
  <2>6. PICK d \in Seq(Marks) : d = Labelled(v, c)
    BY LabelledText
  <2>7. PICK n \in Nat : n = Len(u)
    OBVIOUS
  <2>8. Len(v) = n + 1 /\ (\A i \in 1 .. n : v[i] = u[i]) /\ v[n + 1] = x
    BY <2>1, <2>7
  <2>9. Len(a) = n /\ \A i \in 1 .. n : a[i] = <<u[i], c>>
    BY <2>4, <2>7, LabelledText
  <2>10. Len(b) = n + 1 /\ (\A i \in 1 .. n : b[i] = a[i]) /\ b[n + 1] = m
    <3>1. Len(a) = n
      BY <2>9
    <3>2. /\ Len(a \o <<m>>) = Len(a) + 1
          /\ (\A i \in 1 .. Len(a) : (a \o <<m>>)[i] = a[i]) /\ (a \o <<m>>)[Len(a) + 1] = m
      BY OneMore
    <3>3. QED
      BY <2>5, <3>1, <3>2
  <2>11. Len(d) = n + 1 /\ \A i \in 1 .. n + 1 : d[i] = <<v[i], c>>
    BY <2>6, <2>8, LabelledText
  <2>12. \A i \in 1 .. n + 1 : i \in 1 .. n \/ i = n + 1
    OBVIOUS
  <2>13. \A i \in 1 .. Len(d) : d[i] = b[i]
    <3> TAKE i \in 1 .. Len(d)
    <3>1. i \in 1 .. n + 1 /\ d[i] = <<v[i], c>>
      BY <2>11
    <3>2. CASE i \in 1 .. n
      <4>1. v[i] = u[i] /\ b[i] = a[i] /\ a[i] = <<u[i], c>>
        BY <2>8, <2>9, <2>10, <3>2
      <4>2. QED
        BY <3>1, <4>1
    <3>3. CASE i = n + 1
      BY <2>4, <2>8, <2>10, <3>1, <3>3
    <3>4. QED
      BY <2>12, <3>1, <3>2, <3>3
  <2>14. d = b
    BY <2>10, <2>11, <2>13, SameSequence
  <2>15. QED
    BY <2>1, <2>2, <2>3, <2>4, <2>5, <2>6, <2>14
<1> HIDE DEF T
<1>4. \A u \in Seq(Written) : u \in T
  BY <1>2, <1>3, SequenceInduction
<1>5. QED
  BY <1>1, <1>4 DEF T

(* The solid ones of what is labelled are the labelled solid ones.          *)
LEMMA LabelledSolids ==
  ASSUME NEW s \in Seq(Written), NEW c \in Nat
  PROVE  Without(Labelled(s, c), SpaceMarks) = Labelled(Without(s, Space), c)
<1>1. PICK F \in Expansions(Written, Marks), H \in Expansions(Written, Marks) :
        F = LabelOf(c) /\ H = LabelSolid(c)
  BY LabelsAre
<1>2. PICK G \in Expansions(Marks, Marks), K \in Expansions(Written, Written) :
        G = LeavesOut(Marks, SpaceMarks) /\ K = LeavesOut(Written, Space)
  BY LeavesOutMaps
<1>3. Composes(F, G, H, Written)
  <2>1. ASSUME NEW x \in Written PROVE Mapped(G, F[x]) = H[x]
    <3>1. PICK m \in Marks : m = <<x, c>>
      BY DEF Marks
    <3>2. F[x] = <<m>> /\ H[x] = IF x \in Space THEN <<>> ELSE <<m>>
      BY <1>1, <3>1, LabelsAre
    <3>3. Mapped(G, <<m>>) = G[m]
      BY MappedOne
    <3>4. G[m] = IF m \in SpaceMarks THEN <<>> ELSE <<m>>
      BY <1>2 DEF LeavesOut
    <3>5. m \in SpaceMarks <=> x \in Space
      BY <3>1 DEF SpaceMarks
    <3>6. QED
      BY <3>2, <3>3, <3>4, <3>5
  <2>2. QED
    BY <2>1 DEF Composes
<1>4. Composes(K, F, H, Written)
  <2>1. ASSUME NEW x \in Written PROVE Mapped(F, K[x]) = H[x]
    <3>1. Mapped(F, <<x>>) = F[x] /\ Mapped(F, <<>>) = <<>>
      BY MappedOne, MappedSteps
    <3>2. K[x] = IF x \in Space THEN <<>> ELSE <<x>>
      BY <1>2 DEF LeavesOut
    <3>3. F[x] = <<<<x, c>>>> /\ H[x] = IF x \in Space THEN <<>> ELSE <<<<x, c>>>>
      BY <1>1, LabelsAre
    <3>4. QED
      BY <3>1, <3>2, <3>3
  <2>2. QED
    BY <2>1 DEF Composes
<1>5. Mapped(G, Mapped(F, s)) = Mapped(H, s)
  BY <1>3, MappedTwice
<1>6. Mapped(F, Mapped(K, s)) = Mapped(H, s)
  BY <1>4, MappedTwice
<1>7. Labelled(s, c) = Mapped(F, s) /\ Mapped(F, s) \in Seq(Marks)
  BY <1>1, LabelledMapped, MappedIsSequence
<1>8. Without(Mapped(F, s), SpaceMarks) = Mapped(G, Mapped(F, s))
  BY <1>2, <1>7, WithoutIsMapped
<1>9. Without(s, Space) = Mapped(K, s) /\ Mapped(K, s) \in Seq(Written)
  BY <1>2, WithoutIsMapped, MappedIsSequence
<1>10. Labelled(Mapped(K, s), c) = Mapped(F, Mapped(K, s))
  BY <1>1, <1>9, LabelledMapped
<1>11. QED
  BY <1>5, <1>6, <1>7, <1>8, <1>9, <1>10

-----------------------------------------------------------------------------
(* What each run adds to its paragraph: characters of the file, the text    *)
(* that the writer reads, words, and words with their labels.               *)

LEMMA WithoutSame ==
  ASSUME NEW X, NEW s \in Seq(X), NEW A, NEW B, \A i \in DOMAIN s : s[i] \in A <=> s[i] \in B
  PROVE  Without(s, A) = Without(s, B)
<1>1. [i \in DOMAIN s |-> IF s[i] \in A THEN <<>> ELSE <<s[i]>>]
        = [i \in DOMAIN s |-> IF s[i] \in B THEN <<>> ELSE <<s[i]>>]
  OBVIOUS
<1>2. QED
  BY <1>1 DEF Without

-----------------------------------------------------------------------------
(* Citations: the order of words.                                           *)

(* Before their first difference, s is as t; there it ends or is less.      *)
Differ(s, t, i) ==
  /\ i \in 1 .. Len(t) /\ i - 1 <= Len(s)
  /\ \A k \in 1 .. i - 1 : s[k] = t[k]
  /\ Len(s) = i - 1 \/ (i <= Len(s) /\ s[i] < t[i])

LEMMA WordsDiffer ==
  ASSUME NEW s \in Seq(Nat), NEW t \in Seq(Nat)
  PROVE  WordsBefore(s, t) <=> \E i : Differ(s, t, i)
<1>1. ASSUME NEW i \in 1 .. Len(t), i - 1 <= Len(s)
      PROVE  SubSeq(s, 1, i - 1) = SubSeq(t, 1, i - 1) <=> \A k \in 1 .. i - 1 : s[k] = t[k]
  <2>1. i - 1 \in Nat /\ i - 1 <= Len(t) /\ Len(s) \in Nat /\ Len(t) \in Nat
    BY <1>1
  <2>2. /\ SubSeq(s, 1, i - 1) = [k \in 1 .. i - 1 |-> s[k]]
        /\ SubSeq(t, 1, i - 1) = [k \in 1 .. i - 1 |-> t[k]]
    BY <1>1, <2>1
  <2>3. QED
    BY <2>2
<1>2. ASSUME NEW i \in 1 .. Len(t)
      PROVE  (/\ Len(s) >= i - 1 /\ SubSeq(s, 1, i - 1) = SubSeq(t, 1, i - 1)
              /\ Len(s) = i - 1 \/ s[i] < t[i])
             => Len(s) = i - 1 \/ (i <= Len(s) /\ s[i] < t[i])
  OBVIOUS
<1>3. QED
  BY <1>1, <1>2 DEF WordsBefore, Differ

LEMMA WordsIrreflexive ==
  ASSUME NEW s \in Seq(Nat) PROVE ~ WordsBefore(s, s)
<1>1. ASSUME NEW i, Differ(s, s, i) PROVE FALSE
  <2>1. i \in 1 .. Len(s) /\ s[i] \in Nat /\ Len(s) \in Nat
    BY <1>1 DEF Differ
  <2>2. QED
    BY <1>1, <2>1 DEF Differ
<1>2. QED
  BY <1>1, WordsDiffer

LEMMA WordsTransitive ==
  ASSUME NEW s \in Seq(Nat), NEW t \in Seq(Nat), NEW u \in Seq(Nat),
         WordsBefore(s, t), WordsBefore(t, u)
  PROVE  WordsBefore(s, u)
<1>1. PICK i : Differ(s, t, i)
  BY WordsDiffer
<1>2. PICK j : Differ(t, u, j)
  BY WordsDiffer
<1>3. /\ i \in Nat /\ j \in Nat /\ Len(s) \in Nat /\ Len(t) \in Nat /\ Len(u) \in Nat
      /\ 1 <= i /\ i <= Len(t) /\ 1 <= j /\ j <= Len(u) /\ j - 1 <= Len(t) /\ i - 1 <= Len(s)
      /\ \A k \in 1 .. Len(s) : s[k] \in Nat
      /\ \A k \in 1 .. Len(t) : t[k] \in Nat
      /\ \A k \in 1 .. Len(u) : u[k] \in Nat
  <2>1. /\ i \in 1 .. Len(t) /\ j \in 1 .. Len(u) /\ j - 1 <= Len(t) /\ i - 1 <= Len(s)
        /\ Len(s) \in Nat /\ Len(t) \in Nat /\ Len(u) \in Nat
    BY <1>1, <1>2 DEF Differ
  <2>2. \A k \in 1 .. Len(s) : s[k] \in Nat
    OBVIOUS
  <2>3. \A k \in 1 .. Len(t) : t[k] \in Nat
    OBVIOUS
  <2>4. \A k \in 1 .. Len(u) : u[k] \in Nat
    OBVIOUS
  <2>5. QED
    BY <2>1, <2>2, <2>3, <2>4
<1>4. CASE i < j
  <2>1. t[i] = u[i] /\ i \in 1 .. Len(u)
    BY <1>2, <1>3, <1>4 DEF Differ
  <2>2. \A k \in 1 .. i - 1 : s[k] = u[k]
    BY <1>1, <1>2, <1>3, <1>4 DEF Differ
  <2>3. Differ(s, u, i)
    BY <1>1, <1>3, <2>1, <2>2 DEF Differ
  <2>4. QED
    BY <2>3, WordsDiffer
<1>5. CASE i = j
  <2>1. \A k \in 1 .. i - 1 : s[k] = u[k]
    BY <1>1, <1>2, <1>5 DEF Differ
  <2>2. Len(s) = i - 1 \/ (i <= Len(s) /\ s[i] < u[i])
    <3>1. Len(s) = i - 1 \/ (i <= Len(s) /\ s[i] < t[i])
      BY <1>1 DEF Differ
    <3>2. t[i] < u[i]
      BY <1>2, <1>3, <1>5 DEF Differ
    <3>3. t[i] \in Nat /\ u[i] \in Nat /\ (i <= Len(s) => s[i] \in Nat)
      BY <1>3, <1>5
    <3> HIDE <1>3
    <3>4. QED
      BY <3>1, <3>2, <3>3
  <2>3. Differ(s, u, i)
    BY <1>3, <1>5, <2>1, <2>2 DEF Differ
  <2>4. QED
    BY <2>3, WordsDiffer
<1>6. CASE j < i
  <2>1. j \in 1 .. i - 1 /\ s[j] = t[j] /\ j <= Len(s)
    BY <1>1, <1>3, <1>6 DEF Differ
  <2>2. \A k \in 1 .. j - 1 : s[k] = u[k]
    BY <1>1, <1>2, <1>3, <1>6 DEF Differ
  <2>3. Differ(s, u, j)
    BY <1>2, <1>3, <1>6, <2>1, <2>2, SMTT(40) DEF Differ
  <2>4. QED
    BY <2>3, WordsDiffer
<1>7. QED
  BY <1>3, <1>4, <1>5, <1>6

LEMMA WordsTotal ==
  ASSUME NEW s \in Seq(Nat), NEW t \in Seq(Nat), s # t
  PROVE  WordsBefore(s, t) \/ WordsBefore(t, s)
<1> DEFINE D == {m \in Nat : m >= 1 /\ (m > Len(s) \/ m > Len(t) \/ s[m] # t[m])}
<1>1. Len(s) \in Nat /\ Len(t) \in Nat
  OBVIOUS
<1>2. Len(s) + 1 \in D
  BY <1>1
<1>3. PICK m \in D : \A k \in D : m <= k
  <2>1. D \in SUBSET Nat /\ D # {}
    BY <1>2
  <2> HIDE DEF D
  <2>2. QED
    BY <2>1, LeastNatural
<1>4. /\ m \in Nat /\ m >= 1
      /\ \A k \in 1 .. m - 1 : k <= Len(s) /\ k <= Len(t) /\ s[k] = t[k]
  <2>1. m \in Nat /\ m >= 1
    OBVIOUS
  <2>2. ASSUME NEW k \in 1 .. m - 1 PROVE k <= Len(s) /\ k <= Len(t) /\ s[k] = t[k]
    <3>1. k \notin D /\ k \in Nat /\ k >= 1
      BY <1>3, <2>1
    <3>2. QED
      BY <1>1, <3>1
  <2>3. QED
    BY <2>1, <2>2
<1>5. m - 1 <= Len(s) /\ m - 1 <= Len(t)
  <2>1. CASE m = 1
    BY <1>1, <2>1
  <2>2. CASE m # 1
    <3>1. m - 1 \in 1 .. m - 1
      BY <1>4, <2>2
    <3>2. QED
      BY <1>4, <3>1
  <2>3. QED
    BY <2>1, <2>2
<1>6. CASE m > Len(s) /\ m > Len(t)
  <2>1. Len(s) = m - 1 /\ Len(t) = m - 1
    BY <1>1, <1>4, <1>5, <1>6
  <2>2. s = t
    <3>1. s = [k \in 1 .. m - 1 |-> s[k]] /\ t = [k \in 1 .. m - 1 |-> t[k]]
      BY <2>1
    <3>2. QED
      BY <1>4, <3>1
  <2>3. QED
    BY <2>2
<1>7. CASE m > Len(s) /\ m <= Len(t)
  <2>1. Differ(s, t, m)
    BY <1>1, <1>4, <1>5, <1>7 DEF Differ
  <2>2. QED
    BY <2>1, WordsDiffer
<1>8. CASE m <= Len(s) /\ m > Len(t)
  <2>1. Differ(t, s, m)
    BY <1>1, <1>4, <1>5, <1>8 DEF Differ
  <2>2. QED
    BY <2>1, WordsDiffer
<1>9. CASE m <= Len(s) /\ m <= Len(t)
  <2>1. s[m] # t[m] /\ s[m] \in Nat /\ t[m] \in Nat /\ m \in 1 .. Len(s) /\ m \in 1 .. Len(t)
    BY <1>1, <1>4, <1>9
  <2>2. CASE s[m] < t[m]
    <3>1. Differ(s, t, m)
      BY <1>1, <1>4, <1>5, <1>9, <2>1, <2>2 DEF Differ
    <3>2. QED
      BY <3>1, WordsDiffer
  <2>3. CASE t[m] < s[m]
    <3>1. Differ(t, s, m)
      BY <1>1, <1>4, <1>5, <1>9, <2>1, <2>3 DEF Differ
    <3>2. QED
      BY <3>1, WordsDiffer
  <2>4. QED
    BY <2>1, <2>2, <2>3
<1>10. QED
  BY <1>1, <1>4, <1>6, <1>7, <1>8, <1>9

-----------------------------------------------------------------------------
(* Year letters.                                                            *)

(* Parsed references, as a citation context holds them.                     *)
ParsedRefs(refs) ==
  /\ refs \in Seq(Range(refs))
  /\ \A i \in DOMAIN refs : /\ refs[i].title \in Seq(Nat) /\ refs[i].year \in Nat
                            /\ refs[i].authors \in Seq(Range(refs[i].authors))
                            /\ \A a \in DOMAIN refs[i].authors :
                                 refs[i].authors[a].family \in Seq(Nat)

LEMMA TitlesOrder ==
  ASSUME NEW refs, ParsedRefs(refs)
  PROVE  /\ \A i \in DOMAIN refs : ~ TitleBefore(refs, i, i)
         /\ \A i, j, k \in DOMAIN refs :
              TitleBefore(refs, i, j) /\ TitleBefore(refs, j, k) => TitleBefore(refs, i, k)
         /\ \A i, j \in DOMAIN refs : i = j \/ TitleBefore(refs, i, j) \/ TitleBefore(refs, j, i)
<1>1. DOMAIN refs \subseteq Nat /\ \A i \in DOMAIN refs : refs[i].title \in Seq(Nat)
  BY DEF ParsedRefs
<1>2. \A i \in DOMAIN refs : ~ TitleBefore(refs, i, i)
  BY <1>1, WordsIrreflexive DEF TitleBefore
<1>3. ASSUME NEW i \in DOMAIN refs, NEW j \in DOMAIN refs, NEW k \in DOMAIN refs,
             TitleBefore(refs, i, j), TitleBefore(refs, j, k)
      PROVE  TitleBefore(refs, i, k)
  <2>1. /\ refs[i].title \in Seq(Nat) /\ refs[j].title \in Seq(Nat) /\ refs[k].title \in Seq(Nat)
        /\ i \in Nat /\ j \in Nat /\ k \in Nat
    BY <1>1
  <2>2. WordsBefore(refs[i].title, refs[j].title) /\ WordsBefore(refs[j].title, refs[k].title)
          => WordsBefore(refs[i].title, refs[k].title)
    BY <2>1, WordsTransitive
  <2>3. QED
    BY <1>3, <2>1, <2>2 DEF TitleBefore
<1>4. ASSUME NEW i \in DOMAIN refs, NEW j \in DOMAIN refs, i # j
      PROVE  TitleBefore(refs, i, j) \/ TitleBefore(refs, j, i)
  <2>1. refs[i].title \in Seq(Nat) /\ refs[j].title \in Seq(Nat) /\ i \in Nat /\ j \in Nat
    BY <1>1
  <2>2. \/ refs[i].title = refs[j].title
        \/ WordsBefore(refs[i].title, refs[j].title) \/ WordsBefore(refs[j].title, refs[i].title)
    BY <2>1, WordsTotal
  <2>3. QED
    BY <1>4, <2>1, <2>2 DEF TitleBefore
<1>5. QED
  BY <1>2, <1>3, <1>4

(* Two of one group have letters, and different ones.                       *)
LEMMA LettersDiffer ==
  ASSUME NEW refs, ParsedRefs(refs), NEW i \in DOMAIN refs, NEW j \in Group(refs, i), i # j
  PROVE  /\ YearLetter(refs, i) # YearLetter(refs, j)
         /\ YearLetter(refs, i) # 0
<1> DEFINE G == Group(refs, i)
           below(x) == {y \in G : TitleBefore(refs, y, x)}
<1>1. G = Group(refs, j) /\ i \in G /\ j \in G /\ G \subseteq DOMAIN refs
  BY DEF Group
<1>2. IsFiniteSet(G)
  <2>1. DOMAIN refs = 1 .. Len(refs) /\ Len(refs) \in Nat
    BY DEF ParsedRefs
  <2>2. IsFiniteSet(DOMAIN refs)
    BY <2>1, FS_Interval
  <2>3. QED
    BY <1>1, <2>2, FS_Subset
<1> HIDE DEF G
<1>3. Cardinality(G) \in Nat /\ ~ (Cardinality(G) < 2)
  <2>1. IsFiniteSet({i, j}) /\ Cardinality({i, j}) = 2
    <3>1. {i, j} = {i} \cup {j}
      OBVIOUS
    <3>2. IsFiniteSet({i}) /\ Cardinality({i}) = 1 /\ j \notin {i}
      BY FS_Singleton
    <3>3. IsFiniteSet({i} \cup {j}) /\ Cardinality({i} \cup {j}) = Cardinality({i}) + 1
      BY <3>2, FS_AddElement
    <3>4. QED
      BY <3>1, <3>2, <3>3
  <2>2. Cardinality({i, j}) <= Cardinality(G)
    BY <1>1, <1>2, FS_Subset
  <2>3. QED
    BY <1>2, <2>1, <2>2, FS_CardinalityType
<1>4. /\ YearLetter(refs, i) = 1 + Cardinality(below(i))
      /\ YearLetter(refs, j) = 1 + Cardinality(below(j))
  BY <1>1, <1>3 DEF YearLetter, G
<1>5. ASSUME NEW x \in G, NEW y \in G, TitleBefore(refs, x, y)
      PROVE  /\ Cardinality(below(x)) \in Nat /\ Cardinality(below(y)) \in Nat
             /\ Cardinality(below(x)) # Cardinality(below(y))
  <2>1. below(x) \subseteq below(y) /\ x \in below(y) /\ x \notin below(x)
    BY <1>1, <1>5, TitlesOrder
  <2>2. below(y) \subseteq G /\ below(x) \subseteq G
    OBVIOUS
  <2> HIDE DEF below
  <2>3. IsFiniteSet(below(y)) /\ IsFiniteSet(below(x))
    BY <1>2, <2>2, FS_Subset
  <2>4. QED
    BY <2>1, <2>3, FS_Subset, FS_CardinalityType
<1>6. TitleBefore(refs, i, j) \/ TitleBefore(refs, j, i)
  BY <1>1, TitlesOrder
<1> HIDE DEF below
<1>7. QED
  BY <1>1, <1>4, <1>5, <1>6

-----------------------------------------------------------------------------
(* In-text citations.                                                       *)

(* What a citation shows of the authors, by their number.                   *)
Shows(ref, authors, n) ==
  \/ n = 0 /\ InTextAuthors(ref) = <<"title", ShortTitle(ref.title)>>
  \/ n \in {1, 2} /\ InTextAuthors(ref) = <<"names", [k \in 1 .. n |-> authors[k].family]>>
  \/ n \notin {0, 1, 2} /\ InTextAuthors(ref) = <<"et al.", authors[1].family>>

LEMMA InTextAuthorsCases ==
  ASSUME NEW ref, NEW authors, authors = ref.authors, NEW n \in Nat, n = Len(authors)
  PROVE  Shows(ref, authors, n)
<1>0. Len(ref.authors) = n
  OBVIOUS
<1>1. CASE n = 0
  <2>1. n \notin {1, 2}
    BY <1>1
  <2>2. QED
    BY <1>0, <1>1, <2>1, Zenon DEF InTextAuthors, Shows
<1>2. CASE n \in {1, 2}
  <2>1. n # 0 /\ n \in {0, 1, 2}
    BY <1>2
  <2>2. QED
    BY <1>0, <1>2, <2>1, Zenon DEF InTextAuthors, Shows
<1>3. CASE n \notin {0, 1, 2}
  <2>1. n # 0 /\ n \notin {1, 2}
    BY <1>3
  <2>2. QED
    BY <1>0, <1>3, <2>1, Zenon DEF InTextAuthors, Shows
<1>4. QED
  BY <1>1, <1>2, <1>3

(* An author-year key: the first family name, or else the title.            *)
Keyed(ref, authors) ==
  \/ authors = <<>> /\ AuthorYearKey(ref) = [name |-> <<"title", ShortTitle(ref.title)>>, year |-> ref.year]
  \/ authors # <<>> /\ AuthorYearKey(ref) = [name |-> <<"family", authors[1].family>>, year |-> ref.year]

LEMMA KeyCases ==
  ASSUME NEW ref, NEW authors, authors = ref.authors
  PROVE  Keyed(ref, authors)
BY Zenon DEF AuthorYearKey, Keyed

(* What a citation shows of the authors tells the key of the reference.     *)
LEMMA AuthorsTellKey ==
  ASSUME NEW refs, ParsedRefs(refs), NEW i \in DOMAIN refs, NEW j \in DOMAIN refs,
         InTextAuthors(refs[i]) = InTextAuthors(refs[j]), refs[i].year = refs[j].year
  PROVE  j \in Group(refs, i)
<1>1. PICK p, q : p = refs[i] /\ q = refs[j]
  OBVIOUS
<1>2. PICK a, b : a = p.authors /\ b = q.authors
  OBVIOUS
<1>3. PICK m, n : m = Len(a) /\ n = Len(b)
  OBVIOUS
<1>4. /\ m \in Nat /\ (a = <<>> <=> m = 0)
      /\ n \in Nat /\ (b = <<>> <=> n = 0)
  <2>1. a \in Seq(Range(a)) /\ b \in Seq(Range(b))
    BY <1>1, <1>2 DEF ParsedRefs
  <2>2. QED
    BY <1>3, <2>1
<1>5. InTextAuthors(p) = InTextAuthors(q)
  BY <1>1
<1>6. Shows(p, a, m) /\ Shows(q, b, n)
  BY <1>2, <1>3, <1>4, InTextAuthorsCases
<1>7. (m = 0 /\ n = 0) \/ (m \in {1, 2} /\ n \in {1, 2}) \/ (m \notin {0, 1, 2} /\ n \notin {0, 1, 2})
  <2>1. \A x, y : /\ <<"title", x>> # <<"names", y>> /\ <<"title", x>> # <<"et al.", y>>
                  /\ <<"names", x>> # <<"et al.", y>>
    OBVIOUS
  <2>2. QED
    BY <1>5, <1>6, <2>1, Zenon DEF Shows
<1>8. \/ m = 0 /\ n = 0 /\ ShortTitle(p.title) = ShortTitle(q.title)
      \/ m # 0 /\ n # 0 /\ a[1].family = b[1].family
  <2>1. \A x, y, t : <<t, x>> = <<t, y>> => x = y
    OBVIOUS
  <2>2. CASE m = 0 /\ n = 0
    <3>1. m \notin {1, 2} /\ n \notin {1, 2}
      BY <2>2
    <3>2. m \in {0, 1, 2} /\ n \in {0, 1, 2}
      BY <2>2
    <3>3. /\ InTextAuthors(p) = <<"title", ShortTitle(p.title)>>
          /\ InTextAuthors(q) = <<"title", ShortTitle(q.title)>>
      BY <1>6, <3>1, <3>2, Zenon DEF Shows
    <3>4. QED
      BY <1>5, <2>1, <2>2, <3>3, Zenon
  <2>3. CASE m \in {1, 2} /\ n \in {1, 2}
    <3>1. m # 0 /\ n # 0 /\ m \in {0, 1, 2} /\ n \in {0, 1, 2} /\ 1 \in 1 .. m /\ 1 \in 1 .. n
      BY <2>3
    <3>2. /\ InTextAuthors(p) = <<"names", [k \in 1 .. m |-> a[k].family]>>
          /\ InTextAuthors(q) = <<"names", [k \in 1 .. n |-> b[k].family]>>
      BY <1>6, <3>1, Zenon DEF Shows
    <3>3. [k \in 1 .. m |-> a[k].family] = [k \in 1 .. n |-> b[k].family]
      BY <1>5, <2>1, <3>2, Zenon
    <3>4. QED
      BY <3>1, <3>3
  <2>4. CASE m \notin {0, 1, 2} /\ n \notin {0, 1, 2}
    <3>1. m # 0 /\ n # 0 /\ m \notin {1, 2} /\ n \notin {1, 2}
      BY <2>4
    <3>2. /\ InTextAuthors(p) = <<"et al.", a[1].family>>
          /\ InTextAuthors(q) = <<"et al.", b[1].family>>
      BY <1>6, <2>4, <3>1, Zenon DEF Shows
    <3>3. QED
      BY <1>5, <2>1, <3>1, <3>2, Zenon
  <2>5. QED
    BY <1>7, <2>2, <2>3, <2>4
<1>9. Keyed(p, a) /\ Keyed(q, b) /\ p.year = q.year
  BY <1>1, <1>2, KeyCases
<1>10. AuthorYearKey(p) = AuthorYearKey(q)
  <2>1. CASE m = 0 /\ n = 0 /\ ShortTitle(p.title) = ShortTitle(q.title)
    BY <1>4, <1>9, <2>1, Zenon DEF Keyed
  <2>2. CASE m # 0 /\ n # 0 /\ a[1].family = b[1].family
    BY <1>4, <1>9, <2>2, Zenon DEF Keyed
  <2>3. QED
    BY <1>8, <2>1, <2>2
<1>11. QED
  BY <1>1, <1>10 DEF Group

(* Two references are never cited alike.                                    *)
LEMMA InTextDiffers ==
  ASSUME NEW refs, ParsedRefs(refs), NEW i \in DOMAIN refs, NEW j \in DOMAIN refs, i # j, NEW style
  PROVE  InText(refs, i, style) # InText(refs, j, style)
<1>1. CASE style = "IEEE"
  BY <1>1 DEF InText
<1>2. CASE style # "IEEE"
  <2>1. SUFFICES ASSUME /\ InTextAuthors(refs[i]) = InTextAuthors(refs[j])
                        /\ refs[i].year = refs[j].year
                        /\ YearLetter(refs, i) = YearLetter(refs, j)
                 PROVE  FALSE
    BY <1>2 DEF InText
  <2>2. j \in Group(refs, i)
    BY <2>1, AuthorsTellKey
  <2>3. QED
    BY <2>1, <2>2, LettersDiffer
<1>3. QED
  BY <1>1, <1>2

-----------------------------------------------------------------------------
(* Another order.                                                           *)

(* Where at rearranges 1 .. n, a choice and its rearrangement are of a size.*)
LEMMA RearrangedChoice ==
  ASSUME NEW n \in Nat, NEW at \in Bijection(1 .. n, 1 .. n), NEW S \in SUBSET (1 .. n), NEW T \in SUBSET (1 .. n),
         \A k \in 1 .. n : k \in T <=> at[k] \in S
  PROVE  Cardinality(T) = Cardinality(S)
<1> DEFINE f == [k \in T |-> at[k]]
<1>1. /\ at \in [1 .. n -> 1 .. n]
      /\ \A k, l \in 1 .. n : at[k] = at[l] => k = l
      /\ \A j \in 1 .. n : \E k \in 1 .. n : at[k] = j
  BY DEF Bijection, Injection, IsInjective, Surjection
<1>2. f \in Bijection(T, S)
  <2>1. f \in [T -> S]
    OBVIOUS
  <2>2. \A k, l \in T : f[k] = f[l] => k = l
    BY <1>1
  <2>3. \A s \in S : \E k \in T : f[k] = s
    BY <1>1
  <2> HIDE DEF f
  <2>4. QED
    BY <2>1, <2>2, <2>3 DEF Bijection, Injection, IsInjective, Surjection
<1>3. IsFiniteSet(T)
  <2>1. IsFiniteSet(1 .. n)
    BY FS_Interval
  <2>2. QED
    BY <2>1, FS_Subset
<1> HIDE DEF f
<1>4. QED
  BY <1>2, <1>3, FS_Bijection DEF ExistsBijection

(* A citation other than IEEE does not depend on the order of references,   *)
(* where no other has its title.                                            *)
LEMMA LetterRearranged ==
  ASSUME NEW refs, ParsedRefs(refs), NEW n, n = Len(refs), NEW at \in Bijection(1 .. n, 1 .. n), NEW m \in 1 .. n,
         \A k \in 1 .. n : refs[k].title = refs[at[m]].title => k = at[m],
         NEW other, other = [k \in 1 .. n |-> refs[at[k]]]
  PROVE  YearLetter(other, m) = YearLetter(refs, at[m])
<1> DEFINE i == at[m]
           G == Group(refs, i)
           H == Group(other, m)
           before == {j \in G : TitleBefore(refs, j, i)}
           after == {j \in H : TitleBefore(other, j, m)}
<1>1. n \in Nat /\ DOMAIN refs = 1 .. n
  BY DEF ParsedRefs
<1>2. /\ at \in [1 .. n -> 1 .. n] /\ i \in 1 .. n
      /\ \A k, l \in 1 .. n : at[k] = at[l] => k = l
  <2>1. at \in [1 .. n -> 1 .. n] /\ IsInjective(at)
    BY DEF Bijection, Injection
  <2>2. DOMAIN at = 1 .. n /\ at[m] \in 1 .. n
    BY <2>1
  <2>3. \A k, l \in 1 .. n : at[k] = at[l] => k = l
    BY <2>1, <2>2, Zenon DEF IsInjective
  <2>4. QED
    BY <2>1, <2>2, <2>3
<1>3. DOMAIN other = 1 .. n /\ other[m] = refs[i] /\ \A j \in 1 .. n : other[j] = refs[at[j]]
  OBVIOUS
<1> HIDE DEF i
<1>4. Cardinality(H) = Cardinality(G)
  <2>1. \A j \in 1 .. n : j \in H <=> at[j] \in G
    BY <1>1, <1>2, <1>3 DEF Group
  <2>2. G \in SUBSET (1 .. n) /\ H \in SUBSET (1 .. n)
    BY <1>1, <1>3 DEF Group
  <2> HIDE DEF G, H
  <2>3. QED
    BY <1>1, <2>1, <2>2, RearrangedChoice
<1>5. Cardinality(after) = Cardinality(before)
  <2>1. ASSUME NEW j \in 1 .. n PROVE TitleBefore(other, j, m) <=> TitleBefore(refs, at[j], i)
    <3>1. j = m => ~ TitleBefore(other, j, m) /\ ~ TitleBefore(refs, at[j], i)
      <4>1. SUFFICES ASSUME j = m PROVE ~ TitleBefore(refs, i, i) /\ ~ TitleBefore(other, m, m)
        BY DEF i
      <4>2. refs[i].title \in Seq(Nat) /\ other[m] = refs[i] /\ i \in Nat /\ m \in Nat
        BY <1>1, <1>2, <1>3 DEF ParsedRefs
      <4>3. ~ WordsBefore(refs[i].title, refs[i].title)
        BY <4>2, WordsIrreflexive
      <4>4. QED
        BY <4>2, <4>3 DEF TitleBefore
    <3>2. j # m => refs[at[j]].title # refs[i].title
      BY <1>2 DEF i
    <3>3. QED
      BY <1>3, <3>1, <3>2 DEF TitleBefore
  <2>2. \A j \in 1 .. n : j \in after <=> at[j] \in before
    BY <1>1, <1>2, <1>3, <2>1 DEF Group
  <2>3. before \in SUBSET (1 .. n) /\ after \in SUBSET (1 .. n)
    BY <1>1, <1>3 DEF Group
  <2> HIDE DEF before, after
  <2>4. QED
    BY <1>1, <2>2, <2>3, RearrangedChoice
<1>6. YearLetter(other, m) = YearLetter(refs, i)
  BY <1>4, <1>5 DEF YearLetter
<1>7. QED
  BY <1>6 DEF i

-----------------------------------------------------------------------------
(* Spellings.                                                               *)

LEMMA OneElement ==
  ASSUME NEW X, NEW s \in Seq(X), Len(s) = 1
  PROVE  s = <<s[1]>>
OBVIOUS

(* whole is the parts one after the other, part k up to position at[k].     *)
Sliced(X, parts, whole, at) ==
  /\ whole \in Seq(X) /\ Len(whole) = at[Len(parts)]
  /\ at \in [0 .. Len(parts) -> Nat]
  /\ \A k \in 1 .. Len(parts) :
       /\ at[k] = at[k - 1] + Len(parts[k]) /\ at[k] <= Len(whole)
       /\ \A c \in 1 .. Len(parts[k]) : whole[at[k - 1] + c] = parts[k][c]

LEMMA ConcatenatedSliced ==
  ASSUME NEW X, NEW parts \in Seq(Seq(X))
  PROVE  Sliced(X, parts, Concatenated(parts), Totals([k \in DOMAIN parts |-> Len(parts[k])]))
BY ConcatenatedSlices, ZenonT(40) DEF Sliced

LEMMA OnePart ==
  ASSUME NEW X, NEW parts \in Seq(Seq(X)), Len(parts) = 1
  PROVE  Concatenated(parts) = parts[1]
<1> DEFINE whole == Concatenated(parts)
           at == Totals([k \in DOMAIN parts |-> Len(parts[k])])
<1>1. 1 \in 1 .. Len(parts) /\ DOMAIN parts = {1} /\ parts[1] \in Seq(X) /\ Len(parts[1]) \in Nat
  OBVIOUS
<1>2. Sliced(X, parts, whole, at)
  BY ConcatenatedSliced
<1>3. at[0] = 0
  <2> DEFINE counts == [k \in DOMAIN parts |-> Len(parts[k])]
  <2>1. counts = [k \in 1 .. 1 |-> Len(parts[k])] /\ \A k \in 1 .. 1 : Len(parts[k]) \in Nat
    BY <1>1
  <2> HIDE DEF counts
  <2>2. counts \in Seq(Nat)
    BY <2>1
  <2>3. Totals(counts)[0] = 0
    BY <2>2, TotalsAdd
  <2>4. QED
    BY <2>3 DEF counts
<1> HIDE DEF whole, at
<1>4. /\ Len(whole) = at[1] /\ at[1] = at[0] + Len(parts[1])
      /\ \A c \in 1 .. Len(parts[1]) : whole[at[0] + c] = parts[1][c]
  BY <1>1, <1>2 DEF Sliced
<1>5. Len(whole) = Len(parts[1]) /\ \A c \in 1 .. Len(parts[1]) : whole[c] = parts[1][c]
  BY <1>1, <1>3, <1>4
<1>6. whole = parts[1]
  BY <1>1, <1>2, <1>5 DEF Sliced
<1>7. QED
  BY <1>6 DEF whole

LEMMA PartsOfThree ==
  ASSUME NEW t, NEW s, NEW u
  PROVE  /\ SubSeq(<<t, s, u>>, 1, 1) = <<t>>
         /\ SubSeq(<<t, s, u>>, 3, 3) = <<u>>
<1>1. <<t, s, u>> \in Seq({t, s, u}) /\ Len(<<t, s, u>>) = 3 
  OBVIOUS
<1>2. <<t, s, u>>[1] = t /\ <<t, s, u>>[3] = u
  OBVIOUS
<1>3. ASSUME NEW raw, NEW X, raw \in Seq(X), Len(raw) = 3
      PROVE  SubSeq(raw, 1, 1) = <<raw[1]>> /\ SubSeq(raw, 3, 3) = <<raw[3]>>
  <2>1. SubSeq(raw, 1, 1) \in Seq(X) /\ Len(SubSeq(raw, 1, 1)) = 1 /\ SubSeq(raw, 1, 1)[1] = raw[1]
    BY <1>3
  <2>2. SubSeq(raw, 3, 3) \in Seq(X) /\ Len(SubSeq(raw, 3, 3)) = 1 /\ SubSeq(raw, 3, 3)[1] = raw[3]
    <3>1. 3 \in 1 .. Len(raw) /\ raw[3] \in X
      BY <1>3
    <3>2. SubSeq(raw, 3, 3) = [i \in 1 .. 1 |-> raw[i + 2]]
      BY <1>3
    <3>3. \A i \in 1 .. 1 : raw[i + 2] = raw[3]
      OBVIOUS
    <3>4. SubSeq(raw, 3, 3) = [i \in 1 .. 1 |-> raw[3]]
      BY <3>2, <3>3
    <3>5. QED
      BY <3>1, <3>4
  <2>3. QED
    BY <2>1, <2>2, OneElement
<1>4. QED
  BY <1>1, <1>2, <1>3

LEMMA PartsOfTwo ==
  ASSUME NEW t, NEW u
  PROVE  /\ Last(<<t, u>>) = u
         /\ Front(<<t, u>>) = <<t>>
<1>1. <<t, u>> \in Seq({t, u}) /\ Len(<<t, u>>) = 2 
  OBVIOUS
<1>2. <<t, u>>[1] = t /\ <<t, u>>[2] = u
  OBVIOUS
<1>3. ASSUME NEW raw, NEW X, raw \in Seq(X), Len(raw) = 2
      PROVE  SubSeq(raw, 1, Len(raw) - 1) = <<raw[1]>>
  <2>1. SubSeq(raw, 1, Len(raw) - 1) \in Seq(X) /\ Len(SubSeq(raw, 1, Len(raw) - 1)) = 1
        /\ SubSeq(raw, 1, Len(raw) - 1)[1] = raw[1]
    BY <1>3
  <2>3. QED
    BY <2>1, OneElement
<1>4. QED
  BY <1>1, <1>2, <1>3 DEF Last, Front

(* A surname of one word, and one token before or after it.                 *)
LEMMA OneAndOne ==
  ASSUME NEW t, NEW u, u.letters \in Seq(Nat)
  PROVE  AuthorName(<<t>>, <<u>>) = [family |-> <<t.word>>, initials |-> u.letters]
<1>1. [i \in DOMAIN <<t>> |-> <<t>>[i].word] = <<t.word>>
  OBVIOUS
<1>2. [i \in DOMAIN <<u>> |-> <<u>>[i].letters] = <<u.letters>>
  OBVIOUS
<1>3. PICK l : l = u.letters
  OBVIOUS
<1>4. Concatenated(<<l>>) = l
  <2>1. <<l>> \in Seq(Seq(Nat)) /\ Len(<<l>>) = 1 /\ <<l>>[1] = l
    BY <1>3
  <2>2. QED
    BY <2>1, OnePart
<1>5. ToInitials(<<u>>) = l
  BY <1>2, <1>3, <1>4 DEF ToInitials
<1>6. QED
  BY <1>1, <1>3, <1>5 DEF AuthorName

(* "Family, given", "given family" and "family initials".                   *)
LEMMA AfterComma ==
  ASSUME NEW t, NEW u, u.letters \in Seq(Nat), t.kind # "comma"
  PROVE  ParseAuthorName(<<t, Comma, u>>) = [family |-> <<t.word>>, initials |-> u.letters]
<1> DEFINE raw == <<t, Comma, u>>
           commas == {i \in 2 .. Len(raw) - 1 : raw[i].kind = "comma" /\ raw[1].kind # "comma"}
           c == CHOOSE i \in commas : \A j \in commas : i <= j
<1>1. Len(raw) = 3 /\ raw[2].kind = "comma" /\ raw[1].kind # "comma"
  BY DEF Comma
<1>2. commas = {2}
  BY <1>1
<1>3. c = 2 /\ commas # {}
  BY <1>2
<1>4. ParseAuthorName(raw) = AuthorName(SubSeq(raw, 1, c - 1), SubSeq(raw, c + 1, Len(raw)))
  BY <1>3 DEF ParseAuthorName
<1>5. SubSeq(raw, 1, 1) = <<t>> /\ SubSeq(raw, 3, 3) = <<u>>
  BY PartsOfThree
<1>6. ParseAuthorName(raw) = AuthorName(<<t>>, <<u>>)
  <2>1. c - 1 = 1 /\ c + 1 = 3 /\ Len(raw) = 3
    BY <1>1, <1>3
  <2> HIDE DEF c, raw
  <2>2. QED
    BY <1>4, <1>5, <2>1
<1>7. QED
  BY <1>6, OneAndOne

LEMMA SurnameLast ==
  ASSUME NEW t, NEW u, u.letters \in Seq(Nat), t.kind # "initials"
  PROVE  ParseAuthorName(<<u, t>>) = [family |-> <<t.word>>, initials |-> u.letters]
<1> DEFINE raw == <<u, t>>
           commas == {i \in 2 .. Len(raw) - 1 : raw[i].kind = "comma" /\ raw[1].kind # "comma"}
<1>1. Len(raw) = 2 /\ commas = {}
  OBVIOUS
<1>2. Last(raw) = t /\ Front(raw) = <<u>>
  BY PartsOfTwo
<1>3. ParseAuthorName(raw) = AuthorName(<<Last(raw)>>, Front(raw))
  BY <1>1, <1>2 DEF ParseAuthorName
<1>4. QED
  BY <1>2, <1>3, OneAndOne

LEMMA InitialsLast ==
  ASSUME NEW t, NEW u, u.letters \in Seq(Nat), u.kind = "initials"
  PROVE  ParseAuthorName(<<t, u>>) = [family |-> <<t.word>>, initials |-> u.letters]
<1> DEFINE raw == <<t, u>>
           commas == {i \in 2 .. Len(raw) - 1 : raw[i].kind = "comma" /\ raw[1].kind # "comma"}
<1>1. Len(raw) = 2 /\ commas = {}
  OBVIOUS
<1>2. Last(raw) = u /\ Front(raw) = <<t>>
  BY PartsOfTwo
<1>3. ParseAuthorName(raw) = AuthorName(Front(raw), <<Last(raw)>>)
  BY <1>1, <1>2 DEF ParseAuthorName
<1>4. QED
  BY <1>2, <1>3, OneAndOne

-----------------------------------------------------------------------------
(* The reference list.                                                      *)

(* An author-year key is a tag, words, and a year.                          *)
LEMMA KeyShape ==
  ASSUME NEW refs, ParsedRefs(refs), NEW i \in DOMAIN refs
  PROVE  \E t \in {"title", "family"}, w \in Seq(Nat), y \in Nat :
           AuthorYearKey(refs[i]) = [name |-> <<t, w>>, year |-> y]
<1>1. PICK p : p = refs[i]
  OBVIOUS
<1>2. PICK a : a = p.authors
  OBVIOUS
<1>3. /\ p.title \in Seq(Nat) /\ p.year \in Nat /\ a \in Seq(Range(a))
      /\ \A k \in DOMAIN a : a[k].family \in Seq(Nat)
  BY <1>1, <1>2 DEF ParsedRefs
<1>4. Keyed(p, a)
  BY <1>2, KeyCases
<1>5. CASE a = <<>>
  <2>1. ShortTitle(p.title) \in Seq(Nat)
    BY <1>3 DEF ShortTitle
  <2>2. AuthorYearKey(p) = [name |-> <<"title", ShortTitle(p.title)>>, year |-> p.year]
    BY <1>4, <1>5, Zenon DEF Keyed
  <2>3. QED
    BY <1>1, <1>3, <2>1, <2>2
<1>6. CASE a # <<>>
  <2>1. a[1].family \in Seq(Nat)
    BY <1>3, <1>6
  <2>2. AuthorYearKey(p) = [name |-> <<"family", a[1].family>>, year |-> p.year]
    BY <1>4, <1>6, Zenon DEF Keyed
  <2>3. QED
    BY <1>1, <1>3, <2>1, <2>2
<1>7. QED
  BY <1>5, <1>6

LEMMA LetterIsNatural ==
  ASSUME NEW refs, ParsedRefs(refs), NEW i \in DOMAIN refs
  PROVE  YearLetter(refs, i) \in Nat
<1> DEFINE S == {j \in Group(refs, i) : TitleBefore(refs, j, i)}
<1>1. DOMAIN refs = 1 .. Len(refs) /\ Len(refs) \in Nat
  BY DEF ParsedRefs
<1>2. IsFiniteSet(DOMAIN refs)
  BY <1>1, FS_Interval
<1>3. S \in SUBSET DOMAIN refs
  BY DEF Group
<1> HIDE DEF S
<1>4. IsFiniteSet(S)
  BY <1>2, <1>3, FS_Subset
<1>5. Cardinality(S) \in Nat
  BY <1>4, FS_CardinalityType
<1>6. YearLetter(refs, i) = 0 \/ YearLetter(refs, i) = 1 + Cardinality(S)
  BY DEF YearLetter, S
<1>7. QED
  BY <1>5, <1>6

(* The order of two keys with their letters.                                *)
KeyBefore(t, w, y, l, u, x, z, m) ==
  \/ t = "title" /\ u = "family"
  \/ t = u /\ WordsBefore(w, x)
  \/ t = u /\ w = x /\ y < z
  \/ t = u /\ w = x /\ y = z /\ l < m

LEMMA SortsByKey ==
  ASSUME NEW refs, NEW i, NEW j, NEW style, style # "IEEE",
         NEW t, NEW w, NEW y, NEW u, NEW x, NEW z,
         AuthorYearKey(refs[i]) = [name |-> <<t, w>>, year |-> y],
         AuthorYearKey(refs[j]) = [name |-> <<u, x>>, year |-> z]
  PROVE  SortsBefore(refs, i, j, style)
           <=> KeyBefore(t, w, y, YearLetter(refs, i), u, x, z, YearLetter(refs, j))
<1>1. PICK a, b : a = AuthorYearKey(refs[i]) /\ b = AuthorYearKey(refs[j])
  OBVIOUS
<1>2. PICK l, m : l = YearLetter(refs, i) /\ m = YearLetter(refs, j)
  OBVIOUS
<1>3. SortsBefore(refs, i, j, style) <=>
        \/ a.name[1] = "title" /\ b.name[1] = "family"
        \/ a.name[1] = b.name[1] /\ WordsBefore(a.name[2], b.name[2])
        \/ a.name = b.name /\ a.year < b.year
        \/ a = b /\ l < m
  BY <1>1, <1>2, Zenon DEF SortsBefore
<1>4. a = [name |-> <<t, w>>, year |-> y] /\ b = [name |-> <<u, x>>, year |-> z]
  BY <1>1
<1>5. /\ a.name = <<t, w>> /\ a.year = y /\ b.name = <<u, x>> /\ b.year = z
      /\ a.name[1] = t /\ a.name[2] = w /\ b.name[1] = u /\ b.name[2] = x
  BY <1>4
<1>6. a.name = b.name <=> t = u /\ w = x
  BY <1>5
<1>7. a = b <=> t = u /\ w = x /\ y = z
  BY <1>4, <1>5
<1>8. QED
  BY <1>2, <1>3, <1>5, <1>6, <1>7, Zenon DEF KeyBefore

LEMMA SortIsStrict ==
  ASSUME NEW refs, ParsedRefs(refs), NEW style
  PROVE  /\ \A i \in DOMAIN refs : ~ SortsBefore(refs, i, i, style)
         /\ \A i, j, k \in DOMAIN refs :
              SortsBefore(refs, i, j, style) /\ SortsBefore(refs, j, k, style)
                => SortsBefore(refs, i, k, style)
         /\ \A i, j \in DOMAIN refs :
              i = j \/ SortsBefore(refs, i, j, style) \/ SortsBefore(refs, j, i, style)
<1>1. CASE style = "IEEE"
  <2>1. \A i, j : SortsBefore(refs, i, j, style) <=> i < j
    BY <1>1, Zenon DEF SortsBefore
  <2>2. DOMAIN refs \subseteq Int
    BY DEF ParsedRefs
  <2>3. QED
    BY <2>1, <2>2
<1>2. CASE style # "IEEE"
  <2>1. ASSUME NEW i \in DOMAIN refs PROVE ~ SortsBefore(refs, i, i, style)
    <3>1. PICK t \in {"title", "family"}, w \in Seq(Nat), y \in Nat :
            AuthorYearKey(refs[i]) = [name |-> <<t, w>>, year |-> y]
      BY KeyShape
    <3>2. PICK l \in Nat : l = YearLetter(refs, i)
      BY LetterIsNatural
    <3>3. ~ WordsBefore(w, w)
      BY WordsIrreflexive
    <3>4. ~ KeyBefore(t, w, y, l, t, w, y, l)
      BY <3>3 DEF KeyBefore
    <3>5. QED
      BY <1>2, <3>1, <3>2, <3>4, SortsByKey
  <2>2. ASSUME NEW i \in DOMAIN refs, NEW j \in DOMAIN refs, NEW k \in DOMAIN refs,
               SortsBefore(refs, i, j, style), SortsBefore(refs, j, k, style)
        PROVE  SortsBefore(refs, i, k, style)
    <3>1. PICK t \in {"title", "family"}, w \in Seq(Nat), y \in Nat :
            AuthorYearKey(refs[i]) = [name |-> <<t, w>>, year |-> y]
      BY KeyShape
    <3>2. PICK u \in {"title", "family"}, x \in Seq(Nat), z \in Nat :
            AuthorYearKey(refs[j]) = [name |-> <<u, x>>, year |-> z]
      BY KeyShape
    <3>3. PICK v \in {"title", "family"}, f \in Seq(Nat), g \in Nat :
            AuthorYearKey(refs[k]) = [name |-> <<v, f>>, year |-> g]
      BY KeyShape
    <3>4. PICK l \in Nat, m \in Nat, n \in Nat :
            l = YearLetter(refs, i) /\ m = YearLetter(refs, j) /\ n = YearLetter(refs, k)
      BY LetterIsNatural
    <3>5. KeyBefore(t, w, y, l, u, x, z, m) /\ KeyBefore(u, x, z, m, v, f, g, n)
      BY <1>2, <2>2, <3>1, <3>2, <3>3, <3>4, SortsByKey
    <3>6. WordsBefore(w, x) /\ WordsBefore(x, f) => WordsBefore(w, f)
      BY WordsTransitive
    <3>7. KeyBefore(t, w, y, l, v, f, g, n)
      BY <3>5, <3>6 DEF KeyBefore
    <3>8. QED
      BY <1>2, <3>1, <3>3, <3>4, <3>7, SortsByKey
  <2>3. ASSUME NEW i \in DOMAIN refs, NEW j \in DOMAIN refs, i # j
        PROVE  SortsBefore(refs, i, j, style) \/ SortsBefore(refs, j, i, style)
    <3>1. PICK t \in {"title", "family"}, w \in Seq(Nat), y \in Nat :
            AuthorYearKey(refs[i]) = [name |-> <<t, w>>, year |-> y]
      BY KeyShape
    <3>2. PICK u \in {"title", "family"}, x \in Seq(Nat), z \in Nat :
            AuthorYearKey(refs[j]) = [name |-> <<u, x>>, year |-> z]
      BY KeyShape
    <3>3. PICK l \in Nat, m \in Nat : l = YearLetter(refs, i) /\ m = YearLetter(refs, j)
      BY LetterIsNatural
    <3>4. w = x \/ WordsBefore(w, x) \/ WordsBefore(x, w)
      BY WordsTotal
    <3>5. t = u /\ w = x /\ y = z => l # m
      <4>1. SUFFICES ASSUME t = u, w = x, y = z PROVE l # m
        OBVIOUS
      <4>2. AuthorYearKey(refs[i]) = AuthorYearKey(refs[j])
        BY <3>1, <3>2, <4>1, Zenon
      <4>3. j \in Group(refs, i)
        BY <4>2 DEF Group
      <4>4. QED
        BY <2>3, <3>3, <4>3, LettersDiffer
    <3>6. KeyBefore(t, w, y, l, u, x, z, m) \/ KeyBefore(u, x, z, m, t, w, y, l)
      BY <3>4, <3>5 DEF KeyBefore
    <3>7. QED
      BY <1>2, <3>1, <3>2, <3>3, <3>6, SortsByKey
  <2>4. QED
    BY <2>1, <2>2, <2>3
<1>3. QED
  BY <1>1, <1>2

(* The list has every position once.                                        *)
LEMMA BibliographyHasAll ==
  ASSUME NEW refs, ParsedRefs(refs), NEW style
  PROVE  LET listed == Bibliography(refs, style) IN
         /\ DOMAIN listed = DOMAIN refs
         /\ \A k \in DOMAIN listed : listed[k] \in DOMAIN refs
         /\ \A k, l \in DOMAIN listed : listed[k] = listed[l] => k = l
         /\ \A i \in DOMAIN refs : \E k \in DOMAIN listed : listed[k] = i
<1> DEFINE D == DOMAIN refs
           R == {p \in D \X D : SortsBefore(refs, p[1], p[2], style)}
           listed == Bibliography(refs, style)
           n == Len(refs)
<1>1. D = 1 .. n /\ n \in Nat
  BY DEF ParsedRefs
<1>2. IsFiniteSet(D) /\ Cardinality(D) = n
  <2>1. IsFiniteSet(1 .. n)
    BY <1>1, FS_Interval
  <2>2. Cardinality(1 .. n) = n
    <3> HIDE DEF n
    <3>1. Cardinality(1 .. n) = IF 1 > n THEN 0 ELSE n - 1 + 1
      BY <1>1, FS_Interval
    <3>2. QED
      BY <1>1, <3>1
  <2>3. QED
    BY <1>1, <2>1, <2>2
<1>3. \A i, j \in D : <<i, j>> \in R <=> SortsBefore(refs, i, j, style)
  OBVIOUS
<1>4. /\ \A i \in D : ~ SortsBefore(refs, i, i, style)
      /\ \A i, j, k \in D : SortsBefore(refs, i, j, style) /\ SortsBefore(refs, j, k, style)
                              => SortsBefore(refs, i, k, style)
      /\ \A i, j \in D : i = j \/ SortsBefore(refs, i, j, style) \/ SortsBefore(refs, j, i, style)
  BY SortIsStrict
<1> HIDE DEF R
<1>5. StrictOrder(R, D)
  BY <1>3, <1>4 DEF StrictOrder
<1>6. Below(R, D) = [i \in D |-> {j \in D : SortsBefore(refs, j, i, style)}]
  BY <1>3 DEF Below
<1>7. listed = OrderedBy(D, Below(R, D))
  BY <1>6 DEF Bibliography
<1> HIDE DEF D, listed
<1>8. listed \in Bijection(1 .. Cardinality(D), D)
  BY <1>2, <1>5, <1>7, OrderedByEnumerates
<1>9. listed \in Bijection(D, D)
  BY <1>1, <1>2, <1>8
<1>10. /\ listed \in [D -> D]
       /\ \A k, l \in D : listed[k] = listed[l] => k = l
       /\ \A i \in D : \E k \in D : listed[k] = i
  BY <1>9 DEF Bijection, Injection, IsInjective, Surjection
<1>11. QED
  BY <1>10 DEF D, listed

-----------------------------------------------------------------------------
(* Citations and entries.                                                   *)

(* An entry begins with the first author, shows no more than two of two,    *)
(* and more than two of more.                                               *)
LEMMA EntryShows ==
  ASSUME NEW X, NEW a \in Seq(X), NEW style \in {"APA", "CHICAGO"},
         NEW e, e = EntryAuthors(a, style)
  PROVE  /\ e \in Seq(X)
         /\ Len(a) <= 2 => e = a
         /\ Len(a) > 2 => Len(e) > 2 /\ e[1] = a[1]
<1>1. PICK m \in Nat, n \in Nat : /\ m = MaxEntryAuthors[style] /\ n = KeptEntryAuthors[style]
                                  /\ 3 <= n /\ n < m
  <2>1. /\ MaxEntryAuthors["APA"] = 20 /\ MaxEntryAuthors["CHICAGO"] = 10
        /\ KeptEntryAuthors["APA"] = 19 /\ KeptEntryAuthors["CHICAGO"] = 7
    BY DEF MaxEntryAuthors, KeptEntryAuthors
  <2>2. QED
    BY <2>1
<1>2. Len(a) \in Nat
  OBVIOUS
<1>3. CASE Len(a) <= m
  <2>1. e = a
    BY <1>1, <1>3 DEF EntryAuthors
  <2>2. QED
    BY <2>1
<1>4. CASE ~ (Len(a) <= m)
  <2> DEFINE s == SubSeq(a, 1, n)
             t == IF style = "APA" THEN <<Last(a)>> ELSE <<>>
  <2>1. e = s \o t
    BY <1>1, <1>4 DEF EntryAuthors
  <2>2. s \in Seq(X) /\ Len(s) = n /\ s[1] = a[1]
    BY <1>1, <1>2, <1>4
  <2>3. t \in Seq(X) /\ Len(t) \in Nat
    <3>1. Len(a) \in 1 .. Len(a)
      BY <1>1, <1>2, <1>4
    <3>2. Last(a) \in X
      BY <3>1 DEF Last
    <3>3. QED
      BY <3>2
  <2> HIDE DEF s, t
  <2>4. e \in Seq(X) /\ Len(e) > 2 /\ e[1] = a[1]
    BY <1>1, <2>1, <2>2, <2>3
  <2>5. QED
    BY <1>1, <1>2, <1>4, <2>4
<1>5. QED
  BY <1>3, <1>4

(* What an author-date citation matches of an entry.                        *)
Matches(part, title, families) ==
  \/ part = <<"title", ShortTitle(title)>> /\ families = <<>>
  \/ part = <<"names", families>>
  \/ Len(families) > 2 /\ part = <<"et al.", families[1]>>

LEMMA MatchesTitle ==
  ASSUME NEW x, NEW title, NEW families, Matches(<<"title", x>>, title, families)
  PROVE  x = ShortTitle(title) /\ families = <<>>
BY DEF Matches

LEMMA MatchesNames ==
  ASSUME NEW x, NEW title, NEW families, Matches(<<"names", x>>, title, families)
  PROVE  x = families
BY DEF Matches

LEMMA MatchesEtAl ==
  ASSUME NEW x, NEW title, NEW families, Matches(<<"et al.", x>>, title, families)
  PROVE  Len(families) > 2 /\ x = families[1]
BY DEF Matches

(* A citation matches the authors of an entry exactly if its own reference  *)
(* shows the same authors.                                                  *)
LEMMA MatchesTheSame ==
  ASSUME NEW refs, ParsedRefs(refs), NEW i \in DOMAIN refs, NEW j \in DOMAIN refs,
         NEW style \in {"APA", "CHICAGO"},
         NEW e, e = EntryAuthors(refs[j].authors, style),
         NEW families, families = [a \in DOMAIN e |-> e[a].family]
  PROVE  /\ i = j => Matches(InTextAuthors(refs[i]), refs[j].title, families)
         /\ Matches(InTextAuthors(refs[i]), refs[j].title, families) /\ refs[i].year = refs[j].year
              => j \in Group(refs, i)
<1>1. PICK p, q : p = refs[i] /\ q = refs[j]
  OBVIOUS
<1>2. PICK a, b : a = p.authors /\ b = q.authors
  OBVIOUS
<1>3. PICK m, n, l : m = Len(a) /\ n = Len(b) /\ l = Len(e)
  OBVIOUS
<1>4. PICK X : a \in Seq(X) /\ b \in Seq(X)
  <2>1. a \in Seq(Range(a)) /\ b \in Seq(Range(b))
    BY <1>1, <1>2 DEF ParsedRefs
  <2>2. a \in Seq(Range(a) \cup Range(b)) /\ b \in Seq(Range(a) \cup Range(b))
    BY <2>1
  <2>3. QED
    BY <2>2
<1>5. /\ e \in Seq(X)
      /\ n <= 2 => e = b
      /\ n > 2 => l > 2 /\ e[1] = b[1]
  <2>1. e = EntryAuthors(b, style)
    BY <1>1, <1>2
  <2>2. QED
    <3>1. /\ e \in Seq(X)
          /\ Len(b) <= 2 => e = b
          /\ Len(b) > 2 => Len(e) > 2 /\ e[1] = b[1]
      BY <1>4, <2>1, EntryShows
    <3>2. QED
      BY <1>3, <3>1
<1>6. /\ m \in Nat /\ (a = <<>> <=> m = 0)
      /\ n \in Nat /\ (b = <<>> <=> n = 0)
      /\ l \in Nat /\ DOMAIN e = 1 .. l /\ DOMAIN b = 1 .. n
  BY <1>3, <1>4, <1>5
<1>7. families = [k \in 1 .. l |-> e[k].family]
  BY <1>6
<1>8. Len(families) = l /\ DOMAIN families = 1 .. l
  BY <1>6, <1>7
<1>9. families = <<>> <=> l = 0
  BY <1>6, <1>7
<1>10. Shows(p, a, m)
  BY <1>2, <1>3, <1>6, InTextAuthorsCases
<1>13. ASSUME i = j PROVE Matches(InTextAuthors(p), q.title, families)
  <2>1. p = q /\ a = b /\ m = n
    BY <1>1, <1>2, <1>3, <1>13
  <2>2. CASE m = 0
    <3>1. m \notin {1, 2} /\ m \in {0, 1, 2}
      BY <2>2
    <3>2. InTextAuthors(p) = <<"title", ShortTitle(q.title)>>
      BY <1>10, <2>1, <2>2, <3>1, Zenon DEF Shows
    <3>3. families = <<>>
      BY <1>3, <1>5, <1>6, <1>9, <2>1, <2>2
    <3>4. QED
      BY <3>2, <3>3, Zenon DEF Matches
  <2>3. CASE m \in {1, 2}
    <3>1. m # 0 /\ m \in {0, 1, 2}
      BY <2>3
    <3>2. InTextAuthors(p) = <<"names", [k \in 1 .. m |-> a[k].family]>>
      BY <1>10, <2>3, <3>1, Zenon DEF Shows
    <3>3. e = b /\ l = m
      <4>1. n <= 2
        BY <2>1, <2>3
      <4>2. e = b
        BY <1>5, <4>1
      <4>3. QED
        BY <1>3, <2>1, <4>2
    <3>4. families = [k \in 1 .. m |-> a[k].family]
      BY <1>7, <2>1, <3>3
    <3>5. QED
      BY <3>2, <3>4, Zenon DEF Matches
  <2>4. CASE m \notin {0, 1, 2}
    <3>1. m # 0 /\ m \notin {1, 2}
      BY <2>4
    <3>2. InTextAuthors(p) = <<"et al.", a[1].family>>
      BY <1>10, <2>4, <3>1, Zenon DEF Shows
    <3>3. n > 2
      BY <1>6, <2>1, <2>4
    <3>4. l > 2 /\ e[1] = a[1]
      BY <1>5, <2>1, <3>3
    <3>5. 1 \in 1 .. l
      BY <1>6, <3>4
    <3>6. families[1] = a[1].family
      BY <1>7, <3>4, <3>5
    <3>7. Len(families) > 2
      BY <1>8, <3>4
    <3>8. QED
      BY <3>2, <3>6, <3>7, Zenon DEF Matches
  <2>5. QED
    BY <2>2, <2>3, <2>4
<1>14. ASSUME Matches(InTextAuthors(p), q.title, families), p.year = q.year
       PROVE  AuthorYearKey(p) = AuthorYearKey(q)
  <2>1. Keyed(p, a) /\ Keyed(q, b)
    BY <1>2, KeyCases
  <2>2. CASE m = 0
    <3>1. m \notin {1, 2} /\ m \in {0, 1, 2}
      BY <2>2
    <3>2. InTextAuthors(p) = <<"title", ShortTitle(p.title)>>
      BY <1>10, <2>2, <3>1, Zenon DEF Shows
    <3>3. ShortTitle(p.title) = ShortTitle(q.title) /\ families = <<>>
      <4>1. Matches(<<"title", ShortTitle(p.title)>>, q.title, families)
        BY <1>14, <3>2, Zenon
      <4>2. QED
        BY <4>1, MatchesTitle
    <3>4. b = <<>> /\ a = <<>>
      BY <1>3, <1>5, <1>6, <1>9, <2>2, <3>3
    <3>5. QED
      BY <1>14, <2>1, <3>3, <3>4, Zenon DEF Keyed
  <2>3. CASE m \in {1, 2}
    <3>1. m # 0 /\ m \in {0, 1, 2} /\ 1 \in 1 .. m
      BY <2>3
    <3>2. InTextAuthors(p) = <<"names", [k \in 1 .. m |-> a[k].family]>>
      BY <1>10, <2>3, <3>1, Zenon DEF Shows
    <3>3. [k \in 1 .. m |-> a[k].family] = families
      <4>1. Matches(<<"names", [k \in 1 .. m |-> a[k].family]>>, q.title, families)
        BY <1>14, <3>2, Zenon
      <4>2. QED
        BY <4>1, MatchesNames
    <3>4. (1 .. m) = (1 .. l)
      BY <1>8, <3>3
    <3>5. m = l
      <4>1. m \in 1 .. l /\ (l = 0 \/ l \in 1 .. m)
        BY <1>6, <2>3, <3>4
      <4>2. QED
        BY <1>6, <2>3, <4>1
    <3>6. e = b /\ a # <<>> /\ b # <<>>
      <4>1. ~ (l > 2)
        BY <2>3, <3>5
      <4>2. n <= 2
        BY <1>5, <1>6, <4>1
      <4>3. QED
        BY <1>3, <1>5, <1>6, <2>3, <3>5, <4>2
    <3>7. a[1].family = b[1].family
      BY <1>7, <3>1, <3>3, <3>4, <3>6
    <3>8. QED
      BY <1>14, <2>1, <3>6, <3>7, Zenon DEF Keyed
  <2>4. CASE m \notin {0, 1, 2}
    <3>1. m # 0 /\ m \notin {1, 2}
      BY <2>4
    <3>2. InTextAuthors(p) = <<"et al.", a[1].family>>
      BY <1>10, <2>4, <3>1, Zenon DEF Shows
    <3>3. Len(families) > 2 /\ a[1].family = families[1]
      <4>1. Matches(<<"et al.", a[1].family>>, q.title, families)
        BY <1>14, <3>2, Zenon
      <4>2. QED
        BY <4>1, MatchesEtAl, ZenonT(40)
    <3>4. l > 2 /\ 1 \in 1 .. l
      BY <1>6, <1>8, <3>3
    <3>5. n > 2
      BY <1>3, <1>5, <1>6, <3>4
    <3>6. e[1] = b[1] /\ a # <<>> /\ b # <<>>
      BY <1>5, <1>6, <3>1, <3>5
    <3>7. a[1].family = b[1].family
      BY <1>7, <3>3, <3>4, <3>6
    <3>8. QED
      BY <1>14, <2>1, <3>6, <3>7, Zenon DEF Keyed
  <2>5. QED
    BY <2>2, <2>3, <2>4
<1>15. QED
  BY <1>1, <1>13, <1>14 DEF Group
================================================================================
