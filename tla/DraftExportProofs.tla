--------------------------- MODULE DraftExportProofs ---------------------------
(***************************************************************************)
(* What holds of every export, for any files, papers, names and number of  *)
(* acceptances: the citations of a bundle identify their references, the   *)
(* common spellings of an author agree, the reference list is as cited,    *)
(* every claim has one outcome, a citation inserted in a docx stands       *)
(* behind its sentence, and such a paragraph reads as its block of the     *)
(* Markdown export.                                                        *)
(***************************************************************************)
EXTENDS DraftExport, DraftFunctionsProofs

-----------------------------------------------------------------------------
(* Rows of accepted citations.                                              *)
Rows == [by : Nat, claim : Nat, ref : References]

(* The positions of the first row of every claim, and of the rows of the    *)
(* claim of row m.                                                          *)
Firsts(rows) ==
  {k \in DOMAIN rows : \A l \in 1 .. k - 1 :
     <<rows[l].by, rows[l].claim>> # <<rows[k].by, rows[k].claim>>}
OfClaim(rows, m) ==
  {l \in DOMAIN rows : <<rows[l].by, rows[l].claim>> = <<rows[m].by, rows[m].claim>>}

(* The rows claim by claim are all the rows.                                *)
LEMMA ByClaimHasAll ==
  ASSUME NEW rows \in Seq(Rows)
  PROVE  /\ ByClaim(rows) \in Seq(Rows)
         /\ Range(ByClaim(rows)) = Range(rows)
<1> DEFINE first == Ascending(Firsts(rows))
           parts == [k \in DOMAIN first |-> Kept(rows, OfClaim(rows, first[k]))]
<1>1. ByClaim(rows) = Concatenated(parts)
  BY DEF ByClaim, Firsts, OfClaim
<1>2. DOMAIN rows = 1 .. Len(rows) /\ Len(rows) \in Nat
  OBVIOUS
<1>3. Firsts(rows) \in SUBSET DOMAIN rows
  BY DEF Firsts
<1>4. /\ first \in Seq(Firsts(rows))
      /\ \A x \in Firsts(rows) : \E k \in DOMAIN first : first[k] = x
  <2>1. IsFiniteSet(Firsts(rows)) /\ Firsts(rows) \in SUBSET Int
    <3>1. IsFiniteSet(DOMAIN rows)
      BY <1>2, FS_Interval
    <3>2. QED
      BY <1>2, <1>3, <3>1, FS_Subset
  <2>2. QED
    BY <2>1, AscendingEnumerates
<1> HIDE DEF first
<1>5. \A m \in DOMAIN rows :
        /\ Kept(rows, OfClaim(rows, m)) \in Seq(Rows)
        /\ \A c \in DOMAIN Kept(rows, OfClaim(rows, m)) :
             \E x \in OfClaim(rows, m) : Kept(rows, OfClaim(rows, m))[c] = rows[x]
        /\ \A x \in OfClaim(rows, m) :
             \E c \in DOMAIN Kept(rows, OfClaim(rows, m)) : Kept(rows, OfClaim(rows, m))[c] = rows[x]
  <2> TAKE m \in DOMAIN rows
  <2>1. OfClaim(rows, m) \in SUBSET DOMAIN rows
    BY DEF OfClaim
  <2>2. QED
    BY <2>1, KeptElements
<1>6. DOMAIN first = 1 .. Len(first) /\ Len(first) \in Nat /\ \A k \in DOMAIN first : first[k] \in DOMAIN rows
  BY <1>3, <1>4
<1>7. parts \in Seq(Seq(Rows))
  <2>1. \A k \in 1 .. Len(first) : parts[k] \in Seq(Rows)
    BY <1>5, <1>6
  <2>2. parts = [k \in 1 .. Len(first) |-> parts[k]]
    BY <1>6
  <2> HIDE DEF parts
  <2>3. QED
    BY <1>6, <2>1, <2>2
<1>8. /\ Concatenated(parts) \in Seq(Rows)
      /\ \A p \in DOMAIN Concatenated(parts) :
           \E b \in DOMAIN parts : \E c \in DOMAIN parts[b] : Concatenated(parts)[p] = parts[b][c]
      /\ \A b \in DOMAIN parts : \A c \in DOMAIN parts[b] :
           \E p \in DOMAIN Concatenated(parts) : Concatenated(parts)[p] = parts[b][c]
  <2> HIDE DEF parts
  <2>1. QED
    BY <1>7, ConcatenatedElements
<1>9. ASSUME NEW p \in DOMAIN Concatenated(parts)
      PROVE  \E x \in DOMAIN rows : Concatenated(parts)[p] = rows[x]
  <2>1. PICK b \in DOMAIN parts : \E c \in DOMAIN parts[b] : Concatenated(parts)[p] = parts[b][c]
    BY <1>8
  <2>2. PICK c \in DOMAIN parts[b] : Concatenated(parts)[p] = parts[b][c]
    BY <2>1
  <2>3. b \in DOMAIN first /\ parts[b] = Kept(rows, OfClaim(rows, first[b]))
    OBVIOUS
  <2>4. PICK x \in OfClaim(rows, first[b]) : parts[b][c] = rows[x]
    BY <1>5, <1>6, <2>2, <2>3
  <2>5. QED
    BY <2>2, <2>4 DEF OfClaim
<1>10. ASSUME NEW x \in DOMAIN rows
       PROVE  \E p \in DOMAIN Concatenated(parts) : Concatenated(parts)[p] = rows[x]
  <2>1. x \in OfClaim(rows, x) /\ OfClaim(rows, x) \in SUBSET Nat
    BY <1>2 DEF OfClaim
  <2>2. PICK m \in OfClaim(rows, x) : \A l \in OfClaim(rows, x) : m <= l
    BY <2>1, LeastNatural
  <2>3. m \in DOMAIN rows /\ m \in Nat /\ <<rows[m].by, rows[m].claim>> = <<rows[x].by, rows[x].claim>>
    BY <1>2, <2>2 DEF OfClaim
  <2>4. m \in Firsts(rows)
    <3>1. ASSUME NEW l \in 1 .. m - 1, <<rows[l].by, rows[l].claim>> = <<rows[m].by, rows[m].claim>>
          PROVE  FALSE
      <4>1. l \in DOMAIN rows /\ l < m
        BY <1>2, <2>3
      <4>2. l \in OfClaim(rows, x)
        BY <2>3, <3>1, <4>1 DEF OfClaim
      <4>3. QED
        BY <2>2, <2>3, <4>1, <4>2
    <3>2. QED
      BY <2>3, <3>1 DEF Firsts
  <2>5. PICK k \in DOMAIN first : first[k] = m
    BY <1>4, <2>4
  <2>6. x \in OfClaim(rows, first[k])
    BY <2>3, <2>5 DEF OfClaim
  <2>7. k \in DOMAIN parts /\ parts[k] = Kept(rows, OfClaim(rows, first[k]))
    OBVIOUS
  <2>8. PICK c \in DOMAIN parts[k] : parts[k][c] = rows[x]
    BY <1>5, <1>6, <2>6, <2>7
  <2>9. PICK p \in DOMAIN Concatenated(parts) : Concatenated(parts)[p] = parts[k][c]
    BY <1>8, <2>7, <2>8
  <2>10. QED
    BY <2>8, <2>9
<1> HIDE DEF parts
<1>11. Range(Concatenated(parts)) = Range(rows)
  BY <1>9, <1>10 DEF Range
<1>12. QED
  BY <1>1, <1>8, <1>11

(* The first of equal elements.                                             *)
FirstOnes(refs) == {k \in DOMAIN refs : \A l \in 1 .. k - 1 : refs[l] # refs[k]}

(* The references of rows: each once, and all of them.                      *)
LEMMA UniqueRefsOnce ==
  ASSUME NEW rows \in Seq(Rows)
  PROVE  /\ UniqueRefs(rows) \in Seq(References)
         /\ \A i, j \in DOMAIN UniqueRefs(rows) :
              UniqueRefs(rows)[i] = UniqueRefs(rows)[j] => i = j
         /\ Range(UniqueRefs(rows)) = {row.ref : row \in Range(rows)}
<1> DEFINE grouped == ByClaim(rows)
           refs == [k \in DOMAIN grouped |-> grouped[k].ref]
           S == FirstOnes(refs)
           unique == Kept(refs, S)
<1>1. UniqueRefs(rows) = unique
  BY DEF UniqueRefs, FirstOnes
<1>2. grouped \in Seq(Rows) /\ Range(grouped) = Range(rows)
  BY ByClaimHasAll
<1> HIDE DEF grouped
<1>3. refs \in Seq(References) /\ DOMAIN refs = DOMAIN grouped
  <2>1. DOMAIN grouped = 1 .. Len(grouped) /\ Len(grouped) \in Nat
        /\ \A k \in 1 .. Len(grouped) : grouped[k] \in Rows
    BY <1>2
  <2>2. \A row \in Rows : row.ref \in References
    BY DEF Rows
  <2>3. \A k \in 1 .. Len(grouped) : grouped[k].ref \in References
    BY <2>1, <2>2
  <2>4. QED
    BY <2>1, <2>3
<1>4. \A k \in DOMAIN refs : refs[k] = grouped[k].ref
  BY <1>3
<1> HIDE DEF refs
<1>5. S \in SUBSET DOMAIN refs /\ DOMAIN refs \subseteq Nat
  BY <1>3 DEF FirstOnes
<1>6. /\ unique \in Seq(References)
      /\ \E at : /\ at \in [DOMAIN unique -> S]
                 /\ \A k \in DOMAIN unique : unique[k] = refs[at[k]]
                 /\ \A x \in S : \E k \in DOMAIN unique : at[k] = x
                 /\ \A i, j \in DOMAIN unique : i < j => at[i] < at[j]
  BY <1>3, <1>5, KeptInOrder
<1> HIDE DEF unique
<1>7. PICK at \in [DOMAIN unique -> S] :
        /\ \A k \in DOMAIN unique : unique[k] = refs[at[k]]
        /\ \A x \in S : \E k \in DOMAIN unique : at[k] = x
        /\ \A i, j \in DOMAIN unique : i < j => at[i] < at[j]
  BY <1>6
<1>8. ASSUME NEW i \in DOMAIN unique, NEW j \in DOMAIN unique, i < j
      PROVE  unique[i] # unique[j]
  <2>1. at[i] \in S /\ at[j] \in S /\ at[i] < at[j] /\ at[i] \in Nat /\ at[j] \in Nat
    BY <1>5, <1>7, <1>8
  <2>2. at[i] \in 1 .. at[j] - 1
    <3>1. at[i] >= 1
      BY <1>3, <2>1 DEF FirstOnes
    <3>2. QED
      BY <2>1, <3>1
  <2>3. refs[at[i]] # refs[at[j]]
    BY <2>1, <2>2 DEF FirstOnes
  <2>4. QED
    BY <1>7, <2>3
<1>9. \A i, j \in DOMAIN unique : unique[i] = unique[j] => i = j
  <2> TAKE i \in DOMAIN unique, j \in DOMAIN unique
  <2>1. i \in Nat /\ j \in Nat
    BY <1>6, SMTT(40)
  <2>2. QED
    BY <1>8, <2>1
<1>10. ASSUME NEW k \in DOMAIN unique PROVE \E row \in Range(rows) : unique[k] = row.ref
  <2>1. at[k] \in DOMAIN refs
    BY <1>5, <1>7
  <2>2. unique[k] = grouped[at[k]].ref /\ at[k] \in DOMAIN grouped
    BY <1>3, <1>4, <1>7, <2>1
  <2>3. grouped[at[k]] \in Range(grouped)
    BY <2>2 DEF Range
  <2>4. QED
    BY <1>2, <2>2, <2>3
<1>11. ASSUME NEW row \in Range(rows) PROVE \E k \in DOMAIN unique : unique[k] = row.ref
  <2>1. PICK l \in DOMAIN grouped : grouped[l] = row
    BY <1>2 DEF Range
  <2> DEFINE same == {x \in DOMAIN refs : refs[x] = row.ref}
  <2>2. l \in same /\ same \in SUBSET Nat
    BY <1>3, <1>4, <1>5, <2>1
  <2>3. PICK m \in same : \A x \in same : m <= x
    <3> HIDE DEF same
    <3>1. QED
      BY <2>2, LeastNatural
  <2>4. m \in S
    <3>1. m \in DOMAIN refs /\ m \in Nat /\ DOMAIN refs = 1 .. Len(refs) /\ Len(refs) \in Nat
      BY <1>3, <1>5, <2>3
    <3>2. ASSUME NEW x \in 1 .. m - 1, refs[x] = refs[m] PROVE FALSE
      <4>1. x \in DOMAIN refs /\ x < m
        BY <3>1
      <4>2. x \in same
        BY <2>3, <3>2, <4>1
      <4>3. QED
        BY <2>3, <3>1, <4>1, <4>2
    <3>3. QED
      BY <3>1, <3>2 DEF FirstOnes
  <2>5. PICK k \in DOMAIN unique : at[k] = m
    BY <1>7, <2>4
  <2>6. unique[k] = row.ref
    BY <1>7, <2>3, <2>5
  <2>7. QED
    BY <2>6
<1>12. Range(unique) = {row.ref : row \in Range(rows)}
  BY <1>10, <1>11 DEF Range
<1>13. QED
  BY <1>1, <1>6, <1>9, <1>12

-----------------------------------------------------------------------------
(* Names.                                                                   *)

LEMMA AuthorNameWords ==
  ASSUME NEW family \in Seq(Tokens), NEW given
  PROVE  AuthorName(family, given).family \in Seq(Nat)
<1>1. DOMAIN family = 1 .. Len(family) /\ Len(family) \in Nat
      /\ \A i \in 1 .. Len(family) : family[i] \in Tokens
  OBVIOUS
<1>2. \A t \in Tokens : t.word \in Nat
  BY DEF Tokens
<1>3. \A i \in 1 .. Len(family) : family[i].word \in Nat
  BY <1>1, <1>2
<1>4. AuthorName(family, given).family = [i \in 1 .. Len(family) |-> family[i].word]
  BY <1>1 DEF AuthorName
<1>5. QED
  BY <1>1, <1>3, <1>4

LEMMA ParsedNameWords ==
  ASSUME NEW raw \in Seq(Tokens) \ {<<>>}
  PROVE  ParseAuthorName(raw).family \in Seq(Nat)
<1> DEFINE commas == {i \in 2 .. Len(raw) - 1 : raw[i].kind = "comma" /\ raw[1].kind # "comma"}
           c == CHOOSE i \in commas : \A j \in commas : i <= j
<1>1. raw \in Seq(Tokens) /\ Len(raw) \in Nat /\ Len(raw) >= 1 /\ raw[Len(raw)] \in Tokens
  OBVIOUS
<1>2. <<Last(raw)>> \in Seq(Tokens)
  BY <1>1 DEF Last
<1>3. Front(raw) \in Seq(Tokens)
  BY <1>1 DEF Front
<1>4. CASE commas # {}
  <2>1. c \in 2 .. Len(raw) - 1
    <3>1. commas \in SUBSET Nat /\ commas \subseteq 2 .. Len(raw) - 1
      BY <1>1
    <3> HIDE DEF commas
    <3>2. \E i \in commas : \A j \in commas : i <= j
      BY <1>4, <3>1, LeastNatural
    <3>3. QED
      BY <3>1, <3>2
  <2>2. ParseAuthorName(raw) = AuthorName(SubSeq(raw, 1, c - 1), SubSeq(raw, c + 1, Len(raw)))
    BY <1>4 DEF ParseAuthorName
  <2> HIDE DEF c
  <2>3. SubSeq(raw, 1, c - 1) \in Seq(Tokens)
    BY <1>1, <2>1
  <2>4. QED
    BY <2>2, <2>3, AuthorNameWords
<1>5. CASE commas = {} /\ Len(raw) > 1 /\ Last(raw).kind = "initials"
  <2>1. ParseAuthorName(raw) = AuthorName(Front(raw), <<Last(raw)>>)
    BY <1>5 DEF ParseAuthorName
  <2>2. QED
    BY <1>3, <2>1, AuthorNameWords
<1>6. CASE commas = {} /\ ~ (Len(raw) > 1 /\ Last(raw).kind = "initials")
  <2>1. ParseAuthorName(raw) = AuthorName(<<Last(raw)>>, Front(raw))
    BY <1>6 DEF ParseAuthorName
  <2>2. QED
    BY <1>2, <2>1, AuthorNameWords
<1>7. QED
  BY <1>4, <1>5, <1>6

(* A context over rows: the papers of their references, names parsed.       *)
LEMMA PaperParsed ==
  ASSUME NEW ref \in References
  PROVE  LET p == ParsedPaper[ref] IN
         /\ p.title = Paper[ref].title /\ p.year = Paper[ref].year
         /\ p.title \in Seq(Nat) /\ p.year \in Nat
         /\ p.authors = ParsedNames(Paper[ref].authors)
         /\ Len(p.authors) = Len(Paper[ref].authors)
         /\ DOMAIN p.authors = 1 .. Len(p.authors) /\ Len(p.authors) \in Nat
         /\ \A a \in DOMAIN p.authors : p.authors[a].family \in Seq(Nat)
<1> DEFINE raw == Paper[ref].authors
           p == ParsedPaper[ref]
<1>1. /\ DOMAIN Paper[ref] = {"authors", "title", "year", "source", "link"}
      /\ Paper[ref].title \in Seq(Nat) /\ Paper[ref].year \in Nat
      /\ raw \in Seq(Seq(Tokens) \ {<<>>})
  BY PaperAssumption DEF References
<1>2. p = [Paper[ref] EXCEPT !.authors = ParsedNames(raw)]
  BY DEF ParsedPaper
<1>3. p.title = Paper[ref].title /\ p.year = Paper[ref].year /\ p.authors = ParsedNames(raw)
  BY <1>1, <1>2
<1>4. /\ DOMAIN raw = 1 .. Len(raw) /\ Len(raw) \in Nat
      /\ \A a \in 1 .. Len(raw) : raw[a] \in Seq(Tokens) \ {<<>>}
  BY <1>1
<1> HIDE DEF raw, p
<1>5. ParsedNames(raw) = [a \in 1 .. Len(raw) |-> ParseAuthorName(raw[a])]
  BY <1>4 DEF ParsedNames
<1>6. DOMAIN p.authors = 1 .. Len(raw) /\ Len(p.authors) = Len(raw)
  BY <1>3, <1>4, <1>5
<1>7. \A a \in DOMAIN p.authors : p.authors[a].family \in Seq(Nat)
  BY <1>3, <1>4, <1>5, <1>6, ParsedNameWords
<1>8. QED
  BY <1>1, <1>3, <1>4, <1>6, <1>7 DEF p, raw

LEMMA ContextIsParsed ==
  ASSUME NEW rows \in Seq(Rows)
  PROVE  /\ ParsedRefs(Context(rows))
         /\ DOMAIN Context(rows) = DOMAIN UniqueRefs(rows)
         /\ Len(Context(rows)) = Len(UniqueRefs(rows))
         /\ \A i \in DOMAIN Context(rows) : Context(rows)[i] = ParsedPaper[UniqueRefs(rows)[i]]
<1> DEFINE refs == UniqueRefs(rows)
           context == Context(rows)
<1>1. refs \in Seq(References)
  BY UniqueRefsOnce
<1>2. context = [k \in DOMAIN refs |-> ParsedPaper[refs[k]]]
  BY DEF Context
<1> HIDE DEF refs, context
<1>3. /\ DOMAIN refs = 1 .. Len(refs) /\ Len(refs) \in Nat
      /\ \A k \in 1 .. Len(refs) : refs[k] \in References
  BY <1>1
<1>4. DOMAIN context = DOMAIN refs /\ Len(context) = Len(refs)
      /\ \A i \in DOMAIN context : context[i] = ParsedPaper[refs[i]]
  BY <1>2, <1>3
<1>5. ParsedRefs(context)
  <2>1. context \in Seq(Range(context))
    BY <1>3, <1>4, <1>2 DEF Range
  <2>2. ASSUME NEW i \in DOMAIN context
        PROVE  /\ context[i].title \in Seq(Nat) /\ context[i].year \in Nat
               /\ context[i].authors \in Seq(Range(context[i].authors))
               /\ \A a \in DOMAIN context[i].authors : context[i].authors[a].family \in Seq(Nat)
    <3> DEFINE p == ParsedPaper[refs[i]]
    <3>1. refs[i] \in References /\ context[i] = p
      BY <1>3, <1>4
    <3>2. /\ p.title \in Seq(Nat) /\ p.year \in Nat
          /\ DOMAIN p.authors = 1 .. Len(p.authors) /\ Len(p.authors) \in Nat
          /\ p.authors = ParsedNames(Paper[refs[i]].authors)
          /\ \A a \in DOMAIN p.authors : p.authors[a].family \in Seq(Nat)
      BY <3>1, PaperParsed
    <3> HIDE DEF p
    <3>3. p.authors \in Seq(Range(p.authors))
      <4>1. p.authors = [a \in 1 .. Len(p.authors) |-> p.authors[a]]
        BY <3>2 DEF ParsedNames
      <4>2. \A a \in 1 .. Len(p.authors) : p.authors[a] \in Range(p.authors)
        BY <3>2 DEF Range
      <4>3. QED
        BY <3>2, <4>1, <4>2, SMTT(40)
    <3>4. QED
      BY <3>1, <3>2, <3>3
  <2>3. QED
    BY <2>1, <2>2 DEF ParsedRefs
<1>6. QED
  BY <1>4, <1>5 DEF refs, context

-----------------------------------------------------------------------------
(* In-text citations.                                                       *)

LEMMA CitationsIdentifyIn ==
  ASSUME request.rows \in Seq(Rows)
  PROVE  CitationsIdentify
<1> DEFINE refs == Context(request.rows)
           n == Len(refs)
<1>1. ParsedRefs(refs) /\ DOMAIN refs = 1 .. n
  <2>1. ParsedRefs(refs)
    BY ContextIsParsed
  <2>2. QED
    BY <2>1 DEF ParsedRefs
<1> HIDE DEF refs, n
<1>2. ASSUME NEW i \in DOMAIN refs, NEW j \in DOMAIN refs, i # j
      PROVE  InText(refs, i, request.style) # InText(refs, j, request.style)
  BY <1>1, <1>2, InTextDiffers
<1>3. ASSUME request.style # "IEEE", NEW at \in Bijection(1 .. n, 1 .. n), NEW k \in 1 .. n,
             \A l \in 1 .. n : refs[l].title = refs[at[k]].title => l = at[k],
             NEW other, other = [l \in 1 .. n |-> refs[at[l]]]
      PROVE  InText(other, k, request.style) = InText(refs, at[k], request.style)
  <2>1. YearLetter(other, k) = YearLetter(refs, at[k])
    BY <1>1, <1>3, LetterRearranged DEF n
  <2>2. other[k] = refs[at[k]]
    BY <1>3
  <2>3. QED
    BY <1>3, <2>1, <2>2 DEF InText
<1>4. QED
  BY <1>1, <1>2, <1>3 DEF CitationsIdentify, refs

-----------------------------------------------------------------------------
(* Spellings.                                                               *)

LEMMA SpellingsParse ==
  ASSUME NEW family \in Tokens, family.kind = "word", NEW given \in [full : Tokens, short : Tokens],
         NEW raw \in Spellings(family, given)
  PROVE  /\ ParseAuthorName(raw).family = <<family.word>>
         /\ given.full.letters = given.short.letters => ParseAuthorName(raw).initials = given.full.letters
         /\ ParseAuthorName(raw) = [family |-> ParseAuthorName(raw).family,
                                    initials |-> ParseAuthorName(raw).initials]
<1>1. PICK u, v : u = given.full /\ v = given.short
  OBVIOUS
<1>2. /\ u.letters \in Seq(Nat) /\ v.letters \in Seq(Nat)
      /\ family.kind # "initials" /\ family.kind # "comma"
  BY <1>1 DEF Tokens
<1>3. \/ raw \in {<<family, Comma, u>>, <<family, Comma, v>>, <<u, family>>, <<v, family>>}
      \/ v.kind = "initials" /\ raw = <<family, v>>
  BY <1>1 DEF Spellings
<1>4. PICK a, b : a = [family |-> <<family.word>>, initials |-> u.letters]
                  /\ b = [family |-> <<family.word>>, initials |-> v.letters]
  OBVIOUS
<1>5. ParseAuthorName(<<family, Comma, u>>) = a /\ ParseAuthorName(<<family, Comma, v>>) = b
  BY <1>2, <1>4, AfterComma
<1>6. ParseAuthorName(<<u, family>>) = a /\ ParseAuthorName(<<v, family>>) = b
  BY <1>2, <1>4, SurnameLast
<1>7. v.kind = "initials" => ParseAuthorName(<<family, v>>) = b
  BY <1>2, <1>4, InitialsLast
<1>8. ParseAuthorName(raw) \in {a, b}
  BY <1>3, <1>5, <1>6, <1>7, Zenon
<1>9. QED
  BY <1>1, <1>4, <1>8

LEMMA SpellingsAgreeIn ==
  ASSUME request.rows \in Seq(Rows)
  PROVE  SpellingsAgree
<1> DEFINE refs == UniqueRefs(request.rows)
           context == Context(request.rows)
<1>1. /\ refs \in Seq(References) /\ ParsedRefs(context) /\ DOMAIN context = DOMAIN refs
      /\ \A i \in DOMAIN context : context[i] = ParsedPaper[refs[i]]
  BY ContextIsParsed, UniqueRefsOnce
<1> HIDE DEF refs, context
<1>2. ASSUME NEW i \in DOMAIN refs, NEW raw, raw = Paper[refs[i]].authors, raw # <<>>
      PROVE  /\ context[i].year = Paper[refs[i]].year
             /\ context[i].authors # <<>>
             /\ \A k \in DOMAIN raw : context[i].authors[k] = ParseAuthorName(raw[k])
  <2>1. refs[i] \in References /\ context[i] = ParsedPaper[refs[i]]
    BY <1>1
  <2>2. PICK p : p = ParsedPaper[refs[i]]
    OBVIOUS
  <2>3. PICK a : a = p.authors
    OBVIOUS
  <2>4. /\ p.year = Paper[refs[i]].year
        /\ a = ParsedNames(raw) /\ Len(a) = Len(raw)
    BY <1>2, <2>1, <2>2, <2>3, PaperParsed
  <2>5. raw \in Seq(Seq(Tokens) \ {<<>>})
    BY <1>2, <2>1, PaperAssumption DEF References
  <2>6. 1 \in DOMAIN raw
    BY <1>2, <2>5
  <2>7. \A k \in DOMAIN raw : a[k] = ParseAuthorName(raw[k])
    BY <2>4 DEF ParsedNames
  <2>8. a # <<>>
    BY <2>4, <2>5, <2>6
  <2>9. QED
    BY <2>1, <2>2, <2>3, <2>4, <2>7, <2>8
<1>3. ASSUME NEW i \in DOMAIN refs, NEW j \in DOMAIN refs, i # j, Paper[refs[i]].year = Paper[refs[j]].year,
             Paper[refs[i]].authors # <<>>, Paper[refs[j]].authors # <<>>,
             context[i].authors[1].family = context[j].authors[1].family
      PROVE  YearLetter(context, i) # 0
  <2>1. /\ context[i].year = context[j].year
        /\ context[i].authors # <<>> /\ context[j].authors # <<>>
    BY <1>2, <1>3
  <2>2. PICK p, q : p = context[i] /\ q = context[j]
    OBVIOUS
  <2>3. PICK x, y : x = p.authors /\ y = q.authors
    OBVIOUS
  <2>4. Keyed(p, x) /\ Keyed(q, y)
    BY <2>3, KeyCases
  <2>5. x # <<>> /\ y # <<>> /\ x[1].family = y[1].family /\ p.year = q.year
    BY <1>3, <2>1, <2>2, <2>3
  <2>6. AuthorYearKey(p) = AuthorYearKey(q)
    BY <2>4, <2>5, Zenon DEF Keyed
  <2>7. j \in Group(context, i)
    BY <1>1, <2>2, <2>6 DEF Group
  <2>8. QED
    BY <1>1, <1>3, <2>7, LettersDiffer
<1>4. ASSUME NEW i \in DOMAIN refs, NEW j \in DOMAIN refs, NEW family \in FamilyNames, NEW given \in GivenNames,
             i # j, NEW a, NEW b, a = Paper[refs[i]].authors, b = Paper[refs[j]].authors,
             NEW k \in DOMAIN a \cap DOMAIN b, {a[k], b[k]} \subseteq Spellings(family, given)
      PROVE  /\ context[i].authors[k].family = context[j].authors[k].family
             /\ given.full.letters = given.short.letters => context[i].authors[k] = context[j].authors[k]
             /\ k = 1 /\ Paper[refs[i]].year = Paper[refs[j]].year => YearLetter(context, i) # 0
  <2>1. a # <<>> /\ b # <<>> /\ a[k] \in Spellings(family, given) /\ b[k] \in Spellings(family, given)
    BY <1>4
  <2>2. family \in Tokens /\ family.kind = "word" /\ given \in [full : Tokens, short : Tokens]
    BY NamesAssumption
  <2>3. PICK x, y : x = ParseAuthorName(a[k]) /\ y = ParseAuthorName(b[k])
    OBVIOUS
  <2>4. /\ x.family = <<family.word>> /\ y.family = <<family.word>>
        /\ x = [family |-> x.family, initials |-> x.initials]
        /\ y = [family |-> y.family, initials |-> y.initials]
        /\ given.full.letters = given.short.letters =>
             x.initials = given.full.letters /\ y.initials = given.full.letters
    BY <2>1, <2>2, <2>3, SpellingsParse
  <2>5. context[i].authors[k] = x /\ context[j].authors[k] = y
    BY <1>2, <1>4, <2>1, <2>3
  <2>6. x.family = y.family
    BY <2>4
  <2>7. given.full.letters = given.short.letters => x = y
    BY <2>4
  <2>8. k = 1 /\ Paper[refs[i]].year = Paper[refs[j]].year => YearLetter(context, i) # 0
    BY <1>3, <1>4, <2>1, <2>5, <2>6
  <2>9. QED
    BY <2>5, <2>6, <2>7, <2>8
<1>5. QED
  BY <1>4 DEF SpellingsAgree, refs, context

-----------------------------------------------------------------------------
(* The reference list.                                                      *)

(* A citation finds the entry of its own reference and no other.            *)
LEMMA FindsItsOwn ==
  ASSUME NEW refs, ParsedRefs(refs), NEW i \in DOMAIN refs, NEW j \in DOMAIN refs,
         NEW style \in Styles
  PROVE  Finds(InText(refs, i, style).body, Entry(refs, j, style), style) <=> i = j
<1> DEFINE part == InText(refs, i, style).body
           entry == Entry(refs, j, style)
<1>1. CASE style = "IEEE"
  <2>1. part = <<i>> /\ entry.label = j
    BY <1>1 DEF InText, Entry
  <2>2. QED
    BY <1>1, <2>1 DEF Finds
<1>2. CASE style # "IEEE"
  <2> DEFINE e == EntryAuthors(refs[j].authors, style)
             families == [a \in DOMAIN e |-> e[a].family]
  <2>1. style \in {"APA", "CHICAGO"}
    BY <1>2 DEF Styles
  <2>2. part = <<InTextAuthors(refs[i]), refs[i].year, YearLetter(refs, i)>>
    BY <1>2 DEF InText
  <2>3. /\ entry.label = YearLetter(refs, j) /\ entry.authors = e
        /\ entry.title = refs[j].title /\ entry.year = refs[j].year
    BY <1>2 DEF Entry
  <2> HIDE DEF part, entry, e
  <2>4. /\ part[1] = InTextAuthors(refs[i]) /\ part[2] = refs[i].year
        /\ part[3] = YearLetter(refs, i)
    BY <2>2
  <2>5. families = [a \in DOMAIN entry.authors |-> entry.authors[a].family]
    BY <2>3
  <2> HIDE DEF families
  <2>6. Finds(part, entry, style)
          <=> /\ refs[i].year = refs[j].year /\ YearLetter(refs, i) = YearLetter(refs, j)
              /\ Matches(InTextAuthors(refs[i]), refs[j].title, families)
    BY <1>2, <2>3, <2>4, <2>5, Zenon DEF Finds, Matches
  <2>7. /\ i = j => Matches(InTextAuthors(refs[i]), refs[j].title, families)
        /\ Matches(InTextAuthors(refs[i]), refs[j].title, families) /\ refs[i].year = refs[j].year
             => j \in Group(refs, i)
    BY <2>1, MatchesTheSame DEF families, e
  <2>8. i # j /\ j \in Group(refs, i) => YearLetter(refs, i) # YearLetter(refs, j)
    BY LettersDiffer
  <2>9. QED
    BY <2>6, <2>7, <2>8 DEF part, entry
<1>3. QED
  BY <1>1, <1>2

-----------------------------------------------------------------------------
(* The items of an export.                                                  *)

(* The rows of the claims that were read, the claims among them in order,   *)
(* the rows of one claim, and the references of rows.                       *)
Mine(r) == Kept(r.rows, {k \in DOMAIN r.rows : r.rows[k].by = r.claims.by})
Ids(r) == Ascending({row.claim : row \in Range(Mine(r))})
RowsOf(r, c) == Kept(Mine(r), {k \in DOMAIN Mine(r) : Mine(r)[k].claim = c})
RefsOf(rows) == [l \in DOMAIN rows |-> rows[l].ref]

LEMMA ItemsAre ==
  ASSUME NEW r
  PROVE  Items(r) = [k \in DOMAIN Ids(r) |->
                       [claim |-> Ids(r)[k], sentence |-> r.claims.sentences[Ids(r)[k]],
                        refs |-> RefsOf(RowsOf(r, Ids(r)[k]))]]
BY DEF Items, Mine, Ids, RowsOf, RefsOf

LEMMA MineAre ==
  ASSUME NEW r, r.rows \in Seq(Rows)
  PROVE  /\ Mine(r) \in Seq(Rows)
         /\ \A row : row \in Range(Mine(r)) <=> row \in Range(r.rows) /\ row.by = r.claims.by
<1> DEFINE S == {k \in DOMAIN r.rows : r.rows[k].by = r.claims.by}
<1>1. /\ Kept(r.rows, S) \in Seq(Rows)
      /\ \A k \in DOMAIN Kept(r.rows, S) : \E x \in S : Kept(r.rows, S)[k] = r.rows[x]
      /\ \A x \in S : \E k \in DOMAIN Kept(r.rows, S) : Kept(r.rows, S)[k] = r.rows[x]
  <2>1. S \in SUBSET DOMAIN r.rows
    OBVIOUS
  <2> HIDE DEF S
  <2>2. QED
    BY <2>1, KeptElements
<1>2. Mine(r) = Kept(r.rows, S)
  BY DEF Mine
<1>3. PICK rows, mine : rows = r.rows /\ mine = Mine(r)
  OBVIOUS
<1>4. ASSUME NEW row
      PROVE  row \in Range(mine) <=> row \in Range(rows) /\ row.by = r.claims.by
  <2>1. row \in Range(mine) <=> \E k \in DOMAIN mine : mine[k] = row
    BY DEF Range
  <2>2. row \in Range(rows) <=> \E k \in DOMAIN rows : rows[k] = row
    BY DEF Range
  <2>3. \A x \in S : x \in DOMAIN rows /\ rows[x].by = r.claims.by
    BY <1>3
  <2>4. \A x \in DOMAIN rows : rows[x].by = r.claims.by => x \in S
    BY <1>3
  <2> HIDE DEF S
  <2>5. /\ \A k \in DOMAIN mine : \E x \in S : mine[k] = rows[x]
        /\ \A x \in S : \E k \in DOMAIN mine : mine[k] = rows[x]
    BY <1>1, <1>2, <1>3
  <2>6. QED
    BY <2>1, <2>2, <2>3, <2>4, <2>5
<1>5. QED
  BY <1>1, <1>2, <1>3, <1>4

LEMMA IdsAre ==
  ASSUME NEW r, r.rows \in Seq(Rows)
  PROVE  /\ Ids(r) \in Seq(Nat)
         /\ \A c : (\E k \in DOMAIN Ids(r) : Ids(r)[k] = c)
                     <=> \E row \in Range(r.rows) : row.by = r.claims.by /\ row.claim = c
         /\ \A k, l \in DOMAIN Ids(r) : Ids(r)[k] = Ids(r)[l] => k = l
<1> DEFINE C == {row.claim : row \in Range(Mine(r))}
           n == Cardinality(C)
<1>1. /\ Mine(r) \in Seq(Rows)
      /\ \A row : row \in Range(Mine(r)) <=> row \in Range(r.rows) /\ row.by = r.claims.by
  BY MineAre
<1>2. IsFiniteSet(Range(Mine(r))) /\ Range(Mine(r)) \in SUBSET Rows
  BY <1>1, RangeIsFinite
<1>3. IsFiniteSet(C)
  <2> DEFINE f == [row \in Range(Mine(r)) |-> row.claim]
  <2>1. f \in [Range(Mine(r)) -> C] /\ \A t \in C : \E row \in Range(Mine(r)) : f[row] = t
    OBVIOUS
  <2> HIDE DEF f, C
  <2>2. QED
    BY <1>2, <2>1, ImageIsFinite
<1>4. C \in SUBSET Nat
  BY <1>2 DEF Rows
<1>5. \A c : c \in C <=> \E row \in Range(r.rows) : row.by = r.claims.by /\ row.claim = c
  BY <1>1
<1>6. Ids(r) = Ascending(C)
  BY DEF Ids
<1> HIDE DEF C
<1>7. /\ n \in Nat
      /\ Ids(r) \in Seq(C) /\ DOMAIN Ids(r) = 1 .. n
      /\ \A x \in C : \E k \in DOMAIN Ids(r) : Ids(r)[k] = x
      /\ \A i, j \in DOMAIN Ids(r) : i < j => Ids(r)[i] < Ids(r)[j]
  <2>1. C \in SUBSET Int
    BY <1>4
  <2>2. QED
    BY <1>3, <1>6, <2>1, AscendingEnumerates
<1> HIDE DEF n
<1>8. \A k \in DOMAIN Ids(r) : Ids(r)[k] \in C
  BY <1>7
<1>9. Ids(r) \in Seq(Nat)
  <2>1. \A k \in 1 .. n : Ids(r)[k] \in Nat
    BY <1>4, <1>7, <1>8
  <2>2. Ids(r) \in Seq(C)
    BY <1>7
  <2>3. Len(Ids(r)) = n
    BY <1>7, <2>2
  <2>4. QED
    BY <1>7, <2>1, <2>2, <2>3
<1>10. ASSUME NEW k \in DOMAIN Ids(r), NEW l \in DOMAIN Ids(r), Ids(r)[k] = Ids(r)[l] PROVE k = l
  <2>1. k \in Int /\ l \in Int /\ Ids(r)[k] \in Nat
    <3>1. k \in 1 .. n /\ l \in 1 .. n
      BY <1>7
    <3>2. Ids(r)[k] \in C
      BY <1>8
    <3>3. Ids(r)[k] \in Nat
      BY <1>4, <3>2
    <3>4. k \in Int /\ l \in Int
      BY <1>7, <3>1
    <3>5. QED
      BY <3>3, <3>4
  <2>2. ~ (k < l) /\ ~ (l < k)
    BY <1>7, <1>10, <2>1
  <2>3. QED
    BY <2>1, <2>2
<1>11. QED
  BY <1>5, <1>7, <1>8, <1>9, <1>10

(* An item has the references of its claim's rows; every row its item.      *)
LEMMA ItemsOfRows ==
  ASSUME NEW r, r.rows \in Seq(Rows)
  PROVE  /\ \A k \in DOMAIN Items(r) : \A l \in DOMAIN Items(r)[k].refs :
              \E row \in Range(r.rows) :
                row.by = r.claims.by /\ row.claim = Items(r)[k].claim /\ row.ref = Items(r)[k].refs[l]
         /\ \A row \in Range(r.rows) : row.by = r.claims.by =>
              \E k \in DOMAIN Items(r) : \E l \in DOMAIN Items(r)[k].refs :
                Items(r)[k].claim = row.claim /\ Items(r)[k].refs[l] = row.ref
<1>1. /\ Mine(r) \in Seq(Rows)
      /\ \A row : row \in Range(Mine(r)) <=> row \in Range(r.rows) /\ row.by = r.claims.by
  BY MineAre
<1>2. /\ DOMAIN Items(r) = DOMAIN Ids(r)
      /\ \A k \in DOMAIN Items(r) : /\ Items(r)[k].claim = Ids(r)[k]
                                    /\ Items(r)[k].refs = RefsOf(RowsOf(r, Ids(r)[k]))
  BY ItemsAre
<1>3. ASSUME NEW c
      PROVE  \A row : row \in Range(RowsOf(r, c)) <=> row \in Range(Mine(r)) /\ row.claim = c
  <2> DEFINE S == {k \in DOMAIN Mine(r) : Mine(r)[k].claim = c}
             mine == Mine(r)
  <2>1. S \in SUBSET DOMAIN mine /\ mine \in Seq(Rows)
    BY <1>1
  <2> HIDE DEF S, mine
  <2>2. /\ \A k \in DOMAIN Kept(mine, S) : \E x \in S : Kept(mine, S)[k] = mine[x]
        /\ \A x \in S : \E k \in DOMAIN Kept(mine, S) : Kept(mine, S)[k] = mine[x]
    BY <2>1, KeptElements
  <2>3. RowsOf(r, c) = Kept(mine, S)
    BY DEF RowsOf, S, mine
  <2>4. QED
    <3>1. PICK s : s = RowsOf(r, c)
      OBVIOUS
    <3>2. ASSUME NEW row
          PROVE  row \in Range(s) <=> row \in Range(mine) /\ row.claim = c
      <4>1. row \in Range(mine) <=> \E k \in DOMAIN mine : mine[k] = row
        BY DEF Range
      <4>2. row \in Range(s) <=> \E k \in DOMAIN s : s[k] = row
        BY DEF Range
      <4>3. \A x : x \in S <=> x \in DOMAIN mine /\ mine[x].claim = c
        BY DEF S, mine
      <4>4. QED
        BY <2>2, <2>3, <3>1, <4>1, <4>2, <4>3
    <3>3. QED
      BY <3>1, <3>2 DEF mine
<1>4. \A rows : /\ DOMAIN RefsOf(rows) = DOMAIN rows
                /\ \A l \in DOMAIN rows : RefsOf(rows)[l] = rows[l].ref
  BY DEF RefsOf
<1>5. ASSUME NEW k \in DOMAIN Items(r), NEW l \in DOMAIN Items(r)[k].refs
      PROVE  \E row \in Range(r.rows) :
               row.by = r.claims.by /\ row.claim = Items(r)[k].claim /\ row.ref = Items(r)[k].refs[l]
  <2>1. PICK rows : rows = RowsOf(r, Ids(r)[k])
    OBVIOUS
  <2>2. l \in DOMAIN rows /\ Items(r)[k].refs[l] = rows[l].ref
    BY <1>2, <1>4, <2>1
  <2>3. rows[l] \in Range(rows)
    BY <2>2 DEF Range
  <2>4. rows[l] \in Range(Mine(r)) /\ rows[l].claim = Ids(r)[k]
    BY <1>3, <2>1, <2>3
  <2>5. QED
    BY <1>1, <1>2, <2>2, <2>4
<1>6. ASSUME NEW row \in Range(r.rows), row.by = r.claims.by
      PROVE  \E k \in DOMAIN Items(r) : \E l \in DOMAIN Items(r)[k].refs :
               Items(r)[k].claim = row.claim /\ Items(r)[k].refs[l] = row.ref
  <2>1. PICK k \in DOMAIN Ids(r) : Ids(r)[k] = row.claim
    BY <1>6, IdsAre
  <2>2. PICK rows : rows = RowsOf(r, Ids(r)[k])
    OBVIOUS
  <2>3. row \in Range(rows)
    BY <1>1, <1>3, <1>6, <2>1, <2>2
  <2>4. PICK l \in DOMAIN rows : rows[l] = row
    BY <2>3 DEF Range
  <2>5. k \in DOMAIN Items(r) /\ l \in DOMAIN Items(r)[k].refs
        /\ Items(r)[k].claim = row.claim /\ Items(r)[k].refs[l] = row.ref
    BY <1>2, <1>4, <2>1, <2>2, <2>4
  <2>6. QED
    BY <2>5
<1>7. QED
  BY <1>5, <1>6

LEMMA ListedAsCitedIn ==
  ASSUME request.rows \in Seq(Rows), request.style \in Styles,
         request.pc = "done" /\ request.format # "csv"
           => doc.references = Bibliography(Context(request.rows), request.style)
  PROVE  ListedAsCited
<1> DEFINE refs == UniqueRefs(request.rows)
           context == Context(request.rows)
           order == doc.references
           listed == [k \in DOMAIN order |-> refs[order[k]]]
           items == Items(request)
           cited == UNION {Range(item.refs) : item \in Range(items)}
           style == request.style
<1>1. SUFFICES ASSUME request.pc = "done", request.format # "csv"
      PROVE  /\ \A k, l \in DOMAIN listed : k # l => listed[k] # listed[l]
             /\ \A item \in Range(items) : \A l \in DOMAIN item.refs :
                  LET part == Citation(request, item).body[l]
                      entry(k) == Entry(context, order[k], style)
                  IN {k \in DOMAIN listed : Finds(part, entry(k), style)}
                       = {k \in DOMAIN listed : listed[k] = item.refs[l]}
             /\ cited \subseteq Range(listed)
             /\ Range(listed) \subseteq cited \/ \E row \in Range(request.rows) : row.by # request.claims.by
  BY DEF ListedAsCited
<1>2. /\ refs \in Seq(References)
      /\ \A i, j \in DOMAIN refs : refs[i] = refs[j] => i = j
      /\ Range(refs) = {row.ref : row \in Range(request.rows)}
  BY UniqueRefsOnce
<1>3. ParsedRefs(context) /\ DOMAIN context = DOMAIN refs
  BY ContextIsParsed
<1>4. order = Bibliography(context, style)
  BY <1>1
<1>5. /\ DOMAIN order = DOMAIN refs
      /\ \A k \in DOMAIN order : order[k] \in DOMAIN refs
      /\ \A k, l \in DOMAIN order : order[k] = order[l] => k = l
      /\ \A i \in DOMAIN refs : \E k \in DOMAIN order : order[k] = i
  <2> HIDE DEF context
  <2>1. QED
    BY <1>3, <1>4, BibliographyHasAll
<1>6. DOMAIN listed = DOMAIN order /\ \A k \in DOMAIN order : listed[k] = refs[order[k]]
  OBVIOUS
<1>7. /\ \A k \in DOMAIN items : \A l \in DOMAIN items[k].refs :
           \E row \in Range(request.rows) :
             row.by = request.claims.by /\ row.claim = items[k].claim /\ row.ref = items[k].refs[l]
      /\ \A row \in Range(request.rows) : row.by = request.claims.by =>
           \E k \in DOMAIN items : \E l \in DOMAIN items[k].refs :
             items[k].claim = row.claim /\ items[k].refs[l] = row.ref
  BY ItemsOfRows
<1> HIDE DEF refs, context, order, listed, items, style
<1>8. Range(listed) = Range(refs)
  BY <1>5, <1>6 DEF Range
<1>9. ASSUME NEW k \in DOMAIN listed, NEW l \in DOMAIN listed, k # l
      PROVE  listed[k] # listed[l]
  BY <1>2, <1>5, <1>6, <1>9
<1>10. ASSUME NEW item \in Range(items), NEW l \in DOMAIN item.refs
       PROVE  item.refs[l] \in Range(refs)
  <2>1. PICK k \in DOMAIN items : items[k] = item
    BY DEF Range
  <2>2. QED
    BY <1>2, <1>7, <2>1
<1>11. ASSUME NEW item \in Range(items), NEW l \in DOMAIN item.refs
       PROVE  LET part == Citation(request, item).body[l]
                  entry(k) == Entry(context, order[k], style)
              IN {k \in DOMAIN listed : Finds(part, entry(k), style)}
                   = {k \in DOMAIN listed : listed[k] = item.refs[l]}
  <2> DEFINE part == Citation(request, item).body[l]
  <2>1. PICK p \in DOMAIN refs : refs[p] = item.refs[l]
    BY <1>10 DEF Range
  <2>2. part = InText(context, p, style).body
    <3> DEFINE position(ref) == CHOOSE k \in DOMAIN refs : refs[k] = ref
               texts == [k \in DOMAIN item.refs |-> InText(context, position(item.refs[k]), style)]
    <3>1. position(item.refs[l]) = p
      BY <1>2, <2>1
    <3>2. Citation(request, item) = JoinInText(texts)
      BY DEF Citation, refs, context, style
    <3>3. DOMAIN texts = DOMAIN item.refs /\ texts[l] = InText(context, p, style)
      BY <3>1
    <3> HIDE DEF texts
    <3>4. JoinInText(texts).body = [k \in DOMAIN texts |-> texts[k].body]
      BY DEF JoinInText
    <3>5. QED
      BY <3>2, <3>3, <3>4
  <2>3. ASSUME NEW k \in DOMAIN listed
        PROVE  Finds(part, Entry(context, order[k], style), style) <=> listed[k] = item.refs[l]
    <3>1. order[k] \in DOMAIN refs /\ listed[k] = refs[order[k]]
      BY <1>5, <1>6
    <3>2. Finds(InText(context, p, style).body, Entry(context, order[k], style), style) <=> p = order[k]
      <4>1. style \in Styles
        BY DEF style
      <4>2. QED
        BY <1>3, <3>1, <4>1, FindsItsOwn
    <3> HIDE DEF part
    <3>3. QED
      BY <1>2, <2>1, <2>2, <3>1, <3>2
  <2> HIDE DEF part
  <2>4. QED
    BY <2>3 DEF part
<1>12. cited \subseteq Range(listed)
  <2>1. SUFFICES ASSUME NEW item \in Range(items), NEW ref \in Range(item.refs)
                 PROVE  ref \in Range(listed)
    OBVIOUS
  <2>2. PICK l \in DOMAIN item.refs : item.refs[l] = ref
    BY <2>1 DEF Range
  <2>3. item.refs[l] \in Range(refs)
    BY <1>10
  <2>4. QED
    BY <1>8, <2>2, <2>3
<1>13. Range(listed) \subseteq cited \/ \E row \in Range(request.rows) : row.by # request.claims.by
  <2>1. SUFFICES ASSUME \A row \in Range(request.rows) : row.by = request.claims.by,
                        NEW ref \in Range(listed)
                 PROVE  ref \in cited
    OBVIOUS
  <2>2. PICK row \in Range(request.rows) : row.ref = ref
    BY <1>2, <1>8, <2>1
  <2>3. PICK k \in DOMAIN items : \E l \in DOMAIN items[k].refs : items[k].refs[l] = ref
    BY <1>7, <2>1, <2>2
  <2>4. items[k] \in Range(items) /\ ref \in Range(items[k].refs)
    BY <2>3 DEF Range
  <2>5. QED
    BY <2>4
<1> HIDE DEF cited
<1>14. QED
  BY <1>9, <1>11, <1>12, <1>13 

-----------------------------------------------------------------------------
(* The files a draft is ever parsed from, and what the parser returns.      *)
AllFiles == {pair[1] : pair \in Files} \cup {pair[2] : pair \in Files}

LEMMA ParsedDrafts ==
  ASSUME NEW f \in AllFiles
  PROVE  IsDraft(Parse[f])
<1>1. IsFile(f)
  BY FilesAssumption DEF AllFiles, IsFile
<1>2. Parse[f] = ParseFile(f)
  BY DEF Parse, AllFiles
<1>3. QED
  BY <1>1, <1>2, ParsedFile

-----------------------------------------------------------------------------
(* What every state keeps.                                                  *)

(* A request that has read its bundle: rows of the claims it read are of    *)
(* sentences it read.                                                       *)
Loaded(r) ==
  /\ r.rows \in Seq(Rows) /\ IsDraft(r.draft) /\ IsSentences(r.claims.sentences)
  /\ \A row \in Range(r.rows) : row.by = r.claims.by => row.claim \in DOMAIN r.claims.sentences

(* Rows of accepted citations are of the claims in the table: a detection   *)
(* that replaces the claims deletes them.                                   *)
TablesKept ==
  /\ DOMAIN file = {"live", "edited"} /\ file.live \in AllFiles /\ file.edited \in AllFiles
  /\ IsDraft(parsed)
  /\ claims.by \in Nat /\ IsSentences(claims.sentences)
  /\ accepted \in Seq(Rows)
  /\ \A row \in Range(accepted) : row.by = claims.by /\ row.claim \in DOMAIN claims.sentences

(* The claims a request has read are the draft's own, or of an earlier      *)
(* detection.                                                               *)
ClaimsRead ==
  /\ IsSentences(request.claims.sentences)
  /\ request.claims.by \in Nat /\ request.claims.by <= claims.by
  /\ request.claims.by = claims.by => request.claims.sentences = claims.sentences

(* Only the documents of docx exports are written step by step.             *)
RequestKept ==
  /\ DOMAIN request = {"pc", "format", "mode", "style", "draft", "claims", "rows", "pending",
                       "resolved", "outcomes"}
  /\ request.style \in Styles
  /\ request.pc \in {"none", "draft", "claims", "bundle"} => request.resolved = <<>>
  /\ request.pc \in {"draft", "claims"} => IsDraft(request.draft)
  /\ request.pc = "claims" => ClaimsRead
  /\ request.pc \in {"bundle", "resolve", "insert", "done"} => Loaded(request)
  /\ request.pc \in {"resolve", "insert"} => request.format = "docx"

(* A finished document has the reference list of the rows of the bundle.    *)
DocumentKept ==
  /\ DOMAIN doc = {"paras", "flat", "source", "keyword", "references", "audit", "blocks"}
  /\ request.pc = "done" /\ request.format # "csv" =>
       doc.references = Bibliography(Context(request.rows), request.style)

(* The inductive invariant of the citations and the reference list.         *)
ExportKept == TablesKept /\ RequestKept /\ DocumentKept

LEMMA InitKeeps == Init => ExportKept
<1> SUFFICES ASSUME Init PROVE ExportKept
  OBVIOUS
<1> USE DEF Init
<1>1. PICK pair \in Files : file = [live |-> pair[1], edited |-> pair[2]]
  OBVIOUS
<1>2. DOMAIN file = {"live", "edited"} /\ file.live = pair[1] /\ file.edited = pair[2]
  BY <1>1
<1>3. file.live \in AllFiles /\ file.edited \in AllFiles
  BY <1>2 DEF AllFiles
<1>4. IsDraft(parsed)
  BY <1>3, ParsedDrafts
<1>5. claims.by = 1 /\ claims.sentences = parsed.sentences
  BY DEF Detected
<1>6. accepted \in Seq(Rows) /\ \A row \in Range(accepted) : FALSE
  BY DEF Range
<1>7. TablesKept
  BY <1>2, <1>3, <1>4, <1>5, <1>6 DEF TablesKept, IsDraft
<1>8. request = NoRequest /\ doc = NoDocument
  OBVIOUS
<1>9. RequestKept
  BY <1>8 DEF RequestKept, NoRequest, Styles
<1>10. DocumentKept
  BY <1>8 DEF DocumentKept, NoRequest, NoDocument
<1>11. QED
  BY <1>7, <1>9, <1>10 DEF ExportKept

LEMMA AcceptKeeps ==
  ASSUME ExportKept, Accept
  PROVE  ExportKept'
<1> USE DEF ExportKept
<1>1. PICK c \in DOMAIN claims.sentences, ref \in References :
        accepted' = Append(accepted, [by |-> claims.by, claim |-> c, ref |-> ref])
  BY DEF Accept
<1>2. UNCHANGED <<file, parsed, claims, request, doc>>
  BY DEF Accept
<1> DEFINE row == [by |-> claims.by, claim |-> c, ref |-> ref]
<1>3. row \in Rows /\ row.by = claims.by /\ row.claim = c
  <2>1. c \in Nat
    <3>1. PICK s : s = claims.sentences /\ s \in Seq(Range(s))
      BY DEF TablesKept, IsSentences
    <3>2. QED
      BY <3>1
  <2>2. claims.by \in Nat
    BY DEF TablesKept
  <2>3. QED
    BY <2>1, <2>2 DEF Rows
<1> HIDE DEF row
<1>4. accepted' \in Seq(Rows) /\ \A x \in Range(accepted') : x \in Range(accepted) \/ x = row
  <2>1. accepted \in Seq(Rows) /\ accepted' = Append(accepted, row)
    BY <1>1 DEF TablesKept, row
  <2>2. QED
    BY <1>3, <2>1 DEF Range
<1>5. TablesKept'
  BY <1>2, <1>3, <1>4 DEF TablesKept
<1>6. RequestKept' /\ DocumentKept'
  BY <1>2 DEF RequestKept, DocumentKept, ClaimsRead, Loaded
<1>7. QED
  BY <1>5, <1>6

LEMMA EditKeeps ==
  ASSUME ExportKept, Edit
  PROVE  ExportKept'
<1> USE DEF ExportKept
<1>1. file' = [file EXCEPT !.live = file.edited] /\ UNCHANGED <<parsed, claims, accepted, request, doc>>
  BY DEF Edit
<1>2. DOMAIN file' = {"live", "edited"} /\ file'.live \in AllFiles /\ file'.edited \in AllFiles
  BY <1>1 DEF TablesKept
<1>3. TablesKept'
  BY <1>1, <1>2 DEF TablesKept
<1>4. RequestKept' /\ DocumentKept'
  BY <1>1 DEF RequestKept, DocumentKept, ClaimsRead, Loaded
<1>5. QED
  BY <1>3, <1>4

LEMMA ReparseKeeps ==
  ASSUME ExportKept, Reparse
  PROVE  ExportKept'
<1> USE DEF ExportKept
<1>1. parsed' = Parse[file.live] /\ UNCHANGED <<file, claims, accepted, request, doc>>
  BY DEF Reparse
<1>2. IsDraft(parsed')
  BY <1>1, ParsedDrafts DEF TablesKept
<1>3. TablesKept'
  BY <1>1, <1>2 DEF TablesKept
<1>4. RequestKept' /\ DocumentKept'
  BY <1>1 DEF RequestKept, DocumentKept, ClaimsRead, Loaded
<1>5. QED
  BY <1>3, <1>4

LEMMA RedetectKeeps ==
  ASSUME ExportKept, Redetect
  PROVE  ExportKept'
<1> USE DEF ExportKept
<1>1. /\ claims.by = 1 /\ claims' = Detected(parsed, 2) /\ accepted' = <<>>
      /\ UNCHANGED <<file, parsed, request, doc>> /\ Reading
  BY DEF Redetect
<1>2. claims'.by = 2 /\ claims'.sentences = parsed.sentences
  BY <1>1 DEF Detected
<1>3. accepted' \in Seq(Rows) /\ \A row \in Range(accepted') : FALSE
  BY <1>1 DEF Range
<1>4. TablesKept'
  BY <1>1, <1>2, <1>3 DEF TablesKept, IsDraft
<1>5. request.pc = "claims" => ClaimsRead'
  BY <1>1, <1>2 DEF RequestKept, ClaimsRead
<1>6. RequestKept' /\ DocumentKept'
  BY <1>1, <1>5 DEF RequestKept, DocumentKept, Loaded
<1>7. QED
  BY <1>4, <1>6

(* The request moves on with what it has read.                              *)
LEMMA StillLoaded ==
  ASSUME NEW r, NEW s, Loaded(r), s.rows = r.rows, s.draft = r.draft, s.claims = r.claims
  PROVE  Loaded(s)
BY DEF Loaded

LEMMA StartKeeps ==
  ASSUME ExportKept, StartExport
  PROVE  ExportKept'
<1> USE DEF ExportKept
<1>1. PICK format \in Formats, mode \in Modes, style \in Styles :
        request' = [NoRequest EXCEPT !.pc = "draft", !.format = format, !.mode = mode,
                                     !.style = style, !.draft = parsed]
  BY DEF StartExport
<1>2. UNCHANGED <<db, doc>>
  BY DEF StartExport
<1>3. TablesKept'
  BY <1>2 DEF TablesKept, db
<1>4. /\ DOMAIN request' = {"pc", "format", "mode", "style", "draft", "claims", "rows", "pending",
                            "resolved", "outcomes"}
      /\ request'.pc = "draft" /\ request'.style = style /\ request'.draft = parsed
      /\ request'.resolved = <<>>
  BY <1>1 DEF NoRequest
<1>5. RequestKept'
  BY <1>4 DEF RequestKept, TablesKept
<1>6. DocumentKept'
  BY <1>2, <1>4 DEF DocumentKept
<1>7. QED
  BY <1>3, <1>5, <1>6

LEMMA ReadClaimsKeeps ==
  ASSUME ExportKept, ReadClaims
  PROVE  ExportKept'
<1> USE DEF ExportKept
<1>1. /\ request.pc = "draft" /\ request' = [request EXCEPT !.pc = "claims", !.claims = claims]
      /\ UNCHANGED <<db, doc>>
  BY DEF ReadClaims
<1>2. TablesKept'
  BY <1>1 DEF TablesKept, db
<1>3. /\ DOMAIN request' = DOMAIN request /\ request'.pc = "claims" /\ request'.claims = claims
      /\ request'.style = request.style /\ request'.draft = request.draft
      /\ request'.resolved = request.resolved
  BY <1>1 DEF RequestKept
<1>4. ClaimsRead'
  BY <1>1, <1>3 DEF ClaimsRead, TablesKept, db
<1>5. RequestKept'
  BY <1>1, <1>3, <1>4 DEF RequestKept
<1>6. DocumentKept'
  BY <1>1, <1>3 DEF DocumentKept
<1>7. QED
  BY <1>2, <1>5, <1>6

LEMMA ReadAcceptedKeeps ==
  ASSUME ExportKept, ReadAccepted
  PROVE  ExportKept'
<1> USE DEF ExportKept
<1>1. /\ request.pc = "claims" /\ request' = [request EXCEPT !.pc = "bundle", !.rows = accepted]
      /\ UNCHANGED <<db, doc>>
  BY DEF ReadAccepted
<1>2. TablesKept'
  BY <1>1 DEF TablesKept, db
<1>3. /\ DOMAIN request' = DOMAIN request /\ request'.pc = "bundle" /\ request'.rows = accepted
      /\ request'.style = request.style /\ request'.draft = request.draft
      /\ request'.claims = request.claims /\ request'.resolved = request.resolved
  BY <1>1 DEF RequestKept
<1>4. ClaimsRead /\ IsDraft(request.draft)
  BY <1>1 DEF RequestKept
<1>5. Loaded(request')
  BY <1>3, <1>4 DEF Loaded, ClaimsRead, TablesKept
<1>6. RequestKept'
  BY <1>1, <1>3, <1>5 DEF RequestKept
<1>7. DocumentKept'
  BY <1>1, <1>3 DEF DocumentKept
<1>8. QED
  BY <1>2, <1>6, <1>7

(* Steps of a loaded request that change neither its rows, its draft and    *)
(* its claims, nor the tables.                                              *)
LEMMA LaterKeeps ==
  ASSUME ExportKept, UNCHANGED db,
         request.pc \in {"bundle", "resolve", "insert"},
         request'.pc \in {"refused", "resolve", "insert", "done"},
         DOMAIN request' = DOMAIN request,
         request'.rows = request.rows, request'.draft = request.draft,
         request'.claims = request.claims, request'.style = request.style,
         request'.pc \in {"resolve", "insert"} => request'.format = "docx",
         DOMAIN doc' = DOMAIN doc,
         request'.pc = "done" /\ request'.format # "csv" =>
           doc'.references = Bibliography(Context(request.rows), request.style)
  PROVE  ExportKept'
<1> USE DEF ExportKept
<1>1. TablesKept'
  BY DEF TablesKept, db
<1>2. Loaded(request)
  BY DEF RequestKept
<1>3. Loaded(request')
  BY <1>2, StillLoaded
<1>4. RequestKept'
  BY <1>3 DEF RequestKept
<1>5. DocumentKept'
  BY DEF DocumentKept
<1>6. QED
  BY <1>1, <1>4, <1>5

LEMMA RefuseKeeps ==
  ASSUME ExportKept, Refuse
  PROVE  ExportKept'
<1>1. request.pc = "bundle" /\ request' = [request EXCEPT !.pc = "refused"] /\ UNCHANGED <<db, doc>>
  BY DEF Refuse
<1>2. DOMAIN request = {"pc", "format", "mode", "style", "draft", "claims", "rows", "pending",
                        "resolved", "outcomes"}
  BY DEF ExportKept, RequestKept
<1>3. /\ DOMAIN request' = DOMAIN request /\ request'.pc = "refused" /\ request'.rows = request.rows
      /\ request'.draft = request.draft /\ request'.claims = request.claims
      /\ request'.style = request.style
  BY <1>1, <1>2
<1>4. QED
  BY <1>1, <1>3, LaterKeeps

LEMMA OpenKeeps ==
  ASSUME ExportKept, OpenDocx
  PROVE  ExportKept'
<1>1. PICK groups, lost :
        request' = [request EXCEPT !.pc = "resolve", !.pending = groups, !.outcomes = lost]
  BY DEF OpenDocx
<1>2. PICK paras, flat, source :
        doc' = [NoDocument EXCEPT !.paras = paras, !.flat = flat, !.source = source]
  BY DEF OpenDocx
<1>3. request.pc = "bundle" /\ request.format = "docx" /\ UNCHANGED db
  BY DEF OpenDocx
<1>4. /\ DOMAIN request = {"pc", "format", "mode", "style", "draft", "claims", "rows", "pending",
                           "resolved", "outcomes"}
      /\ DOMAIN doc = {"paras", "flat", "source", "keyword", "references", "audit", "blocks"}
  BY DEF ExportKept, RequestKept, DocumentKept
<1>5. /\ DOMAIN request' = DOMAIN request /\ request'.pc = "resolve" /\ request'.rows = request.rows
      /\ request'.draft = request.draft /\ request'.claims = request.claims
      /\ request'.style = request.style /\ request'.format = request.format
  BY <1>1, <1>4
<1>6. DOMAIN doc' = DOMAIN doc
  BY <1>2, <1>4 DEF NoDocument
<1>7. QED
  BY <1>3, <1>5, <1>6, LaterKeeps

LEMMA ResolveKeeps ==
  ASSUME ExportKept, ResolveParagraph
  PROVE  ExportKept'
<1>1. PICK points, rest :
        request' = [request EXCEPT !.pc = "insert", !.pending = rest, !.resolved = points]
  BY DEF ResolveParagraph
<1>2. request.pc = "resolve" /\ UNCHANGED <<db, doc>>
  BY DEF ResolveParagraph
<1>3. /\ DOMAIN request = {"pc", "format", "mode", "style", "draft", "claims", "rows", "pending",
                           "resolved", "outcomes"}
      /\ request.format = "docx"
  BY <1>2 DEF ExportKept, RequestKept
<1>4. /\ DOMAIN request' = DOMAIN request /\ request'.pc = "insert" /\ request'.rows = request.rows
      /\ request'.draft = request.draft /\ request'.claims = request.claims
      /\ request'.style = request.style /\ request'.format = request.format
  BY <1>1, <1>3
<1>5. QED
  BY <1>2, <1>3, <1>4, LaterKeeps

LEMMA InsertKeeps ==
  ASSUME ExportKept, InsertNext
  PROVE  ExportKept'
<1>1. PICK outs, rest : request' = [request EXCEPT !.resolved = rest, !.outcomes = outs]
  BY DEF InsertNext
<1>2. \/ doc' = doc
      \/ \E paras : doc' = [doc EXCEPT !.paras = paras]
  <2>1. PICK id, point, node :
          doc' = doc \/ doc' = [doc EXCEPT !.paras[id] = Insert(@, point, node)]
    BY DEF InsertNext
  <2>2. QED
    BY <2>1
<1>3. request.pc = "insert" /\ UNCHANGED db
  BY DEF InsertNext
<1>4. /\ DOMAIN request = {"pc", "format", "mode", "style", "draft", "claims", "rows", "pending",
                           "resolved", "outcomes"}
      /\ request.format = "docx"
  BY <1>3 DEF ExportKept, RequestKept
<1>5. /\ DOMAIN request' = DOMAIN request /\ request'.pc = "insert" /\ request'.rows = request.rows
      /\ request'.draft = request.draft /\ request'.claims = request.claims
      /\ request'.style = request.style /\ request'.format = request.format
  BY <1>1, <1>3, <1>4
<1>6. DOMAIN doc' = DOMAIN doc
  BY <1>2
<1>7. QED
  BY <1>3, <1>4, <1>5, <1>6, LaterKeeps

LEMMA NextParagraphKeeps ==
  ASSUME ExportKept, NextParagraph
  PROVE  ExportKept'
<1>1. request.pc = "insert" /\ request' = [request EXCEPT !.pc = "resolve"] /\ UNCHANGED <<db, doc>>
  BY DEF NextParagraph
<1>2. /\ DOMAIN request = {"pc", "format", "mode", "style", "draft", "claims", "rows", "pending",
                           "resolved", "outcomes"}
      /\ request.format = "docx"
  BY <1>1 DEF ExportKept, RequestKept
<1>3. /\ DOMAIN request' = DOMAIN request /\ request'.pc = "resolve" /\ request'.rows = request.rows
      /\ request'.draft = request.draft /\ request'.claims = request.claims
      /\ request'.style = request.style /\ request'.format = request.format
  BY <1>1, <1>2
<1>4. QED
  BY <1>1, <1>2, <1>3, LaterKeeps

LEMMA KeywordElsewhere ==
  ASSUME NEW r, NEW d,
         DOMAIN d = {"paras", "flat", "source", "keyword", "references", "audit", "blocks"}
  PROVE  DOMAIN WithKeyword(r, d) = DOMAIN d /\ WithKeyword(r, d).references = d.references
<1>1. PICK id, node, anchor :
        \/ WithKeyword(r, d) = [d EXCEPT !.paras[id].runs = Append(@, node)]
        \/ WithKeyword(r, d) = [d EXCEPT !.keyword = anchor]
        \/ WithKeyword(r, d) = d
  BY DEF WithKeyword
<1>2. QED
  BY <1>1

LEMMA FinishKeeps ==
  ASSUME ExportKept, FinishDocx
  PROVE  ExportKept'
<1>1. /\ DOMAIN request = {"pc", "format", "mode", "style", "draft", "claims", "rows", "pending",
                           "resolved", "outcomes"}
      /\ DOMAIN doc = {"paras", "flat", "source", "keyword", "references", "audit", "blocks"}
  BY DEF ExportKept, RequestKept, DocumentKept
<1> DEFINE listed == [doc EXCEPT !.references = Bibliography(Context(request.rows), request.style)]
           written(hasKeyword) == IF hasKeyword THEN WithKeyword(request, listed) ELSE listed
<1>2. PICK hasKeyword \in BOOLEAN : doc' = [written(hasKeyword) EXCEPT !.audit = Audit(request)]
  BY DEF FinishDocx
<1>3. /\ request.pc = "resolve" /\ request' = [request EXCEPT !.pc = "done"] /\ UNCHANGED db
  BY DEF FinishDocx
<1>4. DOMAIN listed = DOMAIN doc /\ listed.references = Bibliography(Context(request.rows), request.style)
  BY <1>1
<1> HIDE DEF listed
<1>5. /\ DOMAIN written(hasKeyword) = DOMAIN doc
      /\ written(hasKeyword).references = Bibliography(Context(request.rows), request.style)
  BY <1>1, <1>4, KeywordElsewhere
<1> HIDE DEF written
<1>6. /\ DOMAIN doc' = DOMAIN doc
      /\ doc'.references = Bibliography(Context(request.rows), request.style)
  BY <1>1, <1>2, <1>5
<1>7. /\ DOMAIN request' = DOMAIN request /\ request'.pc = "done" /\ request'.rows = request.rows
      /\ request'.draft = request.draft /\ request'.claims = request.claims
      /\ request'.style = request.style
  BY <1>1, <1>3
<1>8. QED
  BY <1>3, <1>6, <1>7, LaterKeeps

LEMMA MarkdownKeeps ==
  ASSUME ExportKept, WriteMarkdown
  PROVE  ExportKept'
<1>1. /\ DOMAIN request = {"pc", "format", "mode", "style", "draft", "claims", "rows", "pending",
                           "resolved", "outcomes"}
      /\ DOMAIN doc = {"paras", "flat", "source", "keyword", "references", "audit", "blocks"}
  BY DEF ExportKept, RequestKept, DocumentKept
<1> DEFINE list == Bibliography(Context(request.rows), request.style)
<1>2. PICK texts, audit :
        doc' = [NoDocument EXCEPT !.blocks = texts, !.references = list, !.audit = audit]
  BY DEF WriteMarkdown
<1>3. PICK outs : request' = [request EXCEPT !.pc = "done", !.outcomes = outs]
  BY DEF WriteMarkdown
<1>4. request.pc = "bundle" /\ UNCHANGED db
  BY DEF WriteMarkdown
<1> HIDE DEF list
<1>5. DOMAIN doc' = DOMAIN doc /\ doc'.references = list
  BY <1>1, <1>2 DEF NoDocument
<1>6. /\ DOMAIN request' = DOMAIN request /\ request'.pc = "done" /\ request'.rows = request.rows
      /\ request'.draft = request.draft /\ request'.claims = request.claims
      /\ request'.style = request.style
  BY <1>1, <1>3
<1>7. QED
  BY <1>4, <1>5, <1>6, LaterKeeps DEF list

LEMMA TableKeeps ==
  ASSUME ExportKept, WriteTable
  PROVE  ExportKept'
<1>1. /\ DOMAIN request = {"pc", "format", "mode", "style", "draft", "claims", "rows", "pending",
                           "resolved", "outcomes"}
      /\ DOMAIN doc = {"paras", "flat", "source", "keyword", "references", "audit", "blocks"}
  BY DEF ExportKept, RequestKept, DocumentKept
<1> DEFINE list == IF request.format = "csv" THEN <<>>
                   ELSE Bibliography(Context(request.rows), request.style)
<1>2. PICK audit : doc' = [NoDocument EXCEPT !.audit = audit, !.references = list]
  BY DEF WriteTable
<1>3. request' = [request EXCEPT !.pc = "done"] /\ request.pc = "bundle" /\ UNCHANGED db
  BY DEF WriteTable
<1>4. /\ DOMAIN request' = DOMAIN request /\ request'.pc = "done" /\ request'.rows = request.rows
      /\ request'.draft = request.draft /\ request'.claims = request.claims
      /\ request'.style = request.style /\ request'.format = request.format
  BY <1>1, <1>3
<1> HIDE DEF list
<1>5. DOMAIN doc' = DOMAIN doc /\ doc'.references = list
  BY <1>1, <1>2 DEF NoDocument
<1>6. request'.format # "csv" => doc'.references = Bibliography(Context(request.rows), request.style)
  BY <1>4, <1>5 DEF list
<1>7. QED
  BY <1>3, <1>4, <1>5, <1>6, LaterKeeps

LEMMA NextKeeps ==
  ASSUME ExportKept, [Next]_vars
  PROVE  ExportKept'
<1>1. CASE UNCHANGED vars
  BY <1>1 DEF vars, db, ExportKept, TablesKept, RequestKept, ClaimsRead, DocumentKept, Loaded
<1>2. CASE Next
  BY <1>2, AcceptKeeps, EditKeeps, ReparseKeeps, RedetectKeeps, StartKeeps, ReadClaimsKeeps,
     ReadAcceptedKeeps, RefuseKeeps, OpenKeeps, ResolveKeeps, InsertKeeps, NextParagraphKeeps,
     FinishKeeps, MarkdownKeeps, TableKeeps DEF Next, Export
<1>3. QED
  BY <1>1, <1>2

(* In every state the tables hold drafts the parser returned, with their    *)
(* detections' claims, and accepted citations of them; a request that has   *)
(* read its bundle holds the same, and a finished document its reference    *)
(* list (bundle.py:60-118, export/service.py).                              *)
THEOREM ExportIsKept == Spec => []ExportKept
<1>1. Init => ExportKept
  BY InitKeeps
<1>2. ExportKept /\ [Next]_vars => ExportKept'
  BY NextKeeps
<1>3. QED
  BY <1>1, <1>2, PTL DEF Spec

LEMMA KeptIdentifies == ASSUME ExportKept PROVE CitationsIdentify
<1>1. CASE request.pc = "bundle"
  <2>1. request.rows \in Seq(Rows)
    BY <1>1 DEF ExportKept, RequestKept, Loaded
  <2>2. QED
    BY <2>1, CitationsIdentifyIn
<1>2. CASE request.pc # "bundle"
  BY <1>2 DEF CitationsIdentify
<1>3. QED
  BY <1>1, <1>2

LEMMA KeptSpells == ASSUME ExportKept PROVE SpellingsAgree
<1>1. CASE request.pc = "bundle"
  <2>1. request.rows \in Seq(Rows)
    BY <1>1 DEF ExportKept, RequestKept, Loaded
  <2>2. QED
    BY <2>1, SpellingsAgreeIn
<1>2. CASE request.pc # "bundle"
  BY <1>2 DEF SpellingsAgree
<1>3. QED
  BY <1>1, <1>2

LEMMA KeptLists == ASSUME ExportKept PROVE ListedAsCited
<1>1. CASE request.pc = "done"
  <2>1. /\ request.rows \in Seq(Rows) /\ request.style \in Styles
        /\ request.format # "csv"
             => doc.references = Bibliography(Context(request.rows), request.style)
    BY <1>1 DEF ExportKept, RequestKept, DocumentKept, Loaded
  <2>2. QED
    BY <2>1, ListedAsCitedIn
<1>2. CASE request.pc # "done"
  BY <1>2 DEF ListedAsCited
<1>3. QED
  BY <1>1, <1>2

LEMMA ExactDrafts ==
  ASSUME IsDraft(parsed)
  PROVE  OffsetsAreExact
<1> DEFINE blocks == parsed.blocks
           sentences == parsed.sentences
           raw == parsed.raw
<1>1. /\ IsBlocks(blocks) /\ BlocksExact(raw, blocks) /\ IsSentences(sentences)
      /\ SentencesExact(blocks, sentences)
  BY DEF IsDraft
<1>2. Range(blocks) = {blocks[k] : k \in DOMAIN blocks}
  BY DEF Range
<1>3. ASSUME NEW b \in Range(blocks) PROVE Slice(raw, b.start, b.end) = b.text
  BY <1>1, <1>2 DEF BlocksExact
<1>4. ASSUME NEW k \in DOMAIN sentences
      PROVE  /\ Slice(raw, sentences[k].start, sentences[k].end) = sentences[k].text
             /\ \A l \in 1 .. k - 1 : sentences[l].end <= sentences[k].start
             /\ \E b \in Range(blocks) :
                  b.paragraph = sentences[k].paragraph /\ b.start <= sentences[k].start
                    /\ sentences[k].end <= b.end
  <2>1. PICK j \in DOMAIN blocks : LiesIn(sentences[k], blocks[j])
    BY <1>1 DEF SentencesExact
  <2>2. PICK s, b : s = sentences[k] /\ b = blocks[j]
    OBVIOUS
  <2>3. Slice(raw, s.start, s.end) = s.text /\ s.end <= b.end
    BY <1>1, <2>1, <2>2, SentenceSlices
  <2>4. b \in Range(blocks) /\ b.paragraph = s.paragraph /\ b.start <= s.start
    BY <1>2, <2>1, <2>2 DEF LiesIn
  <2>5. ASSUME NEW l \in 1 .. k - 1 PROVE sentences[l].end <= s.start
    <3>1. DOMAIN sentences = 1 .. Len(sentences) /\ Len(sentences) \in Nat
      BY <1>1 DEF IsSentences
    <3>2. l \in DOMAIN sentences /\ l < k
      BY <3>1
    <3>3. QED
      BY <1>1, <2>2, <3>2 DEF SentencesExact
  <2>6. QED
    BY <2>2, <2>3, <2>4, <2>5
<1> HIDE DEF blocks, sentences, raw
<1>5. QED
  BY <1>3, <1>4 DEF OffsetsAreExact, blocks, sentences, raw

(* The in-text citations of a bundle name one reference each, and are the   *)
(* same in every order of acceptance unless titles are shared, for any      *)
(* number of papers                                                         *)
(* (citation_formatting_service.py:338-401).                                *)
THEOREM CitationsStayIdentified == Spec => []CitationsIdentify
BY ExportIsKept, KeptIdentifies, PTL

(* An author in whichever of the spellings shows one family name, and gets  *)
(* letters as first author of papers of one year; and one form of initials, *)
(* where the two forms of the given name keep the same letters              *)
(* (citation_formatting_service.py:56-99, 338-352).                         *)
THEOREM SpellingsStayOneAuthor == Spec => []SpellingsAgree
BY ExportIsKept, KeptSpells, PTL

(* The reference list names each accepted reference once, each in-text      *)
(* citation finds its own entry and no other, and what no claim cites is    *)
(* listed only when the claims were replaced between two queries            *)
(* (bundle.py:60-118, citation_formatting_service.py:338-415).              *)
THEOREM ListsStayAsCited == Spec => []ListedAsCited
BY ExportIsKept, KeptLists, PTL

(* A block's and a sentence's offsets slice the draft's text exactly, no    *)
(* two sentences overlap, and each lies in a block of its paragraph.        *)
THEOREM OffsetsStayExact == Spec => []OffsetsAreExact
<1>1. ASSUME ExportKept PROVE OffsetsAreExact
  BY <1>1, ExactDrafts DEF ExportKept, TablesKept
<1>2. QED
  BY <1>1, ExportIsKept, PTL

-----------------------------------------------------------------------------
(* Outcomes.                                                                *)

(* Items of sentences, each of a claim of its own.                          *)
AreItems(items, X) ==
  /\ items \in Seq(X)
  /\ \A k \in DOMAIN items : items[k].sentence.start \in Nat /\ items[k].sentence.paragraph \in Nat
  /\ \A k, l \in DOMAIN items : items[k].claim = items[l].claim => k = l

(* A choice of items.                                                       *)
LEMMA ChosenItems ==
  ASSUME NEW X, NEW items, AreItems(items, X), NEW out \in Seq(X),
         NEW S \in SUBSET DOMAIN items, Selects(out, items, S)
  PROVE  AreItems(out, X)
<1>1. PICK at : Chooses(at, out, items, S)
  BY DEF Selects
<1>2. \A k \in DOMAIN out : at[k] \in DOMAIN items /\ out[k] = items[at[k]]
  BY <1>1 DEF Chooses
<1>3. \A k, l \in DOMAIN out : at[k] = at[l] => k = l
  BY <1>1 DEF Chooses
<1>4. \A k \in DOMAIN out : out[k].sentence.start \in Nat /\ out[k].sentence.paragraph \in Nat
  BY <1>2 DEF AreItems
<1>5. ASSUME NEW k \in DOMAIN out, NEW l \in DOMAIN out, out[k].claim = out[l].claim PROVE k = l
  <2>1. items[at[k]].claim = items[at[l]].claim /\ at[k] \in DOMAIN items /\ at[l] \in DOMAIN items
    BY <1>2, <1>5
  <2>2. at[k] = at[l]
    BY <2>1 DEF AreItems
  <2>3. QED
    BY <1>3, <2>2
<1>6. QED
  BY <1>4, <1>5 DEF AreItems

(* The positions of the items of a paragraph.                               *)
OfParagraph(items, p) == {k \in DOMAIN items : items[k].sentence.paragraph = p}

(* The items of a paragraph, in some order.                                 *)
LEMMA LastFirstSelects ==
  ASSUME NEW X, NEW items, AreItems(items, X), NEW p
  PROVE  /\ LastFirst(items, p) \in Seq(X)
         /\ Selects(LastFirst(items, p), items, OfParagraph(items, p))
<1> DEFINE S == OfParagraph(items, p)
           mine == Kept(items, S)
           key == [k \in DOMAIN mine |-> mine[k].sentence.start]
<1>1. LastFirst(items, p) = Descending(mine, key)
  BY DEF LastFirst, OfParagraph
<1>2. items \in Seq(X) /\ S \in SUBSET DOMAIN items
  BY DEF AreItems, OfParagraph
<1> HIDE DEF S
<1>3. mine \in Seq(X) /\ Selects(mine, items, S)
  BY <1>2, KeptSelects
<1> HIDE DEF mine
<1>4. AreItems(mine, X)
  BY <1>2, <1>3, ChosenItems
<1>5. key \in [DOMAIN mine -> Int]
  BY <1>4 DEF AreItems
<1> HIDE DEF key
<1>6. Descending(mine, key) \in Seq(X) /\ Selects(Descending(mine, key), mine, DOMAIN mine)
  BY <1>3, <1>5, DescendingSelects
<1>7. Selects(Descending(mine, key), items, S)
  BY <1>3, <1>6, SelectsThrough
<1>8. QED
  BY <1>1, <1>6, <1>7 DEF S

(* All items, grouped, each once.                                           *)
Grouped(groups, items, X) ==
  /\ groups \in Seq(Seq(X))
  /\ \A g \in DOMAIN groups : \A k \in DOMAIN groups[g] :
       \E x \in DOMAIN items : groups[g][k] = items[x]
  /\ \A x \in DOMAIN items : \E g \in DOMAIN groups : \E k \in DOMAIN groups[g] :
       groups[g][k] = items[x]
  /\ \A g, h \in DOMAIN groups : \A k \in DOMAIN groups[g], l \in DOMAIN groups[h] :
       groups[g][k].claim = groups[h][l].claim => g = h /\ k = l

LEMMA GroupsHaveAll ==
  ASSUME NEW X, NEW items, AreItems(items, X)
  PROVE  Grouped(Groups(items), items, X)
<1> DEFINE P == {items[k].sentence.paragraph : k \in DOMAIN items}
           order == Ascending(P)
           groups == Groups(items)
           n == Cardinality(P)
<1>1. groups = [g \in DOMAIN order |-> LastFirst(items, order[g])]
  BY DEF Groups
<1>2. DOMAIN items = 1 .. Len(items) /\ Len(items) \in Nat
  BY DEF AreItems
<1>3. P \in SUBSET Int
  BY DEF AreItems
<1>4. IsFiniteSet(P)
  <2> DEFINE f == [k \in DOMAIN items |-> items[k].sentence.paragraph]
  <2>1. f \in [DOMAIN items -> P] /\ \A t \in P : \E k \in DOMAIN items : f[k] = t
    OBVIOUS
  <2>2. IsFiniteSet(DOMAIN items)
    BY <1>2, FS_Interval
  <2> HIDE DEF f, P
  <2>3. QED
    BY <2>1, <2>2, ImageIsFinite
<1>5. \A k \in DOMAIN items : items[k].sentence.paragraph \in P
  OBVIOUS
<1> HIDE DEF P
<1>6. /\ n \in Nat /\ order \in Seq(P) /\ DOMAIN order = 1 .. n
      /\ \A x \in P : \E g \in DOMAIN order : order[g] = x
      /\ \A i, j \in DOMAIN order : i < j => order[i] < order[j]
  BY <1>3, <1>4, AscendingEnumerates
<1> HIDE DEF order, n, groups
<1>7. \A g, h \in DOMAIN order : order[g] = order[h] => g = h
  <2>1. \A g \in DOMAIN order : order[g] \in P
    BY <1>6
  <2>2. \A g \in DOMAIN order : g \in Int /\ order[g] \in Int
    <3>1. \A g \in DOMAIN order : order[g] \in Int
      BY <1>3, <2>1
    <3>2. DOMAIN order \subseteq Int
      BY <1>6
    <3>3. QED
      BY <3>1, <3>2
  <2>3. QED
    BY <1>6, <2>2
<1>8. DOMAIN groups = 1 .. n /\ groups = [g \in DOMAIN groups |-> groups[g]]
      /\ \A g \in 1 .. n : groups[g] = LastFirst(items, order[g])
  BY <1>1, <1>6
<1>9. \A g \in 1 .. n : groups[g] \in Seq(X)
  BY <1>8, LastFirstSelects
<1>10. groups \in Seq(Seq(X))
  BY <1>6, <1>8, <1>9, TypedSequence
<1>11. ASSUME NEW g \in 1 .. n
       PROVE  \E at : Chooses(at, groups[g], items, OfParagraph(items, order[g]))
  BY <1>8, LastFirstSelects DEF Selects
<1>12. ASSUME NEW g \in 1 .. n, NEW k \in DOMAIN groups[g]
       PROVE  \E x \in DOMAIN items : groups[g][k] = items[x] /\ items[x].sentence.paragraph = order[g]
  <2>1. PICK at : Chooses(at, groups[g], items, OfParagraph(items, order[g]))
    BY <1>11
  <2>2. at[k] \in OfParagraph(items, order[g]) /\ groups[g][k] = items[at[k]]
    BY <2>1 DEF Chooses
  <2>3. QED
    BY <2>2 DEF OfParagraph
<1>13. ASSUME NEW x \in DOMAIN items
       PROVE  \E g \in 1 .. n : \E k \in DOMAIN groups[g] : groups[g][k] = items[x]
  <2>1. PICK g \in 1 .. n : order[g] = items[x].sentence.paragraph
    BY <1>5, <1>6
  <2>2. PICK at : Chooses(at, groups[g], items, OfParagraph(items, order[g]))
    BY <1>11
  <2>3. x \in OfParagraph(items, order[g])
    BY <2>1 DEF OfParagraph
  <2>4. PICK k \in DOMAIN groups[g] : at[k] = x
    BY <2>2, <2>3 DEF Chooses
  <2>5. groups[g][k] = items[x]
    BY <2>2, <2>4 DEF Chooses
  <2>6. QED
    BY <2>5
<1>14. ASSUME NEW g \in 1 .. n, NEW h \in 1 .. n, NEW k \in DOMAIN groups[g],
              NEW l \in DOMAIN groups[h], groups[g][k].claim = groups[h][l].claim
       PROVE  g = h /\ k = l
  <2>1. PICK x \in DOMAIN items : groups[g][k] = items[x] /\ items[x].sentence.paragraph = order[g]
    BY <1>12
  <2>2. PICK y \in DOMAIN items : groups[h][l] = items[y] /\ items[y].sentence.paragraph = order[h]
    BY <1>12
  <2>3. x = y
    BY <1>14, <2>1, <2>2 DEF AreItems
  <2>4. g = h
    BY <1>6, <1>7, <2>1, <2>2, <2>3
  <2>5. PICK at : Chooses(at, groups[g], items, OfParagraph(items, order[g]))
    BY <1>11
  <2>6. /\ at[k] \in DOMAIN items /\ at[l] \in DOMAIN items
        /\ groups[g][k] = items[at[k]] /\ groups[g][l] = items[at[l]]
    BY <2>4, <2>5 DEF Chooses, OfParagraph
  <2>7. at[k] = at[l]
    BY <1>14, <2>4, <2>6 DEF AreItems
  <2>8. k = l
    BY <2>4, <2>5, <2>7 DEF Chooses
  <2>9. QED
    BY <2>4, <2>8
<1>15. Grouped(groups, items, X)
  BY <1>8, <1>10, <1>12, <1>13, <1>14 DEF Grouped
<1>16. QED
  BY <1>15 DEF groups

LEMMA ItemsOfLoaded ==
  ASSUME NEW r, Loaded(r)
  PROVE  AreItems(Items(r), Range(Items(r)))
<1> DEFINE items == Items(r)
           ids == Ids(r)
           n == Len(ids)
<1>1. /\ r.rows \in Seq(Rows) /\ IsSentences(r.claims.sentences)
      /\ \A row \in Range(r.rows) : row.by = r.claims.by => row.claim \in DOMAIN r.claims.sentences
  BY DEF Loaded
<1>2. /\ ids \in Seq(Nat)
      /\ \A c : (\E k \in DOMAIN ids : ids[k] = c)
                  <=> \E row \in Range(r.rows) : row.by = r.claims.by /\ row.claim = c
      /\ \A k, l \in DOMAIN ids : ids[k] = ids[l] => k = l
  BY <1>1, IdsAre
<1>3. items = [k \in DOMAIN ids |->
                 [claim |-> ids[k], sentence |-> r.claims.sentences[ids[k]],
                  refs |-> RefsOf(RowsOf(r, ids[k]))]]
  BY ItemsAre
<1> HIDE DEF ids, items
<1>4. n \in Nat /\ DOMAIN ids = 1 .. n
  BY <1>2
<1>5. DOMAIN items = 1 .. n /\ items = [k \in DOMAIN items |-> items[k]]
  BY <1>3, <1>4
<1>6. \A k \in 1 .. n : items[k].claim = ids[k] /\ items[k].sentence = r.claims.sentences[ids[k]]
  BY <1>3, <1>4
<1>7. items \in Seq(Range(items))
  BY <1>4, <1>5, FromFunction
<1>8. ASSUME NEW k \in 1 .. n
      PROVE  items[k].sentence.start \in Nat /\ items[k].sentence.paragraph \in Nat
  <2>1. ids[k] \in DOMAIN r.claims.sentences
    BY <1>1, <1>2, <1>4
  <2>2. QED
    BY <1>1, <1>6, <2>1 DEF IsSentences
<1>9. AreItems(items, Range(items))
  BY <1>2, <1>4, <1>5, <1>6, <1>7, <1>8 DEF AreItems
<1>10. QED
  BY <1>9 DEF items

(* Outcomes o, resolved points v and pending groups p: no claim twice.      *)
Once(o, v, p) ==
  /\ o \in Seq(Range(o)) /\ v \in Seq(Range(v)) /\ p \in Seq(Range(p))
  /\ \A g \in DOMAIN p : p[g] \in Seq(Range(p[g]))
  /\ \A k, l \in DOMAIN o : o[k].claim = o[l].claim => k = l
  /\ \A k, l \in DOMAIN v : v[k].claim = v[l].claim => k = l
  /\ \A g, h \in DOMAIN p : \A k \in DOMAIN p[g], l \in DOMAIN p[h] :
       p[g][k].claim = p[h][l].claim => g = h /\ k = l
  /\ \A k \in DOMAIN o : \A l \in DOMAIN v : o[k].claim # v[l].claim
  /\ \A k \in DOMAIN o : \A g \in DOMAIN p : \A l \in DOMAIN p[g] : o[k].claim # p[g][l].claim
  /\ \A k \in DOMAIN v : \A g \in DOMAIN p : \A l \in DOMAIN p[g] : v[k].claim # p[g][l].claim

(* Every claim of C is in one of them.                                      *)
Everywhere(o, v, p, C) ==
  \A c \in C : \/ \E k \in DOMAIN o : o[k].claim = c
               \/ \E k \in DOMAIN v : v[k].claim = c
               \/ \E g \in DOMAIN p : \E k \in DOMAIN p[g] : p[g][k].claim = c

LEMMA OwnRange ==
  ASSUME NEW X, NEW s \in Seq(X)
  PROVE  s \in Seq(Range(s))
<1>1. Len(s) \in Nat /\ DOMAIN s = 1 .. Len(s) /\ s = [k \in DOMAIN s |-> s[k]]
  OBVIOUS
<1>2. QED
  BY <1>1, FromFunction

LEMMA TailOf ==
  ASSUME NEW s, s \in Seq(Range(s)), s # <<>>
  PROVE  /\ Tail(s) \in Seq(Range(Tail(s)))
         /\ 1 \in DOMAIN s /\ Head(s) = s[1]
         /\ \A k \in DOMAIN Tail(s) : k \in Int /\ k + 1 \in DOMAIN s /\ k + 1 # 1 /\ Tail(s)[k] = s[k + 1]
         /\ \A k \in DOMAIN s : k = 1 \/ (k - 1 \in DOMAIN Tail(s) /\ Tail(s)[k - 1] = s[k])
<1>1. PICK X : X = Range(s)
  OBVIOUS
<1>2. s \in Seq(X) /\ Len(s) \in Nat /\ Len(s) >= 1 /\ DOMAIN s = 1 .. Len(s)
  BY <1>1
<1>3. /\ Tail(s) \in Seq(X) /\ DOMAIN Tail(s) = 1 .. Len(s) - 1
      /\ \A k \in 1 .. Len(s) - 1 : Tail(s)[k] = s[k + 1]
  BY <1>2
<1>4. Tail(s) \in Seq(Range(Tail(s)))
  BY <1>3, OwnRange
<1>5. Head(s) = s[1]
  BY <1>2
<1>6. QED
  BY <1>2, <1>3, <1>4, <1>5

(* The first group is resolved.                                             *)
LEMMA GroupMoves ==
  ASSUME NEW o, NEW p, NEW C, Once(o, <<>>, p), Everywhere(o, <<>>, p, C), p # <<>>,
         NEW v, v \in Seq(Range(v)), DOMAIN v = DOMAIN p[1],
         \A k \in DOMAIN v : v[k].claim = p[1][k].claim
  PROVE  Once(o, v, Tail(p)) /\ Everywhere(o, v, Tail(p), C)
<1>1. PICK q : q = Tail(p)
  OBVIOUS
<1>2. /\ q \in Seq(Range(q)) /\ 1 \in DOMAIN p
      /\ \A k \in DOMAIN q : k \in Int /\ k + 1 \in DOMAIN p /\ k + 1 # 1 /\ q[k] = p[k + 1]
      /\ \A k \in DOMAIN p : k = 1 \/ (k - 1 \in DOMAIN q /\ q[k - 1] = p[k])
  BY <1>1, TailOf DEF Once
<1>0. \A g, h \in DOMAIN p : \A k \in DOMAIN p[g], l \in DOMAIN p[h] :
        p[g][k].claim = p[h][l].claim => g = h /\ k = l
  BY DEF Once
<1>3. \A g \in DOMAIN q : q[g] \in Seq(Range(q[g]))
  BY <1>2 DEF Once
<1>4. \A k, l \in DOMAIN v : v[k].claim = v[l].claim => k = l
  BY <1>0, <1>2
<1>5. ASSUME NEW g \in DOMAIN q, NEW h \in DOMAIN q, NEW k \in DOMAIN q[g], NEW l \in DOMAIN q[h],
             q[g][k].claim = q[h][l].claim
      PROVE  g = h /\ k = l
  <2>1. g + 1 \in DOMAIN p /\ h + 1 \in DOMAIN p /\ q[g] = p[g + 1] /\ q[h] = p[h + 1]
        /\ g \in Int /\ h \in Int
    BY <1>2
  <2>2. g + 1 = h + 1 /\ k = l
    BY <1>0, <1>5, <2>1
  <2>3. QED
    BY <2>1, <2>2
<1>6. \A k \in DOMAIN o : \A l \in DOMAIN v : o[k].claim # v[l].claim
  BY <1>2 DEF Once
<1>7. \A k \in DOMAIN o : \A g \in DOMAIN q : \A l \in DOMAIN q[g] : o[k].claim # q[g][l].claim
  BY <1>2, SMTT(40) DEF Once
<1>8. \A k \in DOMAIN v : \A g \in DOMAIN q : \A l \in DOMAIN q[g] : v[k].claim # q[g][l].claim
  <2> SUFFICES ASSUME NEW k \in DOMAIN v, NEW g \in DOMAIN q, NEW l \in DOMAIN q[g],
                      v[k].claim = q[g][l].claim
               PROVE  FALSE
    OBVIOUS
  <2>1. g + 1 \in DOMAIN p /\ q[g] = p[g + 1] /\ g + 1 # 1
    BY <1>2
  <2>2. p[1][k].claim = p[g + 1][l].claim
    BY <2>1
  <2>3. k \in DOMAIN p[1] /\ l \in DOMAIN p[g + 1] /\ 1 \in DOMAIN p
    BY <1>2, <2>1
  <2>4. QED
    BY <1>0, <2>1, <2>2, <2>3
<1>9. Once(o, v, q)
  BY <1>2, <1>3, <1>4, <1>5, <1>6, <1>7, <1>8 DEF Once
<1>10. ASSUME NEW c \in C
       PROVE  \/ \E k \in DOMAIN o : o[k].claim = c
              \/ \E k \in DOMAIN v : v[k].claim = c
              \/ \E g \in DOMAIN q : \E k \in DOMAIN q[g] : q[g][k].claim = c
  <2>1. CASE \E k \in DOMAIN o : o[k].claim = c
    BY <2>1
  <2>2. CASE \E g \in DOMAIN p : \E k \in DOMAIN p[g] : p[g][k].claim = c
    <3>1. PICK g \in DOMAIN p : \E k \in DOMAIN p[g] : p[g][k].claim = c
      BY <2>2
    <3>2. CASE g = 1
      BY <3>1, <3>2
    <3>3. CASE g # 1
      <4>1. g - 1 \in DOMAIN q /\ q[g - 1] = p[g]
        BY <1>2, <3>3
      <4>2. QED
        BY <3>1, <4>1
    <3>4. QED
      BY <3>2, <3>3
  <2>3. QED
    BY <2>1, <2>2 DEF Everywhere
<1>11. QED
  BY <1>1, <1>9, <1>10 DEF Everywhere

(* The first resolved claim gets its outcome.                               *)
LEMMA ClaimMoves ==
  ASSUME NEW o, NEW v, NEW p, NEW C, Once(o, v, p), Everywhere(o, v, p, C), v # <<>>,
         NEW x, x.claim = v[1].claim
  PROVE  Once(Append(o, x), Tail(v), p) /\ Everywhere(Append(o, x), Tail(v), p, C)
<1>1. PICK w, a : w = Tail(v) /\ a = Append(o, x)
  OBVIOUS
<1>2. /\ w \in Seq(Range(w)) /\ 1 \in DOMAIN v
      /\ \A k \in DOMAIN w : k \in Int /\ k + 1 \in DOMAIN v /\ k + 1 # 1 /\ w[k] = v[k + 1]
      /\ \A k \in DOMAIN v : k = 1 \/ (k - 1 \in DOMAIN w /\ w[k - 1] = v[k])
  BY <1>1, TailOf DEF Once
<1>3. PICK m : /\ m \in DOMAIN a /\ m \notin DOMAIN o /\ a[m] = x
               /\ \A k \in DOMAIN a : k = m \/ (k \in DOMAIN o /\ a[k] = o[k])
               /\ \A k \in DOMAIN o : k \in DOMAIN a /\ a[k] = o[k]
               /\ a \in Seq(Range(a))
  <2>1. PICK X : X = Range(o) /\ o \in Seq(X)
    BY DEF Once
  <2>2. PICK m \in Nat : m = Len(o) + 1 /\ DOMAIN o = 1 .. m - 1
    BY <2>1
  <2>3. a \in Seq(X \cup {x}) /\ DOMAIN a = 1 .. m /\ a[m] = x /\ \A k \in 1 .. m - 1 : a[k] = o[k]
    <3>1. o \in Seq(X \cup {x})
      BY <2>1
    <3>2. QED
      BY <1>1, <2>2, <3>1
  <2>4. a \in Seq(Range(a))
    BY <2>3 DEF Range
  <2>5. QED
    BY <2>2, <2>3, <2>4
<1>4. x.claim = v[1].claim
  OBVIOUS
<1>0. /\ \A k, l \in DOMAIN o : o[k].claim = o[l].claim => k = l
      /\ \A k, l \in DOMAIN v : v[k].claim = v[l].claim => k = l
      /\ \A k \in DOMAIN o : \A l \in DOMAIN v : o[k].claim # v[l].claim
  BY DEF Once
<1>00. /\ \A k \in DOMAIN o : \A g \in DOMAIN p : \A l \in DOMAIN p[g] : o[k].claim # p[g][l].claim
       /\ \A k \in DOMAIN v : \A g \in DOMAIN p : \A l \in DOMAIN p[g] : v[k].claim # p[g][l].claim
  BY DEF Once
<1>5. ASSUME NEW k \in DOMAIN a, NEW l \in DOMAIN a, a[k].claim = a[l].claim PROVE k = l
  <2>1. CASE k = m /\ l = m
    BY <2>1
  <2>2. CASE k # m /\ l # m
    BY <1>0, <1>3, <1>5, <2>2
  <2>3. CASE (k = m /\ l # m) \/ (k # m /\ l = m)
    BY <1>0, <1>2, <1>3, <1>4, <1>5, <2>3
  <2>4. QED
    BY <2>1, <2>2, <2>3
<1>6. ASSUME NEW k \in DOMAIN w, NEW l \in DOMAIN w, w[k].claim = w[l].claim PROVE k = l
  <2>1. k + 1 = l + 1 /\ k \in Int /\ l \in Int
    <3>1. /\ k + 1 \in DOMAIN v /\ l + 1 \in DOMAIN v /\ w[k] = v[k + 1] /\ w[l] = v[l + 1]
          /\ k \in Int /\ l \in Int
      BY <1>2
    <3>2. QED
      BY <1>0, <1>6, <3>1
  <2>2. QED
    BY <2>1
<1>7. ASSUME NEW k \in DOMAIN a, NEW l \in DOMAIN w, a[k].claim = w[l].claim PROVE FALSE
  <2>1. l + 1 \in DOMAIN v /\ l + 1 # 1 /\ w[l] = v[l + 1]
    BY <1>2
  <2>2. CASE k = m
    BY <1>0, <1>2, <1>3, <1>4, <1>7, <2>1, <2>2
  <2>3. CASE k # m
    BY <1>0, <1>3, <1>7, <2>1, <2>3
  <2>4. QED
    BY <2>2, <2>3
<1>8. \A k \in DOMAIN a : \A g \in DOMAIN p : \A l \in DOMAIN p[g] : a[k].claim # p[g][l].claim
  <2> TAKE k \in DOMAIN a
  <2> TAKE g \in DOMAIN p
  <2> TAKE l \in DOMAIN p[g]
  <2>1. CASE k = m
    BY <1>00, <1>2, <1>3, <1>4, <2>1
  <2>2. CASE k # m
    BY <1>00, <1>3, <2>2
  <2>3. QED
    BY <2>1, <2>2
<1>9. \A k \in DOMAIN w : \A g \in DOMAIN p : \A l \in DOMAIN p[g] : w[k].claim # p[g][l].claim
  <2> TAKE k \in DOMAIN w
  <2> TAKE g \in DOMAIN p
  <2> TAKE l \in DOMAIN p[g]
  <2>1. k + 1 \in DOMAIN v /\ w[k] = v[k + 1]
    BY <1>2
  <2>2. QED
    BY <1>00, <2>1
<1>10. Once(a, w, p)
  <2>1. /\ p \in Seq(Range(p)) /\ \A g \in DOMAIN p : p[g] \in Seq(Range(p[g]))
        /\ \A g, h \in DOMAIN p : \A k \in DOMAIN p[g], l \in DOMAIN p[h] :
             p[g][k].claim = p[h][l].claim => g = h /\ k = l
    BY DEF Once
  <2>2. QED
    BY <1>2, <1>3, <1>5, <1>6, <1>7, <1>8, <1>9, <2>1 DEF Once
<1>11. ASSUME NEW c \in C
       PROVE  \/ \E k \in DOMAIN a : a[k].claim = c
              \/ \E k \in DOMAIN w : w[k].claim = c
              \/ \E g \in DOMAIN p : \E k \in DOMAIN p[g] : p[g][k].claim = c
  <2>1. CASE \E k \in DOMAIN o : o[k].claim = c
    BY <1>3, <2>1
  <2>2. CASE \E k \in DOMAIN v : v[k].claim = c
    <3>1. PICK k \in DOMAIN v : v[k].claim = c
      BY <2>2
    <3>2. QED
      BY <1>2, <1>3, <1>4, <3>1
  <2>3. QED
    BY <2>1, <2>2 DEF Everywhere
<1>12. QED
  BY <1>1, <1>10, <1>11 DEF Everywhere

(* At the start: the claims without a block, and the groups of the others.  *)
LEMMA AllPlaced ==
  ASSUME NEW X, NEW items, AreItems(items, X), NEW S \in SUBSET DOMAIN items,
         NEW o, NEW p,
         o = [k \in DOMAIN Kept(items, S) |-> Outcome(Kept(items, S)[k].claim, "NO_BLOCK")],
         p = Groups(Kept(items, DOMAIN items \ S))
  PROVE  Once(o, <<>>, p) /\ Everywhere(o, <<>>, p, {item.claim : item \in Range(items)})
<1>1. PICK lost, placed : lost = Kept(items, S) /\ placed = Kept(items, DOMAIN items \ S)
  OBVIOUS
<1>2. /\ items \in Seq(X) /\ (DOMAIN items \ S) \in SUBSET DOMAIN items
      /\ \A k, l \in DOMAIN items : items[k].claim = items[l].claim => k = l
  BY DEF AreItems
<1>3. lost \in Seq(X) /\ Selects(lost, items, S)
  BY <1>1, <1>2, KeptSelects
<1>4. placed \in Seq(X) /\ Selects(placed, items, DOMAIN items \ S)
  BY <1>1, <1>2, KeptSelects
<1>5. PICK a : Chooses(a, lost, items, S)
  BY <1>3 DEF Selects
<1>6. PICK b : Chooses(b, placed, items, DOMAIN items \ S)
  BY <1>4 DEF Selects
<1>7. AreItems(placed, X)
  BY <1>2, <1>4, ChosenItems
<1>8. Grouped(p, placed, X)
  BY <1>1, <1>7, GroupsHaveAll
<1>9. /\ DOMAIN o = DOMAIN lost /\ \A k \in DOMAIN o : o[k].claim = lost[k].claim
      /\ o = [k \in DOMAIN o |-> o[k]]
  BY <1>1 DEF Outcome
<1>10. \A k \in DOMAIN o : a[k] \in S /\ o[k].claim = items[a[k]].claim
  BY <1>5, <1>9 DEF Chooses
<1>11. o \in Seq(Range(o))
  <2>1. DOMAIN lost = 1 .. Len(lost) /\ Len(lost) \in Nat
    BY <1>3
  <2>2. QED
    BY <1>9, <2>1, FromFunction
<1>12. ASSUME NEW k \in DOMAIN o, NEW l \in DOMAIN o, o[k].claim = o[l].claim PROVE k = l
  <2>1. a[k] = a[l]
    BY <1>2, <1>10, <1>12
  <2>2. QED
    BY <1>5, <1>9, <2>1 DEF Chooses
<1>13. ASSUME NEW g \in DOMAIN p, NEW l \in DOMAIN p[g]
       PROVE  \E x \in DOMAIN items \ S : p[g][l] = items[x]
  <2>1. PICK y \in DOMAIN placed : p[g][l] = placed[y]
    <3>1. \A h \in DOMAIN p : \A k \in DOMAIN p[h] : \E y \in DOMAIN placed : p[h][k] = placed[y]
      BY <1>8 DEF Grouped
    <3>2. QED
      BY <3>1
  <2>2. b[y] \in DOMAIN items \ S /\ placed[y] = items[b[y]]
    BY <1>6 DEF Chooses
  <2>3. QED
    BY <2>1, <2>2
<1>14. ASSUME NEW k \in DOMAIN o, NEW g \in DOMAIN p, NEW l \in DOMAIN p[g]
       PROVE  o[k].claim # p[g][l].claim
  <2>1. PICK x \in DOMAIN items \ S : p[g][l] = items[x]
    BY <1>13
  <2>2. a[k] # x /\ a[k] \in DOMAIN items
    BY <1>10
  <2>3. QED
    BY <1>2, <1>10, <2>1, <2>2
<1>15. p \in Seq(Range(p)) /\ \A g \in DOMAIN p : p[g] \in Seq(Range(p[g]))
  <2>1. p \in Seq(Seq(X))
    BY <1>8 DEF Grouped
  <2>2. p \in Seq(Range(p))
    BY <2>1, OwnRange
  <2>3. \A g \in DOMAIN p : p[g] \in Seq(X)
    BY <2>1
  <2>4. \A g \in DOMAIN p : p[g] \in Seq(Range(p[g]))
    BY <2>3, OwnRange
  <2>5. QED
    BY <2>2, <2>4
<1>16. Once(o, <<>>, p)
  <2>1. <<>> \in Seq(Range(<<>>)) /\ DOMAIN <<>> = {}
    OBVIOUS
  <2>2. \A g, h \in DOMAIN p : \A k \in DOMAIN p[g], l \in DOMAIN p[h] :
          p[g][k].claim = p[h][l].claim => g = h /\ k = l
    BY <1>8 DEF Grouped
  <2>3. QED
    BY <1>11, <1>12, <1>14, <1>15, <2>1, <2>2 DEF Once
<1>17. ASSUME NEW x \in DOMAIN items
       PROVE  \/ \E k \in DOMAIN o : o[k].claim = items[x].claim
              \/ \E g \in DOMAIN p : \E k \in DOMAIN p[g] : p[g][k].claim = items[x].claim
  <2>1. CASE x \in S
    <3>1. PICK k \in DOMAIN lost : a[k] = x
      BY <1>5, <2>1 DEF Chooses
    <3>2. QED
      BY <1>9, <1>10, <3>1
  <2>2. CASE x \notin S
    <3>1. PICK y \in DOMAIN placed : b[y] = x
      BY <1>6, <2>2 DEF Chooses
    <3>2. placed[y] = items[x]
      BY <1>6, <3>1 DEF Chooses
    <3>3. PICK g \in DOMAIN p : \E k \in DOMAIN p[g] : p[g][k] = placed[y]
      BY <1>8 DEF Grouped
    <3>4. QED
      BY <3>2, <3>3
  <2>3. QED
    BY <2>1, <2>2
<1> DEFINE C == {item.claim : item \in Range(items)}
<1>18. \A c \in C : \E x \in DOMAIN items : items[x].claim = c
  BY DEF Range
<1> HIDE DEF C
<1>19. ASSUME NEW c \in C
       PROVE  \/ \E k \in DOMAIN o : o[k].claim = c
              \/ \E g \in DOMAIN p : \E k \in DOMAIN p[g] : p[g][k].claim = c
  <2>1. PICK x \in DOMAIN items : items[x].claim = c
    BY <1>18
  <2>2. QED
    BY <1>17, <2>1
<1>20. Everywhere(o, <<>>, p, C)
  BY <1>19 DEF Everywhere
<1>21. QED
  BY <1>16, <1>20 DEF C

(* When nothing is pending, every claim has one outcome.                    *)
LEMMA OneEach ==
  ASSUME NEW o, NEW C, Once(o, <<>>, <<>>), Everywhere(o, <<>>, <<>>, C), NEW c \in C
  PROVE  Cardinality({k \in DOMAIN o : o[k].claim = c}) = 1
<1>1. PICK k \in DOMAIN o : o[k].claim = c
  BY DEF Everywhere
<1>2. {l \in DOMAIN o : o[l].claim = c} = {k}
  BY <1>1 DEF Once
<1>3. Cardinality({k}) = 1
  BY FS_Singleton
<1>4. QED
  BY <1>2, <1>3

LEMMA InsertionsOneByOne ==
  ASSUME NEW block, NEW X, NEW its \in Seq(X)
  PROVE  \E acc : /\ InsertAll(block, its) = acc[Len(its)]
                  /\ acc[0] = [text |-> Plain(block.text), outcomes |-> <<>>]
                  /\ \A k \in 1 .. Len(its) : acc[k] = InsertInBlock(block, acc[k - 1], its[k])
<1> DEFINE n == Len(its)
           first == [text |-> Plain(block.text), outcomes |-> <<>>]
           step(x, k) == InsertInBlock(block, x, its[k])
           at(h) == [k \in 0 .. n |-> IF k = 0 THEN first ELSE step(h[k - 1], k)]
           Builds(h, m) == /\ h[0] = first /\ h = [k \in 0 .. m |-> h[k]]
                           /\ \A k \in 1 .. m : h[k] = step(h[k - 1], k)
           T == {m \in Nat : \E h : Builds(h, m)}
<1>1. n \in Nat
  OBVIOUS
<1>2. InsertAll(block, its) = (CHOOSE h : h = at(h))[n]
  BY DEF InsertAll
<1> HIDE DEF n, first, step
<1>3. 0 \in T
  <2> DEFINE h == [k \in 0 .. 0 |-> first]
  <2>1. h[0] = first /\ h = [k \in 0 .. 0 |-> h[k]]
    OBVIOUS
  <2>2. \A k \in 1 .. 0 : h[k] = step(h[k - 1], k)
    OBVIOUS
  <2> HIDE DEF h
  <2>3. QED
    BY <2>1, <2>2
<1>4. ASSUME NEW m \in Nat, m \in T PROVE m + 1 \in T
  <2>1. PICK h : Builds(h, m)
    BY <1>4
  <2> DEFINE last == step(h[m], m + 1)
  <2> HIDE DEF last
  <2> DEFINE g == [k \in 0 .. m + 1 |-> IF k = m + 1 THEN last ELSE h[k]]
  <2>2. g = [k \in 0 .. m + 1 |-> g[k]]
    OBVIOUS
  <2>3. \A k \in 0 .. m : g[k] = h[k]
    OBVIOUS
  <2>4. g[m + 1] = last
    OBVIOUS
  <2> HIDE DEF g
  <2>5. g[0] = first
    BY <2>1, <2>3
  <2>6. ASSUME NEW k \in 1 .. m + 1 PROVE g[k] = step(g[k - 1], k)
    <3>1. CASE k = m + 1
      <4>1. g[k - 1] = h[m]
        BY <2>3, <3>1
      <4>2. QED
        BY <2>4, <3>1, <4>1 DEF last
    <3>2. CASE k # m + 1
      <4>1. k \in 1 .. m /\ g[k] = h[k] /\ g[k - 1] = h[k - 1]
        BY <2>3, <3>2
      <4>2. h[k] = step(h[k - 1], k)
        BY <2>1, <4>1
      <4>3. QED
        BY <4>1, <4>2
    <3>3. QED
      BY <3>1, <3>2
  <2>7. Builds(g, m + 1)
    BY <2>2, <2>5, <2>6
  <2> HIDE DEF Builds
  <2>8. m + 1 \in Nat /\ \E f : Builds(f, m + 1)
    BY <2>7
  <2>9. QED
    BY <2>8
<1>5. \A m \in Nat : m \in T
  <2> HIDE DEF T
  <2>1. QED
    BY <1>3, <1>4, SetInduction
<1>6. PICK h : Builds(h, n)
  BY <1>1, <1>5
<1>7. h = at(h)
  <2>1. \A k \in 0 .. n : h[k] = at(h)[k]
    <3> TAKE k \in 0 .. n
    <3>1. CASE k = 0
      BY <1>6, <3>1
    <3>2. CASE k # 0
      <4>1. k \in 1 .. n
        BY <1>1, <3>2
      <4>2. h[k] = step(h[k - 1], k)
        BY <1>6, <4>1
      <4>3. QED
        BY <3>2, <4>2
    <3>3. QED
      BY <3>1, <3>2
  <2>2. h = [k \in 0 .. n |-> h[k]]
    BY <1>6
  <2>3. QED
    BY <2>1, <2>2
<1> DEFINE g == CHOOSE x : x = at(x)
<1>8. g = at(g)
  <2> HIDE DEF at
  <2>1. QED
    BY <1>7
<1>9. InsertAll(block, its) = g[n]
  BY <1>2
<1> HIDE DEF g
<1>10. g[0] = first /\ \A k \in 1 .. n : g[k] = step(g[k - 1], k)
  <2>1. \A k \in 0 .. n : g[k] = at(g)[k]
    BY <1>8
  <2>2. g[0] = first
    BY <1>1, <2>1
  <2>3. ASSUME NEW k \in 1 .. n PROVE g[k] = step(g[k - 1], k)
    <3>1. k \in 0 .. n /\ k # 0
      BY <1>1
    <3>2. QED
      BY <2>1, <3>1
  <2>4. QED
    BY <2>2, <2>3
<1>11. QED
  BY <1>9, <1>10 DEF n, first, step

(* The outcomes of these claims in the text of a block.                     *)
MarkdownOutcomes(C) == [claim : C, status : {"INSERTED", "POSITION_MISMATCH"}]

LEMMA InsertAddsOutcome ==
  ASSUME NEW block, NEW acc, NEW item, NEW C, item.claim \in C,
         DOMAIN acc = {"text", "outcomes"}, acc.outcomes \in Seq(MarkdownOutcomes(C))
  PROVE  /\ DOMAIN InsertInBlock(block, acc, item) = {"text", "outcomes"}
         /\ \E x \in MarkdownOutcomes(C) :
              /\ InsertInBlock(block, acc, item).outcomes = Append(acc.outcomes, x)
              /\ x.claim = item.claim
<1>1. CASE Reads(block.text, block, item.sentence)
  <2>1. PICK text : InsertInBlock(block, acc, item)
          = [text |-> text, outcomes |-> Append(acc.outcomes, Outcome(item.claim, "INSERTED"))]
    BY <1>1, Zenon DEF InsertInBlock
  <2>2. Outcome(item.claim, "INSERTED") \in MarkdownOutcomes(C)
        /\ Outcome(item.claim, "INSERTED").claim = item.claim
    BY DEF Outcome, MarkdownOutcomes
  <2>3. QED
    BY <2>1, <2>2
<1>2. CASE ~ Reads(block.text, block, item.sentence)
  <2>1. InsertInBlock(block, acc, item)
          = [acc EXCEPT !.outcomes = Append(@, Outcome(item.claim, "POSITION_MISMATCH"))]
    BY <1>2, Zenon DEF InsertInBlock
  <2>2. Outcome(item.claim, "POSITION_MISMATCH") \in MarkdownOutcomes(C)
        /\ Outcome(item.claim, "POSITION_MISMATCH").claim = item.claim
    BY DEF Outcome, MarkdownOutcomes
  <2>3. QED
    BY <2>1, <2>2
<1>3. QED
  BY <1>1, <1>2

LEMMA InsertAllOutcomes ==
  ASSUME NEW block, NEW X, NEW its \in Seq(X), NEW C, \A k \in DOMAIN its : its[k].claim \in C
  PROVE  \E out : /\ out = InsertAll(block, its).outcomes
                  /\ out \in Seq(MarkdownOutcomes(C)) /\ DOMAIN out = DOMAIN its
                  /\ \A k \in DOMAIN its : out[k].claim = its[k].claim
<1> DEFINE n == Len(its)
           Y == MarkdownOutcomes(C)
<1>1. n \in Nat /\ DOMAIN its = 1 .. n
  OBVIOUS
<1>2. PICK acc : /\ InsertAll(block, its) = acc[n]
                 /\ acc[0] = [text |-> Plain(block.text), outcomes |-> <<>>]
                 /\ \A k \in 1 .. n : acc[k] = InsertInBlock(block, acc[k - 1], its[k])
  BY InsertionsOneByOne
<1> DEFINE Tells(m) == /\ DOMAIN acc[m] = {"text", "outcomes"}
                       /\ acc[m].outcomes \in Seq(Y) /\ Len(acc[m].outcomes) = m
                       /\ \A k \in 1 .. m : acc[m].outcomes[k].claim = its[k].claim
           T == {m \in Nat : m <= n => Tells(m)}
<1> HIDE DEF n, Y
<1>3. 0 \in T
  <2>1. DOMAIN acc[0] = {"text", "outcomes"} /\ acc[0].outcomes = <<>>
    BY <1>2
  <2>2. acc[0].outcomes \in Seq(Y) /\ Len(acc[0].outcomes) = 0
    BY <2>1
  <2>3. \A k \in 1 .. 0 : acc[0].outcomes[k].claim = its[k].claim
    OBVIOUS
  <2>4. QED
    BY <2>1, <2>2, <2>3
<1>4. ASSUME NEW m \in Nat, m \in T PROVE m + 1 \in T
  <2> SUFFICES ASSUME m + 1 <= n PROVE Tells(m + 1)
    OBVIOUS
  <2>1. Tells(m)
    BY <1>1, <1>4
  <2>2. m + 1 \in DOMAIN its /\ m + 1 \in 1 .. n /\ m + 1 - 1 = m
    BY <1>1
  <2>3. acc[m + 1] = InsertInBlock(block, acc[m], its[m + 1])
    BY <1>2, <2>2
  <2>4. its[m + 1].claim \in C
    BY <2>2
  <2>5. PICK b : b = acc[m]
    OBVIOUS
  <2>6. PICK item : item = its[m + 1]
    OBVIOUS
  <2>7. DOMAIN b = {"text", "outcomes"} /\ b.outcomes \in Seq(Y) /\ Len(b.outcomes) = m
        /\ \A k \in 1 .. m : b.outcomes[k].claim = its[k].claim
    BY <2>1, <2>5
  <2>8. /\ DOMAIN InsertInBlock(block, b, item) = {"text", "outcomes"}
        /\ \E x \in Y : /\ InsertInBlock(block, b, item).outcomes = Append(b.outcomes, x)
                        /\ x.claim = item.claim
    <3>1. item.claim \in C /\ b.outcomes \in Seq(MarkdownOutcomes(C))
      BY <2>4, <2>6, <2>7 DEF Y
    <3>2. DOMAIN InsertInBlock(block, b, item) = {"text", "outcomes"}
      BY <2>7, <3>1, InsertAddsOutcome
    <3>3. \E x \in MarkdownOutcomes(C) :
            /\ InsertInBlock(block, b, item).outcomes = Append(b.outcomes, x)
            /\ x.claim = item.claim
      BY <2>7, <3>1, InsertAddsOutcome
    <3>4. QED
      BY <3>2, <3>3 DEF Y
  <2>9. PICK x \in Y : InsertInBlock(block, b, item).outcomes = Append(b.outcomes, x)
                       /\ x.claim = item.claim
    BY <2>8
  <2>10. DOMAIN acc[m + 1] = {"text", "outcomes"} /\ acc[m + 1].outcomes = Append(b.outcomes, x)
    BY <2>3, <2>5, <2>6, <2>8, <2>9
  <2>11. PICK os : os = b.outcomes
    OBVIOUS
  <2>12. /\ Append(os, x) \in Seq(Y) /\ Len(Append(os, x)) = m + 1 /\ Append(os, x)[m + 1] = x
         /\ \A k \in 1 .. m : Append(os, x)[k] = os[k]
    BY <2>7, <2>11
  <2>13. \A k \in 1 .. m + 1 : Append(os, x)[k].claim = its[k].claim
    <3> TAKE k \in 1 .. m + 1
    <3>1. CASE k = m + 1
      BY <2>6, <2>9, <2>12, <3>1
    <3>2. CASE k # m + 1
      <4>1. k \in 1 .. m
        BY <3>2
      <4>2. QED
        BY <2>7, <2>11, <2>12, <4>1
    <3>3. QED
      BY <3>1, <3>2
  <2>14. QED
    BY <2>10, <2>11, <2>12, <2>13
<1>5. \A m \in Nat : m \in T
  <2> HIDE DEF T
  <2>1. QED
    BY <1>3, <1>4, SetInduction
<1>6. Tells(n)
  BY <1>1, <1>5
<1>7. PICK out : out = acc[n].outcomes
  OBVIOUS
<1>8. out \in Seq(Y) /\ Len(out) = n /\ DOMAIN out = 1 .. n
      /\ \A k \in 1 .. n : out[k].claim = its[k].claim
  BY <1>6, <1>7
<1>9. QED
  BY <1>1, <1>2, <1>7, <1>8 DEF Y

(* The outcomes of the blocks, one part for each.                           *)
PartOutcomes(r) ==
  [b \in DOMAIN r.draft.blocks |->
     InsertAll(r.draft.blocks[b], LastFirst(Items(r), r.draft.blocks[b].paragraph)).outcomes]

(* The parts tell each item of a block once, and nothing else.              *)
TellsItems(parts, items, blocks, Y) ==
  /\ DOMAIN parts = DOMAIN blocks /\ parts \in Seq(Seq(Y))
  /\ \A b \in DOMAIN parts : \A c \in DOMAIN parts[b] : \E x \in DOMAIN items :
       items[x].sentence.paragraph = blocks[b].paragraph /\ parts[b][c].claim = items[x].claim
  /\ \A b \in DOMAIN parts : \A x \in DOMAIN items :
       items[x].sentence.paragraph = blocks[b].paragraph
         => \E c \in DOMAIN parts[b] : parts[b][c].claim = items[x].claim
  /\ \A b, d \in DOMAIN parts : \A c \in DOMAIN parts[b], e \in DOMAIN parts[d] :
       parts[b][c].claim = parts[d][e].claim => b = d /\ c = e

LEMMA PartsTellItems ==
  ASSUME NEW r, Loaded(r)
  PROVE  \E Y : TellsItems(PartOutcomes(r), Items(r), r.draft.blocks, Y)
<1> DEFINE items == Items(r)
           X == Range(items)
           C == {items[k].claim : k \in DOMAIN items}
           Y == MarkdownOutcomes(C)
           blocks == r.draft.blocks
           its(b) == LastFirst(items, blocks[b].paragraph)
           parts == PartOutcomes(r)
           n == Len(blocks)
<1>1. AreItems(items, X)
  BY ItemsOfLoaded
<1>2. IsBlocks(blocks)
  BY DEF Loaded, IsDraft
<1>3. \A b \in DOMAIN blocks : parts[b] = InsertAll(blocks[b], its(b)).outcomes
  BY DEF PartOutcomes
<1>4. DOMAIN parts = DOMAIN blocks /\ parts = [b \in DOMAIN parts |-> parts[b]]
  BY DEF PartOutcomes
<1>5. n \in Nat /\ DOMAIN blocks = 1 .. n
  BY <1>2 DEF IsBlocks
<1>6. \A k \in DOMAIN items : items[k].claim \in C
  OBVIOUS
<1> HIDE DEF items, X, C, Y, parts, blocks, n
<1>7. \A b \in DOMAIN blocks :
        its(b) \in Seq(X) /\ Selects(its(b), items, OfParagraph(items, blocks[b].paragraph))
  BY <1>1, LastFirstSelects
<1> HIDE DEF its
<1>8. ASSUME NEW b \in DOMAIN blocks
      PROVE  \E s : \E at : /\ Chooses(at, s, items, OfParagraph(items, blocks[b].paragraph))
                            /\ parts[b] \in Seq(Y) /\ DOMAIN parts[b] = DOMAIN s
                            /\ \A c \in DOMAIN s : parts[b][c].claim = s[c].claim
  <2>1. PICK s : s = its(b)
    OBVIOUS
  <2>2. s \in Seq(X) /\ Selects(s, items, OfParagraph(items, blocks[b].paragraph))
    BY <1>7, <2>1
  <2>3. PICK at : Chooses(at, s, items, OfParagraph(items, blocks[b].paragraph))
    BY <2>2 DEF Selects
  <2>4. \A k \in DOMAIN s : s[k].claim \in C
    <3>1. \A k \in DOMAIN s : at[k] \in DOMAIN items /\ s[k] = items[at[k]]
      BY <2>3 DEF Chooses, OfParagraph
    <3>2. QED
      BY <1>6, <3>1
  <2>5. PICK block : block = blocks[b]
    OBVIOUS
  <2>6. \E out : /\ out = InsertAll(block, s).outcomes
                 /\ out \in Seq(MarkdownOutcomes(C)) /\ DOMAIN out = DOMAIN s
                 /\ \A k \in DOMAIN s : out[k].claim = s[k].claim
    BY <2>2, <2>4, InsertAllOutcomes
  <2>7. parts[b] = InsertAll(block, s).outcomes
    BY <1>3, <2>1, <2>5
  <2>8. parts[b] \in Seq(Y) /\ DOMAIN parts[b] = DOMAIN s
        /\ \A k \in DOMAIN s : parts[b][k].claim = s[k].claim
    BY <2>6, <2>7 DEF Y
  <2>9. QED
    BY <2>3, <2>8
<1>9. parts \in Seq(Seq(Y))
  <2>1. \A b \in 1 .. n : parts[b] \in Seq(Y)
    BY <1>5, <1>8
  <2>2. QED
    BY <1>4, <1>5, <2>1, TypedSequence
<1>10. ASSUME NEW b \in DOMAIN blocks, NEW c \in DOMAIN parts[b]
       PROVE  \E x \in DOMAIN items : /\ items[x].sentence.paragraph = blocks[b].paragraph
                                      /\ parts[b][c].claim = items[x].claim
  <2>1. PICK s, at : /\ Chooses(at, s, items, OfParagraph(items, blocks[b].paragraph))
                     /\ DOMAIN parts[b] = DOMAIN s
                     /\ \A k \in DOMAIN s : parts[b][k].claim = s[k].claim
    BY <1>8
  <2>2. at[c] \in OfParagraph(items, blocks[b].paragraph) /\ s[c] = items[at[c]]
    BY <2>1 DEF Chooses
  <2>3. QED
    BY <2>1, <2>2 DEF OfParagraph
<1>11. ASSUME NEW b \in DOMAIN blocks, NEW x \in DOMAIN items,
              items[x].sentence.paragraph = blocks[b].paragraph
       PROVE  \E c \in DOMAIN parts[b] : parts[b][c].claim = items[x].claim
  <2>1. PICK s, at : /\ Chooses(at, s, items, OfParagraph(items, blocks[b].paragraph))
                     /\ DOMAIN parts[b] = DOMAIN s
                     /\ \A k \in DOMAIN s : parts[b][k].claim = s[k].claim
    BY <1>8
  <2>2. x \in OfParagraph(items, blocks[b].paragraph)
    BY <1>11 DEF OfParagraph
  <2>3. PICK c \in DOMAIN s : at[c] = x /\ s[c] = items[at[c]]
    BY <2>1, <2>2 DEF Chooses
  <2>4. QED
    BY <2>1, <2>3
<1>12. ASSUME NEW b \in DOMAIN blocks, NEW d \in DOMAIN blocks, NEW c \in DOMAIN parts[b],
              NEW e \in DOMAIN parts[d], parts[b][c].claim = parts[d][e].claim
       PROVE  b = d /\ c = e
  <2>1. PICK x \in DOMAIN items : /\ items[x].sentence.paragraph = blocks[b].paragraph
                                  /\ parts[b][c].claim = items[x].claim
    BY <1>10
  <2>2. PICK y \in DOMAIN items : /\ items[y].sentence.paragraph = blocks[d].paragraph
                                  /\ parts[d][e].claim = items[y].claim
    BY <1>10
  <2>3. x = y
    BY <1>1, <1>12, <2>1, <2>2 DEF AreItems
  <2>4. b = d
    BY <1>2, <2>1, <2>2, <2>3 DEF IsBlocks
  <2>5. PICK s, at : /\ Chooses(at, s, items, OfParagraph(items, blocks[b].paragraph))
                     /\ DOMAIN parts[b] = DOMAIN s
                     /\ \A k \in DOMAIN s : parts[b][k].claim = s[k].claim
    BY <1>8
  <2>6. c \in DOMAIN s /\ e \in DOMAIN s
    BY <2>4, <2>5
  <2>7. /\ at[c] \in DOMAIN items /\ at[e] \in DOMAIN items
        /\ s[c] = items[at[c]] /\ s[e] = items[at[e]]
    BY <2>5, <2>6 DEF Chooses, OfParagraph
  <2>8. items[at[c]].claim = items[at[e]].claim
    BY <1>12, <2>4, <2>5, <2>6, <2>7
  <2>9. at[c] = at[e]
    BY <1>1, <2>7, <2>8 DEF AreItems
  <2>10. c = e
    BY <2>5, <2>6, <2>9 DEF Chooses
  <2>11. QED
    BY <2>4, <2>10
<1>13. TellsItems(parts, items, blocks, Y)
  BY <1>4, <1>9, <1>10, <1>11, <1>12 DEF TellsItems
<1>14. QED
  BY <1>13 DEF parts, items, blocks

LEMMA ToldOnce ==
  ASSUME NEW parts, NEW items, NEW X, AreItems(items, X), NEW blocks, NEW Y,
         TellsItems(parts, items, blocks, Y), NEW z \in DOMAIN items,
         NEW whole, whole = Concatenated(parts)
  PROVE  Cardinality({k \in DOMAIN whole : whole[k].claim = items[z].claim})
           = IF {b \in DOMAIN blocks : blocks[b].paragraph = items[z].sentence.paragraph} = {}
             THEN 0 ELSE 1
<1> DEFINE mine == {k \in DOMAIN whole : whole[k].claim = items[z].claim}
           S == {b \in DOMAIN blocks : blocks[b].paragraph = items[z].sentence.paragraph}
           at == Totals([k \in DOMAIN parts |-> Len(parts[k])])
<1>1. parts \in Seq(Seq(Y)) /\ DOMAIN parts = DOMAIN blocks
  BY DEF TellsItems
<1>2. ASSUME NEW p \in DOMAIN whole
      PROVE  \E b \in DOMAIN parts : \E c \in DOMAIN parts[b] :
               p = at[b - 1] + c /\ whole[p] = parts[b][c]
  BY <1>1, ConcatenatedCovers
<1>3. \A b \in DOMAIN parts : \A c \in DOMAIN parts[b] :
        \E p \in DOMAIN whole : whole[p] = parts[b][c]
  BY <1>1, ConcatenatedElements
<1> HIDE DEF at
<1>4. CASE S = {}
  <2>1. ASSUME NEW p \in DOMAIN whole PROVE whole[p].claim # items[z].claim
    <3>1. PICK b \in DOMAIN parts : \E c \in DOMAIN parts[b] : whole[p] = parts[b][c]
      BY <1>2
    <3>2. PICK c \in DOMAIN parts[b] : whole[p] = parts[b][c]
      BY <3>1
    <3>3. PICK x \in DOMAIN items : items[x].sentence.paragraph = blocks[b].paragraph
                                    /\ parts[b][c].claim = items[x].claim
      BY DEF TellsItems
    <3>4. x # z
      BY <1>1, <1>4, <3>3
    <3>5. QED
      BY <3>2, <3>3, <3>4 DEF AreItems
  <2>2. mine = {}
    BY <2>1
  <2>3. Cardinality(mine) = 0
    BY <2>2, FS_EmptySet
  <2>4. QED
    BY <1>4, <2>3
<1>5. CASE S # {}
  <2>1. PICK b \in DOMAIN parts : blocks[b].paragraph = items[z].sentence.paragraph
    BY <1>1, <1>5
  <2>2. PICK c \in DOMAIN parts[b] : parts[b][c].claim = items[z].claim
    BY <2>1 DEF TellsItems
  <2>3. PICK p \in DOMAIN whole : whole[p] = parts[b][c]
    BY <1>3
  <2>4. ASSUME NEW q \in DOMAIN whole, NEW s \in DOMAIN whole,
               whole[q].claim = whole[s].claim
        PROVE  q = s
    <3>1. PICK e \in DOMAIN parts : \E d \in DOMAIN parts[e] :
            q = at[e - 1] + d /\ whole[q] = parts[e][d]
      BY <1>2
    <3>2. PICK d \in DOMAIN parts[e] : q = at[e - 1] + d /\ whole[q] = parts[e][d]
      BY <3>1
    <3>3. PICK g \in DOMAIN parts : \E h \in DOMAIN parts[g] :
            s = at[g - 1] + h /\ whole[s] = parts[g][h]
      BY <1>2
    <3>4. PICK h \in DOMAIN parts[g] : s = at[g - 1] + h /\ whole[s] = parts[g][h]
      BY <3>3
    <3>5. parts[e][d].claim = parts[g][h].claim
      BY <2>4, <3>2, <3>4
    <3>6. e = g /\ d = h
      BY <3>5 DEF TellsItems
    <3>7. QED
      BY <3>2, <3>4, <3>6
  <2>5. mine = {p}
    BY <2>2, <2>3, <2>4
  <2>6. Cardinality(mine) = 1
    BY <2>5, FS_Singleton
  <2>7. QED
    BY <1>5, <2>6
<1>6. QED
  BY <1>4, <1>5

LEMMA MarkdownTellsOnce ==
  ASSUME NEW r, Loaded(r), NEW item \in Range(Items(r)),
         NEW whole, whole = Concatenated(PartOutcomes(r))
  PROVE  Cardinality({k \in DOMAIN whole : whole[k].claim = item.claim})
           = IF BlockOf(r, item) = {} THEN 0 ELSE 1
<1>1. PICK items, X : items = Items(r) /\ AreItems(items, X)
  BY ItemsOfLoaded
<1>2. PICK z \in DOMAIN items : item = items[z]
  BY <1>1 DEF Range
<1>3. PICK Y : TellsItems(PartOutcomes(r), items, r.draft.blocks, Y)
  BY <1>1, PartsTellItems
<1>4. BlockOf(r, item)
        = {b \in DOMAIN r.draft.blocks : r.draft.blocks[b].paragraph = items[z].sentence.paragraph}
  BY <1>2 DEF BlockOf
<1>5. QED
  BY <1>1, <1>2, <1>3, <1>4, ToldOnce

(* The claims with an accepted reference.                                   *)
CitedClaims(r) == {item.claim : item \in Range(Items(r))}

LEMMA SameItems ==
  ASSUME NEW r, NEW q, q.rows = r.rows, q.claims = r.claims, q.draft = r.draft
  PROVE  Items(q) = Items(r) /\ \A item : BlockOf(q, item) = BlockOf(r, item)
<1>1. Mine(q) = Mine(r)
  BY DEF Mine
<1>2. Ids(q) = Ids(r) /\ \A c : RowsOf(q, c) = RowsOf(r, c)
  BY <1>1 DEF Ids, RowsOf
<1>3. Items(q) = [k \in DOMAIN Ids(r) |->
                    [claim |-> Ids(r)[k], sentence |-> r.claims.sentences[Ids(r)[k]],
                     refs |-> RefsOf(RowsOf(r, Ids(r)[k]))]]
  <2>1. Items(q) = [k \in DOMAIN Ids(q) |->
                      [claim |-> Ids(q)[k], sentence |-> q.claims.sentences[Ids(q)[k]],
                       refs |-> RefsOf(RowsOf(q, Ids(q)[k]))]]
    BY ItemsAre
  <2>2. QED
    BY <1>2, <2>1
<1>4. Items(r) = [k \in DOMAIN Ids(r) |->
                    [claim |-> Ids(r)[k], sentence |-> r.claims.sentences[Ids(r)[k]],
                     refs |-> RefsOf(RowsOf(r, Ids(r)[k]))]]
  BY ItemsAre
<1>5. \A item : BlockOf(q, item) = BlockOf(r, item)
  BY DEF BlockOf
<1>6. QED
  BY <1>3, <1>4, <1>5

(* While a docx is written, every claim is told, resolved or pending, and   *)
(* only one of them, once: the inductive invariant of OneOutcomeEach.       *)
PlacementKept ==
  /\ request.pc \in {"resolve", "insert"} =>
       /\ Once(request.outcomes, request.resolved, request.pending)
       /\ Everywhere(request.outcomes, request.resolved, request.pending, CitedClaims(request))
  /\ request.pc = "resolve" => request.resolved = <<>>
  /\ OneOutcomeEach

(* The fields of a request.                                                 *)
Fields == {"pc", "format", "mode", "style", "draft", "claims", "rows", "pending", "resolved",
           "outcomes"}

LEMMA OpenPlaces ==
  ASSUME ExportKept, OpenDocx
  PROVE  PlacementKept'
<1> DEFINE items == Items(request)
           without == {k \in DOMAIN items : BlockOf(request, items[k]) = {}}
           groups == Groups(Kept(items, DOMAIN items \ without))
           lost == [k \in DOMAIN Kept(items, without) |->
                      Outcome(Kept(items, without)[k].claim, "NO_BLOCK")]
           C == CitedClaims(request)
<1>1. /\ request' = [request EXCEPT !.pc = "resolve", !.pending = groups, !.outcomes = lost]
      /\ request.pc = "bundle"
  BY DEF OpenDocx
<1>2. DOMAIN request = Fields /\ request.resolved = <<>> /\ Loaded(request)
  BY <1>1 DEF ExportKept, RequestKept, Fields
<1>3. AreItems(items, Range(items))
  BY <1>2, ItemsOfLoaded
<1>4. without \in SUBSET DOMAIN items
  OBVIOUS
<1>5. C = {item.claim : item \in Range(items)}
  BY DEF CitedClaims
<1> HIDE DEF items, without, C
<1>6. Once(lost, <<>>, groups) /\ Everywhere(lost, <<>>, groups, {item.claim : item \in Range(items)})
  BY <1>3, <1>4, AllPlaced
<1>7. Everywhere(lost, <<>>, groups, C)
  BY <1>5, <1>6
<1> HIDE DEF groups, lost
<1>8. /\ request'.pc = "resolve" /\ request'.resolved = <<>> /\ request'.outcomes = lost
      /\ request'.pending = groups /\ request'.rows = request.rows
      /\ request'.draft = request.draft /\ request'.claims = request.claims
  BY <1>1, <1>2 DEF Fields
<1>9. CitedClaims(request') = C
  BY <1>8, SameItems DEF C, CitedClaims
<1>10. QED
  BY <1>6, <1>7, <1>8, <1>9 DEF PlacementKept, OneOutcomeEach

LEMMA ResolvePlaces ==
  ASSUME ExportKept, PlacementKept, ResolveParagraph
  PROVE  PlacementKept'
<1> DEFINE points == Points(Head(request.pending))
           C == CitedClaims(request)
<1>1. /\ request' = [request EXCEPT !.pc = "insert", !.pending = Tail(@), !.resolved = points]
      /\ request.pc = "resolve" /\ request.pending # <<>>
  BY DEF ResolveParagraph
<1>2. DOMAIN request = Fields
  BY DEF ExportKept, RequestKept, Fields
<1> DEFINE o == request.outcomes
           p == request.pending
<1>3. Once(o, <<>>, p) /\ Everywhere(o, <<>>, p, C)
  BY <1>1 DEF PlacementKept
<1> HIDE DEF C
<1>4. PICK group : group = Head(p) /\ group = p[1] /\ group \in Seq(Range(group))
  <2>1. p \in Seq(Range(p)) /\ p # <<>>
    BY <1>1, <1>3 DEF Once
  <2>2. 1 \in DOMAIN p /\ Head(p) = p[1]
    <3> HIDE DEF p
    <3>1. QED
      BY <2>1, TailOf
  <2>3. p[1] \in Seq(Range(p[1]))
    BY <1>3, <2>2 DEF Once
  <2>4. QED
    BY <2>2, <2>3
<1>5. /\ DOMAIN points = DOMAIN group /\ points = [k \in DOMAIN points |-> points[k]]
      /\ \A k \in DOMAIN points : points[k].claim = group[k].claim
  BY <1>4 DEF Points
<1>6. points \in Seq(Range(points))
  <2>1. DOMAIN group = 1 .. Len(group) /\ Len(group) \in Nat
    BY <1>4
  <2> HIDE DEF points
  <2>2. QED
    BY <1>5, <2>1, FromFunction
<1> HIDE DEF points
<1>7. /\ request'.pc = "insert" /\ request'.resolved = points /\ request'.outcomes = o
      /\ request'.pending = Tail(p) /\ request'.rows = request.rows
      /\ request'.draft = request.draft /\ request'.claims = request.claims
  BY <1>1, <1>2 DEF Fields
<1>8. Once(o, points, Tail(p)) /\ Everywhere(o, points, Tail(p), C)
  <2>1. p # <<>>
    BY <1>1
  <2>2. DOMAIN points = DOMAIN p[1] /\ \A k \in DOMAIN points : points[k].claim = p[1][k].claim
    BY <1>4, <1>5
  <2> HIDE DEF o, p
  <2>3. QED
    BY <1>3, <1>6, <2>1, <2>2, GroupMoves
<1>9. CitedClaims(request') = C
  BY <1>7, SameItems DEF C, CitedClaims
<1>10. QED
  BY <1>7, <1>8, <1>9 DEF PlacementKept, OneOutcomeEach

LEMMA InsertPlaces ==
  ASSUME ExportKept, PlacementKept, InsertNext
  PROVE  PlacementKept'
<1> DEFINE o == request.outcomes
           v == request.resolved
           p == request.pending
           C == CitedClaims(request)
<1>1. PICK x : /\ request' = [request EXCEPT !.resolved = Tail(@), !.outcomes = Append(@, x)]
               /\ x.claim = Head(v).claim
  <2>1. PICK status : request' = [request EXCEPT !.resolved = Tail(@),
                                     !.outcomes = Append(@, Outcome(Head(v).claim, status))]
    BY DEF InsertNext
  <2>2. Outcome(Head(v).claim, status).claim = Head(v).claim
    BY DEF Outcome
  <2>3. QED
    BY <2>1, <2>2
<1>2. request.pc = "insert" /\ v # <<>>
  BY DEF InsertNext
<1>3. DOMAIN request = Fields
  BY DEF ExportKept, RequestKept, Fields
<1>4. Once(o, v, p) /\ Everywhere(o, v, p, C)
  BY <1>2 DEF PlacementKept
<1>5. /\ request'.pc = "insert" /\ request'.resolved = Tail(v) /\ request'.outcomes = Append(o, x)
      /\ request'.pending = p /\ request'.rows = request.rows
      /\ request'.draft = request.draft /\ request'.claims = request.claims
  BY <1>1, <1>2, <1>3 DEF Fields
<1> HIDE DEF o, v, p, C
<1>6. x.claim = v[1].claim
  <2>1. v \in Seq(Range(v))
    BY <1>4 DEF Once
  <2>2. Head(v) = v[1]
    BY <1>2, <2>1, TailOf
  <2>3. QED
    BY <1>1, <2>2
<1>7. Once(Append(o, x), Tail(v), p) /\ Everywhere(Append(o, x), Tail(v), p, C)
  BY <1>2, <1>4, <1>6, ClaimMoves
<1>8. CitedClaims(request') = C
  BY <1>5, SameItems DEF C, CitedClaims
<1>9. QED
  BY <1>5, <1>7, <1>8 DEF PlacementKept, OneOutcomeEach

LEMMA NextParagraphPlaces ==
  ASSUME ExportKept, PlacementKept, NextParagraph
  PROVE  PlacementKept'
<1>1. /\ request' = [request EXCEPT !.pc = "resolve"]
      /\ request.pc = "insert" /\ request.resolved = <<>>
  BY DEF NextParagraph
<1>2. DOMAIN request = Fields
  BY DEF ExportKept, RequestKept, Fields
<1>3. /\ request'.pc = "resolve" /\ request'.resolved = request.resolved
      /\ request'.outcomes = request.outcomes
      /\ request'.pending = request.pending /\ request'.rows = request.rows
      /\ request'.draft = request.draft /\ request'.claims = request.claims
  BY <1>1, <1>2 DEF Fields
<1>4. CitedClaims(request') = CitedClaims(request)
  BY <1>3, SameItems DEF CitedClaims
<1>5. QED
  BY <1>1, <1>3, <1>4 DEF PlacementKept, OneOutcomeEach

LEMMA FinishPlaces ==
  ASSUME ExportKept, PlacementKept, FinishDocx
  PROVE  PlacementKept'
<1>1. /\ request' = [request EXCEPT !.pc = "done"]
      /\ request.pc = "resolve" /\ request.pending = <<>>
  BY DEF FinishDocx
<1>2. DOMAIN request = Fields /\ request.format = "docx"
  BY <1>1 DEF ExportKept, RequestKept, Fields
<1>3. /\ request'.pc = "done" /\ request'.format = "docx"
      /\ request'.outcomes = request.outcomes /\ request'.rows = request.rows
      /\ request'.draft = request.draft /\ request'.claims = request.claims
  BY <1>1, <1>2 DEF Fields
<1>4. /\ Once(request.outcomes, <<>>, <<>>)
      /\ Everywhere(request.outcomes, <<>>, <<>>, CitedClaims(request))
  BY <1>1 DEF PlacementKept
<1>5. Items(request') = Items(request)
  BY <1>3, SameItems
<1>6. ASSUME NEW item \in Range(Items(request))
      PROVE  Cardinality({k \in DOMAIN request.outcomes : request.outcomes[k].claim = item.claim}) = 1
  <2>1. item.claim \in CitedClaims(request)
    BY DEF CitedClaims
  <2>2. QED
    BY <1>4, <2>1, OneEach
<1>7. OneOutcomeEach'
  BY <1>3, <1>5, <1>6 DEF OneOutcomeEach
<1>8. QED
  BY <1>3, <1>7 DEF PlacementKept

LEMMA MarkdownPlaces ==
  ASSUME ExportKept, WriteMarkdown
  PROVE  PlacementKept'
<1> DEFINE whole == Concatenated(PartOutcomes(request))
<1>1. request.pc = "bundle" /\ request.format = "md"
  BY DEF WriteMarkdown
<1>2. request' = [request EXCEPT !.pc = "done", !.outcomes = whole]
  <2> DEFINE blocks == [b \in DOMAIN request.draft.blocks |->
                          MarkdownBlock(request, request.draft.blocks[b])]
  <2>1. request' = [request EXCEPT !.pc = "done",
          !.outcomes = Concatenated([b \in DOMAIN blocks |-> blocks[b].outcomes])]
    BY DEF WriteMarkdown
  <2>2. [b \in DOMAIN blocks |-> blocks[b].outcomes] = PartOutcomes(request)
    BY DEF PartOutcomes, MarkdownBlock
  <2>3. QED
    BY <2>1, <2>2
<1>3. DOMAIN request = Fields /\ Loaded(request)
  BY <1>1 DEF ExportKept, RequestKept, Fields
<1> HIDE DEF whole
<1>4. /\ request'.pc = "done" /\ request'.format = "md"
      /\ request'.outcomes = whole /\ request'.rows = request.rows
      /\ request'.draft = request.draft /\ request'.claims = request.claims
  BY <1>1, <1>2, <1>3 DEF Fields
<1>5. Items(request') = Items(request) /\ \A item : BlockOf(request', item) = BlockOf(request, item)
  BY <1>4, SameItems
<1>6. \A item \in Range(Items(request)) :
        Cardinality({k \in DOMAIN whole : whole[k].claim = item.claim})
          = IF BlockOf(request, item) = {} THEN 0 ELSE 1
  BY <1>3, MarkdownTellsOnce DEF whole
<1>7. OneOutcomeEach'
  BY <1>4, <1>5, <1>6 DEF OneOutcomeEach
<1>8. QED
  BY <1>4, <1>7 DEF PlacementKept

LEMMA TablePlaces ==
  ASSUME ExportKept, WriteTable
  PROVE  PlacementKept'
<1>1. /\ request' = [request EXCEPT !.pc = "done"] /\ request.format \in {"csv", "json"}
  BY DEF WriteTable
<1>2. DOMAIN request = Fields
  BY DEF ExportKept, RequestKept, Fields
<1>3. request'.pc = "done" /\ request'.format \in {"csv", "json"}
  BY <1>1, <1>2 DEF Fields
<1>4. QED
  BY <1>3 DEF PlacementKept, OneOutcomeEach

LEMMA BeforePlaces ==
  ASSUME ExportKept, StartExport \/ ReadClaims \/ ReadAccepted \/ Refuse
  PROVE  PlacementKept'
<1>1. request'.pc \in {"draft", "claims", "bundle", "refused"}
  <2>1. DOMAIN request = Fields
    BY DEF ExportKept, RequestKept, Fields
  <2>2. CASE StartExport
    BY <2>2 DEF StartExport, NoRequest
  <2>3. CASE ReadClaims
    BY <2>1, <2>3 DEF ReadClaims, Fields
  <2>4. CASE ReadAccepted
    BY <2>1, <2>4 DEF ReadAccepted, Fields
  <2>5. CASE Refuse
    BY <2>1, <2>5 DEF Refuse, Fields
  <2>6. QED
    BY <2>2, <2>3, <2>4, <2>5
<1>2. QED
  BY <1>1 DEF PlacementKept, OneOutcomeEach

LEMMA NextPlaces ==
  ASSUME ExportKept, PlacementKept, [Next]_vars
  PROVE  PlacementKept'
<1>1. CASE UNCHANGED request
  <2>1. Items(request') = Items(request) /\ \A item : BlockOf(request', item) = BlockOf(request, item)
    BY <1>1, SameItems
  <2>2. CitedClaims(request') = CitedClaims(request)
    BY <2>1 DEF CitedClaims
  <2>3. QED
    BY <1>1, <2>1, <2>2 DEF PlacementKept, OneOutcomeEach
<1>2. CASE UNCHANGED vars \/ Accept \/ Edit \/ Reparse \/ Redetect
  <2>1. UNCHANGED request
    BY <1>2 DEF vars, Accept, Edit, Reparse, Redetect
  <2>2. QED
    BY <1>1, <2>1
<1>3. CASE Export
  BY <1>3, BeforePlaces, OpenPlaces, ResolvePlaces, InsertPlaces, NextParagraphPlaces,
     FinishPlaces, MarkdownPlaces, TablePlaces DEF Export
<1>4. QED
  BY <1>2, <1>3 DEF Next

(* Every claim with an accepted reference gets exactly one outcome, in      *)
(* Markdown none if its paragraph is no block any more, for any files and   *)
(* claims (docx_writer.py:76-210, markdown_writer.py:25-95).                *)
THEOREM ClaimsHaveOneOutcome == Spec => []OneOutcomeEach
<1>1. Init => PlacementKept
  BY DEF Init, NoRequest, PlacementKept, OneOutcomeEach
<1>2. ExportKept /\ PlacementKept /\ [Next]_vars => PlacementKept'
  BY NextPlaces
<1>3. PlacementKept => OneOutcomeEach
  BY DEF PlacementKept
<1>4. QED
  BY <1>1, <1>2, <1>3, ExportIsKept, PTL DEF Spec

-----------------------------------------------------------------------------
(* What a document tells: its words, and after them the citations.          *)

Cite == <<" ", "cite">>
Placed == <<" ", "placeholder">>
Keyword == <<" ", "keyword">>
FileRuns == [tracked : Tracked, chars : Seq(Character), claim : {0}]
Citations == [tracked : {"no", "ins"}, chars : {Cite, Placed}, claim : Nat \ {0}]
Keywords == [tracked : {"no", "ins"}, chars : {Keyword}, claim : {0}]
DocRuns == FileRuns \cup Citations \cup Keywords

Mark(c) == <<"cite", c>>

LEMMA MarkersAreNot ==
  /\ "cite" \notin Character /\ "placeholder" \notin Character /\ "keyword" \notin Character
  /\ "cite" \notin Space /\ "placeholder" \notin Space /\ "keyword" \notin Space
  BY DEF Character, Characters, Markers, Space, Blank, Elements

LEMMA SolidsAre ==
  ASSUME NEW s
  PROVE  Solids(s) = Without(s, Space)
BY DEF Solids

LEMMA CiteIs ==
  /\ Cite = <<Gap, "cite">> /\ Placed = <<Gap, "placeholder">> /\ Keyword = <<Gap, "keyword">>
  /\ Cite \in Seq(Written) /\ Placed \in Seq(Written) /\ Keyword \in Seq(Written)
  /\ Cite # Keyword /\ Placed # Keyword /\ Placed # Cite
<1>1. Gap \in Written /\ "cite" \in Written /\ "placeholder" \in Written /\ "keyword" \in Written
  BY GapIsCharacter DEF Written, Markers
<1>2. Cite = <<Gap, "cite">> /\ Placed = <<Gap, "placeholder">> /\ Keyword = <<Gap, "keyword">>
  BY DEF Cite, Placed, Keyword, Gap
<1>3. /\ <<Gap, "cite">> \in Seq(Written) /\ <<Gap, "placeholder">> \in Seq(Written)
      /\ <<Gap, "keyword">> \in Seq(Written)
  BY <1>1
<1>4. /\ <<Gap, "cite">>[2] = "cite" /\ <<Gap, "placeholder">>[2] = "placeholder"
      /\ <<Gap, "keyword">>[2] = "keyword"
  OBVIOUS
<1>5. "cite" # "keyword" /\ "placeholder" # "keyword" /\ "placeholder" # "cite"
  OBVIOUS
<1>6. <<Gap, "cite">> # <<Gap, "keyword">>
  BY <1>4, <1>5
<1>7. <<Gap, "placeholder">> # <<Gap, "keyword">> /\ <<Gap, "placeholder">> # <<Gap, "cite">>
  BY <1>4, <1>5
<1>8. QED
  BY <1>2, <1>3, <1>6, <1>7

(* What stands for a run's text where placeholders count as citations.      *)
LEMMA SaidIs ==
  ASSUME NEW run
  PROVE  Said(run) = IF run.chars = Placed THEN Cite ELSE run.chars
BY DEF Said, Placed, Cite

LEMMA FileRunsAreNotOurs ==
  ASSUME NEW run \in FileRuns
  PROVE  /\ ~ OurRun(run) /\ run.chars # Keyword /\ run.chars # Cite
         /\ run.chars \in Seq(Character) /\ run.chars \in Seq(Written)
         /\ run.claim = 0 /\ run.tracked \in Tracked /\ Said(run) = run.chars
<1>1. run.chars \in Seq(Character) /\ run.claim = 0 /\ run.tracked \in Tracked
  BY DEF FileRuns
<1>2. \A i \in DOMAIN run.chars : run.chars[i] \in Character
  BY <1>1, MembersOfSequence
<1>3. run.chars # Cite
  <2>1. SUFFICES ASSUME run.chars = Cite PROVE FALSE
    OBVIOUS
  <2>2. 2 \in DOMAIN run.chars /\ run.chars[2] = "cite"
    BY <2>1, CiteIs
  <2>3. QED
    BY <1>2, <2>2, MarkersAreNot
<1>4. run.chars # Keyword
  <2>1. SUFFICES ASSUME run.chars = Keyword PROVE FALSE
    OBVIOUS
  <2>2. 2 \in DOMAIN run.chars /\ run.chars[2] = "keyword"
    BY <2>1, CiteIs
  <2>3. QED
    BY <1>2, <2>2, MarkersAreNot
<1>5. run.chars \in Seq(Written)
  <2>1. Character \subseteq Written
    BY GapIsCharacter
  <2>2. QED
    BY <1>1, <2>1, WiderSequence
<1>6. run.chars # Placed
  <2>1. SUFFICES ASSUME run.chars = Placed PROVE FALSE
    OBVIOUS
  <2>2. 2 \in DOMAIN run.chars /\ run.chars[2] = "placeholder"
    BY <2>1, CiteIs
  <2>3. QED
    BY <1>2, <2>2, MarkersAreNot
<1>7. ~ OurRun(run) /\ Said(run) = run.chars
  BY <1>3, <1>4, <1>6, SaidIs DEF OurRun, Cite, Placed, Keyword
<1>8. QED
  BY <1>1, <1>3, <1>4, <1>5, <1>7

LEMMA OurRunsAreOurs ==
  ASSUME NEW run \in Citations \cup Keywords
  PROVE  /\ OurRun(run) /\ run.chars \in Seq(Written) /\ run.tracked \in {"no", "ins"} /\ run.claim \in Nat
         /\ run \in Citations =>
              run.chars \in {Cite, Placed} /\ Said(run) = Cite /\ run.chars # Keyword /\ run.claim # 0
         /\ run \in Keywords => run.chars = Keyword /\ Said(run) = Keyword /\ run.claim = 0
<1>1. run.chars \in {Cite, Placed, Keyword} /\ run.tracked \in {"no", "ins"} /\ run.claim \in Nat
  BY DEF Citations, Keywords
<1>2. OurRun(run)
  BY <1>1 DEF OurRun, Cite, Placed, Keyword
<1>3. run \in Citations => run.chars \in {Cite, Placed} /\ run.claim # 0
  BY DEF Citations
<1>4. run \in Keywords => run.chars = Keyword /\ run.claim = 0
  BY DEF Keywords
<1>5. run.chars \in Seq(Written)
  BY <1>1, CiteIs
<1>6. /\ run \in Citations => Said(run) = Cite /\ run.chars # Keyword
      /\ run \in Keywords => Said(run) = Keyword
  BY <1>3, <1>4, CiteIs, SaidIs
<1>7. QED
  BY <1>1, <1>2, <1>3, <1>4, <1>5, <1>6

LEMMA TrackedIs == "no" \in Tracked /\ "ins" \in Tracked
  BY DEF Tracked

LEMMA DocRunsAre ==
  ASSUME NEW run \in DocRuns
  PROVE  /\ run.chars \in Seq(Written) /\ run.tracked \in Tracked /\ run.claim \in Nat
         /\ Said(run) \in Seq(Written)
         /\ OurRun(run) <=> run \in Citations \cup Keywords
         /\ ~ OurRun(run) <=> run \in FileRuns
         /\ run.claim # 0 => run \in Citations
<1>1. CASE run \in FileRuns
  BY <1>1, FileRunsAreNotOurs, OurRunsAreOurs
<1>2. CASE run \in Citations \cup Keywords
  BY <1>2, FileRunsAreNotOurs, OurRunsAreOurs, CiteIs, TrackedIs
<1>3. QED
  BY <1>1, <1>2 DEF DocRuns

-----------------------------------------------------------------------------
(* Labels.                                                                  *)

Silent(run) == run.tracked = "del" \/ run.chars = Keyword
OwnOf == [run \in DocRuns |-> IF run.tracked = "del" \/ OurRun(run) THEN <<>> ELSE run.chars]
LiveOf == [run \in DocRuns |-> IF run.tracked = "del" THEN <<>> ELSE RunText(run)]
WordsOf == [run \in DocRuns |-> Without(OwnOf[run], Space)]
LabelledOf == [run \in DocRuns |-> IF Silent(run) THEN <<>> ELSE Labelled(Said(run), run.claim)]
MarkOf == [run \in DocRuns |-> Without(LabelledOf[run], SpaceMarks)]

LEMMA RunMapsAre ==
  /\ OwnOf \in Expansions(DocRuns, Written) /\ LiveOf \in Expansions(DocRuns, Written)
  /\ WordsOf \in Expansions(DocRuns, Written)
  /\ LabelledOf \in Expansions(DocRuns, Marks) /\ MarkOf \in Expansions(DocRuns, Marks)
<1>1. ASSUME NEW run \in DocRuns
      PROVE  /\ OwnOf[run] \in Seq(Written) /\ LiveOf[run] \in Seq(Written)
             /\ LabelledOf[run] \in Seq(Marks)
  <2>1. run.chars \in Seq(Written) /\ Said(run) \in Seq(Written) /\ run.claim \in Nat
    BY DocRunsAre
  <2>2. RunText(run) \in Seq(Written)
    BY <2>1, RunTextWords, BreakIsWritten
  <2>3. Labelled(Said(run), run.claim) \in Seq(Marks)
    BY <2>1, LabelledText
  <2>4. <<>> \in Seq(Written) /\ <<>> \in Seq(Marks)
    OBVIOUS
  <2>5. QED
    BY <2>1, <2>2, <2>3, <2>4 DEF OwnOf, LiveOf, LabelledOf
<1>2. ASSUME NEW run \in DocRuns
      PROVE  /\ Without(OwnOf[run], Space) \in Seq(Written)
             /\ Without(LabelledOf[run], SpaceMarks) \in Seq(Marks)
  BY <1>1, WithoutIsText
<1>3. QED
  BY <1>1, <1>2 DEF Expansions, OwnOf, LiveOf, WordsOf, LabelledOf, MarkOf

Told(runs) == Mapped(MarkOf, runs)
Own(runs) == Mapped(OwnOf, runs)
OwnWords(runs) == Mapped(WordsOf, runs)
Live(runs) == Mapped(LiveOf, runs)

LEMMA ParagraphTexts ==
  ASSUME NEW p, p.runs \in Seq(DocRuns)
  PROVE  /\ OwnText(p) = Own(p.runs) /\ ParaText(p) = Live(p.runs)
         /\ Marked(p) = Mapped(LabelledOf, p.runs)
<1>1. \A i \in DOMAIN p.runs : p.runs[i] \in DocRuns
  BY MembersOfSequence
<1>2. [r \in DOMAIN p.runs |->
         IF p.runs[r].tracked = "del" \/ OurRun(p.runs[r]) THEN <<>> ELSE p.runs[r].chars]
        = [r \in DOMAIN p.runs |-> OwnOf[p.runs[r]]]
  BY <1>1 DEF OwnOf
<1>3. [r \in DOMAIN p.runs |-> IF r \in LiveRuns(p) THEN RunText(p.runs[r]) ELSE <<>>]
        = [r \in DOMAIN p.runs |-> LiveOf[p.runs[r]]]
  BY <1>1 DEF LiveOf, LiveRuns
<1>4. [r \in DOMAIN p.runs |->
         IF p.runs[r].tracked = "del" \/ p.runs[r].chars = <<" ", "keyword">> THEN <<>>
         ELSE [k \in DOMAIN Said(p.runs[r]) |-> <<Said(p.runs[r])[k], p.runs[r].claim>>]]
        = [r \in DOMAIN p.runs |-> LabelledOf[p.runs[r]]]
  BY <1>1 DEF LabelledOf, Silent, Labelled, Keyword
<1>5. QED
  BY <1>2, <1>3, <1>4 DEF OwnText, ParaText, Marked, Own, Live, Mapped

LEMMA OwnTextWords ==
  ASSUME NEW runs \in Seq(DocRuns)
  PROVE  Own(runs) \in Seq(Written) /\ Solids(Own(runs)) = OwnWords(runs)
<1>1. PICK F \in Expansions(DocRuns, Written), H \in Expansions(DocRuns, Written) :
        F = OwnOf /\ H = WordsOf
  BY RunMapsAre
<1>2. PICK G \in Expansions(Written, Written) : G = LeavesOut(Written, Space)
  BY LeavesOutMaps
<1>3. Composes(F, G, H, DocRuns)
  <2>1. ASSUME NEW run \in DocRuns PROVE Mapped(G, F[run]) = H[run]
    <3>1. PICK s \in Seq(Written) : s = F[run]
      BY <1>1, Expanded
    <3>2. Without(s, Space) = Mapped(G, s)
      BY <1>2, WithoutIsMapped
    <3>3. H[run] = Without(s, Space)
      BY <1>1, <3>1 DEF WordsOf
    <3>4. QED
      BY <3>1, <3>2, <3>3
  <2>2. QED
    BY <2>1 DEF Composes
<1>4. Mapped(G, Mapped(F, runs)) = Mapped(H, runs)
  BY <1>3, MappedTwice
<1>5. Mapped(F, runs) \in Seq(Written)
  BY MappedIsSequence
<1>6. Without(Mapped(F, runs), Space) = Mapped(G, Mapped(F, runs))
  BY <1>2, <1>5, WithoutIsMapped
<1>7. QED
  BY <1>1, <1>4, <1>5, <1>6, SolidsAre DEF Own, OwnWords

(* The words of a text with its labels.                                     *)
LEMMA WordsAre ==
  ASSUME NEW t \in Seq(Marks)
  PROVE  Words(t) = Without(t, SpaceMarks)
<1>1. PICK B : B = {m \in Range(t) : m[1] \in Space}
  OBVIOUS
<1>2. \A i \in DOMAIN t : t[i] \in B <=> t[i] \in SpaceMarks
  <2> TAKE i \in DOMAIN t
  <2>1. PICK x \in Written, n \in Nat : t[i] = <<x, n>>
    <3>1. t[i] \in Marks
      BY MembersOfSequence
    <3>2. QED
      BY <3>1 DEF Marks
  <2>2. t[i] \in Range(t)
    BY DEF Range
  <2>3. t[i][1] = x
    BY <2>1
  <2>4. t[i] \in B <=> x \in Space
    BY <1>1, <2>2, <2>3
  <2>5. t[i] \in SpaceMarks <=> x \in Space
    BY <2>1 DEF SpaceMarks
  <2>6. QED
    BY <2>4, <2>5
<1>3. Without(t, B) = Without(t, SpaceMarks)
  BY <1>2, WithoutSame
<1>4. QED
  BY <1>1, <1>3 DEF Words

LEMMA ToldWords ==
  ASSUME NEW p, p.runs \in Seq(DocRuns)
  PROVE  Words(Marked(p)) = Told(p.runs) /\ Told(p.runs) \in Seq(Marks)
<1>1. PICK F \in Expansions(DocRuns, Marks), H \in Expansions(DocRuns, Marks) :
        F = LabelledOf /\ H = MarkOf
  BY RunMapsAre
<1>2. PICK G \in Expansions(Marks, Marks) : G = LeavesOut(Marks, SpaceMarks)
  BY LeavesOutMaps
<1>3. Composes(F, G, H, DocRuns)
  <2>1. ASSUME NEW run \in DocRuns PROVE Mapped(G, F[run]) = H[run]
    <3>1. PICK s \in Seq(Marks) : s = F[run]
      BY <1>1, Expanded
    <3>2. Without(s, SpaceMarks) = Mapped(G, s)
      BY <1>2, WithoutIsMapped
    <3>3. H[run] = Without(s, SpaceMarks)
      BY <1>1, <3>1 DEF MarkOf
    <3>4. QED
      BY <3>1, <3>2, <3>3
  <2>2. QED
    BY <2>1 DEF Composes
<1>4. Mapped(G, Mapped(F, p.runs)) = Mapped(H, p.runs)
  BY <1>3, MappedTwice
<1>5. Mapped(F, p.runs) \in Seq(Marks) /\ Mapped(H, p.runs) \in Seq(Marks)
  BY MappedIsSequence
<1>6. Without(Mapped(F, p.runs), SpaceMarks) = Mapped(G, Mapped(F, p.runs))
  BY <1>2, <1>5, WithoutIsMapped
<1>7. Words(Mapped(F, p.runs)) = Without(Mapped(F, p.runs), SpaceMarks)
  BY <1>5, WordsAre
<1>8. QED
  BY <1>1, <1>4, <1>5, <1>6, <1>7, ParagraphTexts DEF Told

-----------------------------------------------------------------------------
(* Plain is the label 0.                                                    *)

LEMMA PlainIs ==
  ASSUME NEW s
  PROVE  Plain(s) = Labelled(s, 0)
BY DEF Plain, Labelled

LEMMA PlainText ==
  ASSUME NEW s \in Seq(Written)
  PROVE  /\ Plain(s) \in Seq(Marks) /\ Len(Plain(s)) = Len(s) /\ DOMAIN Plain(s) = DOMAIN s
         /\ \A i \in DOMAIN s : Plain(s)[i] = <<s[i], 0>>
BY PlainIs, LabelledText

LEMMA PlainOfParts ==
  ASSUME NEW s \in Seq(Written), NEW t \in Seq(Written)
  PROVE  Plain(s \o t) = Plain(s) \o Plain(t)
<1>1. PICK F \in Expansions(Written, Marks) : F = LabelOf(0)
  BY LabelsAre
<1>2. s \o t \in Seq(Written)
  OBVIOUS
<1>3. Plain(s \o t) = Mapped(F, s \o t) /\ Plain(s) = Mapped(F, s) /\ Plain(t) = Mapped(F, t)
  BY <1>1, <1>2, PlainIs, LabelledMapped
<1>4. Mapped(F, s \o t) = Mapped(F, s) \o Mapped(F, t)
  BY MappedOfParts
<1>5. QED
  BY <1>3, <1>4

LEMMA PlainWords ==
  ASSUME NEW s \in Seq(Written)
  PROVE  Without(Plain(s), SpaceMarks) = Plain(Without(s, Space))
BY PlainIs, LabelledSolids

-----------------------------------------------------------------------------
(* The kinds of runs.                                                       *)

LEMMA DeletedRuns ==
  ASSUME NEW run \in DocRuns, run.tracked = "del"
  PROVE  /\ LiveOf[run] = <<>> /\ MarkOf[run] = <<>> /\ WordsOf[run] = <<>> /\ OwnOf[run] = <<>>
<1>1. LiveOf[run] = <<>> /\ OwnOf[run] = <<>> /\ LabelledOf[run] = <<>>
  BY DEF LiveOf, OwnOf, LabelledOf, Silent
<1>2. QED
  BY <1>1, NothingWithout DEF MarkOf, WordsOf

LEMMA LiveFileRuns ==
  ASSUME NEW run \in FileRuns, run.tracked # "del"
  PROVE  /\ LiveOf[run] = RunText(run) /\ MarkOf[run] = Plain(Without(run.chars, Space))
         /\ WordsOf[run] = Without(run.chars, Space) /\ OwnOf[run] = run.chars
<1>1. run \in DocRuns
  BY DEF DocRuns
<1>2. /\ run.chars # Keyword /\ ~ OurRun(run) /\ run.claim = 0 /\ run.chars \in Seq(Written)
      /\ Said(run) = run.chars
  BY FileRunsAreNotOurs
<1>3. LabelledOf[run] = Labelled(run.chars, 0) /\ OwnOf[run] = run.chars /\ LiveOf[run] = RunText(run)
  BY <1>1, <1>2 DEF LabelledOf, Silent, OwnOf, LiveOf
<1>4. Without(Labelled(run.chars, 0), SpaceMarks) = Plain(Without(run.chars, Space))
  BY <1>2, PlainIs, PlainWords
<1>5. QED
  BY <1>1, <1>3, <1>4 DEF MarkOf, WordsOf

LEMMA CiteWords ==
  ASSUME NEW c \in Nat
  PROVE  Without(Labelled(Cite, c), SpaceMarks) = <<Mark(c)>> /\ Mark(c) \in Marks
<1>0. \A u, v \in Seq(Written) : Without(u \o v, Space) = Without(u, Space) \o Without(v, Space)
  BY WithoutOfParts
<1>1. Gap \in Written /\ "cite" \in Written /\ Cite = <<Gap, "cite">>
  BY CiteIs, GapIsCharacter DEF Written, Markers
<1>2. PICK g \in Written, x \in Written : g = Gap /\ x = "cite"
  BY <1>1
<1>3. Without(Labelled(Cite, c), SpaceMarks) = Labelled(Without(Cite, Space), c)
  BY CiteIs, LabelledSolids
<1>4. Cite = <<g>> \o <<x>> /\ <<g>> \in Seq(Written) /\ <<x>> \in Seq(Written)
  BY <1>1, <1>2
<1>5. Without(Cite, Space) = Without(<<g>>, Space) \o Without(<<x>>, Space)
  BY <1>0, <1>4
<1>6. Without(<<g>>, Space) = <<>>
  <2>1. \A i \in DOMAIN <<g>> : <<g>>[i] \in Space
    BY <1>2, GapIsSpace
  <2>2. QED
    BY <1>4, <2>1, WithoutOfAll
<1>7. Without(<<x>>, Space) = <<x>>
  <2>1. \A i \in DOMAIN <<x>> : <<x>>[i] \notin Space
    BY <1>2, MarkersAreNot
  <2>2. QED
    BY <1>4, <2>1, WithoutOfNone
<1>8. Without(Cite, Space) = <<x>>
  <2>1. <<>> \o <<x>> = <<x>>
    BY <1>4, NothingAppended
  <2>2. QED
    BY <1>5, <1>6, <1>7, <2>1
<1>9. Labelled(<<x>>, c) = <<<<x, c>>>>
  <2>1. PICK s \in Seq(Written) : s = <<x>>
    BY <1>4
  <2>2. Labelled(s, c) \in Seq(Marks) /\ Len(Labelled(s, c)) = Len(s)
        /\ DOMAIN Labelled(s, c) = DOMAIN s /\ \A i \in DOMAIN s : Labelled(s, c)[i] = <<s[i], c>>
    BY LabelledText
  <2>3. Len(s) = 1 /\ DOMAIN s = 1 .. 1 /\ s[1] = x
    BY <2>1
  <2>4. Labelled(s, c)[1] = <<x, c>> /\ Len(Labelled(s, c)) = 1
    BY <2>2, <2>3
  <2>5. \A u \in Seq(Marks) : Len(u) = 1 => u = <<u[1]>>
    BY OneElement
  <2>6. QED
    BY <2>1, <2>2, <2>4, <2>5
<1>10. Mark(c) \in Marks
  BY <1>1 DEF Mark, Marks
<1>11. QED
  BY <1>2, <1>3, <1>8, <1>9, <1>10 DEF Mark

LEMMA CitationRuns ==
  ASSUME NEW run \in Citations
  PROVE  /\ MarkOf[run] = <<Mark(run.claim)>> /\ WordsOf[run] = <<>> /\ OwnOf[run] = <<>>
<1>1. run \in DocRuns /\ run \in Citations \cup Keywords
  BY DEF DocRuns
<1>2. OurRun(run) /\ Said(run) = Cite /\ run.chars # Keyword /\ run.tracked # "del" /\ run.claim \in Nat
  BY <1>1, OurRunsAreOurs
<1>3. LabelledOf[run] = Labelled(Cite, run.claim) /\ OwnOf[run] = <<>>
  BY <1>1, <1>2 DEF LabelledOf, Silent, OwnOf
<1>4. QED
  BY <1>1, <1>2, <1>3, NothingWithout, CiteWords DEF MarkOf, WordsOf

LEMMA KeywordRuns ==
  ASSUME NEW run \in Keywords
  PROVE  /\ MarkOf[run] = <<>> /\ WordsOf[run] = <<>> /\ OwnOf[run] = <<>>
<1>1. run \in DocRuns /\ run \in Citations \cup Keywords
  BY DEF DocRuns
<1>2. OurRun(run) /\ run.chars = Keyword
  BY <1>1, OurRunsAreOurs
<1>3. LabelledOf[run] = <<>> /\ OwnOf[run] = <<>>
  BY <1>1, <1>2 DEF LabelledOf, Silent, OwnOf
<1>4. QED
  BY <1>1, <1>3, NothingWithout DEF MarkOf, WordsOf

-----------------------------------------------------------------------------
(* Labels taken off again: what bears a claim is left out.                  *)

Unmark == [m \in Marks |-> IF m[2] = 0 THEN <<m[1]>> ELSE <<>>]

LEMMA UnmarkIs ==
  /\ Unmark \in Expansions(Marks, Written)
  /\ \A x \in Written : Unmark[<<x, 0>>] = <<x>>
  /\ \A x \in Written, c \in Nat \ {0} : Unmark[<<x, c>>] = <<>>
<1>1. \A m \in Marks : m[1] \in Written
  BY DEF Marks
<1>2. \A m \in Marks : <<m[1]>> \in Seq(Written) /\ <<>> \in Seq(Written)
  BY <1>1
<1>3. Unmark \in [Marks -> Seq(Written)]
  BY <1>2 DEF Unmark
<1>4. \A x \in Written, c \in Nat : <<x, c>> \in Marks /\ <<x, c>>[1] = x /\ <<x, c>>[2] = c
  BY DEF Marks
<1>5. QED
  BY <1>3, <1>4 DEF Unmark, Expansions

LEMMA UnmarkPlain ==
  ASSUME NEW s \in Seq(Written)
  PROVE  Mapped(Unmark, Plain(s)) = s
<1>1. PICK F \in Expansions(Written, Marks), G \in Expansions(Marks, Written) :
        F = LabelOf(0) /\ G = Unmark
  BY LabelsAre, UnmarkIs
<1>2. PICK H \in Expansions(Written, Written) : H = LeavesOut(Written, {})
  BY LeavesOutMaps
<1>3. Composes(F, G, H, Written)
  <2>1. ASSUME NEW x \in Written PROVE Mapped(G, F[x]) = H[x]
    <3>1. PICK m \in Marks : m = <<x, 0>>
      BY DEF Marks
    <3>2. F[x] = <<m>>
      BY <1>1, <3>1, LabelsAre
    <3>3. Mapped(G, <<m>>) = G[m]
      BY MappedOne
    <3>4. G[m] = <<x>>
      BY <1>1, <3>1, UnmarkIs
    <3>5. H[x] = <<x>>
      BY <1>2, LeavesOutMaps
    <3>6. QED
      BY <3>2, <3>3, <3>4, <3>5
  <2>2. QED
    BY <2>1 DEF Composes
<1>4. Mapped(G, Mapped(F, s)) = Mapped(H, s)
  BY <1>3, MappedTwice
<1>5. Plain(s) = Mapped(F, s)
  BY <1>1, PlainIs, LabelledMapped
<1>6. Mapped(H, s) = Without(s, {})
  BY <1>2, WithoutIsMapped
<1>7. Without(s, {}) = s
  BY WithoutOfNone
<1>8. QED
  BY <1>1, <1>4, <1>5, <1>6, <1>7

(* The words told, without the citations, are the words of the file.        *)
LEMMA UnmarkTold ==
  ASSUME NEW runs \in Seq(DocRuns)
  PROVE  Mapped(Unmark, Told(runs)) = OwnWords(runs)
<1>1. PICK F \in Expansions(DocRuns, Marks), G \in Expansions(Marks, Written),
          H \in Expansions(DocRuns, Written) : F = MarkOf /\ G = Unmark /\ H = WordsOf
  BY RunMapsAre, UnmarkIs
<1>2. Mapped(G, <<>>) = <<>>
  BY MappedSteps
<1>3. Composes(F, G, H, DocRuns)
  <2>1. ASSUME NEW run \in DocRuns PROVE Mapped(G, F[run]) = H[run]
    <3>1. CASE run.tracked = "del"
      BY <1>1, <1>2, <3>1, DeletedRuns
    <3>2. CASE run \in FileRuns /\ run.tracked # "del"
      <4>1. run.chars \in Seq(Written)
        BY <3>2, FileRunsAreNotOurs
      <4>2. Without(run.chars, Space) \in Seq(Written)
        BY <4>1, WithoutIsText
      <4>3. QED
        BY <1>1, <3>2, <4>2, LiveFileRuns, UnmarkPlain
    <3>3. CASE run \in Citations
      <4>1. PICK m \in Marks : m = Mark(run.claim)
        BY <3>3, CiteWords DEF Citations
      <4>2. Mapped(G, <<m>>) = G[m]
        BY MappedOne
      <4>3. "cite" \in Written /\ run.claim \in Nat \ {0}
        BY <3>3 DEF Citations, Written, Markers
      <4>4. G[m] = <<>>
        BY <1>1, <4>1, <4>3, UnmarkIs DEF Mark
      <4>5. QED
        BY <1>1, <3>3, <4>1, <4>2, <4>4, CitationRuns
    <3>4. CASE run \in Keywords
      BY <1>1, <1>2, <3>4, KeywordRuns
    <3>5. QED
      BY <3>1, <3>2, <3>3, <3>4 DEF DocRuns
  <2>2. QED
    BY <2>1 DEF Composes
<1>4. Mapped(G, Mapped(F, runs)) = Mapped(H, runs)
  BY <1>3, MappedTwice
<1>5. QED
  BY <1>1, <1>4 DEF Told, OwnWords

-----------------------------------------------------------------------------
(* The texts of runs, run by run.                                           *)

LEMMA TextsOfParts ==
  ASSUME NEW s \in Seq(DocRuns), NEW t \in Seq(DocRuns)
  PROVE  /\ Told(s \o t) = Told(s) \o Told(t) /\ Own(s \o t) = Own(s) \o Own(t)
         /\ OwnWords(s \o t) = OwnWords(s) \o OwnWords(t) /\ Live(s \o t) = Live(s) \o Live(t)
<1>1. ASSUME NEW Y, NEW F \in Expansions(DocRuns, Y)
      PROVE  Mapped(F, s \o t) = Mapped(F, s) \o Mapped(F, t)
  BY <1>1, MappedOfParts
<1>2. Mapped(MarkOf, s \o t) = Mapped(MarkOf, s) \o Mapped(MarkOf, t)
  BY <1>1, RunMapsAre
<1>3. Mapped(OwnOf, s \o t) = Mapped(OwnOf, s) \o Mapped(OwnOf, t)
  BY <1>1, RunMapsAre
<1>4. Mapped(WordsOf, s \o t) = Mapped(WordsOf, s) \o Mapped(WordsOf, t)
  BY <1>1, RunMapsAre
<1>5. Mapped(LiveOf, s \o t) = Mapped(LiveOf, s) \o Mapped(LiveOf, t)
  BY <1>1, RunMapsAre
<1>6. QED
  BY <1>2, <1>3, <1>4, <1>5 DEF Told, Own, OwnWords, Live

LEMMA TextsOfOne ==
  ASSUME NEW run \in DocRuns
  PROVE  /\ Told(<<run>>) = MarkOf[run] /\ Own(<<run>>) = OwnOf[run]
         /\ OwnWords(<<run>>) = WordsOf[run] /\ Live(<<run>>) = LiveOf[run]
<1>1. ASSUME NEW Y, NEW F \in Expansions(DocRuns, Y)
      PROVE  Mapped(F, <<run>>) = F[run]
  BY <1>1, MappedOne
<1>2. QED
  BY <1>1, RunMapsAre DEF Told, Own, OwnWords, Live

LEMMA TextsOfNone ==
  Told(<<>>) = <<>> /\ Own(<<>>) = <<>> /\ OwnWords(<<>>) = <<>> /\ Live(<<>>) = <<>>
<1>1. ASSUME NEW Y, NEW F \in Expansions(DocRuns, Y)
      PROVE  Mapped(F, <<>>) = <<>>
  BY <1>1, MappedSteps
<1>2. QED
  BY <1>1, RunMapsAre DEF Told, Own, OwnWords, Live

LEMMA TextsAre ==
  ASSUME NEW s \in Seq(DocRuns)
  PROVE  /\ Told(s) \in Seq(Marks) /\ Own(s) \in Seq(Written)
         /\ OwnWords(s) \in Seq(Written) /\ Live(s) \in Seq(Written)
<1>1. ASSUME NEW Y, NEW F \in Expansions(DocRuns, Y)
      PROVE  Mapped(F, s) \in Seq(Y)
  BY <1>1, MappedIsSequence
<1>2. QED
  BY <1>1, RunMapsAre DEF Told, Own, OwnWords, Live

-----------------------------------------------------------------------------
(* Splitting a run.                                                         *)

HalfOf(run, part) == [run EXCEPT !.chars = Only(run.chars, Elements) \o part]
NoElements(run) == \A i \in DOMAIN run.chars : run.chars[i] \notin Elements

LEMMA HalfRuns ==
  ASSUME NEW run \in FileRuns, NEW part \in Seq(Character)
  PROVE  /\ HalfOf(run, part) \in FileRuns /\ HalfOf(run, part).tracked = run.tracked
         /\ HalfOf(run, part).chars = Only(run.chars, Elements) \o part
         /\ Without(HalfOf(run, part).chars, Space) = Without(part, Space)
<1>1. run.chars \in Seq(Character) /\ run.claim = 0 /\ run.tracked \in Tracked
  BY FileRunsAreNotOurs
<1>2. PICK b \in Seq(Character) : b = Only(run.chars, Elements)
  BY <1>1, WithoutIsText
<1>3. b \o part \in Seq(Character)
  OBVIOUS
<1>4. HalfOf(run, part) = [run EXCEPT !.chars = b \o part]
  BY <1>2 DEF HalfOf
<1>5. HalfOf(run, part) \in FileRuns /\ HalfOf(run, part).tracked = run.tracked
      /\ HalfOf(run, part).chars = b \o part
  BY <1>1, <1>3, <1>4 DEF FileRuns
<1>6. Without(b, Space) = <<>>
  <2>1. \A i \in DOMAIN b : b[i] \in Elements
    BY <1>1, <1>2, OnlyHasThose
  <2>2. \A i \in DOMAIN b : b[i] \in Space
    BY <2>1, ElementsAreSpace
  <2>3. QED
    BY <2>2, WithoutOfAll
<1>7. Without(b \o part, Space) = <<>> \o Without(part, Space)
  <2>1. Splits(b, part, Space)
    BY <1>2, SplitParts
  <2>2. Without(b \o part, Space) = Without(b, Space) \o Without(part, Space)
    BY <2>1, Zenon DEF Splits
  <2>3. QED
    BY <1>6, <2>2
<1>8. Without(part, Space) \in Seq(Character)
  BY WithoutIsText
<1>9. <<>> \o Without(part, Space) = Without(part, Space)
  BY <1>8, NothingAppended
<1>10. QED
  BY <1>2, <1>5, <1>7, <1>9

(* The runs that a run becomes at an offset.                                *)
Parts(run, offset, f, g) ==
  \/ offset = 0 /\ f = <<>> /\ g = <<run>>
  \/ run \in FileRuns /\ offset >= Len(RunText(run)) /\ f = <<run>> /\ g = <<>>
  \/ /\ run \in FileRuns /\ 0 < offset /\ offset < Len(RunText(run))
     /\ f = <<HalfOf(run, SubSeq(RunText(run), 1, offset))>>
     /\ g = <<HalfOf(run, SubSeq(RunText(run), offset + 1, Len(RunText(run))))>>

(* What they say together, and what the first of them says.                 *)
Divides(run, offset, f, g) ==
  /\ f \in Seq(DocRuns) /\ g \in Seq(DocRuns)
  /\ Told(f) = Plain(Without(Take(RunText(run), offset), Space))
  /\ Told(f) \o Told(g) = MarkOf[run]
  /\ OwnWords(f) \o OwnWords(g) = WordsOf[run]
  /\ NoElements(run) => /\ Own(f) \o Own(g) = OwnOf[run]
                        /\ \A i \in DOMAIN f : NoElements(f[i])
                        /\ \A i \in DOMAIN g : NoElements(g[i])

LEMMA DividesAtStart ==
  ASSUME NEW run \in DocRuns, run.tracked # "del"
  PROVE  Divides(run, 0, <<>>, <<run>>)
<1>1. PICK e \in Seq(DocRuns), o \in Seq(DocRuns) : e = <<>> /\ o = <<run>>
  <2>1. <<>> \in Seq(DocRuns) /\ <<run>> \in Seq(DocRuns)
    OBVIOUS
  <2>2. QED
    BY <2>1
<1>2. /\ Told(e) = <<>> /\ Own(e) = <<>> /\ OwnWords(e) = <<>>
      /\ Told(o) = MarkOf[run] /\ Own(o) = OwnOf[run] /\ OwnWords(o) = WordsOf[run]
  BY <1>1, TextsOfOne, TextsOfNone
<1>3. Told(o) \in Seq(Marks) /\ Own(o) \in Seq(Written) /\ OwnWords(o) \in Seq(Written)
  BY TextsAre
<1>4. <<>> \o Told(o) = Told(o) /\ <<>> \o Own(o) = Own(o) /\ <<>> \o OwnWords(o) = OwnWords(o)
  BY <1>3, NothingAppended
<1>5. PICK t \in Seq(Written) : t = RunText(run)
  BY DocRunsAre, RunTextWords, BreakIsWritten
<1>6. Take(t, 0) = <<>>
  BY TakeAll
<1>7. Plain(<<>>) = <<>>
  <2>1. PICK z \in Seq(Written) : z = <<>>
    <3>1. <<>> \in Seq(Written)
      OBVIOUS
    <3>2. QED
      BY <3>1
  <2>2. Plain(z) \in Seq(Marks) /\ Len(Plain(z)) = Len(z)
    BY PlainText
  <2>3. Len(z) = 0
    BY <2>1
  <2>4. \A u \in Seq(Marks) : Len(u) = 0 => u = <<>>
    OBVIOUS
  <2>5. QED
    BY <2>1, <2>2, <2>3, <2>4
<1>8. Told(e) = Plain(Without(Take(t, 0), Space))
  BY <1>2, <1>6, <1>7, NothingWithout
<1>9. NoElements(run) => (\A i \in DOMAIN e : NoElements(e[i])) /\ (\A i \in DOMAIN o : NoElements(o[i]))
  BY <1>1
<1>10. QED
  BY <1>1, <1>2, <1>4, <1>5, <1>8, <1>9 DEF Divides

-----------------------------------------------------------------------------
(* What dividing a run leaves: the two halves tell what the run told.       *)

(* A point behind the last character of a run divides nothing.              *)
LEMMA DividesAtEnd ==
  ASSUME NEW run \in FileRuns, run.tracked # "del", NEW offset \in Nat, offset >= Len(RunText(run))
  PROVE  Divides(run, offset, <<run>>, <<>>)
<1>0. run \in DocRuns
  BY DEF DocRuns
<1>1. PICK e \in Seq(DocRuns), o \in Seq(DocRuns) : e = <<>> /\ o = <<run>>
  <2>1. <<>> \in Seq(DocRuns) /\ <<run>> \in Seq(DocRuns)
    BY <1>0
  <2>2. QED
    BY <2>1
<1>2. /\ Told(e) = <<>> /\ Own(e) = <<>> /\ OwnWords(e) = <<>>
      /\ Told(o) = MarkOf[run] /\ Own(o) = OwnOf[run] /\ OwnWords(o) = WordsOf[run]
  BY <1>0, <1>1, TextsOfOne, TextsOfNone
<1>3. Told(o) \in Seq(Marks) /\ Own(o) \in Seq(Written) /\ OwnWords(o) \in Seq(Written)
  BY TextsAre
<1>4. Told(o) \o <<>> = Told(o) /\ Own(o) \o <<>> = Own(o) /\ OwnWords(o) \o <<>> = OwnWords(o)
  BY <1>3, NothingAppended
<1>5. run.chars \in Seq(Written)
  BY FileRunsAreNotOurs
<1>6. PICK t \in Seq(Written) : t = RunText(run) /\ Without(t, Space) = Without(run.chars, Space)
  BY <1>5, RunTextWords, BreakIsWritten
<1>7. Take(t, offset) = t
  BY <1>6, TakeAll
<1>8. Told(o) = Plain(Without(Take(t, offset), Space))
  BY <1>2, <1>6, <1>7, LiveFileRuns
<1>9. NoElements(run) => (\A i \in DOMAIN e : NoElements(e[i])) /\ (\A i \in DOMAIN o : NoElements(o[i]))
  BY <1>1
<1>10. QED
  BY <1>1, <1>2, <1>4, <1>6, <1>8, <1>9 DEF Divides

(* A point within a run divides it in two halves with the words of the run. *)
LEMMA DividesInside ==
  ASSUME NEW run \in FileRuns, run.tracked # "del", NEW offset \in Nat, offset < Len(RunText(run)),
         NEW h, h = HalfOf(run, SubSeq(RunText(run), 1, offset)),
         NEW j, j = HalfOf(run, SubSeq(RunText(run), offset + 1, Len(RunText(run))))
  PROVE  Divides(run, offset, <<h>>, <<j>>)
<1>1. run.chars \in Seq(Character)
  BY FileRunsAreNotOurs
<1>2. PICK t \in Seq(Character) : t = RunText(run) /\ Without(t, Space) = Without(run.chars, Space)
                                  /\ (NoElements(run) => t = run.chars)
  BY <1>1, RunTextWords, BreakIsWritten DEF NoElements
<1>3. PICK a \in Seq(Character), b \in Seq(Character) :
        a = SubSeq(t, 1, offset) /\ b = SubSeq(t, offset + 1, Len(t)) /\ t = a \o b
  <2>1. offset \in 0 .. Len(t)
    BY <1>2
  <2>2. SubSeq(t, 1, offset) \in Seq(Character) /\ SubSeq(t, offset + 1, Len(t)) \in Seq(Character)
        /\ t = SubSeq(t, 1, offset) \o SubSeq(t, offset + 1, Len(t))
    BY <2>1, TakeAndRest
  <2>3. QED
    BY <2>2
<1>4. Take(t, offset) = a
  <2>1. offset <= Len(t)
    BY <1>2
  <2>2. Take(t, offset) = SubSeq(t, 1, offset)
    BY <2>1, TakeAll
  <2>3. QED
    BY <1>3, <2>2
<1>5. /\ h \in FileRuns /\ h.tracked = run.tracked /\ h.chars = Only(run.chars, Elements) \o a
      /\ Without(h.chars, Space) = Without(a, Space)
      /\ j \in FileRuns /\ j.tracked = run.tracked /\ j.chars = Only(run.chars, Elements) \o b
      /\ Without(j.chars, Space) = Without(b, Space)
  BY <1>2, <1>3, HalfRuns
<1>6. h \in DocRuns /\ j \in DocRuns /\ run \in DocRuns
  BY <1>5 DEF DocRuns
<1>7. /\ MarkOf[h] = Plain(Without(a, Space)) /\ WordsOf[h] = Without(a, Space) /\ OwnOf[h] = h.chars
      /\ MarkOf[j] = Plain(Without(b, Space)) /\ WordsOf[j] = Without(b, Space) /\ OwnOf[j] = j.chars
      /\ MarkOf[run] = Plain(Without(run.chars, Space)) /\ WordsOf[run] = Without(run.chars, Space)
      /\ OwnOf[run] = run.chars
  BY <1>5, LiveFileRuns
<1>8. PICK u \in Seq(DocRuns), v \in Seq(DocRuns) : u = <<h>> /\ v = <<j>>
  <2>1. <<h>> \in Seq(DocRuns) /\ <<j>> \in Seq(DocRuns)
    BY <1>6
  <2>2. QED
    BY <2>1
<1>9. /\ Told(u) = MarkOf[h] /\ Own(u) = OwnOf[h] /\ OwnWords(u) = WordsOf[h]
      /\ Told(v) = MarkOf[j] /\ Own(v) = OwnOf[j] /\ OwnWords(v) = WordsOf[j]
  BY <1>6, <1>8, TextsOfOne
<1>10. Without(run.chars, Space) = Without(a, Space) \o Without(b, Space)
  <2>1. Splits(a, b, Space)
    BY SplitParts
  <2>2. Without(a \o b, Space) = Without(a, Space) \o Without(b, Space)
    BY <2>1, Zenon DEF Splits
  <2>3. Without(t, Space) = Without(a \o b, Space)
    BY <1>3
  <2>4. QED
    BY <1>2, <2>2, <2>3
<1>11. PICK x \in Seq(Written), y \in Seq(Written) : x = Without(a, Space) /\ y = Without(b, Space)
  <2>1. Without(a, Space) \in Seq(Character) /\ Without(b, Space) \in Seq(Character)
    BY WithoutIsText
  <2>2. QED
    BY <2>1, GapIsCharacter, WiderSequence
<1>12. Plain(x \o y) = Plain(x) \o Plain(y)
  BY PlainOfParts
<1>13. NoElements(run) => Own(u) \o Own(v) = OwnOf[run] /\ NoElements(h) /\ NoElements(j)
  <2>1. SUFFICES ASSUME NoElements(run) PROVE Own(u) \o Own(v) = OwnOf[run] /\ NoElements(h) /\ NoElements(j)
    OBVIOUS
  <2>2. \A i \in DOMAIN run.chars : run.chars[i] \notin Elements
    BY <2>1 DEF NoElements
  <2>3. Only(run.chars, Elements) = <<>>
    BY <1>1, <2>2, WithoutOfNone
  <2>4. h.chars = a /\ j.chars = b
    BY <1>5, <2>3, NothingAppended
  <2>5. (\A i \in DOMAIN a : i \in DOMAIN t /\ a[i] = t[i])
        /\ \A i \in DOMAIN b : offset + i \in DOMAIN t /\ b[i] = t[offset + i]
    <3>1. offset < Len(t) /\ Len(t) \in Nat
      BY <1>2
    <3>2. a = SubSeq(t, 1, offset) /\ b = SubSeq(t, offset + 1, Len(t))
      BY <1>3
    <3> HIDE <1>2, <1>3, <1>5, <1>7, <1>9
    <3>3. QED
      BY <3>1, <3>2
  <2>6. t = run.chars
    BY <1>2, <2>1
  <2>7. NoElements(h) /\ NoElements(j)
    BY <2>2, <2>4, <2>5, <2>6 DEF NoElements
  <2>8. QED
    BY <1>3, <1>7, <1>9, <2>4, <2>6, <2>7
<1>14. u \in Seq(DocRuns) /\ v \in Seq(DocRuns)
  OBVIOUS
<1>15. Told(u) = Plain(Without(Take(RunText(run), offset), Space))
  BY <1>2, <1>4, <1>7, <1>9
<1>16. Told(u) \o Told(v) = MarkOf[run] /\ OwnWords(u) \o OwnWords(v) = WordsOf[run]
  BY <1>7, <1>9, <1>10, <1>11, <1>12
<1>17. NoElements(run) => (\A i \in DOMAIN u : NoElements(u[i])) /\ (\A i \in DOMAIN v : NoElements(v[i]))
  BY <1>8, <1>13
<1>18. Divides(run, offset, u, v)
  BY <1>13, <1>14, <1>15, <1>16, <1>17 DEF Divides
<1>19. QED
  BY <1>8, <1>18

(* However a run is divided, its parts tell what it told.                   *)
LEMMA PartsDivide ==
  ASSUME NEW run \in DocRuns, run.tracked # "del", NEW offset \in Nat, NEW f, NEW g,
         Parts(run, offset, f, g)
  PROVE  Divides(run, offset, f, g)
<1>1. CASE offset = 0 /\ f = <<>> /\ g = <<run>>
  BY <1>1, DividesAtStart
<1>2. CASE run \in FileRuns /\ offset >= Len(RunText(run)) /\ f = <<run>> /\ g = <<>>
  BY <1>2, DividesAtEnd
<1>3. CASE /\ run \in FileRuns /\ 0 < offset /\ offset < Len(RunText(run))
           /\ f = <<HalfOf(run, SubSeq(RunText(run), 1, offset))>>
           /\ g = <<HalfOf(run, SubSeq(RunText(run), offset + 1, Len(RunText(run))))>>
  BY <1>3, DividesInside
<1>4. QED
  BY <1>1, <1>2, <1>3 DEF Parts

-----------------------------------------------------------------------------
(* Insertion.                                                               *)

(* The point behind the words w in these runs.                              *)
At(runs, point, w) ==
  /\ point.run \in 1 .. Len(runs) /\ point.offset \in Nat
  /\ runs[point.run].tracked # "del" /\ (OurRun(runs[point.run]) => point.offset = 0)
  /\ w \in Seq(Written)
  /\ Told(SubSeq(runs, 1, point.run - 1))
       \o Plain(Without(Take(RunText(runs[point.run]), point.offset), Space)) = Plain(w)

(* The runs new are these with a node at the point.                         *)
Puts(runs, point, node, new, a, b, f, g) ==
  /\ Around(runs, point.run, a, b)
  /\ Parts(runs[point.run], point.offset, f, g)
  /\ new = (a \o f) \o (<<node>> \o (g \o b))

LEMMA InsertPuts ==
  ASSUME NEW p, p.runs \in Seq(DocRuns), "runs" \in DOMAIN p, NEW point, NEW w, At(p.runs, point, w),
         NEW node \in DocRuns
  PROVE  /\ Insert(p, point, node) = [p EXCEPT !.runs = Insert(p, point, node).runs]
         /\ \E a, b, f, g \in Seq(DocRuns) :
              Puts(p.runs, point, node, Insert(p, point, node).runs, a, b, f, g)
<1>1. PICK r \in 1 .. Len(p.runs), off \in Nat : r = point.run /\ off = point.offset
  BY DEF At
<1>2. PICK run \in DocRuns : run = p.runs[r]
  OBVIOUS
<1>3. run.tracked # "del" /\ (OurRun(run) => off = 0)
  BY <1>1, <1>2 DEF At
<1>4. PICK a \in Seq(DocRuns), b \in Seq(DocRuns) : Around(p.runs, r, a, b)
  BY AroundOne
<1>5. PICK n \in Nat : n = Len(RunText(run))
  <2>1. RunText(run) \in Seq(Written)
    BY DocRunsAre, RunTextWords, BreakIsWritten
  <2>2. QED
    BY <2>1
<1> DEFINE split ==
      CASE off = 0 -> <<node, run>>
        [] off >= n /\ off > 0 -> <<run, node>>
        [] OTHER -> <<HalfOf(run, SubSeq(RunText(run), 1, off)), node,
                      HalfOf(run, SubSeq(RunText(run), off + 1, n))>>
<1>6. Insert(p, point, node) = [p EXCEPT !.runs = a \o split \o b]
  BY <1>1, <1>2, <1>4, <1>5 DEF Insert, Around, HalfOf
<1>7. \E f, g \in Seq(DocRuns) : Parts(run, off, f, g) /\ split = f \o (<<node>> \o g)
  <2>1. CASE off = 0
    <3>1. PICK e \in Seq(DocRuns), o \in Seq(DocRuns) : e = <<>> /\ o = <<run>>
      <4>1. <<>> \in Seq(DocRuns) /\ <<run>> \in Seq(DocRuns)
        OBVIOUS
      <4>2. QED
        BY <4>1
    <3>2. split = <<node, run>>
      BY <2>1
    <3>3. <<node, run>> = <<>> \o (<<node>> \o <<run>>)
      OBVIOUS
    <3>4. Parts(run, off, e, o)
      BY <2>1, <3>1 DEF Parts
    <3>5. QED
      BY <3>1, <3>2, <3>3, <3>4
  <2>2. CASE off # 0 /\ off >= n
    <3>1. PICK e \in Seq(DocRuns), o \in Seq(DocRuns) : e = <<>> /\ o = <<run>>
      <4>1. <<>> \in Seq(DocRuns) /\ <<run>> \in Seq(DocRuns)
        OBVIOUS
      <4>2. QED
        BY <4>1
    <3>2. split = <<run, node>>
      BY <2>2
    <3>3. <<run, node>> = <<run>> \o (<<node>> \o <<>>)
      OBVIOUS
    <3>4. run \in FileRuns
      BY <1>3, <2>2, DocRunsAre
    <3>5. Parts(run, off, o, e)
      BY <1>5, <2>2, <3>1, <3>4 DEF Parts
    <3>6. QED
      BY <3>1, <3>2, <3>3, <3>5
  <2>3. CASE off # 0 /\ ~ (off >= n)
    <3>1. run \in FileRuns
      BY <1>3, <2>3, DocRunsAre
    <3>2. PICK t \in Seq(Character) : t = RunText(run)
      <4>1. run.chars \in Seq(Character)
        BY <3>1, FileRunsAreNotOurs
      <4>2. QED
        BY <4>1, RunTextWords, BreakIsWritten
    <3>3. SubSeq(t, 1, off) \in Seq(Character) /\ SubSeq(t, off + 1, Len(t)) \in Seq(Character)
      <4>1. off \in 0 .. Len(t)
        BY <1>5, <2>3, <3>2
      <4>2. QED
        BY <4>1, TakeAndRest
    <3>4. PICK h \in DocRuns, j \in DocRuns :
            h = HalfOf(run, SubSeq(t, 1, off)) /\ j = HalfOf(run, SubSeq(t, off + 1, Len(t)))
      <4>1. HalfOf(run, SubSeq(t, 1, off)) \in FileRuns /\ HalfOf(run, SubSeq(t, off + 1, Len(t))) \in FileRuns
        BY <3>1, <3>3, HalfRuns
      <4>2. QED
        BY <4>1 DEF DocRuns
    <3>5. split = <<h, node, j>>
      BY <1>5, <2>3, <3>2, <3>4
    <3>6. <<h, node, j>> = <<h>> \o (<<node>> \o <<j>>) /\ <<h>> \in Seq(DocRuns) /\ <<j>> \in Seq(DocRuns)
      <4>1. \A x, y, z \in DocRuns :
              <<x, y, z>> = Joined(<<x>>, Joined(<<y>>, <<z>>)) /\ <<x>> \in Seq(DocRuns) /\ <<z>> \in Seq(DocRuns)
        BY ThreeOnes DEF Joined
      <4>2. <<h, node, j>> = Joined(<<h>>, Joined(<<node>>, <<j>>))
            /\ <<h>> \in Seq(DocRuns) /\ <<j>> \in Seq(DocRuns)
        BY <4>1
      <4>3. QED
        BY <4>2, Zenon DEF Joined
    <3>7. Parts(run, off, <<h>>, <<j>>)
      BY <1>5, <2>3, <3>1, <3>2, <3>4 DEF Parts
    <3>8. QED
      BY <3>5, <3>6, <3>7
  <2>4. QED
    BY <2>1, <2>2, <2>3
<1> HIDE DEF split
<1>8. PICK f \in Seq(DocRuns), g \in Seq(DocRuns) : Parts(run, off, f, g) /\ split = f \o (<<node>> \o g)
  BY <1>7
<1>9. a \o split \o b = (a \o f) \o (<<node>> \o (g \o b))
  <2>1. PICK o \in Seq(DocRuns) : o = <<node>>
    <3>1. <<node>> \in Seq(DocRuns)
      OBVIOUS
    <3>2. QED
      BY <3>1
  <2>2. (a \o (f \o (o \o g))) \o b = (a \o f) \o (o \o (g \o b))
    <3>1. Joined(Joined(a, Joined(f, Joined(o, g))), b) = Joined(Joined(a, f), Joined(o, Joined(g, b)))
      BY FiveJoined
    <3>2. QED
      BY <3>1, Zenon DEF Joined
  <2>3. QED
    BY <1>8, <2>1, <2>2
<1>10. Insert(p, point, node).runs = a \o split \o b
  BY <1>6
<1>11. Puts(p.runs, point, node, Insert(p, point, node).runs, a, b, f, g)
  BY <1>1, <1>2, <1>4, <1>8, <1>9, <1>10 DEF Puts
<1>12. QED
  BY <1>6, <1>10, <1>11

-----------------------------------------------------------------------------
(* What an insertion tells: the words of the paragraph, and the new run     *)
(* where its point is.                                                      *)

(* What is told of two parts.                                               *)
LEMMA RegroupedTexts ==
  ASSUME NEW s \in Seq(DocRuns), NEW t \in Seq(DocRuns)
  PROVE  /\ Told(Joined(s, t)) = Joined(Told(s), Told(t)) /\ Own(Joined(s, t)) = Joined(Own(s), Own(t))
         /\ OwnWords(Joined(s, t)) = Joined(OwnWords(s), OwnWords(t))
         /\ Live(Joined(s, t)) = Joined(Live(s), Live(t)) /\ Joined(s, t) \in Seq(DocRuns)
<1>1. s \o t \in Seq(DocRuns)
  OBVIOUS
<1>2. QED
  BY <1>1, TextsOfParts DEF Joined

(* What an insertion tells.                                                 *)
Tells(runs, new, c, w, v) ==
  /\ v \in Seq(Marks)
  /\ Told(runs) = Joined(Plain(w), v)
  /\ Told(new) = Joined(Plain(w), Joined(<<Mark(c)>>, v))

(* The inserted run has no tabs and no breaks.                              *)
LEMMA NodeNoElements ==
  ASSUME NEW node \in Citations
  PROVE  NoElements(node)
<1>1. node.chars = <<Gap, "cite">> \/ node.chars = <<Gap, "placeholder">>
  BY CiteIs DEF Citations
<1>2. Gap \notin Elements /\ "cite" \notin Elements /\ "placeholder" \notin Elements
  BY DEF Gap, Elements
<1>3. DOMAIN node.chars = 1 .. 2 /\ node.chars[1] = Gap /\ node.chars[2] \in {"cite", "placeholder"}
  BY <1>1
<1>4. \A i \in 1 .. 2 : i = 1 \/ i = 2
  OBVIOUS
<1>5. QED
  BY <1>2, <1>3, <1>4 DEF NoElements

(* What a paragraph tells after an insertion at a point.                    *)
LEMMA PutsTells ==
  ASSUME NEW runs \in Seq(DocRuns), NEW point, NEW w, At(runs, point, w), NEW node \in Citations,
         NEW new, NEW a \in Seq(DocRuns), NEW b \in Seq(DocRuns),
         NEW f \in Seq(DocRuns), NEW g \in Seq(DocRuns), Puts(runs, point, node, new, a, b, f, g)
  PROVE  /\ new \in Seq(DocRuns)
         /\ \E v : Tells(runs, new, node.claim, w, v)
         /\ OwnWords(new) = OwnWords(runs)
         /\ (\A i \in DOMAIN runs : NoElements(runs[i])) =>
              Own(new) = Own(runs) /\ \A i \in DOMAIN new : NoElements(new[i])
<1>1. PICK run \in DocRuns : run = runs[point.run]
  BY DEF At
<1>2. PICK off \in Nat : off = point.offset
  BY DEF At
<1>3. run.tracked # "del" /\ Parts(run, off, f, g) /\ a = SubSeq(runs, 1, point.run - 1)
  BY <1>1, <1>2 DEF At, Puts, Around
<1>4. Divides(run, off, f, g)
  BY <1>3, PartsDivide
<1>5. PICK n \in Seq(DocRuns), o \in Seq(DocRuns) : n = <<node>> /\ o = <<run>>
  <2>1. node \in DocRuns
    BY DEF DocRuns
  <2>2. <<node>> \in Seq(DocRuns) /\ <<run>> \in Seq(DocRuns)
    BY <2>1
  <2>3. QED
    BY <2>2
<1>6. new = Joined(Joined(a, f), Joined(n, Joined(g, b))) /\ runs = Joined(a, Joined(o, b))
  BY <1>1, <1>5 DEF Puts, Around, Joined
<1>7. /\ Told(n) = <<Mark(node.claim)>> /\ Own(n) = <<>> /\ OwnWords(n) = <<>>
      /\ Told(o) = MarkOf[run] /\ Own(o) = OwnOf[run] /\ OwnWords(o) = WordsOf[run]
  <2>1. node \in DocRuns
    BY DEF DocRuns
  <2>2. QED
    BY <1>5, <2>1, TextsOfOne, CitationRuns
<1>8. Told(o) = Joined(Told(f), Told(g)) /\ OwnWords(o) = Joined(OwnWords(f), OwnWords(g))
  BY <1>4, <1>7 DEF Divides, Joined
<1>9. Joined(a, f) \in Seq(DocRuns) /\ Joined(g, b) \in Seq(DocRuns) /\ Joined(n, Joined(g, b)) \in Seq(DocRuns)
      /\ Joined(o, b) \in Seq(DocRuns) /\ new \in Seq(DocRuns)
  BY <1>6, JoinedParts
<1>10. /\ Told(new) = Joined(Joined(Told(a), Told(f)), Joined(Told(n), Joined(Told(g), Told(b))))
       /\ Own(new) = Joined(Joined(Own(a), Own(f)), Joined(Own(n), Joined(Own(g), Own(b))))
       /\ OwnWords(new) = Joined(Joined(OwnWords(a), OwnWords(f)),
                                 Joined(OwnWords(n), Joined(OwnWords(g), OwnWords(b))))
  BY <1>6, <1>9, RegroupedTexts
<1>11. /\ Told(runs) = Joined(Told(a), Joined(Told(o), Told(b)))
       /\ Own(runs) = Joined(Own(a), Joined(Own(o), Own(b)))
       /\ OwnWords(runs) = Joined(OwnWords(a), Joined(OwnWords(o), OwnWords(b)))
  BY <1>6, <1>9, RegroupedTexts
<1>12. /\ Told(a) \in Seq(Marks) /\ Told(b) \in Seq(Marks) /\ Told(f) \in Seq(Marks) /\ Told(g) \in Seq(Marks)
       /\ Own(a) \in Seq(Written) /\ Own(b) \in Seq(Written) /\ Own(f) \in Seq(Written) /\ Own(g) \in Seq(Written)
       /\ OwnWords(a) \in Seq(Written) /\ OwnWords(b) \in Seq(Written)
       /\ OwnWords(f) \in Seq(Written) /\ OwnWords(g) \in Seq(Written)
  BY TextsAre
<1>13. Joined(Told(a), Told(f)) = Plain(w)
  <2>1. Told(f) = Plain(Without(Take(RunText(run), off), Space))
    BY <1>4 DEF Divides
  <2>2. Told(a) \o Plain(Without(Take(RunText(run), off), Space)) = Plain(w)
    BY <1>1, <1>2, <1>3 DEF At
  <2>3. QED
    BY <2>1, <2>2 DEF Joined
<1>14. Tells(runs, new, node.claim, w, Joined(Told(g), Told(b)))
  <2>1. Joined(Told(g), Told(b)) \in Seq(Marks)
    BY <1>12, JoinedParts
  <2>2. Told(runs) = Joined(Joined(Told(a), Told(f)), Joined(Told(g), Told(b)))
    <3>1. Regroup(Told(a), Told(f), Told(g), Told(b))
      BY <1>12, PartsRegroup
    <3>2. Told(runs) = Joined(Told(a), Joined(Joined(Told(f), Told(g)), Told(b)))
      BY <1>8, <1>11
    <3>3. QED
      BY <3>1, <3>2, Zenon DEF Regroup
  <2>3. QED
    BY <1>7, <1>10, <1>13, <2>1, <2>2 DEF Tells
<1>15. OwnWords(new) = OwnWords(runs)
  <2>1. OwnWords(new) = Joined(Joined(OwnWords(a), OwnWords(f)), Joined(<<>>, Joined(OwnWords(g), OwnWords(b))))
    BY <1>7, <1>10
  <2>2. OwnWords(runs) = Joined(OwnWords(a), Joined(Joined(OwnWords(f), OwnWords(g)), OwnWords(b)))
    BY <1>8, <1>11
  <2>3. Regroup(OwnWords(a), OwnWords(f), OwnWords(g), OwnWords(b))
    BY <1>12, PartsRegroup
  <2>4. QED
    BY <2>1, <2>2, <2>3, Zenon DEF Regroup
<1>16. ASSUME \A i \in DOMAIN runs : NoElements(runs[i])
       PROVE  Own(new) = Own(runs) /\ \A i \in DOMAIN new : NoElements(new[i])
  <2> DEFINE T == {r \in DocRuns : NoElements(r)}
  <2>0. \A s \in Seq(DocRuns) : (\A i \in DOMAIN s : NoElements(s[i])) <=> \A i \in DOMAIN s : s[i] \in T
    BY MembersOfSequence
  <2>1. \A i \in DOMAIN runs : runs[i] \in T
    BY <1>16, <2>0
  <2>2. NoElements(run)
    BY <1>1, <1>16 DEF At
  <2>3. Own(o) = Joined(Own(f), Own(g)) /\ (\A i \in DOMAIN f : NoElements(f[i])) /\ \A i \in DOMAIN g : NoElements(g[i])
    BY <1>4, <1>7, <2>2 DEF Divides, Joined
  <2>4. (\A i \in DOMAIN f : f[i] \in T) /\ \A i \in DOMAIN g : g[i] \in T
    BY <2>0, <2>3
  <2>5. \A i \in DOMAIN n : n[i] \in T
    <3>1. node \in T
      BY NodeNoElements DEF DocRuns
    <3>2. DOMAIN n = {1} /\ n[1] = node
      BY <1>5
    <3>3. QED
      BY <3>1, <3>2
  <2> HIDE DEF T
  <2>6. (\A i \in DOMAIN a : a[i] \in T) /\ \A i \in DOMAIN Joined(o, b) : Joined(o, b)[i] \in T
    BY <1>6, <1>9, <2>1, MembersOfParts
  <2>7. \A i \in DOMAIN b : b[i] \in T
    BY <2>6, MembersOfParts
  <2>8. \A i \in DOMAIN Joined(a, f) : Joined(a, f)[i] \in T
    BY <2>4, <2>6, AllOfParts
  <2>9. \A i \in DOMAIN Joined(g, b) : Joined(g, b)[i] \in T
    BY <2>4, <2>7, AllOfParts
  <2>10. \A i \in DOMAIN Joined(n, Joined(g, b)) : Joined(n, Joined(g, b))[i] \in T
    BY <1>9, <2>5, <2>9, AllOfParts
  <2>11. \A i \in DOMAIN new : new[i] \in T
    BY <1>6, <1>9, <2>8, <2>10, AllOfParts
  <2>12. \A i \in DOMAIN new : NoElements(new[i])
    BY <1>9, <2>0, <2>11
  <2>13. Own(new) = Own(runs)
    <3>1. Own(new) = Joined(Joined(Own(a), Own(f)), Joined(<<>>, Joined(Own(g), Own(b))))
      BY <1>7, <1>10
    <3>2. Own(runs) = Joined(Own(a), Joined(Joined(Own(f), Own(g)), Own(b)))
      BY <1>11, <2>3
    <3>3. Regroup(Own(a), Own(f), Own(g), Own(b))
      BY <1>12, PartsRegroup
    <3>4. QED
      BY <3>1, <3>2, <3>3, Zenon DEF Regroup
  <2>14. QED
    BY <2>12, <2>13
<1>17. QED
  BY <1>9, <1>14, <1>15, <1>16

-----------------------------------------------------------------------------
(* The order of the insertions: one leaves the points before it as they     *)
(* were.                                                                    *)

(* The order in which the writer inserts: backwards.                        *)
NotAfter(q, point) == q.run < point.run \/ (q.run = point.run /\ q.offset <= point.offset)

(* A point no later than that of an insertion lies where it lay.            *)
LEMMA AtStays ==
  ASSUME NEW runs \in Seq(DocRuns), NEW point, NEW w, At(runs, point, w), NEW node \in Citations,
         NEW new, NEW a \in Seq(DocRuns), NEW b \in Seq(DocRuns),
         NEW f \in Seq(DocRuns), NEW g \in Seq(DocRuns), Puts(runs, point, node, new, a, b, f, g),
         NEW q, NEW u, At(runs, q, u), NotAfter(q, point)
  PROVE  At(new, q, u)
<1>1. PICK r \in 1 .. Len(runs), off \in Nat : r = point.run /\ off = point.offset
  BY DEF At
<1>2. PICK s \in 1 .. Len(runs), k \in Nat : s = q.run /\ k = q.offset
  BY DEF At
<1>3. /\ runs[s].tracked # "del" /\ (OurRun(runs[s]) => k = 0) /\ u \in Seq(Written)
      /\ Told(SubSeq(runs, 1, s - 1)) \o Plain(Without(Take(RunText(runs[s]), k), Space)) = Plain(u)
  BY <1>2 DEF At
<1>4. a = SubSeq(runs, 1, r - 1) /\ Len(a) = r - 1 /\ Parts(runs[r], off, f, g)
      /\ new = Joined(Joined(a, f), Joined(<<node>>, Joined(g, b)))
  BY <1>1 DEF Puts, Around, Joined
<1>5. node \in DocRuns
  BY DEF DocRuns
<1>6. /\ new \in Seq(DocRuns) /\ Len(new) > Len(a) /\ \A i \in 1 .. Len(a) : new[i] = a[i]
      /\ f = <<>> => new[Len(a) + 1] = node
      /\ Len(f) > 0 => new[Len(a) + 1] = f[1]
  <2>1. Joined(g, b) \in Seq(DocRuns)
    BY JoinedParts
  <2>2. PICK c \in Seq(DocRuns) : c = Joined(g, b)
    BY <2>1
  <2>3. new = Joined(Joined(a, f), Joined(<<node>>, c))
    BY <1>4, <2>2
  <2>4. QED
    <3>1. Begins(DocRuns, new, a, f, node)
      BY <1>5, <2>3, Beginning
    <3>2. QED
      BY <3>1 DEF Begins
<1>7. \A i \in 1 .. r - 1 : new[i] = runs[i]
  <2>1. \A i \in 1 .. r - 1 : a[i] = runs[i]
    BY <1>4
  <2>2. QED
    BY <1>4, <1>6, <2>1
<1>8. s <= r
  BY <1>1, <1>2 DEF NotAfter
<1>9. SubSeq(new, 1, s - 1) = SubSeq(runs, 1, s - 1)
  <2>1. PICK n \in Nat : n = s - 1
    OBVIOUS
  <2>6. Len(new) \in Nat /\ Len(a) \in Nat /\ Len(runs) \in Nat /\ r <= Len(runs) /\ s \in Nat /\ r \in Nat
    BY <1>6
  <2>7. s <= r /\ Len(a) = r - 1 /\ Len(new) > Len(a)
    BY <1>4, <1>6, <1>8
  <2>2. n <= Len(new) /\ n <= Len(runs)
    BY <2>1, <2>6, <2>7
  <2>8. \A i \in 1 .. n : i \in 1 .. r - 1
    BY <2>1, <2>6, <2>7
  <2>3. \A i \in 1 .. n : new[i] = runs[i]
    BY <1>7, <2>8
  <2>4. SubSeq(new, 1, n) = SubSeq(runs, 1, n)
    BY <1>6, <2>2, <2>3, SamePrefix
  <2>5. QED
    BY <2>1, <2>4
<1>10. s \in 1 .. Len(new)
  BY <1>4, <1>6, <1>8
<1>11. ASSUME NEW x, x = new[s], x.tracked # "del", OurRun(x) => k = 0,
              Without(Take(RunText(x), k), Space) = Without(Take(RunText(runs[s]), k), Space)
       PROVE  At(new, q, u)
  BY <1>2, <1>3, <1>9, <1>10, <1>11 DEF At
<1>12. CASE s < r
  <2>1. s \in 1 .. r - 1
    BY <1>12
  <2>2. new[s] = runs[s]
    BY <1>7, <2>1
  <2>3. QED
    BY <1>3, <1>11, <2>2
<1>13. CASE s = r
  <2>1. k <= off /\ Len(a) + 1 = s
    BY <1>1, <1>2, <1>4, <1>13 DEF NotAfter
  <2>2. PICK run \in DocRuns : run = runs[s] /\ Parts(run, off, f, g)
    BY <1>4, <1>13
  <2>3. CASE off = 0 /\ f = <<>> /\ g = <<run>>
    <3>1. k = 0 /\ new[s] = node
      BY <1>6, <2>1, <2>3
    <3>2. RunText(run) \in Seq(Written) /\ RunText(node) \in Seq(Written)
      BY <1>5, DocRunsAre, RunTextWords, BreakIsWritten
    <3>3. Take(RunText(run), 0) = <<>> /\ Take(RunText(node), 0) = <<>>
      BY <3>2, TakeAll
    <3>4. node.tracked # "del"
      BY DEF Citations
    <3>5. QED
      BY <1>11, <2>2, <3>1, <3>3, <3>4
  <2>4. CASE run \in FileRuns /\ off >= Len(RunText(run)) /\ f = <<run>> /\ g = <<>>
    <3>1. Len(f) > 0 /\ f[1] = run
      BY <2>4
    <3>2. new[s] = run
      BY <1>6, <2>1, <3>1
    <3>3. QED
      BY <1>3, <1>11, <2>2, <3>2
  <2>5. CASE /\ run \in FileRuns /\ 0 < off /\ off < Len(RunText(run))
             /\ f = <<HalfOf(run, SubSeq(RunText(run), 1, off))>>
             /\ g = <<HalfOf(run, SubSeq(RunText(run), off + 1, Len(RunText(run))))>>
    <3>1. PICK h : h = HalfOf(run, SubSeq(RunText(run), 1, off))
      OBVIOUS
    <3>2. Len(f) > 0 /\ f[1] = h
      BY <2>5, <3>1
    <3>3. new[s] = h
      BY <1>6, <2>1, <3>2
    <3>4. run.chars \in Seq(Character) /\ ~ OurRun(run)
      BY <2>5, FileRunsAreNotOurs
    <3>5. PICK t \in Seq(Character) : t = RunText(run)
      BY <3>4, RunTextWords, BreakIsWritten
    <3>6. off \in 0 .. Len(t)
      BY <2>5, <3>5
    <3>7. SubSeq(t, 1, off) \in Seq(Character)
      BY <3>6, TakeAndRest
    <3>8. Take(t, off) = SubSeq(t, 1, off)
      <4>1. off <= Len(t)
        BY <3>6
      <4>2. QED
        BY <4>1, TakeAll
    <3>9. h \in FileRuns /\ h.tracked = run.tracked /\ h.chars = Only(run.chars, Elements) \o Take(t, off)
      BY <2>5, <3>1, <3>5, <3>7, <3>8, HalfRuns, ZenonT(40)
    <3>10. PICK z \in Seq(Character) : z = Only(run.chars, Elements) /\ \A i \in DOMAIN z : z[i] \in Elements
      <4>1. Only(run.chars, Elements) \in Seq(Character)
        BY <3>4, WithoutIsText
      <4>2. \A i \in DOMAIN Only(run.chars, Elements) : Only(run.chars, Elements)[i] \in Elements
        BY <3>4, OnlyHasThose
      <4>3. QED
        BY <4>1, <4>2
    <3>11. h.chars = z \o Take(RunText(run), off)
      BY <3>5, <3>9, <3>10
    <3>12. Without(Take(RunText(h), k), Space) = Without(Take(RunText(run), k), Space)
      <4>1. k <= off /\ run.chars \in Seq(Character) /\ \A i \in DOMAIN z : z[i] \in Elements
        BY <2>1, <3>4, <3>10
      <4>2. QED
        <5>1. HalfFrom(Character, run, z, off, h)
          BY <3>10, <3>11 DEF HalfFrom
        <5>2. QED
          <6>1. HalvesStart(Character, off)
            BY HalvesStartAlike, BreakIsWritten
          <6>2. k \in 0 .. off
            BY <4>1
          <6>3. SameStart(h, run, k)
            BY <4>1, <5>1, <6>1, <6>2 DEF HalvesStart
          <6>4. QED
            BY <6>3 DEF SameStart
    <3>13. ~ OurRun(h)
      BY <3>9, FileRunsAreNotOurs
    <3>14. QED
      BY <1>3, <1>11, <2>2, <3>3, <3>9, <3>12, <3>13
  <2>6. QED
    BY <2>2, <2>3, <2>4, <2>5 DEF Parts
<1>14. QED
  BY <1>8, <1>12, <1>13

-----------------------------------------------------------------------------
(* A paragraph in which a claim is cited once, and what other insertions    *)
(* leave of that.                                                           *)

(* The marks of a paragraph that are not the citation of a claim.           *)
Others(c) == Marks \ {Mark(c)}
(* The words of a paragraph with one citation of a claim, w before it.       *)
Cited(t, c, w) ==
  \E x, y \in Seq(Others(c)) : t = Joined(x, Joined(<<Mark(c)>>, y)) /\ Mapped(Unmark, x) = w

LEMMA MarksAre ==
  ASSUME NEW c \in Nat \ {0}
  PROVE  /\ Mark(c) \in Marks /\ <<Mark(c)>> \in Seq(Marks) /\ Unmark[Mark(c)] = <<>>
         /\ \A d \in Nat : d # c => Mark(d) # Mark(c) /\ Mark(d) \in Others(c)
<1>1. c \in Nat /\ "cite" \in Written
  BY DEF Written, Markers
<1>2. Mark(c) \in Marks
  BY <1>1, CiteWords
<1>3. Unmark[<<"cite", c>>] = <<>>
  BY <1>1, UnmarkIs
<1>4. \A d \in Nat : d # c => Mark(d) # Mark(c) /\ Mark(d) \in Others(c)
  BY CiteWords DEF Others, Mark
<1>5. <<Mark(c)>> \in Seq(Marks)
  BY <1>2
<1>6. QED
  BY <1>2, <1>3, <1>4, <1>5 DEF Mark

LEMMA OthersAreMarks ==
  ASSUME NEW c
  PROVE  Others(c) \subseteq Marks /\ \A s \in Seq(Others(c)) : s \in Seq(Marks)
<1>1. Others(c) \subseteq Marks
  BY DEF Others
<1>2. QED
  BY <1>1, WiderSequence

LEMMA PlainIsUnmarked ==
  ASSUME NEW w \in Seq(Written), NEW c \in Nat \ {0}
  PROVE  Plain(w) \in Seq(Others(c)) /\ \A i \in DOMAIN Plain(w) : Plain(w)[i] # Mark(c)
<1>1. PICK t \in Seq(Marks) : t = Plain(w)
  BY PlainText
<1>2. \A i \in DOMAIN t : t[i] = <<w[i], 0>>
  BY <1>1, PlainText
<1>3. \A i \in DOMAIN t : t[i] # Mark(c)
  BY <1>2 DEF Mark
<1>4. \A i \in DOMAIN t : t[i] \in Others(c)
  BY <1>3 DEF Others
<1>5. t \in Seq(Others(c))
  BY <1>4
<1>6. QED
  BY <1>1, <1>3, <1>5

(* An insertion cites its claim.                                            *)
LEMMA NewCited ==
  ASSUME NEW runs \in Seq(DocRuns), NEW new, NEW c \in Nat \ {0}, NEW w \in Seq(Written), NEW v,
         Tells(runs, new, c, w, v), Told(runs) \in Seq(Others(c))
  PROVE  Cited(Told(new), c, w)
<1>1. /\ v \in Seq(Marks) /\ Told(runs) = Joined(Plain(w), v)
      /\ Told(new) = Joined(Plain(w), Joined(<<Mark(c)>>, v))
  BY DEF Tells
<1>2. Plain(w) \in Seq(Marks) /\ Plain(w) \in Seq(Others(c))
  BY PlainText, PlainIsUnmarked
<1>3. v \in Seq(Others(c))
  <2>1. Joined(Plain(w), v) \in Seq(Others(c))
    BY <1>1
  <2>2. QED
    BY <1>1, <1>2, <2>1, PartsWithin
<1>4. Mapped(Unmark, Plain(w)) = w
  BY UnmarkPlain
<1>5. QED
  BY <1>1, <1>2, <1>3, <1>4 DEF Cited

(* An insertion for another claim does not cite this one.                   *)
LEMMA StaysUncited ==
  ASSUME NEW runs \in Seq(DocRuns), NEW new, NEW c \in Nat \ {0}, NEW w \in Seq(Written), NEW v,
         Tells(runs, new, c, w, v), NEW d \in Nat \ {0}, d # c, Told(runs) \in Seq(Others(d))
  PROVE  Told(new) \in Seq(Others(d))
<1>1. /\ v \in Seq(Marks) /\ Told(runs) = Joined(Plain(w), v)
      /\ Told(new) = Joined(Plain(w), Joined(<<Mark(c)>>, v))
  BY DEF Tells
<1>2. Plain(w) \in Seq(Marks)
  BY PlainText
<1>3. Plain(w) \in Seq(Others(d)) /\ v \in Seq(Others(d))
  <2>1. Joined(Plain(w), v) \in Seq(Others(d))
    BY <1>1
  <2>2. QED
    BY <1>1, <1>2, <2>1, PartsWithin
<1>4. <<Mark(c)>> \in Seq(Others(d))
  <2>1. Mark(c) \in Others(d)
    BY MarksAre
  <2>2. QED
    BY <2>1
<1>5. PICK e \in Seq(Others(d)) : e = Joined(<<Mark(c)>>, v)
  BY <1>3, <1>4, JoinedParts
<1>6. Joined(Plain(w), e) \in Seq(Others(d))
  BY <1>3, JoinedParts
<1>7. QED
  BY <1>1, <1>5, <1>6

(* An insertion for another claim, wherever it is, leaves this one cited    *)
(* behind the same words.                                                   *)
LEMMA StaysCited ==
  ASSUME NEW runs \in Seq(DocRuns), NEW new, NEW c \in Nat \ {0}, NEW w \in Seq(Written), NEW v,
         Tells(runs, new, c, w, v), NEW d \in Nat \ {0}, d # c, NEW w2, Cited(Told(runs), d, w2)
  PROVE  Cited(Told(new), d, w2)
<1>1. /\ v \in Seq(Marks) /\ Told(runs) = Joined(Plain(w), v)
      /\ Told(new) = Joined(Plain(w), Joined(<<Mark(c)>>, v))
  BY DEF Tells
<1>2. PICK x \in Seq(Others(d)), y \in Seq(Others(d)) :
        Told(runs) = Joined(x, Joined(<<Mark(d)>>, y)) /\ Mapped(Unmark, x) = w2
  BY DEF Cited
<1>3. PICK p \in Seq(Marks) : p = Plain(w) /\ p \in Seq(Others(d)) /\ \A i \in DOMAIN p : p[i] # Mark(d)
  BY PlainText, PlainIsUnmarked
<1>4. PICK x0 \in Seq(Marks), y0 \in Seq(Marks) : x0 = x /\ y0 = y
  BY OthersAreMarks
<1>5. PICK m \in Marks, n \in Marks : m = Mark(d) /\ n = Mark(c) /\ n \in Others(d) /\ Unmark[n] = <<>>
  BY MarksAre
<1>9. PICK k \in Seq(Marks) : k = Joined(<<m>>, y0)
  <2>1. <<m>> \in Seq(Marks)
    OBVIOUS
  <2>2. QED
    BY <2>1, JoinedParts
<1>6. PICK z \in Seq(Marks) : x0 = Joined(p, z) /\ v = Joined(z, k)
  <2>3. PICK v0 \in Seq(Marks) : v0 = v
    BY <1>1
  <2>1. Joined(p, v0) = Joined(x0, k)
    BY <1>1, <1>2, <1>3, <1>4, <1>5, <1>9, <2>3
  <2>2. Lacks(p, m)
    BY <1>3, <1>5 DEF Lacks
  <2>4. Extends(Marks, p, v0, x0, k)
    BY <1>9, <2>1, <2>2, ExtendsBefore
  <2>5. QED
    BY <2>3, <2>4 DEF Extends
<1>7. z \in Seq(Others(d))
  <2>1. Joined(p, z) \in Seq(Others(d))
    BY <1>4, <1>6
  <2>2. QED
    BY <2>1, PartsWithin
<1>8. PICK o \in Seq(Marks) : o = <<n>> /\ o \in Seq(Others(d))
  <2>1. <<n>> \in Seq(Marks) /\ <<n>> \in Seq(Others(d))
    BY <1>5
  <2>2. QED
    BY <2>1
<1>10. PICK x1 \in Seq(Others(d)) : x1 = Joined(p, Joined(o, z))
  <2>1. PICK e \in Seq(Others(d)) : e = Joined(o, z)
    BY <1>7, <1>8, JoinedParts
  <2>2. Joined(p, e) \in Seq(Others(d))
    BY <1>3, JoinedParts
  <2>3. QED
    BY <2>1, <2>2
<1>11. Told(new) = Joined(x1, Joined(<<m>>, y0))
  <2>1. Told(new) = Joined(p, Joined(o, Joined(z, k)))
    BY <1>1, <1>3, <1>5, <1>6, <1>8, <1>9
  <2>2. Joined(o, Joined(z, k)) = Joined(Joined(o, z), k)
    BY JoinedParts
  <2>3. PICK e \in Seq(Marks) : e = Joined(o, z)
    BY JoinedParts
  <2>4. Joined(p, Joined(e, k)) = Joined(Joined(p, e), k)
    BY JoinedParts
  <2>5. QED
    BY <1>9, <1>10, <2>1, <2>2, <2>3, <2>4
<1>12. Mapped(Unmark, x1) = Mapped(Unmark, x0)
  <2>0. Unmark \in Expansions(Marks, Written)
    BY UnmarkIs
  <2>1. PICK e \in Seq(Marks) : e = Joined(o, z)
    BY JoinedParts
  <2>2. Mapped(Unmark, Joined(p, e)) = Joined(Mapped(Unmark, p), Mapped(Unmark, e))
    BY <2>0, JoinedMaps
  <2>3. Mapped(Unmark, Joined(o, z)) = Joined(Mapped(Unmark, o), Mapped(Unmark, z))
    BY <2>0, JoinedMaps
  <2>4. Mapped(Unmark, Joined(p, z)) = Joined(Mapped(Unmark, p), Mapped(Unmark, z))
    BY <2>0, JoinedMaps
  <2>5. Mapped(Unmark, o) = <<>>
    <3>1. Mapped(Unmark, <<n>>) = Unmark[n]
      BY <2>0, MappedOne
    <3>2. QED
      BY <1>5, <1>8, <3>1
  <2>6. Joined(<<>>, Mapped(Unmark, z)) = Mapped(Unmark, z)
    <3>1. Mapped(Unmark, z) \in Seq(Written)
      BY <2>0, MappedIsSequence
    <3>2. QED
      BY <3>1, NothingJoined
  <2>7. QED
    BY <1>6, <1>10, <2>1, <2>2, <2>3, <2>4, <2>5, <2>6
<1>13. QED
  BY <1>2, <1>4, <1>5, <1>10, <1>11, <1>12 DEF Cited

-----------------------------------------------------------------------------
(* From what a paragraph tells to the run of the citation.                  *)

(* A paragraph with no run of a claim has none of its marks.                *)
LEMMA NoneCited ==
  ASSUME NEW runs \in Seq(DocRuns), NEW c \in Nat \ {0}, \A r \in 1 .. Len(runs) : runs[r].claim # c
  PROVE  Told(runs) \in Seq(Others(c))
<1>1. PICK D : D = {run \in DocRuns : run.claim # c}
  OBVIOUS
<1>2. runs \in Seq(D)
  BY <1>1
<1>3. PICK F : F = [run \in D |-> MarkOf[run]]
  OBVIOUS
<1>4. ASSUME NEW run \in D PROVE MarkOf[run] \in Seq(Others(c))
  <2>1. run \in DocRuns /\ run.claim # c
    BY <1>1
  <2>2. CASE run \in Citations
    <3>1. run.claim \in Nat \ {0} /\ MarkOf[run] = <<Mark(run.claim)>>
      BY <2>2, CitationRuns DEF Citations
    <3>2. Mark(run.claim) \in Others(c)
      BY <2>1, <3>1, MarksAre
    <3>3. QED
      BY <3>1, <3>2
  <2>3. CASE run \in Keywords
    <3>1. MarkOf[run] = <<>>
      BY <2>3, KeywordRuns
    <3>2. QED
      BY <3>1
  <2>4. CASE run \in FileRuns /\ run.tracked # "del"
    <3>1. MarkOf[run] = Plain(Without(run.chars, Space))
      BY <2>4, LiveFileRuns
    <3>2. Without(run.chars, Space) \in Seq(Written)
      <4>1. run.chars \in Seq(Written)
        BY <2>4, FileRunsAreNotOurs
      <4>2. QED
        BY <4>1, WithoutIsText
    <3>3. QED
      BY <3>1, <3>2, PlainIsUnmarked
  <2>5. CASE run.tracked = "del"
    <3>1. MarkOf[run] = <<>>
      BY <2>1, <2>5, DeletedRuns
    <3>2. QED
      BY <3>1
  <2>6. QED
    BY <2>1, <2>2, <2>3, <2>4, <2>5 DEF DocRuns
<1>5. F \in Expansions(D, Others(c))
  BY <1>3, <1>4 DEF Expansions
<1>6. Mapped(F, runs) \in Seq(Others(c))
  BY <1>2, <1>5, MappedIsSequence
<1>7. Mapped(F, runs) = Mapped(MarkOf, runs)
  <2>1. \A i \in DOMAIN runs : F[runs[i]] = MarkOf[runs[i]]
    BY <1>2, <1>3
  <2>2. [i \in DOMAIN runs |-> F[runs[i]]] = [i \in DOMAIN runs |-> MarkOf[runs[i]]]
    BY <2>1
  <2>3. QED
    BY <2>2, Zenon DEF Mapped
<1>8. QED
  BY <1>6, <1>7 DEF Told

(* A citation is one run, told as one mark.                                 *)
LEMMA CitationAt ==
  ASSUME NEW runs \in Seq(DocRuns), NEW c \in Nat \ {0}, NEW r \in 1 .. Len(runs), runs[r].claim = c
  PROVE  \E a, b \in Seq(DocRuns) :
           Around(runs, r, a, b) /\ Told(runs) = Joined(Told(a), Joined(<<Mark(c)>>, Told(b)))
<1>1. PICK a \in Seq(DocRuns), b \in Seq(DocRuns) : Around(runs, r, a, b)
  BY AroundOne
<1>2. PICK run \in Citations : run = runs[r] /\ run.claim = c
  <2>1. runs[r] \in DocRuns
    OBVIOUS
  <2>2. QED
    BY <2>1, DocRunsAre
<1>3. run \in DocRuns
  BY DEF DocRuns
<1>4. PICK o \in Seq(DocRuns) : o = <<run>>
  <2>1. <<run>> \in Seq(DocRuns)
    BY <1>3
  <2>2. QED
    BY <2>1
<1>5. Told(o) = <<Mark(c)>>
  BY <1>2, <1>3, <1>4, TextsOfOne, CitationRuns
<1>6. runs = Joined(a, Joined(o, b))
  <2>1. runs = a \o (<<run>> \o b)
    BY <1>1, <1>2 DEF Around
  <2>2. QED
    BY <1>4, <2>1, Zenon DEF Joined
<1>7. PICK d \in Seq(DocRuns) : d = Joined(o, b)
  BY JoinedParts
<1>8. Told(d) = Joined(Told(o), Told(b))
  BY <1>7, RegroupedTexts
<1>9. Told(Joined(a, d)) = Joined(Told(a), Told(d))
  BY RegroupedTexts
<1>10. Told(runs) = Joined(Told(a), Joined(<<Mark(c)>>, Told(b)))
  BY <1>5, <1>6, <1>7, <1>8, <1>9
<1>11. QED
  BY <1>1, <1>10

(* What stands at one place of a paragraph.                                 *)
LEMMA CitedPlace ==
  ASSUME NEW runs \in Seq(DocRuns), NEW c \in Nat \ {0}, NEW w, Cited(Told(runs), c, w),
         NEW r \in 1 .. Len(runs), runs[r].claim = c
  PROVE  /\ OwnWords(SubSeq(runs, 1, r - 1)) = w
         /\ \A k \in 1 .. Len(runs) : k > r => runs[k].claim # c
<1>1. PICK a \in Seq(DocRuns), b \in Seq(DocRuns) :
        Around(runs, r, a, b) /\ Told(runs) = Joined(Told(a), Joined(<<Mark(c)>>, Told(b)))
  BY CitationAt
<1>2. PICK x \in Seq(Others(c)), y \in Seq(Others(c)) :
        Told(runs) = Joined(x, Joined(<<Mark(c)>>, y)) /\ Mapped(Unmark, x) = w
  BY DEF Cited
<1>3. Told(a) = x /\ Told(b) = y
  <2>1. PICK m \in Marks : m = Mark(c)
    BY MarksAre
  <2>2. PICK u \in Seq(Marks), v \in Seq(Marks) : u = Told(a) /\ v = Told(b)
    BY TextsAre
  <2>3. x \in Seq(Marks \ {m}) /\ y \in Seq(Marks \ {m})
    BY <2>1 DEF Others
  <2>4. Joined(u, Joined(<<m>>, v)) = Joined(x, Joined(<<m>>, y))
    BY <1>1, <1>2, <2>1, <2>2
  <2>7. PICK d, e : d = Joined(<<m>>, v) /\ e = Joined(<<m>>, y)
    OBVIOUS
  <2>5. u = x /\ v = y
    <3>1. Joined(u, d) = Joined(x, e)
      BY <2>4, <2>7
    <3>2. SameParts(u, v, x, y)
      BY <2>3, <2>7, <3>1, OneToken
    <3>3. QED
      BY <3>2 DEF SameParts
  <2>6. QED
    BY <2>2, <2>5
<1>4. OwnWords(a) = w
  <2>1. Mapped(Unmark, Told(a)) = OwnWords(a)
    BY UnmarkTold
  <2>2. QED
    BY <1>2, <1>3, <2>1
<1>5. a = SubSeq(runs, 1, r - 1) /\ b = SubSeq(runs, r + 1, Len(runs))
  BY <1>1 DEF Around
<1>6. ASSUME NEW k \in 1 .. Len(runs), k > r, runs[k].claim = c PROVE FALSE
  <2>0. Len(runs) \in Nat /\ r \in Nat /\ k \in Nat
    OBVIOUS
  <2>1. PICK j \in Nat : j = k - r
    <3>1. k - r \in Nat
      BY <1>6, <2>0
    <3>2. QED
      BY <3>1
  <2>2. j \in 1 .. Len(runs) - r /\ r + 1 + j - 1 = k
    BY <1>6, <2>0, <2>1
  <2>3. Len(b) = Len(runs) - r /\ \A i \in 1 .. Len(runs) - r : b[i] = runs[r + 1 + i - 1]
    BY <1>5, <2>0
  <2>4. j \in 1 .. Len(b) /\ b[j].claim = c
    BY <1>6, <2>2, <2>3
  <2>5. PICK e \in Seq(DocRuns), g \in Seq(DocRuns) : Told(b) = Joined(Told(e), Joined(<<Mark(c)>>, Told(g)))
    BY <2>4, CitationAt
  <2>6. PICK m \in Marks : m = Mark(c)
    BY MarksAre
  <2>7. PICK u \in Seq(Marks), v \in Seq(Marks) : u = Told(e) /\ v = Told(g)
    BY TextsAre
  <2>8. Joined(u, Joined(<<m>>, v)) \notin Seq(Marks \ {m})
    BY NotWithout
  <2>9. QED
    BY <1>3, <2>5, <2>6, <2>7, <2>8 DEF Others
<1>7. QED
  BY <1>4, <1>5, <1>6

(* One run has the citation, and w are the words of the file before it.     *)
StandsAlone(runs, mine, w) ==
  Cardinality(mine) = 1 /\ \A r \in mine : OwnWords(SubSeq(runs, 1, r - 1)) = w

(* Where a claim is cited, one run has the citation, behind the same words. *)
LEMMA CitedStands ==
  ASSUME NEW runs \in Seq(DocRuns), NEW c \in Nat \ {0}, NEW w, Cited(Told(runs), c, w),
         NEW mine, mine = {r \in DOMAIN runs : runs[r].claim = c}
  PROVE  StandsAlone(runs, mine, w)
<1>1. PICK r \in 1 .. Len(runs) : runs[r].claim = c
  <2>1. SUFFICES ASSUME \A r \in 1 .. Len(runs) : runs[r].claim # c PROVE FALSE
    OBVIOUS
  <2>2. Told(runs) \in Seq(Others(c))
    BY <2>1, NoneCited
  <2>3. PICK x \in Seq(Others(c)), y \in Seq(Others(c)) : Told(runs) = Joined(x, Joined(<<Mark(c)>>, y))
    BY DEF Cited
  <2>4. PICK m \in Marks : m = Mark(c)
    BY MarksAre
  <2>5. PICK u \in Seq(Marks), v \in Seq(Marks) : u = x /\ v = y
    BY OthersAreMarks
  <2>6. Joined(u, Joined(<<m>>, v)) \notin Seq(Marks \ {m})
    BY NotWithout
  <2>7. QED
    BY <2>2, <2>3, <2>4, <2>5, <2>6 DEF Others
<1>2. \A k, l \in mine : ~ (k < l)
  <2>1. SUFFICES ASSUME NEW k \in mine, NEW l \in mine, k < l PROVE FALSE
    OBVIOUS
  <2>2. k \in 1 .. Len(runs) /\ l \in 1 .. Len(runs) /\ runs[k].claim = c /\ runs[l].claim = c /\ l > k
    BY <2>1
  <2>3. \A j \in 1 .. Len(runs) : j > k => runs[j].claim # c
    BY <2>2, CitedPlace
  <2>4. QED
    BY <2>2, <2>3
<1>3. mine = {r}
  <2>1. \A k \in mine : k \in Nat /\ r \in Nat /\ r \in mine
    BY <1>1
  <2>2. \A k \in mine : k = r
    BY <1>2, <2>1
  <2>3. QED
    BY <1>1, <2>2
<1>4. Cardinality(mine) = 1
  BY <1>3, FS_Singleton
<1>5. \A k \in mine : OwnWords(SubSeq(runs, 1, k - 1)) = w
  <2>1. \A k \in mine : k \in 1 .. Len(runs) /\ runs[k].claim = c
    OBVIOUS
  <2>2. QED
    BY <2>1, CitedPlace
<1>6. QED
  BY <1>4, <1>5 DEF StandsAlone

-----------------------------------------------------------------------------
(* Our runs are not those of a file, and a paragraph that reads as analysed *)
(* has none of ours.                                                        *)

(* Runs of the export are known by a character no file has.                 *)
OwnMarker(run) ==
  IF run.chars = Cite THEN "cite" ELSE IF run.chars = Placed THEN "placeholder" ELSE "keyword"
LEMMA OurTexts ==
  ASSUME NEW run \in DocRuns, OurRun(run)
  PROVE  /\ RunText(run) = run.chars /\ RunText(run) \in Seq(Written) /\ Len(RunText(run)) = 2
         /\ RunText(run)[2] = OwnMarker(run) /\ OwnMarker(run) \notin Space
         /\ OwnMarker(run) \notin Character
<1>1. run \in Citations \cup Keywords
  BY DocRunsAre
<1>2. run.chars \in {Cite, Placed, Keyword} /\ run.chars \in Seq(Written)
  BY <1>1, OurRunsAreOurs
<1>3. /\ Len(run.chars) = 2 /\ run.chars[1] = Gap /\ run.chars[2] = OwnMarker(run)
  <2>1. /\ Len(Cite) = 2 /\ Cite[1] = Gap /\ Cite[2] = "cite"
        /\ Len(Placed) = 2 /\ Placed[1] = Gap /\ Placed[2] = "placeholder"
        /\ Len(Keyword) = 2 /\ Keyword[1] = Gap /\ Keyword[2] = "keyword"
        /\ Cite # Keyword /\ Placed # Keyword /\ Placed # Cite
    BY CiteIs
  <2>2. QED
    BY <1>2, <2>1 DEF OwnMarker
<1>4. OwnMarker(run) \in {"cite", "placeholder", "keyword"}
  BY DEF OwnMarker
<1>5. OwnMarker(run) \notin Space /\ OwnMarker(run) \notin Character
  BY <1>4, MarkersAreNot
<1>6. \A i \in DOMAIN run.chars : run.chars[i] \notin Elements
  <2>1. Gap \notin Elements
    BY DEF Gap, Elements
  <2>2. DOMAIN run.chars = {1, 2}
    BY <1>2, <1>3
  <2>3. OwnMarker(run) \notin Elements
    BY <1>5, ElementsAreSpace
  <2>4. QED
    BY <1>3, <2>1, <2>2, <2>3
<1>7. RunText(run) = run.chars
  BY <1>2, <1>6, RunTextWords, BreakIsWritten
<1>8. QED
  BY <1>2, <1>3, <1>5, <1>7

(* Where the text of a live run stands in its paragraph.                    *)
LEMMA LiveParts ==
  ASSUME NEW runs \in Seq(DocRuns), NEW r \in 1 .. Len(runs), runs[r].tracked # "del"
  PROVE  \E a, b \in Seq(DocRuns) :
           Around(runs, r, a, b) /\ RunText(runs[r]) \in Seq(Written)
           /\ Live(runs) = Joined(Live(a), Joined(RunText(runs[r]), Live(b)))
<1>1. PICK a \in Seq(DocRuns), b \in Seq(DocRuns) : Around(runs, r, a, b)
  BY AroundOne
<1>2. PICK run \in DocRuns : run = runs[r]
  OBVIOUS
<1>3. PICK o \in Seq(DocRuns) : o = <<run>>
  <2>1. <<run>> \in Seq(DocRuns)
    OBVIOUS
  <2>2. QED
    BY <2>1
<1>4. Live(o) = RunText(run)
  <2>1. LiveOf[run] = RunText(run)
    BY <1>2 DEF LiveOf
  <2>2. QED
    BY <1>3, <2>1, TextsOfOne
<1>5. runs = Joined(a, Joined(o, b))
  <2>1. runs = a \o (<<run>> \o b)
    BY <1>1, <1>2 DEF Around
  <2>2. QED
    BY <1>3, <2>1, Zenon DEF Joined
<1>6. PICK d \in Seq(DocRuns) : d = Joined(o, b)
  BY JoinedParts
<1>7. Live(d) = Joined(Live(o), Live(b))
  BY <1>6, RegroupedTexts
<1>8. Live(Joined(a, d)) = Joined(Live(a), Live(d))
  BY RegroupedTexts
<1>9. Live(runs) = Joined(Live(a), Joined(RunText(run), Live(b)))
  BY <1>4, <1>5, <1>6, <1>7, <1>8
<1>10. RunText(run) \in Seq(Written)
  BY <1>4, TextsAre
<1>11. QED
  BY <1>1, <1>2, <1>9, <1>10

(* A paragraph that reads as one of a file has none of our runs.            *)
LEMMA NoneOfOurs ==
  ASSUME NEW runs \in Seq(DocRuns), NEW live, live = NormalizeWithMap(Live(runs)),
         live.text \in Seq(Character)
  PROVE  \A r \in 1 .. Len(runs) : runs[r].tracked = "del" \/ ~ OurRun(runs[r])
<1>1. SUFFICES ASSUME NEW r \in 1 .. Len(runs), runs[r].tracked # "del", OurRun(runs[r]) PROVE FALSE
  OBVIOUS
<1>2. PICK a \in Seq(DocRuns), b \in Seq(DocRuns) :
        Around(runs, r, a, b) /\ RunText(runs[r]) \in Seq(Written)
        /\ Live(runs) = Joined(Live(a), Joined(RunText(runs[r]), Live(b)))
  BY <1>1, LiveParts
<1>3. PICK la \in Seq(Written), lb \in Seq(Written), x \in Seq(Written), raw \in Seq(Written) :
        la = Live(a) /\ lb = Live(b) /\ x = RunText(runs[r]) /\ raw = Live(runs)
  BY <1>2, TextsAre
<1>4. Len(x) = 2 /\ x[2] \notin Space /\ x[2] \notin Character
  <2>1. runs[r] \in DocRuns
    OBVIOUS
  <2>2. QED
    BY <1>1, <1>3, <2>1, OurTexts
<1>5. PICK d \in Seq(Written) : d = Joined(x, lb) /\ Joins(Written, x, lb, d)
  BY JoinedJoins
<1>6. Joins(Written, la, d, Joined(la, d))
  BY JoinedJoins
<1>7. Joins(Written, la, d, raw)
  BY <1>2, <1>3, <1>5, <1>6
<1>8. PICK i \in 1 .. Len(raw) : raw[i] = x[2]
  <2>1. Len(la) \in Nat /\ Len(lb) \in Nat
    OBVIOUS
  <2>2. 2 \in 1 .. Len(x) /\ 2 \in 1 .. Len(d)
    BY <1>4, <1>5, <2>1 DEF Joins
  <2>3. d[2] = x[2] /\ raw[Len(la) + 2] = d[2] /\ Len(la) + 2 \in 1 .. Len(raw)
    BY <1>5, <1>7, <2>1, <2>2 DEF Joins
  <2>4. QED
    BY <2>3
<1>9. PICK src : src = Sources(raw) /\ AreSources(raw, src)
  BY SourcesAre
<1>10. PICK k \in 1 .. Len(src) : src[k] = i
  BY <1>4, <1>8, <1>9 DEF AreSources
<1>11. /\ live.src = src /\ Len(live.text) = Len(src)
       /\ live.text[k] = IF raw[src[k]] \in Blank THEN Gap ELSE raw[src[k]]
  <2>1. Gap \in Written
    BY GapIsCharacter
  <2>2. live = NormalizeWithMap(raw)
    BY <1>3
  <2>3. Normal(Written, raw, live)
    BY <2>1, <2>2, MappedText
  <2>4. QED
    BY <1>9, <2>3 DEF Normal
<1>12. live.text[k] = x[2]
  BY <1>4, <1>8, <1>10, <1>11 DEF Space
<1>13. live.text[k] \in Character
  BY <1>11
<1>14. QED
  BY <1>4, <1>12, <1>13

-----------------------------------------------------------------------------
(* The live text of a paragraph is what it tells, where nothing is deleted  *)
(* and nothing is ours.                                                     *)

(* Without our runs, what a paragraph tells is its live text.               *)
LEMMA LiveRunWords ==
  ASSUME NEW run \in DocRuns, run.tracked = "del" \/ ~ OurRun(run)
  PROVE  /\ LiveOf[run] \in Seq(Written) /\ MarkOf[run] = Plain(Without(LiveOf[run], Space))
<1>1. CASE run.tracked = "del"
  <2>1. LiveOf[run] = <<>> /\ MarkOf[run] = <<>>
    BY <1>1, DeletedRuns
  <2>2. Without(<<>>, Space) = <<>>
    BY NothingWithout
  <2>3. <<>> \in Seq(Written) /\ Plain(<<>>) = <<>>
    BY DEF Plain
  <2>4. QED
    BY <2>1, <2>2, <2>3
<1>2. CASE run.tracked # "del" /\ ~ OurRun(run)
  <2>1. run \in FileRuns
    BY <1>2, DocRunsAre
  <2>2. LiveOf[run] = RunText(run) /\ MarkOf[run] = Plain(Without(run.chars, Space))
    BY <1>2, <2>1, LiveFileRuns
  <2>3. run.chars \in Seq(Written)
    BY <2>1, FileRunsAreNotOurs
  <2>4. RunText(run) \in Seq(Written) /\ Without(RunText(run), Space) = Without(run.chars, Space)
    BY <2>3, RunTextWords, BreakIsWritten
  <2>5. QED
    BY <2>2, <2>4
<1>3. QED
  BY <1>1, <1>2

(* The words of a text, without its spaces.                                 *)
SpaceFree(s) == Plain(Without(s, Space))
LEMMA SpaceFreeParts ==
  ASSUME NEW s \in Seq(Written), NEW t \in Seq(Written)
  PROVE  SpaceFree(Joined(s, t)) = Joined(SpaceFree(s), SpaceFree(t))
<1>1. Without(s \o t, Space) = Without(s, Space) \o Without(t, Space)
  BY WithoutOfParts
<1>2. PICK u \in Seq(Written), v \in Seq(Written) : u = Without(s, Space) /\ v = Without(t, Space)
  BY WithoutIsText
<1>3. Plain(u \o v) = Plain(u) \o Plain(v)
  BY PlainOfParts
<1>4. Plain(Without(s \o t, Space)) = Plain(u) \o Plain(v)
  BY <1>1, <1>2, <1>3
<1>5. QED
  BY <1>2, <1>4, Zenon DEF SpaceFree, Joined

(* The words of a paragraph without our runs are those of its live text.    *)
LEMMA LiveWords ==
  ASSUME NEW runs \in Seq(DocRuns),
         \A r \in 1 .. Len(runs) : runs[r].tracked = "del" \/ ~ OurRun(runs[r])
  PROVE  Told(runs) = SpaceFree(Live(runs))
<1>1. PICK D : D = {run \in DocRuns : run.tracked = "del" \/ ~ OurRun(run)}
  OBVIOUS
<1>2. runs \in Seq(D)
  <2>1. \A r \in 1 .. Len(runs) : runs[r] \in D
    BY <1>1
  <2>2. QED
    BY <2>1
<1>3. PICK T : T = {s \in Seq(D) : Told(s) = SpaceFree(Live(s))}
  OBVIOUS
<1>4. <<>> \in T
  <2>1. Told(<<>>) = <<>> /\ Live(<<>>) = <<>>
    BY TextsOfNone
  <2>2. Without(<<>>, Space) = <<>>
    BY NothingWithout
  <2>3. Plain(<<>>) = <<>>
    BY DEF Plain
  <2>4. <<>> \in Seq(D)
    OBVIOUS
  <2>5. QED
    BY <1>3, <2>1, <2>2, <2>3, <2>4 DEF SpaceFree
<1>5. \A s \in Seq(D) : \A x \in D : s \in T => s \o <<x>> \in T
  <2>1. SUFFICES ASSUME NEW s \in Seq(D), NEW x \in D, s \in T PROVE s \o <<x>> \in T
    OBVIOUS
  <2>2. PICK u \in Seq(DocRuns), y \in DocRuns : u = s /\ y = x
    <3>1. D \subseteq DocRuns
      BY <1>1
    <3>2. s \in Seq(DocRuns) /\ x \in DocRuns
      BY <3>1, WiderSequence
    <3>3. QED
      BY <3>2
  <2>3. y.tracked = "del" \/ ~ OurRun(y)
    BY <1>1, <2>2
  <2>4. LiveOf[y] \in Seq(Written) /\ MarkOf[y] = SpaceFree(LiveOf[y])
    BY <2>3, LiveRunWords DEF SpaceFree
  <2>5. PICK o \in Seq(DocRuns) : o = <<y>>
    <3>1. <<y>> \in Seq(DocRuns)
      OBVIOUS
    <3>2. QED
      BY <3>1
  <2>6. Told(o) = SpaceFree(Live(o)) /\ Live(o) \in Seq(Written)
    BY <2>4, <2>5, TextsOfOne
  <2>7. Told(u) = SpaceFree(Live(u)) /\ Live(u) \in Seq(Written)
    BY <1>3, <2>1, <2>2, TextsAre
  <2>8. Told(Joined(u, o)) = Joined(Told(u), Told(o)) /\ Live(Joined(u, o)) = Joined(Live(u), Live(o))
    BY RegroupedTexts
  <2>9. SpaceFree(Joined(Live(u), Live(o))) = Joined(SpaceFree(Live(u)), SpaceFree(Live(o)))
    BY <2>6, <2>7, SpaceFreeParts
  <2>10. Told(Joined(u, o)) = SpaceFree(Live(Joined(u, o)))
    BY <2>6, <2>7, <2>8, <2>9
  <2>11. Joined(u, o) = s \o <<x>>
    BY <2>2, <2>5, Zenon DEF Joined
  <2>12. s \o <<x>> \in Seq(D)
    OBVIOUS
  <2>13. QED
    BY <1>3, <2>10, <2>11, <2>12
<1>6. \A s \in Seq(D) : s \in T
  BY <1>4, <1>5, SequenceInduction
<1>7. QED
  BY <1>2, <1>3, <1>6

(* The live text up to a place in a live run.                               *)
LEMMA LiveBefore ==
  ASSUME NEW runs \in Seq(DocRuns), NEW r \in 1 .. Len(runs), runs[r].tracked # "del",
         NEW k \in Nat, NEW t, t = RunText(runs[r]), k <= Len(t)
  PROVE  LET a == SubSeq(runs, 1, r - 1) IN
         /\ a \in Seq(DocRuns) /\ t \in Seq(Written)
         /\ Take(Live(runs), Len(Live(a)) + k) = Joined(Live(a), Take(t, k))
         /\ Len(Live(a)) + Len(t) <= Len(Live(runs))
<1>1. PICK a \in Seq(DocRuns), b \in Seq(DocRuns) :
        Around(runs, r, a, b) /\ RunText(runs[r]) \in Seq(Written)
        /\ Live(runs) = Joined(Live(a), Joined(RunText(runs[r]), Live(b)))
  BY LiveParts
<1>2. a = SubSeq(runs, 1, r - 1)
  BY <1>1 DEF Around
<1>3. PICK la \in Seq(Written), x \in Seq(Written), lb \in Seq(Written) :
        la = Live(a) /\ x = t /\ lb = Live(b) /\ Live(runs) = Joined(la, Joined(x, lb))
  BY <1>1, TextsAre
<1>4. PICK d \in Seq(Written) : d = Joined(x, lb) /\ Joins(Written, x, lb, d)
  BY JoinedJoins
<1>5. Len(la) \in Nat /\ Len(x) \in Nat /\ Len(lb) \in Nat
  OBVIOUS
<1>6. Take(Joined(la, d), Len(la) + k) = Joined(la, Take(x, k))
  <2>1. Take(x \o lb, k) = Take(x, k)
    BY <1>3, TakeOfParts
  <2>2. d = x \o lb
    BY <1>4, Zenon DEF Joined
  <2>3. Take(d, k) = Take(x, k)
    BY <2>1, <2>2
  <2>4. Take(Joined(la, d), Len(la) + k) = Joined(la, Take(d, k))
    BY TakeJoined
  <2>5. QED
    BY <2>3, <2>4
<1>7. Joined(la, d) = Live(runs)
  BY <1>3, <1>4
<1>8. Len(Live(runs)) = Len(la) + Len(d) /\ Len(d) = Len(x) + Len(lb)
  <2>1. Joins(Written, la, d, Joined(la, d))
    BY JoinedJoins
  <2>2. QED
    BY <1>4, <1>7, <2>1 DEF Joins
<1>9. Len(la) + Len(x) <= Len(Live(runs))
  BY <1>5, <1>8
<1>10. QED
  BY <1>2, <1>3, <1>6, <1>7, <1>9

-----------------------------------------------------------------------------
(* The run in which an offset of the live text lies.                        *)

(* The length of the live text before the end of run q; it grows with q.    *)
Before(runs, q) == Len(Live(SubSeq(runs, 1, q)))
Grows(runs, q) ==
  /\ Before(runs, q - 1) \in Nat /\ Before(runs, q) \in Nat /\ RunText(runs[q]) \in Seq(Written)
  /\ runs[q].tracked = "del" => Before(runs, q) = Before(runs, q - 1)
  /\ runs[q].tracked # "del" => Before(runs, q) = Before(runs, q - 1) + Len(RunText(runs[q]))

LEMMA BeforeGrows ==
  ASSUME NEW runs \in Seq(DocRuns), NEW q \in 1 .. Len(runs)
  PROVE  Grows(runs, q)
<1>1. /\ SubSeq(runs, 1, q - 1) \in Seq(DocRuns) /\ SubSeq(runs, 1, q) \in Seq(DocRuns)
      /\ <<runs[q]>> \in Seq(DocRuns)
      /\ SubSeq(runs, 1, q) = Joined(SubSeq(runs, 1, q - 1), <<runs[q]>>)
  BY OneLonger
<1>2. PICK u \in Seq(DocRuns), v \in Seq(DocRuns), run \in DocRuns, o \in Seq(DocRuns) :
        u = SubSeq(runs, 1, q) /\ v = SubSeq(runs, 1, q - 1) /\ run = runs[q] /\ o = <<run>>
  <2>1. runs[q] \in DocRuns
    OBVIOUS
  <2>2. QED
    BY <1>1, <2>1
<1>3. u = Joined(v, o)
  BY <1>1, <1>2
<1>4. Live(u) = Joined(Live(v), Live(o))
  BY <1>3, RegroupedTexts
<1>5. Live(o) = LiveOf[run]
  BY <1>2, TextsOfOne
<1>6. PICK lv \in Seq(Written), lo \in Seq(Written), lu \in Seq(Written) :
        lv = Live(v) /\ lo = Live(o) /\ lu = Live(u)
  BY TextsAre
<1>7. Len(lu) = Len(lv) + Len(lo)
  <2>1. Joins(Written, lv, lo, Joined(lv, lo))
    BY JoinedJoins
  <2>2. QED
    BY <1>4, <1>6, <2>1 DEF Joins
<1>8. lo = IF run.tracked = "del" THEN <<>> ELSE RunText(run)
  BY <1>5, <1>6 DEF LiveOf
<1>9. Before(runs, q - 1) = Len(lv) /\ Before(runs, q) = Len(lu)
  BY <1>2, <1>6 DEF Before
<1>10. RunText(run) \in Seq(Written)
  <2>1. run.chars \in Seq(Written)
    BY DocRunsAre
  <2>2. QED
    BY <2>1, RunTextWords, BreakIsWritten
<1>11. Len(lv) \in Nat /\ Len(lu) \in Nat /\ Len(<<>>) = 0
  OBVIOUS
<1>12. CASE run.tracked = "del"
  <2>1. Len(lo) = 0
    BY <1>8, <1>11, <1>12
  <2>2. Len(lu) = Len(lv)
    BY <1>7, <1>11, <2>1
  <2>3. QED
    BY <1>2, <1>9, <1>10, <1>11, <1>12, <2>2 DEF Grows
<1>13. CASE run.tracked # "del"
  <2>1. Len(lu) = Len(lv) + Len(RunText(run))
    BY <1>7, <1>8, <1>13
  <2>2. QED
    BY <1>2, <1>9, <1>10, <1>11, <1>13, <2>1 DEF Grows
<1>14. QED
  BY <1>12, <1>13

(* It starts from nothing and ends with the whole live text.                *)
LEMMA BeforeEnds ==
  ASSUME NEW runs \in Seq(DocRuns)
  PROVE  Before(runs, 0) = 0 /\ Before(runs, Len(runs)) = Len(Live(runs)) /\ Len(Live(runs)) \in Nat
<1>1. SubSeq(runs, 1, 0) = <<>> /\ SubSeq(runs, 1, Len(runs)) = runs
  OBVIOUS
<1>2. Live(<<>>) = <<>> /\ Live(runs) \in Seq(Written)
  BY TextsOfNone, TextsAre
<1>3. Len(<<>>) = 0 /\ Len(Live(runs)) \in Nat
  BY <1>2
<1>4. QED
  BY <1>1, <1>2, <1>3 DEF Before

(* The run in which a text reaches a length.                                *)
LEMMA Crossing ==
  ASSUME NEW runs \in Seq(DocRuns), NEW k \in 1 .. Len(runs), NEW t \in Nat, t > 0, t <= Before(runs, k)
  PROVE  \E j \in 1 .. k : /\ runs[j].tracked # "del"
                           /\ Before(runs, j - 1) < t /\ t <= Before(runs, j)
<1>1. PICK S : S = {j \in 1 .. k : t <= Before(runs, j)}
  OBVIOUS
<1>2. S \in SUBSET Nat /\ S # {}
  <2>1. k \in S
    BY <1>1
  <2>2. QED
    BY <1>1, <2>1
<1>3. PICK j \in S : \A m \in S : j <= m
  BY <1>2, LeastNatural
<1>4. j \in 1 .. k /\ t <= Before(runs, j) /\ j \in 1 .. Len(runs)
  BY <1>1
<1>5. Before(runs, j - 1) < t
  <2>1. CASE j = 1
    <3>1. Before(runs, 0) = 0
      BY BeforeEnds
    <3>2. QED
      BY <2>1, <3>1
  <2>2. CASE j # 1
    <3>1. j - 1 \in 1 .. k /\ j - 1 < j
      BY <1>4, <2>2
    <3>2. j - 1 \notin S
      <4>1. j \in Nat /\ ~ (j <= j - 1)
        BY <1>4
      <4>2. QED
        BY <1>3, <4>1
    <3>3. ~ (t <= Before(runs, j - 1))
      BY <1>1, <3>1, <3>2
    <3>4. Before(runs, j - 1) \in Nat
      <4>1. Grows(runs, j)
        BY <1>4, BeforeGrows
      <4>2. QED
        BY <4>1 DEF Grows
    <3>5. QED
      BY <3>3, <3>4
  <2>3. QED
    BY <2>1, <2>2
<1>6. runs[j].tracked # "del"
  <2>1. Grows(runs, j)
    BY <1>4, BeforeGrows
  <2>2. SUFFICES ASSUME runs[j].tracked = "del" PROVE FALSE
    OBVIOUS
  <2>3. Before(runs, j) = Before(runs, j - 1) /\ Before(runs, j) \in Nat
    BY <2>1, <2>2 DEF Grows
  <2>4. QED
    BY <1>4, <1>5, <2>3
<1>7. QED
  BY <1>4, <1>5, <1>6

(* The live runs that reach as far as a position of the live text.          *)
Fits(runs, pos) ==
  {r \in 1 .. Len(runs) : runs[r].tracked # "del" /\ pos <= Before(runs, r - 1) + Len(RunText(runs[r]))}

(* The first run that reaches as far.                                       *)
LEMMA FirstFit ==
  ASSUME NEW runs \in Seq(DocRuns), NEW pos \in 0 .. Len(Live(runs)), Len(Live(runs)) > 0
  PROVE  /\ Fits(runs, pos) \in SUBSET Nat /\ Fits(runs, pos) # {}
         /\ Min(Fits(runs, pos)) \in Fits(runs, pos)
         /\ (\A r \in Fits(runs, pos) : Min(Fits(runs, pos)) <= r)
         /\ Before(runs, Min(Fits(runs, pos)) - 1) \in Nat
         /\ Before(runs, Min(Fits(runs, pos)) - 1) <= pos
<1>1. Fits(runs, pos) \in SUBSET Nat
  BY DEF Fits
<1>2. Len(Live(runs)) \in Nat /\ Before(runs, Len(runs)) = Len(Live(runs)) /\ Before(runs, 0) = 0
  BY BeforeEnds
<1>3. ASSUME NEW j \in 1 .. Len(runs), runs[j].tracked # "del", pos <= Before(runs, j)
      PROVE  j \in Fits(runs, pos)
  <2>1. Grows(runs, j)
    BY BeforeGrows
  <2>2. Before(runs, j) = Before(runs, j - 1) + Len(RunText(runs[j]))
    BY <1>3, <2>1 DEF Grows
  <2>3. QED
    BY <1>3, <2>2 DEF Fits
<1>4. Fits(runs, pos) # {}
  <2>1. PICK t \in Nat : t > 0 /\ pos <= t /\ t <= Len(Live(runs))
    <3>1. CASE pos = 0
      BY <1>2, <3>1
    <3>2. CASE pos > 0
      BY <1>2, <3>2
    <3>3. QED
      BY <3>1, <3>2
  <2>2. Len(runs) \in 1 .. Len(runs)
    <3>1. Len(runs) \in Nat
      OBVIOUS
    <3>2. Len(runs) # 0
      BY <1>2
    <3>3. QED
      BY <3>1, <3>2
  <2>3. t <= Before(runs, Len(runs))
    BY <1>2, <2>1
  <2>4. PICK j \in 1 .. Len(runs) : runs[j].tracked # "del" /\ t <= Before(runs, j)
    BY <2>1, <2>2, <2>3, Crossing
  <2>5. Before(runs, j) \in Nat
    <3>1. Grows(runs, j)
      BY BeforeGrows
    <3>2. QED
      BY <3>1 DEF Grows
  <2>6. pos <= Before(runs, j)
    BY <2>1, <2>4, <2>5
  <2>7. j \in Fits(runs, pos)
    BY <1>3, <2>4, <2>6
  <2>8. QED
    BY <2>7
<1>5. Min(Fits(runs, pos)) \in Fits(runs, pos) /\ \A r \in Fits(runs, pos) : Min(Fits(runs, pos)) <= r
  BY <1>1, <1>4, MinIsLeast
<1>6. PICK m \in 1 .. Len(runs) : m = Min(Fits(runs, pos))
  BY <1>5 DEF Fits
<1>7. Grows(runs, m)
  BY BeforeGrows
<1>8. Before(runs, m - 1) \in Nat
  BY <1>7 DEF Grows
<1>9. Before(runs, m - 1) <= pos
  <2>1. SUFFICES ASSUME Before(runs, m - 1) > pos PROVE FALSE
    BY <1>8
  <2>2. m # 1
    BY <1>2, <2>1
  <2>3. m - 1 \in 1 .. Len(runs) /\ pos + 1 \in Nat /\ pos + 1 > 0 /\ pos + 1 <= Before(runs, m - 1)
    BY <1>2, <1>8, <2>1, <2>2
  <2>4. PICK j \in 1 .. m - 1 : runs[j].tracked # "del" /\ pos + 1 <= Before(runs, j)
    BY <2>3, Crossing
  <2>5. j \in 1 .. Len(runs) /\ j < m
    BY <2>3
  <2>6. Before(runs, j) \in Nat
    <3>1. Grows(runs, j)
      BY <2>5, BeforeGrows
    <3>2. QED
      BY <3>1 DEF Grows
  <2>7. pos <= Before(runs, j)
    BY <1>2, <2>4, <2>6
  <2>8. j \in Fits(runs, pos)
    BY <1>3, <2>4, <2>5, <2>7
  <2>9. QED
    BY <1>5, <1>6, <2>5, <2>8
<1>10. QED
  BY <1>1, <1>4, <1>5, <1>6, <1>8, <1>9

-----------------------------------------------------------------------------
(* What resolving the end of a sentence finds: the place in the raw text of *)
(* its offset in the block.                                                 *)

(* What a sentence and its place in a block are.                            *)
IsSpan(s) ==
  /\ s.start \in Nat /\ s.end \in Nat /\ s.start < s.end
  /\ s.text \in Seq(Character) /\ Len(s.text) = s.end - s.start
(* The insertion offset of a sentence is behind its last word, before what  *)
(* ends it.                                                                 *)
OffsetIs(text, n) ==
  /\ n \in 0 .. Len(text)
  /\ \A i \in n + 1 .. Len(text) : text[i] \in Terminal
  /\ n > 0 => text[n] \notin Terminal

LEMMA InsertionOffsetIs ==
  ASSUME NEW X, NEW text \in Seq(X)
  PROVE  OffsetIs(text, InsertionOffset(text))
<1>1. PICK S : S = {i \in DOMAIN text : text[i] \notin Terminal} \cup {0}
  OBVIOUS
<1>2. InsertionOffset(text) = Max(S)
  BY <1>1 DEF InsertionOffset
<1>3. S \subseteq 0 .. Len(text) /\ 0 \in S
  BY <1>1
<1>4. S \in SUBSET Int /\ IsFiniteSet(S) /\ S # {}
  <2>1. IsFiniteSet(0 .. Len(text))
    BY FS_Interval
  <2>2. IsFiniteSet(S)
    BY <1>3, <2>1, FS_Subset
  <2>3. S \subseteq Int
    BY <1>3
  <2>4. QED
    BY <1>3, <2>2, <2>3
<1>5. PICK n \in S : n = Max(S) /\ \A i \in S : n >= i
  BY <1>4, MaxIsGreatest
<1>6. n \in 0 .. Len(text)
  BY <1>3
<1>7. \A i \in n + 1 .. Len(text) : text[i] \in Terminal
  <2>1. SUFFICES ASSUME NEW i \in n + 1 .. Len(text), text[i] \notin Terminal PROVE FALSE
    OBVIOUS
  <2>2. i \in DOMAIN text /\ ~ (n >= i)
    BY <1>6
  <2>3. i \in S
    BY <1>1, <2>1, <2>2
  <2>4. QED
    BY <1>5, <2>2, <2>3
<1>8. n > 0 => text[n] \notin Terminal
  BY <1>1, <1>6
<1>9. QED
  BY <1>2, <1>5, <1>6, <1>7, <1>8 DEF OffsetIs

(* A sentence that resolves: the paragraph reads as analysed, live is its   *)
(* normalized text, at the offset in it, raw the place in the raw runs.     *)
Resolving(runs, block, s, live, at, raw) ==
  /\ runs \in Seq(DocRuns) /\ live = NormalizeWithMap(Live(runs))
  /\ at = s.start - block.start + InsertionOffset(s.text)
  /\ raw = RawPosition(live, at) /\ Reads(live.text, block, s)
  /\ IsSpan(s) /\ block.start \in Nat /\ block.text \in Seq(Character)
(* The words before raw in the runs are those of the block before at.       *)
Located(runs, block, s, live, at, raw) ==
  /\ at \in 0 .. Len(live.src) /\ Len(live.src) > 0 /\ live.src \in Seq(Nat)
  /\ Len(live.src) = Len(block.text)
  /\ \A k, l \in 1 .. Len(live.src) : k < l => live.src[k] < live.src[l]
  /\ raw \in 0 .. Len(Live(runs)) /\ Len(Live(runs)) > 0
  /\ Without(Take(Live(runs), raw), Space) = Without(Take(block.text, at), Space)
  /\ s.start - block.start \in Nat /\ s.start - block.start <= at /\ at <= s.end - block.start
  /\ s.end - block.start <= Len(block.text)

(* A sentence that resolves is located.                                     *)
LEMMA ResolvingLocates ==
  ASSUME NEW runs, NEW block, NEW s, NEW live, NEW at, NEW raw, Resolving(runs, block, s, live, at, raw)
  PROVE  Located(runs, block, s, live, at, raw)
<1>1. /\ runs \in Seq(DocRuns) /\ live = NormalizeWithMap(Live(runs))
      /\ at = s.start - block.start + InsertionOffset(s.text)
      /\ raw = RawPosition(live, at)
      /\ s.start \in Nat /\ s.end \in Nat /\ s.start < s.end
      /\ s.text \in Seq(Character) /\ Len(s.text) = s.end - s.start
      /\ block.start \in Nat /\ block.text \in Seq(Character)
      /\ live.text = block.text
      /\ block.start <= s.start /\ s.end <= block.start + Len(live.text)
  BY DEF Resolving, IsSpan, Reads
<1>2. PICK n \in Nat : n = InsertionOffset(s.text) /\ n <= s.end - s.start
  <2>1. OffsetIs(s.text, InsertionOffset(s.text))
    BY <1>1, InsertionOffsetIs
  <2>2. InsertionOffset(s.text) \in 0 .. Len(s.text)
    BY <2>1 DEF OffsetIs
  <2>3. QED
    BY <1>1, <2>2
<1>3. PICK text \in Seq(Character) : text = block.text
  BY <1>1
<1>4. Len(text) \in Nat
  OBVIOUS
<1>5. PICK from \in Nat, to \in Nat, x \in Nat, y \in Nat, z \in Nat :
        from = s.start /\ to = s.end /\ x = block.start /\ y = from - x /\ z = to - x
  <2>1. s.start - block.start \in Nat /\ s.end - block.start \in Nat
    BY <1>1
  <2>2. QED
    BY <1>1, <2>1
<1>6. at = y + n /\ from < to /\ n <= to - from /\ x <= from /\ to <= x + Len(text)
  BY <1>1, <1>2, <1>3, <1>5
<1>7. at \in Nat /\ y <= at /\ at <= z /\ z <= Len(text) /\ Len(text) > 0
  <2>1. PICK m \in Nat : m = Len(text)
    BY <1>4
  <2>2. /\ y = from - x /\ z = to - x /\ at = y + n /\ from < to /\ n <= to - from
        /\ x <= from /\ to <= x + m
    BY <1>5, <1>6, <2>1
  <2>3. at \in Nat /\ y <= at /\ at <= z /\ z <= m /\ m > 0
    BY <2>2
  <2>4. QED
    BY <2>1, <2>3
<1>8. PICK chars \in Seq(Written) : chars = Live(runs)
  BY <1>1, TextsAre
<1>9. Normal(Written, chars, live)
  <2>1. Gap \in Written
    BY GapIsCharacter
  <2>2. live = NormalizeWithMap(chars)
    BY <1>1, <1>8
  <2>3. QED
    BY <2>1, <2>2, MappedText
<1>10. Len(live.src) = Len(text) /\ live.src = Sources(chars)
  BY <1>1, <1>3, <1>9 DEF Normal
<1>11. PICK src : src = live.src /\ AreSources(chars, src)
  BY <1>10, SourcesAre
<1>12. /\ src \in Seq(Nat) /\ \A k, l \in 1 .. Len(src) : k < l => src[k] < src[l]
       /\ \A k \in 1 .. Len(src) : src[k] \in 1 .. Len(chars)
  BY <1>11 DEF AreSources
<1>13. Len(src) = Len(text) /\ at \in 0 .. Len(src) /\ Len(src) > 0
  BY <1>7, <1>10, <1>11
<1>14. SameWords(chars, raw, live.text, at)
  <2>1. Gap \in Written
    BY GapIsCharacter
  <2>2. live = NormalizeWithMap(chars)
    BY <1>1, <1>8
  <2>3. Len(live.src) > 0 /\ at \in 0 .. Len(live.src)
    BY <1>11, <1>13
  <2>4. QED
    BY <1>1, <2>1, <2>2, <2>3, NormalizedWords
<1>15. Len(chars) > 0
  <2>1. 1 \in 1 .. Len(src)
    BY <1>12, <1>13
  <2>2. src[1] \in 1 .. Len(chars)
    BY <1>12, <2>1
  <2>3. QED
    BY <2>2
<1>16. raw \in 0 .. Len(chars) /\ Without(Take(chars, raw), Space) = Without(Take(block.text, at), Space)
  BY <1>1, <1>14 DEF SameWords
<1>17. y = s.start - block.start /\ z = s.end - block.start
  BY <1>5
<1>18. /\ at \in 0 .. Len(live.src) /\ Len(live.src) > 0 /\ live.src \in Seq(Nat)
       /\ Len(live.src) = Len(block.text)
  BY <1>3, <1>11, <1>12, <1>13
<1>19. \A k, l \in 1 .. Len(live.src) : k < l => live.src[k] < live.src[l]
  BY <1>11, <1>12
<1>20. raw \in 0 .. Len(Live(runs)) /\ Len(Live(runs)) > 0
       /\ Without(Take(Live(runs), raw), Space) = Without(Take(block.text, at), Space)
  BY <1>8, <1>15, <1>16
<1>21. s.start - block.start \in Nat /\ s.start - block.start <= at /\ at <= s.end - block.start
       /\ s.end - block.start <= Len(block.text)
  BY <1>3, <1>7, <1>17
<1>22. QED
  BY <1>18, <1>19, <1>20, <1>21 DEF Located

-----------------------------------------------------------------------------
(* Resolved points: each is in a live run, and an earlier offset has no     *)
(* later point.                                                             *)

(* The point that a raw offset resolves to.                                 *)
ResolvedPoint(runs, raw) ==
  [run |-> Min(Fits(runs, raw)), offset |-> raw - Before(runs, Min(Fits(runs, raw)) - 1)]

(* The words before a resolved point are those before the raw offset.       *)
LEMMA ResolvedAt ==
  ASSUME NEW runs, NEW block, NEW s, NEW live, NEW at, NEW raw, Resolving(runs, block, s, live, at, raw)
  PROVE  At(runs, ResolvedPoint(runs, raw), Without(Take(block.text, at), Space))
<1>1. runs \in Seq(DocRuns) /\ live = NormalizeWithMap(Live(runs)) /\ live.text \in Seq(Character)
      /\ block.text \in Seq(Character)
  BY DEF Resolving, Reads
<1>2. /\ raw \in 0 .. Len(Live(runs)) /\ Len(Live(runs)) > 0
      /\ Without(Take(Live(runs), raw), Space) = Without(Take(block.text, at), Space)
      /\ at \in Nat
  <2>1. Located(runs, block, s, live, at, raw)
    BY ResolvingLocates
  <2>2. QED
    BY <2>1 DEF Located
<1>3. /\ Min(Fits(runs, raw)) \in Fits(runs, raw)
      /\ Before(runs, Min(Fits(runs, raw)) - 1) \in Nat
      /\ Before(runs, Min(Fits(runs, raw)) - 1) <= raw
  BY <1>1, <1>2, FirstFit
<1>4. PICK m \in 1 .. Len(runs) : /\ m = Min(Fits(runs, raw)) /\ runs[m].tracked # "del"
                                  /\ raw <= Before(runs, m - 1) + Len(RunText(runs[m]))
  BY <1>3 DEF Fits
<1>5. PICK run \in DocRuns : run = runs[m]
  BY <1>1
<1>6. \A r \in 1 .. Len(runs) : runs[r].tracked = "del" \/ ~ OurRun(runs[r])
  BY <1>1, NoneOfOurs
<1>7. PICK t \in Seq(Written) : t = RunText(run)
  <2>1. run.chars \in Seq(Written)
    BY DocRunsAre
  <2>2. QED
    BY <2>1, RunTextWords, BreakIsWritten
<1>8. PICK k \in Nat : k = raw - Before(runs, m - 1) /\ k <= Len(t) /\ Before(runs, m - 1) + k = raw
  <2>1. raw \in Nat /\ Before(runs, m - 1) \in Nat /\ Before(runs, m - 1) <= raw /\ Len(t) \in Nat
        /\ raw <= Before(runs, m - 1) + Len(t)
    BY <1>2, <1>3, <1>4, <1>5, <1>7
  <2>2. QED
    BY <2>1
<1>9. PICK a \in Seq(DocRuns) : a = SubSeq(runs, 1, m - 1) /\ Take(Live(runs), raw) = Joined(Live(a), Take(t, k))
                               /\ Before(runs, m - 1) = Len(Live(a))
  <2>1. /\ SubSeq(runs, 1, m - 1) \in Seq(DocRuns)
        /\ Take(Live(runs), Len(Live(SubSeq(runs, 1, m - 1))) + k) = Joined(Live(SubSeq(runs, 1, m - 1)), Take(t, k))
    BY <1>1, <1>4, <1>5, <1>7, <1>8, LiveBefore
  <2>2. Before(runs, m - 1) = Len(Live(SubSeq(runs, 1, m - 1)))
    BY DEF Before
  <2>3. QED
    BY <1>8, <2>1, <2>2
<1>10. Told(a) = SpaceFree(Live(a))
  <2>1. \A r \in 1 .. Len(a) : r \in 1 .. Len(runs) /\ a[r] = runs[r]
    BY <1>1, <1>9
  <2>2. \A r \in 1 .. Len(a) : a[r].tracked = "del" \/ ~ OurRun(a[r])
    BY <1>6, <2>1
  <2>3. QED
    BY <2>2, LiveWords
<1>11. PICK la \in Seq(Written), u \in Seq(Written) : la = Live(a) /\ u = Take(t, k)
  BY TextsAre, TakeIsPrefix
<1>12. SpaceFree(Joined(la, u)) = Joined(SpaceFree(la), SpaceFree(u))
  BY SpaceFreeParts
<1>13. Joined(Told(a), SpaceFree(u)) = Plain(Without(Take(block.text, at), Space))
  BY <1>2, <1>9, <1>10, <1>11, <1>12 DEF SpaceFree
<1>14. Told(a) \o Plain(Without(Take(t, k), Space)) = Plain(Without(Take(block.text, at), Space))
  BY <1>11, <1>13, Zenon DEF Joined, SpaceFree
<1>15. Without(Take(block.text, at), Space) \in Seq(Written)
  <2>1. Take(block.text, at) \in Seq(Character)
    BY <1>1, <1>2, TakeIsPrefix
  <2>2. Without(Take(block.text, at), Space) \in Seq(Character)
    BY <2>1, WithoutIsText
  <2>3. QED
    BY <2>2, GapIsCharacter, WiderSequence
<1>16. ResolvedPoint(runs, raw).run = m /\ ResolvedPoint(runs, raw).offset = k
  BY <1>4, <1>8 DEF ResolvedPoint
<1>17. PICK pt : pt = ResolvedPoint(runs, raw) /\ pt.run = m /\ pt.offset = k
  BY <1>16
<1>18. At(runs, pt, Without(Take(block.text, at), Space))
  <2>1. ~ OurRun(run) /\ run.tracked # "del"
    BY <1>4, <1>5, <1>6
  <2>2. Told(SubSeq(runs, 1, pt.run - 1)) \o Plain(Without(Take(RunText(runs[pt.run]), pt.offset), Space))
          = Plain(Without(Take(block.text, at), Space))
    BY <1>5, <1>7, <1>9, <1>14, <1>17
  <2>3. pt.run \in 1 .. Len(runs) /\ pt.offset \in Nat /\ runs[pt.run] = run
    BY <1>5, <1>17
  <2>4. QED
    BY <1>15, <2>1, <2>2, <2>3 DEF At
<1>19. QED
  BY <1>17, <1>18

(* An earlier offset is resolved to a place no later.                       *)
LEMMA ResolvedOrder ==
  ASSUME NEW runs, NEW block, NEW live, NEW s, NEW at, NEW raw, Resolving(runs, block, s, live, at, raw),
         NEW s2, NEW at2, NEW raw2, Resolving(runs, block, s2, live, at2, raw2), s2.end <= s.start
  PROVE  NotAfter(ResolvedPoint(runs, raw2), ResolvedPoint(runs, raw))
<1>1. Located(runs, block, s, live, at, raw) /\ Located(runs, block, s2, live, at2, raw2)
  BY ResolvingLocates
<1>2. /\ runs \in Seq(DocRuns) /\ raw = RawPosition(live, at) /\ raw2 = RawPosition(live, at2)
      /\ s.start \in Nat /\ s2.end \in Nat /\ block.start \in Nat
  BY DEF Resolving, IsSpan
<1>3. /\ at \in 0 .. Len(live.src) /\ at2 \in 0 .. Len(live.src)
      /\ Len(live.src) > 0 /\ live.src \in Seq(Nat)
      /\ \A k, l \in 1 .. Len(live.src) : k < l => live.src[k] < live.src[l]
      /\ raw \in 0 .. Len(Live(runs)) /\ raw2 \in 0 .. Len(Live(runs)) /\ Len(Live(runs)) > 0
      /\ s.start - block.start <= at /\ at2 <= s2.end - block.start
  BY <1>1 DEF Located
<1>4. at2 <= at
  <2>1. PICK x \in Nat, y \in Nat, z \in Nat : x = s.start /\ y = s2.end /\ z = block.start
    BY <1>2
  <2>2. x - z <= at /\ at2 <= y - z /\ y <= x /\ at \in Nat /\ at2 \in Nat
    BY <1>3, <2>1
  <2>3. QED
    BY <2>2
<1>5. raw2 <= raw
  <2>1. PICK src \in Seq(Nat) : src = live.src
    BY <1>3
  <2>2. PICK n \in Nat : n = Len(src) /\ n > 0
    BY <1>3, <2>1
  <2>3. \A k, l \in 1 .. n : k < l => src[k] < src[l]
    BY <1>3, <2>1, <2>2
  <2>4. \A k \in 1 .. n : src[k] \in Nat
    BY <2>1, <2>2
  <2>5. /\ raw = IF at < n THEN src[at + 1] - 1 ELSE src[n]
        /\ raw2 = IF at2 < n THEN src[at2 + 1] - 1 ELSE src[n]
    BY <1>2, <2>1, <2>2 DEF RawPosition, Last
  <2>6. at \in 0 .. n /\ at2 \in 0 .. n
    BY <1>3, <2>1, <2>2
  <2> HIDE <2>1, <2>2
  <2>7. CASE at < n
    <3>1. at2 + 1 \in 1 .. n /\ at + 1 \in 1 .. n /\ at2 < n
      BY <1>4, <2>6, <2>7
    <3>2. at2 + 1 = at + 1 \/ src[at2 + 1] < src[at + 1]
      BY <1>4, <2>3, <2>6, <3>1
    <3>3. QED
      BY <2>4, <2>5, <2>7, <3>1, <3>2
  <2>8. CASE ~ (at < n) /\ at2 < n
    <3>1. at2 + 1 \in 1 .. n /\ n \in 1 .. n
      BY <2>6, <2>8
    <3>2. at2 + 1 = n \/ src[at2 + 1] < src[n]
      BY <2>3, <2>8, <3>1
    <3>3. QED
      BY <2>4, <2>5, <2>8, <3>1, <3>2
  <2>9. CASE ~ (at < n) /\ ~ (at2 < n)
    <3>1. n \in 1 .. n
      BY <2>6, <1>3, <2>2
    <3>2. QED
      BY <2>4, <2>5, <2>9, <3>1
  <2>10. QED
    BY <2>7, <2>8, <2>9
<1>6. PICK m \in Fits(runs, raw) : m = Min(Fits(runs, raw)) /\ Before(runs, m - 1) \in Nat
  BY <1>2, <1>3, FirstFit
<1>7. PICK m2 \in Fits(runs, raw2) : m2 = Min(Fits(runs, raw2)) /\ \A r \in Fits(runs, raw2) : m2 <= r
  BY <1>2, <1>3, FirstFit
<1>8. m \in Fits(runs, raw2)
  <2>1. m \in 1 .. Len(runs) /\ runs[m].tracked # "del" /\ raw <= Before(runs, m - 1) + Len(RunText(runs[m]))
    BY DEF Fits
  <2>2. Before(runs, m - 1) + Len(RunText(runs[m])) \in Nat
    <3>1. Grows(runs, m)
      BY <1>2, <2>1, BeforeGrows
    <3>2. RunText(runs[m]) \in Seq(Written)
      BY <3>1 DEF Grows
    <3>3. Len(RunText(runs[m])) \in Nat
      BY <3>2
    <3>4. QED
      BY <1>6, <3>3
  <2>3. raw2 <= Before(runs, m - 1) + Len(RunText(runs[m]))
    BY <1>3, <1>5, <2>1, <2>2
  <2>4. QED
    BY <2>1, <2>3 DEF Fits
<1>9. m2 <= m /\ m \in Nat /\ m2 \in Nat
  BY <1>7, <1>8 DEF Fits
<1>10. PICK x, y : x = ResolvedPoint(runs, raw2) /\ y = ResolvedPoint(runs, raw)
  OBVIOUS
<1>11. /\ x.run = m2 /\ x.offset = raw2 - Before(runs, m2 - 1)
       /\ y.run = m /\ y.offset = raw - Before(runs, m - 1)
  BY <1>6, <1>7, <1>10 DEF ResolvedPoint
<1>12. CASE m2 < m
  BY <1>10, <1>11, <1>12 DEF NotAfter
<1>13. CASE m2 = m
  <2>1. raw2 - Before(runs, m - 1) <= raw - Before(runs, m - 1)
    BY <1>3, <1>5, <1>6
  <2>2. QED
    BY <1>10, <1>11, <1>13, <2>1 DEF NotAfter
<1>14. QED
  BY <1>9, <1>12, <1>13

(* ResolveIn finds the point of the raw offset.                             *)
LEMMA ResolveInIs ==
  ASSUME NEW p, "runs" \in DOMAIN p, NEW block, NEW s, NEW live, NEW at, NEW raw,
         Resolving(p.runs, block, s, live, at, raw)
  PROVE  ResolveIn(p, block, s) = ResolvedPoint(p.runs, raw)
<1>1. PICK runs \in Seq(DocRuns) : runs = p.runs
  BY DEF Resolving
<1>2. /\ live = NormalizeWithMap(Live(runs)) /\ at = s.start - block.start + InsertionOffset(s.text)
      /\ raw = RawPosition(live, at) /\ Reads(live.text, block, s)
  BY <1>1 DEF Resolving
<1>3. raw \in 0 .. Len(Live(runs)) /\ Len(Live(runs)) > 0
  <2>1. Located(runs, block, s, live, at, raw)
    BY <1>1, ResolvingLocates
  <2>2. QED
    BY <2>1 DEF Located
<1>4. Min(Fits(runs, raw)) \in Fits(runs, raw)
  BY <1>3, FirstFit
<1>5. ParaText(p) = Live(runs)
  BY <1>1, ParagraphTexts
<1>6. ASSUME NEW r \in 1 .. Len(runs)
      PROVE  Len(ParaText([p EXCEPT !.runs = SubSeq(p.runs, 1, r - 1)])) = Before(runs, r - 1)
  <2>1. PICK q : q = [p EXCEPT !.runs = SubSeq(p.runs, 1, r - 1)] /\ q.runs = SubSeq(runs, 1, r - 1)
    <3>1. \A v : [p EXCEPT !.runs = v].runs = v
      OBVIOUS
    <3>2. [p EXCEPT !.runs = SubSeq(p.runs, 1, r - 1)].runs = SubSeq(p.runs, 1, r - 1)
      BY <3>1
    <3>3. QED
      BY <1>1, <3>2
  <2>2. q.runs \in Seq(DocRuns)
    BY <1>1, <2>1
  <2>3. ParaText(q) = Live(q.runs)
    BY <2>2, ParagraphTexts
  <2>4. QED
    BY <2>1, <2>3 DEF Before
<1>7. DOMAIN runs = 1 .. Len(runs) /\ LiveRuns(p) = {r \in 1 .. Len(runs) : runs[r].tracked # "del"}
  BY <1>1 DEF LiveRuns
<1>8. {r \in LiveRuns(p) : raw <= Len(ParaText([p EXCEPT !.runs = SubSeq(p.runs, 1, r - 1)])) + Len(RunText(p.runs[r]))}
        = Fits(runs, raw)
  <2>1. \A r \in LiveRuns(p) : r \in 1 .. Len(runs)
    BY <1>7
  <2>2. \A r \in LiveRuns(p) :
          Len(ParaText([p EXCEPT !.runs = SubSeq(p.runs, 1, r - 1)])) + Len(RunText(p.runs[r]))
            = Before(runs, r - 1) + Len(RunText(runs[r]))
    BY <1>1, <1>6, <2>1
  <2>3. QED
    BY <1>7, <2>2 DEF Fits
<1>9. Min(Fits(runs, raw)) \in 1 .. Len(runs)
  BY <1>4 DEF Fits
<1>10. ResolveIn(p, block, s)
         = [run |-> Min(Fits(runs, raw)),
            offset |-> raw - Len(ParaText([p EXCEPT !.runs = SubSeq(p.runs, 1, Min(Fits(runs, raw)) - 1)]))]
  BY <1>2, <1>5, <1>8 DEF ResolveIn, RawPosition
<1>11. QED
  BY <1>1, <1>6, <1>9, <1>10 DEF ResolvedPoint

-----------------------------------------------------------------------------
(* Sentences and the places behind them.                                    *)

(* Sentences with their places.                                             *)
Spans(sentences) ==
  /\ \A k \in DOMAIN sentences : IsSpan(sentences[k])
  /\ \A k, l \in DOMAIN sentences : k < l => sentences[k].end <= sentences[l].start

(* The sentences of an analysed draft are in their places.                  *)
LEMMA DraftSpans ==
  ASSUME NEW d, IsDraft(d)
  PROVE  Spans(d.sentences)
<1> DEFINE ss == d.sentences
           bs == d.blocks
<1>1. /\ IsBlocks(bs) /\ BlocksExact(d.raw, bs) /\ SentencesExact(bs, ss)
  BY DEF IsDraft
<1>2. \A k, l \in DOMAIN ss : k < l => ss[k].end <= ss[l].start
  BY <1>1 DEF SentencesExact
<1>3. ASSUME NEW k \in DOMAIN ss PROVE IsSpan(ss[k])
  <2> DEFINE s == ss[k]
  <2>1. PICK b \in DOMAIN bs : LiesIn(s, bs[b])
    BY <1>1 DEF SentencesExact
  <2>2. /\ s.start \in Nat /\ s.end \in Nat /\ s.start < s.end /\ bs[b].start <= s.start
        /\ s.end <= bs[b].start + Len(bs[b].text)
        /\ s.text = Slice(bs[b].text, s.start - bs[b].start, s.end - bs[b].start)
    BY <2>1 DEF LiesIn
  <2>3. bs[b].text \in Seq(Character) /\ bs[b].start \in Nat
    BY <1>1 DEF IsBlocks
  <2> HIDE DEF s, ss, bs
  <2>4. Len(bs[b].text) \in Nat
    BY <2>3
  <2>5. /\ s.start - bs[b].start \in Nat /\ s.end - bs[b].start \in Nat
        /\ s.start - bs[b].start <= s.end - bs[b].start
        /\ s.end - bs[b].start <= Len(bs[b].text)
        /\ (s.end - bs[b].start) - (s.start - bs[b].start) = s.end - s.start
    BY <2>2, <2>3, <2>4
  <2>6. s.text \in Seq(Character) /\ Len(s.text) = s.end - s.start
    <3> DEFINE u == bs[b].text
               x == s.start - bs[b].start
               y == s.end - bs[b].start
    <3>1. u \in Seq(Character) /\ x \in Nat /\ y \in Nat /\ x <= y /\ y <= Len(u) /\ s.text = Slice(u, x, y)
          /\ y - x = s.end - s.start
      BY <2>2, <2>3, <2>5
    <3> HIDE DEF u, x, y
    <3>2. Slice(u, x, y) \in Seq(Character) /\ Len(Slice(u, x, y)) = y - x
      BY <3>1, SliceTyped
    <3> QED
      BY <3>1, <3>2
  <2> QED
    BY <2>2, <2>6 DEF IsSpan, s
<1> QED
  BY <1>2, <1>3 DEF Spans

(* The words of a block before the end of a sentence.                       *)
Place(block, s) == Without(Take(block.text, s.start - block.start + InsertionOffset(s.text)), Space)

(* What the insertions leave of a paragraph of the file.                    *)
ParaKept(old, new) ==
  /\ "runs" \in DOMAIN new /\ new.runs \in Seq(DocRuns)
  /\ OwnWords(new.runs) = OwnWords(old.runs)
  /\ (\A i \in DOMAIN old.runs : NoElements(old.runs[i])) =>
       Own(new.runs) = Own(old.runs) /\ \A i \in DOMAIN new.runs : NoElements(new.runs[i])

(* The runs new are these with a citation of a claim, w before it.          *)
Inserts(runs, new, point, c, w) ==
  /\ Told(runs) \in Seq(Others(c)) => Cited(Told(new), c, w)
  /\ \A d \in Nat \ {0} : d # c /\ Told(runs) \in Seq(Others(d)) => Told(new) \in Seq(Others(d))
  /\ \A d \in Nat \ {0} : \A u : d # c /\ Cited(Told(runs), d, u) => Cited(Told(new), d, u)
  /\ \A q, u : At(runs, q, u) /\ NotAfter(q, point) => At(new, q, u)

(* The run inserted for a claim is its citation.                            *)
LEMMA NodeIsCitation ==
  ASSUME NEW c \in Nat \ {0}, NEW mode
  PROVE  Node(c, mode) \in Citations /\ Node(c, mode).claim = c /\ Node(c, mode) \in DocRuns
BY DEF Node, Citations, DocRuns, Cite, Placed

(* An insertion at a point behind words w cites the claim behind w, and     *)
(* keeps the rest of the paragraph.                                         *)
LEMMA InsertedPara ==
  ASSUME NEW old, NEW p, ParaKept(old, p), NEW point, NEW w, At(p.runs, point, w),
         NEW c \in Nat \ {0}, NEW mode, NEW q, q = Insert(p, point, Node(c, mode))
  PROVE  ParaKept(old, q) /\ Inserts(p.runs, q.runs, point, c, w)
<1> DEFINE node == Node(c, mode)
           runs == p.runs
           new == q.runs
<1>1. node \in Citations /\ node.claim = c /\ node \in DocRuns
  BY NodeIsCitation
<1>2. "runs" \in DOMAIN p /\ runs \in Seq(DocRuns)
  BY DEF ParaKept
<1>3. q = [p EXCEPT !.runs = new]
  BY <1>1, <1>2, InsertPuts
<1>4. \E a, b, f, g \in Seq(DocRuns) : Puts(runs, point, node, new, a, b, f, g)
  BY <1>1, <1>2, InsertPuts
<1>5. PICK a \in Seq(DocRuns), b \in Seq(DocRuns), f \in Seq(DocRuns), g \in Seq(DocRuns) :
        Puts(runs, point, node, new, a, b, f, g)
  BY <1>4
<1>6. "runs" \in DOMAIN q
  BY <1>2, <1>3
<1> HIDE DEF node, runs, new
<1>7. At(runs, point, w)
  BY DEF runs
<1>8. /\ new \in Seq(DocRuns)
      /\ \E v : Tells(runs, new, node.claim, w, v)
      /\ OwnWords(new) = OwnWords(runs)
      /\ (\A i \in DOMAIN runs : NoElements(runs[i])) =>
           Own(new) = Own(runs) /\ \A i \in DOMAIN new : NoElements(new[i])
  BY <1>1, <1>2, <1>5, <1>7, PutsTells
<1>9. PICK v : Tells(runs, new, c, w, v)
  BY <1>1, <1>8
<1>10. w \in Seq(Written)
  BY <1>7 DEF At
<1>11. ParaKept(old, q)
  BY <1>6, <1>8 DEF ParaKept, runs, new
<1>12. Told(runs) \in Seq(Others(c)) => Cited(Told(new), c, w)
  BY <1>2, <1>9, <1>10, NewCited
<1>13. \A d \in Nat \ {0} : d # c /\ Told(runs) \in Seq(Others(d)) => Told(new) \in Seq(Others(d))
  BY <1>2, <1>9, <1>10, StaysUncited
<1>14. \A d \in Nat \ {0} : \A u : d # c /\ Cited(Told(runs), d, u) => Cited(Told(new), d, u)
  BY <1>2, <1>9, <1>10, StaysCited
<1>15. \A z, u : At(runs, z, u) /\ NotAfter(z, point) => At(new, z, u)
  BY <1>1, <1>2, <1>5, <1>7, AtStays
<1>16. Inserts(runs, new, point, c, w)
  BY <1>12, <1>13, <1>14, <1>15 DEF Inserts
<1> QED
  BY <1>11, <1>16 DEF runs, new

-----------------------------------------------------------------------------
(* The insertion of one citation: the claim is cited behind its sentence,   *)
(* what was cited stays cited, and the points left are still behind theirs. *)

(* A claim that the outcomes report as inserted.                            *)
InsertedIn(outs, c) == \E k \in DOMAIN outs : outs[k].claim = c /\ outs[k].status = "INSERTED"

(* One more outcome reports at most its own claim.                          *)
LEMMA InsertedMore ==
  ASSUME NEW outs, outs \in Seq(Range(outs)), NEW x, NEW c
  PROVE  InsertedIn(Append(outs, x), c) <=> InsertedIn(outs, c) \/ (x.claim = c /\ x.status = "INSERTED")
<1>1. \E X : outs \in Seq(X) /\ x \in X
  <2>1. outs \in Seq(Range(outs) \cup {x})
    BY WiderSequence
  <2> QED
    BY <2>1
<1>2. PICK X : outs \in Seq(X) /\ x \in X
  BY <1>1
<1>3. /\ DOMAIN Append(outs, x) = 1 .. Len(outs) + 1 /\ DOMAIN outs = 1 .. Len(outs) /\ Len(outs) \in Nat
      /\ \A k \in 1 .. Len(outs) : Append(outs, x)[k] = outs[k]
      /\ Append(outs, x)[Len(outs) + 1] = x
  BY <1>2
<1> DEFINE n == Len(outs)
           more == Append(outs, x)
<1>4. n + 1 \in 1 .. n + 1 /\ \A k \in 1 .. n + 1 : k \in 1 .. n \/ k = n + 1
  BY <1>3
<1>5. \A k \in 1 .. n : k \in 1 .. n + 1
  BY <1>3
<1> HIDE DEF n, more
<1>6. /\ DOMAIN more = 1 .. n + 1 /\ DOMAIN outs = 1 .. n
      /\ \A k \in 1 .. n : more[k] = outs[k]
      /\ more[n + 1] = x
  BY <1>3 DEF n, more
<1>7. (\E k \in DOMAIN more : more[k].claim = c /\ more[k].status = "INSERTED")
        <=> (\E k \in DOMAIN outs : outs[k].claim = c /\ outs[k].status = "INSERTED")
              \/ (x.claim = c /\ x.status = "INSERTED")
  BY <1>4, <1>5, <1>6
<1> QED
  BY <1>7 DEF InsertedIn, more

(* The blocks of a sentence's paragraph, and those that read as analysed; a *)
(* claim cited behind its sentence in one of them.                          *)
BlocksFor(bs, s) == {b \in DOMAIN bs : bs[b].paragraph = s.paragraph}
ReadBlocks(bs, s) == {b \in BlocksFor(bs, s) : Reads(bs[b].text, bs[b], s)}
CitedFor(bs, s, runs, c) == \E b \in ReadBlocks(bs, s) : Cited(Told(runs), c, Place(bs[b], s))

(* Claims reported as inserted are cited in the paragraph of their sentence *)
(* behind it, and no claim is cited anywhere else.  ss are the sentences,   *)
(* bs the blocks, outs the outcomes, flat and paras the document.           *)
InsertedAt(ss, outs, flat, c, id) == InsertedIn(outs, c) /\ flat[ss[c].paragraph] = id
ClaimsPlaced(ss, bs, outs, flat, paras) ==
  /\ \A c : InsertedIn(outs, c) =>
       c \in DOMAIN ss /\ ss[c].paragraph \in DOMAIN flat /\ flat[ss[c].paragraph] \in DOMAIN paras
  /\ \A c \in DOMAIN ss, id \in DOMAIN paras :
       IF InsertedAt(ss, outs, flat, c, id) THEN CitedFor(bs, ss[c], paras[id].runs, c)
       ELSE Told(paras[id].runs) \in Seq(Others(c))

(* The points still to be inserted at are behind their sentences, the last  *)
(* of the paragraph first.                                                  *)
PointFound(ss, bs, flat, paras, x) ==
  /\ x.paragraph \in DOMAIN flat /\ flat[x.paragraph] \in DOMAIN paras
  /\ \E b \in ReadBlocks(bs, ss[x.claim]) :
       At(paras[flat[x.paragraph]].runs, x.point, Place(bs[b], ss[x.claim]))
PointsPlaced(ss, bs, flat, paras, v) ==
  /\ \A k \in DOMAIN v : v[k].claim \in DOMAIN ss /\ v[k].paragraph = ss[v[k].claim].paragraph
  /\ \A k \in DOMAIN v : v[k].point # Nowhere => PointFound(ss, bs, flat, paras, v[k])
  /\ \A k, l \in DOMAIN v : k < l =>
       /\ v[l].paragraph = v[k].paragraph
       /\ v[k].point # Nowhere /\ v[l].point # Nowhere => NotAfter(v[l].point, v[k].point)

(* The paragraphs of the document keep what the file had.                   *)
ParasKept(old, paras) ==
  /\ DOMAIN paras = DOMAIN old
  /\ \A id \in DOMAIN paras : ParaKept(old[id], paras[id])

(* A paragraph with a citation inserted, and one step of the insertions:    *)
(* the first of the points v is inserted at, and y is its outcome.          *)
PutAt(paras, id, x, mode) == [paras EXCEPT ![id] = Insert(paras[id], x.point, Node(x.claim, mode))]
StepDone(ss, bs, outs, flat, new, old, v, y) ==
  /\ ClaimsPlaced(ss, bs, Append(outs, y), flat, new)
  /\ PointsPlaced(ss, bs, flat, new, Tail(v)) /\ ParasKept(old, new)

(* One insertion keeps claims, points and paragraphs in place.              *)
LEMMA InsertStep ==
  ASSUME NEW ss, ss \in Seq(Range(ss)), NEW bs, NEW outs, outs \in Seq(Range(outs)), NEW flat,
         NEW paras, NEW old, NEW v, v \in Seq(Range(v)), v # <<>>,
         ClaimsPlaced(ss, bs, outs, flat, paras), PointsPlaced(ss, bs, flat, paras, v),
         ParasKept(old, paras), NEW x, x = Head(v), x.point # Nowhere, ~ InsertedIn(outs, x.claim),
         NEW mode, NEW id, id = flat[x.paragraph], NEW new, new = PutAt(paras, id, x, mode),
         NEW y, y.claim = x.claim, y.status = "INSERTED"
  PROVE  StepDone(ss, bs, outs, flat, new, old, v, y)
<1> DEFINE c == x.claim
           more == Append(outs, y)
           s == ss[c]
<1>1. /\ 1 \in DOMAIN v /\ x = v[1]
      /\ \A k \in DOMAIN Tail(v) : k \in Int /\ k + 1 \in DOMAIN v /\ k + 1 # 1 /\ Tail(v)[k] = v[k + 1]
  BY TailOf
<1>2. c \in DOMAIN ss /\ x.paragraph = s.paragraph
  BY <1>1 DEF PointsPlaced
<1>3. \A d \in DOMAIN ss : d \in Nat \ {0}
  OBVIOUS
<1>4. PointFound(ss, bs, flat, paras, x)
  BY <1>1 DEF PointsPlaced
<1>5. /\ x.paragraph \in DOMAIN flat /\ id \in DOMAIN paras
      /\ \E b \in ReadBlocks(bs, s) : At(paras[id].runs, x.point, Place(bs[b], s))
  BY <1>4 DEF PointFound
<1>6. PICK b \in ReadBlocks(bs, s) : At(paras[id].runs, x.point, Place(bs[b], s))
  BY <1>5
<1> DEFINE w == Place(bs[b], s)
           q == Insert(paras[id], x.point, Node(c, mode))
<1>7. ParaKept(old[id], paras[id]) /\ DOMAIN paras = DOMAIN old
  BY <1>5 DEF ParasKept
<1>8. At(paras[id].runs, x.point, w)
  BY <1>6
<1>9. c \in Nat \ {0}
  BY <1>2, <1>3
<1> HIDE DEF w
<1>10. ParaKept(old[id], q) /\ Inserts(paras[id].runs, q.runs, x.point, c, w)
  BY <1>7, <1>8, <1>9, InsertedPara
<1>11. DOMAIN new = DOMAIN paras /\ new[id] = q /\ \A j \in DOMAIN paras : j # id => new[j] = paras[j]
  BY <1>5 DEF PutAt
<1> HIDE DEF q
<1>12. ParasKept(old, new)
  BY <1>7, <1>10, <1>11 DEF ParasKept
<1>13. \A d : InsertedIn(more, d) <=> InsertedIn(outs, d) \/ d = c
  BY InsertedMore
<1> HIDE DEF more, c
<1>14. \A d : InsertedIn(more, d) =>
          d \in DOMAIN ss /\ ss[d].paragraph \in DOMAIN flat /\ flat[ss[d].paragraph] \in DOMAIN new
  BY <1>2, <1>5, <1>11, <1>13 DEF ClaimsPlaced
<1>15. ASSUME NEW d \in DOMAIN ss, NEW j \in DOMAIN new
       PROVE  IF InsertedAt(ss, more, flat, d, j) THEN CitedFor(bs, ss[d], new[j].runs, d)
              ELSE Told(new[j].runs) \in Seq(Others(d))
  <2>1. IF InsertedAt(ss, outs, flat, d, j) THEN CitedFor(bs, ss[d], paras[j].runs, d)
        ELSE Told(paras[j].runs) \in Seq(Others(d))
    BY <1>11 DEF ClaimsPlaced
  <2>2. CASE j # id
    <3>1. new[j] = paras[j] /\ (InsertedAt(ss, more, flat, d, j) <=> InsertedAt(ss, outs, flat, d, j))
      BY <2>2, <1>2, <1>11, <1>13 DEF InsertedAt
    <3> QED
      BY <2>1, <3>1
  <2>3. CASE j = id /\ d = c
    <3>1. ~ InsertedAt(ss, outs, flat, d, j) /\ InsertedAt(ss, more, flat, d, j)
      BY <2>3, <1>2, <1>13 DEF InsertedAt, c
    <3>2. Told(paras[id].runs) \in Seq(Others(c))
      BY <2>1, <2>3, <3>1
    <3>3. Cited(Told(new[j].runs), d, w)
      BY <1>10, <1>11, <2>3, <3>2 DEF Inserts
    <3>4. CitedFor(bs, ss[d], new[j].runs, d)
      BY <1>6, <2>3, <3>3 DEF CitedFor, w
    <3> QED
      BY <3>1, <3>4
  <2>4. CASE j = id /\ d # c
    <3>1. InsertedAt(ss, more, flat, d, j) <=> InsertedAt(ss, outs, flat, d, j)
      BY <2>4, <1>13 DEF InsertedAt
    <3>2. d \in Nat \ {0} /\ new[j] = q
      BY <1>3, <1>11, <2>4
    <3>3. Told(paras[j].runs) \in Seq(Others(d)) => Told(new[j].runs) \in Seq(Others(d))
      BY <1>10, <2>4, <3>2 DEF Inserts
    <3>4. CitedFor(bs, ss[d], paras[j].runs, d) => CitedFor(bs, ss[d], new[j].runs, d)
      BY <1>10, <2>4, <3>2 DEF Inserts, CitedFor
    <3> QED
      BY <2>1, <3>1, <3>3, <3>4
  <2> QED
    BY <2>2, <2>3, <2>4
<1>16. ClaimsPlaced(ss, bs, more, flat, new)
  BY <1>14, <1>15 DEF ClaimsPlaced
<1> DEFINE rest == Tail(v)
<1>17. /\ \A k \in DOMAIN rest : k \in Int /\ k + 1 \in DOMAIN v /\ k + 1 # 1 /\ rest[k] = v[k + 1]
       /\ \A k \in DOMAIN v : k \in Nat /\ 1 <= k
  BY <1>1
<1> HIDE DEF rest
<1>18. ASSUME NEW k \in DOMAIN rest, rest[k].point # Nowhere
       PROVE  PointFound(ss, bs, flat, new, rest[k])
  <2> DEFINE z == rest[k]
             zs == ss[z.claim]
             j == flat[z.paragraph]
  <2>1. k + 1 \in DOMAIN v /\ 1 < k + 1 /\ z = v[k + 1]
    BY <1>17
  <2>2. /\ PointFound(ss, bs, flat, paras, z)
        /\ z.paragraph = x.paragraph /\ NotAfter(z.point, x.point)
    <3>1. v[k + 1].point # Nowhere /\ v[1].point # Nowhere
      BY <1>1, <1>18, <2>1
    <3> QED
      BY <1>1, <2>1, <3>1 DEF PointsPlaced
  <2>3. j = id /\ z.paragraph \in DOMAIN flat /\ j \in DOMAIN new
    BY <1>5, <1>11, <2>2
  <2>4. PICK e \in ReadBlocks(bs, zs) : At(paras[id].runs, z.point, Place(bs[e], zs))
    BY <2>2, <2>3 DEF PointFound
  <2>5. At(new[id].runs, z.point, Place(bs[e], zs))
    BY <1>10, <1>11, <2>2, <2>4 DEF Inserts
  <2> QED
    BY <2>3, <2>4, <2>5 DEF PointFound
<1>19. PointsPlaced(ss, bs, flat, new, rest)
  <2>1. \A k \in DOMAIN rest : rest[k].claim \in DOMAIN ss
                                 /\ rest[k].paragraph = ss[rest[k].claim].paragraph
    BY <1>17 DEF PointsPlaced
  <2>2. ASSUME NEW k \in DOMAIN rest, NEW l \in DOMAIN rest, k < l
        PROVE  /\ rest[l].paragraph = rest[k].paragraph
               /\ rest[k].point # Nowhere /\ rest[l].point # Nowhere
                    => NotAfter(rest[l].point, rest[k].point)
    <3>1. k + 1 \in DOMAIN v /\ l + 1 \in DOMAIN v /\ k + 1 < l + 1 /\ rest[k] = v[k + 1] /\ rest[l] = v[l + 1]
      BY <1>17, <2>2
    <3> QED
      BY <3>1 DEF PointsPlaced
  <2> QED
    BY <1>18, <2>1, <2>2 DEF PointsPlaced
<1> QED
  BY <1>12, <1>16, <1>19 DEF more, rest, StepDone

-----------------------------------------------------------------------------
(* Resolving the sentences of a paragraph finds points behind them, in      *)
(* their order.                                                             *)

(* The offset behind a sentence in its block, the normalized runs, and      *)
(* where the offset lies in them.                                           *)
AtOf(block, s) == s.start - block.start + InsertionOffset(s.text)
LiveOfRuns(runs) == NormalizeWithMap(Live(runs))
RawOf(runs, block, s) == RawPosition(LiveOfRuns(runs), AtOf(block, s))
ResolvesTo(runs, block, s, point) ==
  /\ Resolving(runs, block, s, LiveOfRuns(runs), AtOf(block, s), RawOf(runs, block, s))
  /\ point = ResolvedPoint(runs, RawOf(runs, block, s))

LEMMA ResolvedIn ==
  ASSUME NEW block, NEW s, IsSpan(s), block.start \in Nat, block.text \in Seq(Character),
         NEW p, "runs" \in DOMAIN p, p.runs \in Seq(DocRuns), ResolveIn(p, block, s) # Nowhere
  PROVE  ResolvesTo(p.runs, block, s, ResolveIn(p, block, s))
<1> DEFINE live == NormalizeWithMap(ParaText(p))
<1>1. Reads(live.text, block, s)
  BY DEF ResolveIn
<1>2. ParaText(p) = Live(p.runs)
  BY ParagraphTexts
<1>3. Reads(LiveOfRuns(p.runs).text, block, s)
  BY <1>1, <1>2 DEF LiveOfRuns
<1>4. Resolving(p.runs, block, s, LiveOfRuns(p.runs), AtOf(block, s), RawOf(p.runs, block, s))
  BY <1>3 DEF Resolving, LiveOfRuns, AtOf, RawOf
<1>5. ResolveIn(p, block, s) = ResolvedPoint(p.runs, RawOf(p.runs, block, s))
  BY <1>4, ResolveInIs
<1> QED
  BY <1>4, <1>5 DEF ResolvesTo

LEMMA ResolvedIsAt ==
  ASSUME NEW runs, NEW block, NEW s, NEW point, ResolvesTo(runs, block, s, point)
  PROVE  At(runs, point, Place(block, s))
<1>1. At(runs, ResolvedPoint(runs, RawOf(runs, block, s)), Without(Take(block.text, AtOf(block, s)), Space))
  BY ResolvedAt DEF ResolvesTo
<1> QED
  BY <1>1 DEF ResolvesTo, Place, AtOf

LEMMA ResolvedReads ==
  ASSUME NEW runs, NEW block, NEW s, NEW point, ResolvesTo(runs, block, s, point)
  PROVE  Reads(block.text, block, s)
BY DEF ResolvesTo, Resolving, Reads

(* Of two sentences of a paragraph, the earlier has no later point.         *)
LEMMA ResolvedInOrder ==
  ASSUME NEW runs, NEW block, NEW s, NEW point, ResolvesTo(runs, block, s, point),
         NEW s2, NEW point2, ResolvesTo(runs, block, s2, point2), s2.end <= s.start
  PROVE  NotAfter(point2, point)
BY ResolvedOrder DEF ResolvesTo

(* A group of claims: sentences of one paragraph, the last first.           *)
QueuedGroup(ss, bs, group) ==
  /\ \A k \in DOMAIN group : /\ group[k].claim \in DOMAIN ss /\ group[k].sentence = ss[group[k].claim]
                             /\ BlocksFor(bs, group[k].sentence) # {}
  /\ \A k, l \in DOMAIN group : k < l =>
       /\ group[l].sentence.paragraph = group[k].sentence.paragraph
       /\ group[l].sentence.end <= group[k].sentence.start

(* The points of a group are behind their sentences, the last first.        *)
LEMMA PointsAreFound ==
  ASSUME NEW ss, NEW bs, ss = request.claims.sentences, bs = request.draft.blocks,
         NEW group, QueuedGroup(ss, bs, group), Spans(ss), IsBlocks(bs),
         NEW old, ParasKept(old, doc.paras), \A k \in DOMAIN doc.flat : doc.flat[k] \in DOMAIN doc.paras
  PROVE  PointsPlaced(ss, bs, doc.flat, doc.paras, Points(group))
<1> DEFINE v == Points(group)
           blk(k) == CHOOSE b \in BlocksFor(bs, group[k].sentence) : TRUE
           par(k) == doc.paras[doc.flat[group[k].sentence.paragraph]]
<1>1. /\ DOMAIN v = DOMAIN group
      /\ \A k \in DOMAIN group :
           /\ v[k].claim = group[k].claim /\ v[k].paragraph = group[k].sentence.paragraph
           /\ v[k].point = Resolve(bs[blk(k)], group[k].sentence)
  BY DEF Points, BlockOf, BlocksFor
<1>2. ASSUME NEW k \in DOMAIN group
      PROVE  /\ blk(k) \in BlocksFor(bs, group[k].sentence) /\ blk(k) \in DOMAIN bs
             /\ bs[blk(k)].paragraph = group[k].sentence.paragraph
             /\ bs[blk(k)].start \in Nat /\ bs[blk(k)].text \in Seq(Character)
             /\ IsSpan(group[k].sentence)
  <2>1. blk(k) \in BlocksFor(bs, group[k].sentence)
    BY DEF QueuedGroup
  <2>2. blk(k) \in DOMAIN bs /\ bs[blk(k)].paragraph = group[k].sentence.paragraph
    BY <2>1 DEF BlocksFor
  <2>3. IsSpan(group[k].sentence)
    BY DEF QueuedGroup, Spans
  <2> QED
    BY <2>1, <2>2, <2>3 DEF IsBlocks
<1> HIDE DEF blk, v
<1>3. ASSUME NEW k \in DOMAIN group, v[k].point # Nowhere
      PROVE  /\ group[k].sentence.paragraph \in DOMAIN doc.flat
             /\ doc.flat[group[k].sentence.paragraph] \in DOMAIN doc.paras
             /\ ResolvesTo(par(k).runs, bs[blk(k)], group[k].sentence, v[k].point)
  <2>1. /\ group[k].sentence.paragraph \in DOMAIN doc.flat
        /\ v[k].point = ResolveIn(par(k), bs[blk(k)], group[k].sentence)
    BY <1>1, <1>2, <1>3 DEF Resolve
  <2>2. doc.flat[group[k].sentence.paragraph] \in DOMAIN doc.paras
    BY <2>1
  <2>3. "runs" \in DOMAIN par(k) /\ par(k).runs \in Seq(DocRuns)
    BY <2>2 DEF ParasKept, ParaKept
  <2> QED
    BY <1>2, <1>3, <2>1, <2>2, <2>3, ResolvedIn
<1>4. ASSUME NEW k \in DOMAIN v PROVE v[k].claim \in DOMAIN ss /\ v[k].paragraph = ss[v[k].claim].paragraph
  BY <1>1 DEF QueuedGroup
<1>5. ASSUME NEW k \in DOMAIN v, v[k].point # Nowhere
      PROVE  PointFound(ss, bs, doc.flat, doc.paras, v[k])
  <2>1. At(par(k).runs, v[k].point, Place(bs[blk(k)], group[k].sentence))
    BY <1>1, <1>3, <1>5, ResolvedIsAt
  <2>2. v[k].paragraph = group[k].sentence.paragraph /\ ss[v[k].claim] = group[k].sentence
    BY <1>1 DEF QueuedGroup
  <2>3. blk(k) \in ReadBlocks(bs, group[k].sentence)
    <3>1. Reads(bs[blk(k)].text, bs[blk(k)], group[k].sentence)
      BY <1>1, <1>3, <1>5, ResolvedReads
    <3> QED
      BY <1>1, <1>2, <3>1 DEF ReadBlocks
  <2>4. /\ group[k].sentence.paragraph \in DOMAIN doc.flat
        /\ doc.flat[group[k].sentence.paragraph] \in DOMAIN doc.paras
    BY <1>1, <1>3, <1>5
  <2> QED
    BY <2>1, <2>2, <2>3, <2>4 DEF PointFound
<1>6. ASSUME NEW k \in DOMAIN v, NEW l \in DOMAIN v, k < l
      PROVE  /\ v[l].paragraph = v[k].paragraph
             /\ v[k].point # Nowhere /\ v[l].point # Nowhere => NotAfter(v[l].point, v[k].point)
  <2>1. /\ group[l].sentence.paragraph = group[k].sentence.paragraph
        /\ group[l].sentence.end <= group[k].sentence.start
    BY <1>1, <1>6 DEF QueuedGroup
  <2>2. blk(l) = blk(k) /\ par(l) = par(k)
    BY <2>1 DEF blk, BlocksFor
  <2>3. ASSUME v[k].point # Nowhere, v[l].point # Nowhere PROVE NotAfter(v[l].point, v[k].point)
    <3>1. /\ ResolvesTo(par(k).runs, bs[blk(k)], group[k].sentence, v[k].point)
          /\ ResolvesTo(par(k).runs, bs[blk(k)], group[l].sentence, v[l].point)
      BY <1>1, <1>3, <2>2, <2>3
    <3> QED
      BY <2>1, <3>1, ResolvedInOrder
  <2> QED
    BY <1>1, <2>1, <2>3
<1> QED
  BY <1>4, <1>5, <1>6 DEF PointsPlaced, v

-----------------------------------------------------------------------------
(* The groups the writer takes are in the order of their sentences, the     *)
(* last first.                                                              *)

(* Sentences in the order of their places, the last first.                  *)
StartsDescend(group) ==
  \A k, l \in DOMAIN group : k < l => group[k].sentence.start >= group[l].sentence.start

(* The writer sorts the claims of a paragraph so.                           *)
LEMMA LastFirstDescends ==
  ASSUME NEW X, NEW items, AreItems(items, X), NEW p
  PROVE  StartsDescend(LastFirst(items, p))
<1> DEFINE S == OfParagraph(items, p)
           mine == Kept(items, S)
           key == [k \in DOMAIN mine |-> mine[k].sentence.start]
           out == Descending(mine, key)
<1>1. LastFirst(items, p) = out
  BY DEF LastFirst, OfParagraph
<1>2. items \in Seq(X) /\ S \in SUBSET DOMAIN items
  BY DEF AreItems, OfParagraph
<1> HIDE DEF S
<1>3. mine \in Seq(X) /\ Selects(mine, items, S)
  BY <1>2, KeptSelects
<1> HIDE DEF mine
<1>4. AreItems(mine, X)
  BY <1>2, <1>3, ChosenItems
<1>5. /\ key \in [DOMAIN mine -> Int]
      /\ \A k \in DOMAIN mine : key[k] = mine[k].sentence.start
  BY <1>4 DEF AreItems
<1> HIDE DEF key
<1>6. /\ DOMAIN out = DOMAIN mine
      /\ \E order : /\ Permutes(order, mine)
                    /\ \A k \in DOMAIN mine : out[k] = mine[order[k]]
                    /\ \A i, j \in DOMAIN mine : i < j => key[order[i]] >= key[order[j]]
  BY <1>3, <1>5, DescendingSorts
<1>7. PICK order : /\ Permutes(order, mine)
                   /\ \A k \in DOMAIN mine : out[k] = mine[order[k]]
                   /\ \A i, j \in DOMAIN mine : i < j => key[order[i]] >= key[order[j]]
  BY <1>6
<1>8. \A k \in DOMAIN mine : order[k] \in DOMAIN mine
  BY <1>7 DEF Permutes
<1>9. \A k \in DOMAIN out : out[k].sentence.start = key[order[k]]
  BY <1>5, <1>6, <1>7, <1>8
<1> HIDE DEF out
<1>10. StartsDescend(out)
  BY <1>6, <1>7, <1>9 DEF StartsDescend
<1> QED
  BY <1>1, <1>10

(* Items that name claims and their sentences.                              *)
ItemsFrom(ss, items) ==
  \A k \in DOMAIN items : items[k].claim \in DOMAIN ss /\ items[k].sentence = ss[items[k].claim]

LEMMA ItemsOfSentences ==
  ASSUME NEW r, Loaded(r)
  PROVE  ItemsFrom(r.claims.sentences, Items(r))
<1> DEFINE items == Items(r)
           ids == Ids(r)
<1>1. /\ r.rows \in Seq(Rows)
      /\ \A row \in Range(r.rows) : row.by = r.claims.by => row.claim \in DOMAIN r.claims.sentences
  BY DEF Loaded
<1>2. \A c : (\E k \in DOMAIN ids : ids[k] = c)
               <=> \E row \in Range(r.rows) : row.by = r.claims.by /\ row.claim = c
  BY <1>1, IdsAre
<1>3. items = [k \in DOMAIN ids |->
                 [claim |-> ids[k], sentence |-> r.claims.sentences[ids[k]],
                  refs |-> RefsOf(RowsOf(r, ids[k]))]]
  BY ItemsAre
<1> HIDE DEF ids, items
<1>4. \A k \in DOMAIN items : items[k].claim = ids[k] /\ items[k].sentence = r.claims.sentences[ids[k]]
                              /\ k \in DOMAIN ids
  BY <1>3
<1>5. \A k \in DOMAIN ids : ids[k] \in DOMAIN r.claims.sentences
  BY <1>1, <1>2
<1>6. ItemsFrom(r.claims.sentences, items)
  BY <1>4, <1>5 DEF ItemsFrom
<1> QED
  BY <1>6 DEF items

Queued(ss, bs, groups) == \A g \in DOMAIN groups : QueuedGroup(ss, bs, groups[g])

(* Items of one paragraph, the last sentence first.                         *)
GroupOf(ss, group, p) ==
  /\ \A k \in DOMAIN group : /\ group[k].claim \in DOMAIN ss /\ group[k].sentence = ss[group[k].claim]
                            /\ group[k].sentence.paragraph = p
  /\ \A k, l \in DOMAIN group : group[k].claim = group[l].claim => k = l
  /\ \A k, l \in DOMAIN group : k < l => group[l].sentence.end <= group[k].sentence.start

LEMMA LastFirstGroup ==
  ASSUME NEW X, NEW items, AreItems(items, X), NEW ss, ss \in Seq(Range(ss)), Spans(ss),
         ItemsFrom(ss, items), NEW p
  PROVE  /\ LastFirst(items, p) \in Seq(X) /\ GroupOf(ss, LastFirst(items, p), p)
         /\ Selects(LastFirst(items, p), items, OfParagraph(items, p))
<1> DEFINE group == LastFirst(items, p)
           S == OfParagraph(items, p)
<1>2. StartsDescend(group)
  BY LastFirstDescends
<1>3. group \in Seq(X) /\ Selects(group, items, S)
  BY LastFirstSelects
<1>4. S \in SUBSET DOMAIN items
  BY DEF OfParagraph
<1> HIDE DEF group
<1>5. AreItems(group, X)
  BY <1>3, <1>4, ChosenItems
<1>6. PICK at : Chooses(at, group, items, S)
  BY <1>3 DEF Selects
<1>7. \A k \in DOMAIN group : at[k] \in DOMAIN items /\ group[k] = items[at[k]]
                              /\ items[at[k]].sentence.paragraph = p
  BY <1>6 DEF Chooses, OfParagraph
<1>8. \A k \in DOMAIN group : /\ group[k].claim \in DOMAIN ss /\ group[k].sentence = ss[group[k].claim]
                              /\ group[k].sentence.paragraph = p
  BY <1>7 DEF ItemsFrom
<1>9. ASSUME NEW k \in DOMAIN group, NEW l \in DOMAIN group, k < l
      PROVE  group[l].sentence.end <= group[k].sentence.start
  <2> DEFINE c == group[k].claim
             d == group[l].claim
  <2>1. c \in DOMAIN ss /\ d \in DOMAIN ss /\ group[k].sentence = ss[c] /\ group[l].sentence = ss[d]
    BY <1>8
  <2>2. k # l
    <3>1. k \in Nat /\ l \in Nat
      BY <1>3
    <3> QED
      BY <3>1, <1>9
  <2>3. c # d
    BY <1>5, <2>2 DEF AreItems
  <2>4. c \in Nat /\ d \in Nat
    BY <2>1
  <2>5. ss[c].start >= ss[d].start
    BY <1>2, <1>9, <2>1 DEF StartsDescend
  <2> HIDE DEF c, d
  <2>6. /\ ss[c].start \in Nat /\ ss[c].end \in Nat /\ ss[c].start < ss[c].end
        /\ ss[d].start \in Nat /\ ss[d].end \in Nat
    BY <2>1 DEF Spans, IsSpan
  <2>7. /\ c < d => ss[c].end <= ss[d].start
        /\ d < c => ss[d].end <= ss[c].start
    BY <2>1 DEF Spans
  <2>8. ss[d].end <= ss[c].start
    BY <2>3, <2>4, <2>5, <2>6, <2>7
  <2> QED
    BY <2>1, <2>8
<1>10. GroupOf(ss, group, p)
  BY <1>5, <1>8, <1>9 DEF GroupOf, AreItems
<1> QED
  BY <1>3, <1>10 DEF group

(* The groups of the claims that are not skipped.                           *)
LEMMA GroupsAreQueued ==
  ASSUME NEW X, NEW items, AreItems(items, X), NEW ss, ss \in Seq(Range(ss)), Spans(ss),
         ItemsFrom(ss, items), NEW bs, \A k \in DOMAIN items : BlocksFor(bs, items[k].sentence) # {}
  PROVE  Queued(ss, bs, Groups(items))
<1>1. ASSUME NEW g \in DOMAIN Groups(items)
      PROVE  QueuedGroup(ss, bs, Groups(items)[g])
  <2>1. PICK p : Groups(items)[g] = LastFirst(items, p)
    BY DEF Groups
  <2>2. PICK group : group = LastFirst(items, p)
    OBVIOUS
  <2>3. GroupOf(ss, group, p) /\ Selects(group, items, OfParagraph(items, p))
    BY <2>2, LastFirstGroup
  <2>4. \A k \in DOMAIN group : BlocksFor(bs, group[k].sentence) # {}
    BY <2>3 DEF Selects, Chooses, OfParagraph
  <2>5. QueuedGroup(ss, bs, group)
    BY <2>3, <2>4 DEF GroupOf, QueuedGroup
  <2> QED
    BY <2>1, <2>2, <2>5
<1> QED
  BY <1>1 DEF Queued

-----------------------------------------------------------------------------
(* A document as it is opened, and with the keyword behind one of its       *)
(* paragraphs.                                                              *)

LEMMA RunsOfFiles == Runs \subseteq FileRuns
<1>1. ASSUME NEW run \in Runs PROVE run \in FileRuns
  <2>1. run = [tracked |-> run.tracked, chars |-> run.chars, claim |-> run.claim]
        /\ run.tracked \in Tracked /\ run.chars \in Seq(Characters) /\ run.claim = 0
    BY DEF Runs
  <2>2. run.chars \in Seq(Character)
    BY <2>1, SpelledOut
  <2> QED
    BY <2>1, <2>2 DEF FileRuns
<1> QED
  BY <1>1

(* The runs of a file tell nothing of ours.                                 *)
LEMMA FilesAre ==
  ASSUME NEW f \in AllFiles
  PROVE  IsFile(f)
BY FilesAssumption DEF AllFiles

LEMMA ParaIsKept ==
  ASSUME NEW p, "runs" \in DOMAIN p, p.runs \in Seq(DocRuns)
  PROVE  ParaKept(p, p)
BY DEF ParaKept

(* The paragraphs of a file, as they are opened.                            *)
LEMMA OpenedParas ==
  ASSUME NEW f \in AllFiles
  PROVE  /\ ParasKept(f.paras, f.paras)
         /\ \A k \in DOMAIN Walk(f) : Walk(f)[k] \in DOMAIN f.paras
         /\ \A id \in DOMAIN f.paras, c \in Nat \ {0} : Told(f.paras[id].runs) \in Seq(Others(c))
<1>1. IsFile(f)
  BY FilesAre
<1>2. f.paras \in Seq([role : STRING, runs : Seq(Runs)])
  BY <1>1 DEF IsFile
<1>3. ASSUME NEW id \in DOMAIN f.paras
      PROVE  "runs" \in DOMAIN f.paras[id] /\ f.paras[id].runs \in Seq(Runs)
  <2>1. f.paras[id] \in [role : STRING, runs : Seq(Runs)]
    BY <1>2, MembersOfSequence
  <2>2. \A p \in [role : STRING, runs : Seq(Runs)] : "runs" \in DOMAIN p /\ p.runs \in Seq(Runs)
    OBVIOUS
  <2> QED
    BY <2>1, <2>2
<1>4. ASSUME NEW id \in DOMAIN f.paras
      PROVE  /\ f.paras[id].runs \in Seq(DocRuns)
             /\ \A r \in 1 .. Len(f.paras[id].runs) : f.paras[id].runs[r].claim = 0
  <2>1. f.paras[id].runs \in Seq(Runs)
    BY <1>3
  <2>2. Runs \subseteq DocRuns /\ \A run \in Runs : run.claim = 0
    BY RunsOfFiles DEF DocRuns, Runs
  <2> QED
    BY <2>1, <2>2
<1>5. ASSUME NEW id \in DOMAIN f.paras, NEW c \in Nat \ {0}
      PROVE  Told(f.paras[id].runs) \in Seq(Others(c))
  <2>1. \A r \in 1 .. Len(f.paras[id].runs) : f.paras[id].runs[r].claim # c
    BY <1>4
  <2> QED
    BY <1>4, <2>1, NoneCited
<1>6. ParasKept(f.paras, f.paras)
  BY <1>3, <1>4, ParaIsKept DEF ParasKept
<1>7. \A k \in DOMAIN Walk(f) : Walk(f)[k] \in DOMAIN f.paras
  BY <1>1, WalkedParagraphs
<1> QED
  BY <1>5, <1>6, <1>7

(* The keyword is one of our runs, without a claim.                         *)
LEMMA KeywordRun ==
  ASSUME NEW mode
  PROVE  [Node(0, mode) EXCEPT !.chars = <<" ", "keyword">>] \in Keywords
BY DEF Node, Keywords, Keyword

LEMMA KeywordNoElements ==
  ASSUME NEW node \in Keywords
  PROVE  NoElements(node)
<1>1. node.chars = <<Gap, "keyword">>
  BY CiteIs DEF Keywords
<1>2. Gap \notin Elements /\ "keyword" \notin Elements
  BY DEF Gap, Elements
<1>3. DOMAIN node.chars = 1 .. 2 /\ node.chars[1] = Gap /\ node.chars[2] = "keyword"
  BY <1>1
<1>4. \A i \in 1 .. 2 : i = 1 \/ i = 2
  OBVIOUS
<1> QED
  BY <1>2, <1>3, <1>4 DEF NoElements

(* The keyword behind a paragraph leaves what it tells of claims and of the *)
(* file.                                                                    *)
LEMMA KeywordAppended ==
  ASSUME NEW old, NEW p, ParaKept(old, p), NEW node \in Keywords,
         NEW q, "runs" \in DOMAIN q, q.runs = Append(p.runs, node)
  PROVE  ParaKept(old, q) /\ Told(q.runs) = Told(p.runs)
<1> DEFINE runs == p.runs
           new == Append(runs, node)
<1>1. "runs" \in DOMAIN p /\ runs \in Seq(DocRuns)
  BY DEF ParaKept
<1>2. node \in DocRuns
  BY DEF DocRuns
<1>3. q.runs = new /\ "runs" \in DOMAIN q
  BY <1>1
<1>4. <<node>> \in Seq(DocRuns)
  BY <1>2
<1> HIDE DEF runs
<1>5. new = runs \o <<node>> /\ new \in Seq(DocRuns)
  BY <1>1, <1>2
<1> HIDE DEF new
<1>6. /\ Told(new) = Told(runs) \o Told(<<node>>) /\ Own(new) = Own(runs) \o Own(<<node>>)
      /\ OwnWords(new) = OwnWords(runs) \o OwnWords(<<node>>)
  BY <1>1, <1>4, <1>5, TextsOfParts
<1>7. Told(<<node>>) = <<>> /\ Own(<<node>>) = <<>> /\ OwnWords(<<node>>) = <<>>
  BY <1>2, TextsOfOne, KeywordRuns
<1>8. Told(runs) \in Seq(Marks) /\ Own(runs) \in Seq(Written) /\ OwnWords(runs) \in Seq(Written)
  BY <1>1, TextsAre
<1>9. Told(new) = Told(runs) /\ Own(new) = Own(runs) /\ OwnWords(new) = OwnWords(runs)
  <2>1. /\ Told(runs) \o <<>> = Told(runs) /\ Own(runs) \o <<>> = Own(runs)
        /\ OwnWords(runs) \o <<>> = OwnWords(runs)
    BY <1>8, NothingMore
  <2> QED
    BY <1>6, <1>7, <2>1, Zenon
<1>10. ASSUME \A i \in DOMAIN runs : NoElements(runs[i])
       PROVE  \A i \in DOMAIN new : NoElements(new[i])
  <2>1. \A i \in DOMAIN new : (i \in DOMAIN runs /\ new[i] = runs[i]) \/ new[i] = node
    BY <1>1, <1>2 DEF new
  <2> QED
    BY <1>10, <2>1, KeywordNoElements
<1>11. /\ OwnWords(runs) = OwnWords(old.runs)
       /\ (\A i \in DOMAIN old.runs : NoElements(old.runs[i])) =>
            Own(runs) = Own(old.runs) /\ \A i \in DOMAIN runs : NoElements(runs[i])
  BY DEF ParaKept, runs
<1>12. ParaKept(old, q)
  <2>1. (\A i \in DOMAIN old.runs : NoElements(old.runs[i])) =>
            Own(new) = Own(old.runs) /\ \A i \in DOMAIN new : NoElements(new[i])
    BY <1>9, <1>10, <1>11
  <2> QED
    BY <1>3, <1>5, <1>9, <1>11, <2>1 DEF ParaKept
<1> QED
  BY <1>3, <1>9, <1>12 DEF runs

DocFields == {"paras", "flat", "source", "keyword", "references", "audit", "blocks"}

(* What the keyword leaves of a document.                                   *)
LEMMA KeywordPara ==
  ASSUME NEW r, NEW d, DOMAIN d = DocFields, NEW old, ParasKept(old, d.paras),
         \A k \in DOMAIN d.flat : d.flat[k] \in DOMAIN d.paras, NEW e, e = WithKeyword(r, d)
  PROVE  /\ e.flat = d.flat /\ e.source = d.source /\ e.audit = d.audit
         /\ ParasKept(old, e.paras)
         /\ \A id \in DOMAIN e.paras : Told(e.paras[id].runs) = Told(d.paras[id].runs)
<1> DEFINE lines == KeywordPlaces(r, "keywords")
           intros == KeywordPlaces(r, "intro")
           anchor == IF intros = {} THEN 1 ELSE Min(intros)
           node == [Node(0, r.mode) EXCEPT !.chars = <<" ", "keyword">>]
           id == d.flat[Min(lines)]
           q == [d.paras[id] EXCEPT !.runs = Append(d.paras[id].runs, node)]
<1>1. node \in Keywords
  BY KeywordRun
<1>2. CASE lines # {} /\ Min(lines) \in DOMAIN d.flat
  <2>1. e = [d EXCEPT !.paras = [d.paras EXCEPT ![id] = q]]
    BY <1>2 DEF WithKeyword
  <2>2. id \in DOMAIN d.paras
    BY <1>2
  <2> HIDE DEF node, id
  <2>3. ParaKept(old[id], d.paras[id]) /\ DOMAIN d.paras = DOMAIN old
    BY <2>2 DEF ParasKept
  <2>4. ParaKept(old[id], q) /\ Told(q.runs) = Told(d.paras[id].runs)
    <3>1. PICK p0 : p0 = d.paras[id]
      OBVIOUS
    <3>2. PICK o0 : o0 = old[id]
      OBVIOUS
    <3>3. PICK q0 : q0 = [p0 EXCEPT !.runs = Append(p0.runs, node)]
      OBVIOUS
    <3>4. "runs" \in DOMAIN q0 /\ q0.runs = Append(p0.runs, node)
      BY <2>3, <3>1, <3>3 DEF ParaKept
    <3>5. ParaKept(o0, p0)
      BY <2>3, <3>1, <3>2
    <3>6. ParaKept(o0, q0) /\ Told(q0.runs) = Told(p0.runs)
      BY <1>1, <3>4, <3>5, KeywordAppended
    <3> QED
      BY <3>1, <3>2, <3>3, <3>6
  <2> HIDE DEF q
  <2>5. /\ e.flat = d.flat /\ e.source = d.source /\ e.audit = d.audit
        /\ e.paras = [d.paras EXCEPT ![id] = q]
    BY <2>1 DEF DocFields
  <2>6. /\ DOMAIN e.paras = DOMAIN d.paras /\ e.paras[id] = q
        /\ \A j \in DOMAIN d.paras : j # id => e.paras[j] = d.paras[j]
    BY <2>2, <2>5
  <2>7. ParasKept(old, e.paras)
    BY <2>3, <2>4, <2>6 DEF ParasKept
  <2>8. \A j \in DOMAIN e.paras : Told(e.paras[j].runs) = Told(d.paras[j].runs)
    BY <2>4, <2>6
  <2> QED
    BY <2>5, <2>7, <2>8
<1>3. CASE ~ (lines # {} /\ Min(lines) \in DOMAIN d.flat) /\ anchor \in DOMAIN d.flat
  <2>1. e = [d EXCEPT !.keyword = d.flat[anchor]]
    BY <1>3 DEF WithKeyword
  <2> HIDE DEF anchor
  <2>2. e.flat = d.flat /\ e.source = d.source /\ e.audit = d.audit /\ e.paras = d.paras
    BY <2>1 DEF DocFields
  <2> QED
    BY <2>2
<1>4. CASE ~ (lines # {} /\ Min(lines) \in DOMAIN d.flat) /\ anchor \notin DOMAIN d.flat
  <2>1. e = d
    BY <1>4 DEF WithKeyword
  <2> QED
    BY <2>1
<1> QED
  BY <1>2, <1>3, <1>4

(* Paragraphs that tell the same cite the same claims.                      *)
LEMMA SameTellings ==
  ASSUME NEW ss, NEW bs, NEW outs, NEW flat, NEW paras, ClaimsPlaced(ss, bs, outs, flat, paras),
         NEW new, DOMAIN new = DOMAIN paras,
         \A id \in DOMAIN new : Told(new[id].runs) = Told(paras[id].runs)
  PROVE  ClaimsPlaced(ss, bs, outs, flat, new)
BY DEF ClaimsPlaced, CitedFor

(* Before the first insertion.                                              *)
LEMMA NothingPlaced ==
  ASSUME NEW ss, ss \in Seq(Range(ss)), NEW bs, NEW outs, \A c : ~ InsertedIn(outs, c),
         NEW flat, NEW paras,
         \A id \in DOMAIN paras, c \in Nat \ {0} : Told(paras[id].runs) \in Seq(Others(c))
  PROVE  ClaimsPlaced(ss, bs, outs, flat, paras)
<1>1. \A c \in DOMAIN ss : c \in Nat \ {0}
  OBVIOUS
<1> QED
  BY <1>1 DEF ClaimsPlaced, InsertedAt

-----------------------------------------------------------------------------
(* The inductive invariant of the places: every value of the export is      *)
(* typed, and while a document is written its claims and points are placed. *)
(* PlacesKept is stated with ExportKept and PlacementKept, which the        *)
(* exports keep on their own.                                               *)

(* How far a request is, and when it has a document.                        *)
Progress == {"none", "draft", "claims", "bundle", "refused", "resolve", "insert", "done"}
Writing(r) == r.pc \in {"resolve", "insert"} \/ (r.pc = "done" /\ r.format = "docx")

(* The document: paragraphs of the file, with what has been inserted.       *)
DocKept(r, d) ==
  /\ d.source \in AllFiles /\ d.flat = Walk(d.source)
  /\ ParasKept(d.source.paras, d.paras)
  /\ ClaimsPlaced(r.claims.sentences, r.draft.blocks, r.outcomes, d.flat, d.paras)

(* Outcomes tell of claims of the draft.                                    *)
OutcomesTyped(r) ==
  /\ r.outcomes \in Seq(Range(r.outcomes))
  /\ \A k \in DOMAIN r.outcomes : /\ r.outcomes[k].claim \in DOMAIN r.claims.sentences
                                  /\ r.outcomes[k].status \in Statuses

(* What remains to be resolved and to be inserted.                          *)
StepsPlaced(r, d) ==
  /\ Queued(r.claims.sentences, r.draft.blocks, r.pending)
  /\ PointsPlaced(r.claims.sentences, r.draft.blocks, d.flat, d.paras, r.resolved)

(* The claims have sentences in their places.                               *)
ClaimsSpan == claims.by >= 1 /\ Spans(claims.sentences)

(* All of it, as far as the request is.                                     *)
RequestPlaced(r, d) ==
  /\ r.pc \in Progress /\ r.format \in Formats \cup {"md"}
  /\ r.pc \in {"claims", "bundle", "resolve", "insert", "done"} => Spans(r.claims.sentences)
  /\ r.pc \in {"none", "draft", "claims", "bundle"} => r.outcomes = <<>>
  /\ OutcomesTyped(r) /\ Range(d.audit) \subseteq Statuses
  /\ IF Writing(r) THEN DocKept(r, d) ELSE d.paras = <<>> /\ (r.format = "docx" => r.outcomes = <<>>)
  /\ r.pc \in {"resolve", "insert"} => StepsPlaced(r, d)

(* The inductive invariant of the citations' places.                        *)
PlacesKept == ClaimsSpan /\ RequestPlaced(request, doc)

(* No outcomes are typed.                                                   *)
LEMMA NoOutcomes ==
  ASSUME NEW r, r.outcomes = <<>>
  PROVE  OutcomesTyped(r)
<1>1. <<>> \in Seq(Range(<<>>)) /\ DOMAIN <<>> = {}
  OBVIOUS
<1> QED
  BY <1>1 DEF OutcomesTyped

LEMMA InitPlaced ==
  ASSUME Init, ExportKept
  PROVE  PlacesKept
<1>1. claims = Detected(parsed, 1) /\ request = NoRequest /\ doc = NoDocument
  BY DEF Init
<1>2. Spans(parsed.sentences)
  BY DraftSpans DEF ExportKept, TablesKept
<1>3. ClaimsSpan
  BY <1>1, <1>2 DEF ClaimsSpan, Detected
<1>4. /\ request.pc = "none" /\ request.format = "md" /\ request.outcomes = <<>>
      /\ doc.audit = <<>> /\ doc.paras = <<>>
  BY <1>1 DEF NoRequest, NoDocument
<1>5. Range(doc.audit) \subseteq Statuses
  BY <1>4 DEF Range
<1>6. OutcomesTyped(request)
  BY <1>4, NoOutcomes
<1>7. RequestPlaced(request, doc)
  BY <1>4, <1>5, <1>6 DEF RequestPlaced, Progress, Writing
<1> QED
  BY <1>3, <1>7 DEF PlacesKept

(* New tables, an acceptance or another analysis, do not touch the request. *)
LEMMA TablesPlaced ==
  ASSUME ExportKept, PlacesKept, UNCHANGED vars \/ Accept \/ Edit \/ Reparse \/ Redetect
  PROVE  PlacesKept'
<1>1. UNCHANGED <<request, doc>> /\ (UNCHANGED claims \/ claims' = Detected(parsed, 2))
  BY DEF vars, db, Accept, Edit, Reparse, Redetect
<1>2. Spans(parsed.sentences)
  BY DraftSpans DEF ExportKept, TablesKept
<1>3. ClaimsSpan'
  BY <1>1, <1>2 DEF ClaimsSpan, Detected, PlacesKept
<1> QED
  BY <1>1, <1>3 DEF PlacesKept

(* Nor do the steps before a document is opened.                            *)
LEMMA EarlyPlaced ==
  ASSUME ExportKept, PlacesKept, StartExport \/ ReadClaims \/ ReadAccepted \/ Refuse
  PROVE  PlacesKept'
<1>1. DOMAIN request = Fields
  BY DEF ExportKept, RequestKept, Fields
<1>2. UNCHANGED <<db, doc>>
  BY DEF StartExport, ReadClaims, ReadAccepted, Refuse
<1>3. ClaimsSpan /\ ClaimsSpan'
  BY <1>2 DEF PlacesKept, ClaimsSpan, db
<1>4. /\ Range(doc.audit) \subseteq Statuses
      /\ request.pc \in {"none", "draft", "claims", "bundle"} => request.outcomes = <<>> /\ doc.paras = <<>>
      /\ request.pc \in {"claims", "bundle"} => Spans(request.claims.sentences)
      /\ request.format \in Formats \cup {"md"}
  BY DEF PlacesKept, RequestPlaced, Writing
<1>5. CASE StartExport
  <2>1. request.pc = "none"
    BY <1>5 DEF StartExport
  <2>2. request'.pc = "draft" /\ request'.format \in Formats /\ request'.outcomes = <<>>
    BY <1>5 DEF StartExport, NoRequest
  <2>3. OutcomesTyped(request')
    BY <2>2, NoOutcomes
  <2>4. RequestPlaced(request', doc')
    BY <1>2, <1>4, <2>1, <2>2, <2>3 DEF RequestPlaced, Progress, Writing
  <2> QED
    BY <1>3, <2>4 DEF PlacesKept
<1>6. CASE ReadClaims
  <2>1. /\ request.pc = "draft" /\ request'.pc = "claims" /\ request'.format = request.format
        /\ request'.outcomes = request.outcomes /\ request'.claims = claims
    BY <1>1, <1>6 DEF ReadClaims, Fields
  <2>2. request'.outcomes = <<>>
    BY <1>4, <2>1
  <2>3. OutcomesTyped(request')
    BY <2>2, NoOutcomes
  <2>4. Spans(request'.claims.sentences)
    BY <1>3, <2>1 DEF ClaimsSpan
  <2>5. RequestPlaced(request', doc')
    BY <1>2, <1>4, <2>1, <2>2, <2>3, <2>4 DEF RequestPlaced, Progress, Writing
  <2> QED
    BY <1>3, <2>5 DEF PlacesKept
<1>7. CASE ReadAccepted
  <2>1. /\ request.pc = "claims" /\ request'.pc = "bundle" /\ request'.format = request.format
        /\ request'.outcomes = request.outcomes /\ request'.claims = request.claims
    BY <1>1, <1>7 DEF ReadAccepted, Fields
  <2>2. request'.outcomes = <<>>
    BY <1>4, <2>1
  <2>3. OutcomesTyped(request')
    BY <2>2, NoOutcomes
  <2>4. RequestPlaced(request', doc')
    BY <1>2, <1>4, <2>1, <2>2, <2>3 DEF RequestPlaced, Progress, Writing
  <2> QED
    BY <1>3, <2>4 DEF PlacesKept
<1>8. CASE Refuse
  <2>1. /\ request.pc = "bundle" /\ request'.pc = "refused" /\ request'.format = request.format
        /\ request'.outcomes = request.outcomes
    BY <1>1, <1>8 DEF Refuse, Fields
  <2>2. request'.outcomes = <<>>
    BY <1>4, <2>1
  <2>3. OutcomesTyped(request')
    BY <2>2, NoOutcomes
  <2>4. RequestPlaced(request', doc')
    BY <1>2, <1>4, <2>1, <2>2, <2>3 DEF RequestPlaced, Progress, Writing
  <2> QED
    BY <1>3, <2>4 DEF PlacesKept
<1> QED
  BY <1>5, <1>6, <1>7, <1>8

LEMMA AuditStatuses ==
  ASSUME NEW r
  PROVE  Range(Audit(r)) \subseteq Statuses
BY DEF Audit, Statuses, Range

LEMMA TablePlaced ==
  ASSUME ExportKept, PlacesKept, WriteTable
  PROVE  PlacesKept'
<1>1. DOMAIN request = Fields
  BY DEF ExportKept, RequestKept, Fields
<1>2. /\ request.pc = "bundle" /\ request.format \in {"csv", "json"} /\ UNCHANGED db
      /\ request' = [request EXCEPT !.pc = "done"]
      /\ doc'.audit = Audit(request) /\ doc'.paras = <<>>
  BY DEF WriteTable, NoDocument
<1>3. /\ request'.pc = "done" /\ request'.format = request.format
      /\ request'.outcomes = request.outcomes /\ request'.claims = request.claims
  BY <1>1, <1>2 DEF Fields
<1>4. ClaimsSpan' /\ request.outcomes = <<>> /\ Spans(request.claims.sentences)
      /\ request.format \in Formats \cup {"md"}
  BY <1>2 DEF PlacesKept, RequestPlaced, ClaimsSpan, db
<1>5. OutcomesTyped(request')
  BY <1>3, <1>4, NoOutcomes
<1>6. Range(doc'.audit) \subseteq Statuses
  BY <1>2, AuditStatuses
<1>7. RequestPlaced(request', doc')
  BY <1>2, <1>3, <1>4, <1>5, <1>6 DEF RequestPlaced, Progress, Writing
<1> QED
  BY <1>4, <1>7 DEF PlacesKept

(* Going on to the next paragraph.                                          *)
LEMMA NextParagraphPlaced ==
  ASSUME ExportKept, PlacesKept, NextParagraph
  PROVE  PlacesKept'
<1>1. DOMAIN request = Fields
  BY DEF ExportKept, RequestKept, Fields
<1>2. /\ request.pc = "insert" /\ UNCHANGED <<db, doc>>
      /\ request' = [request EXCEPT !.pc = "resolve"]
  BY DEF NextParagraph
<1>3. /\ request'.pc = "resolve" /\ request'.format = request.format
      /\ request'.outcomes = request.outcomes /\ request'.claims = request.claims
      /\ request'.draft = request.draft /\ request'.pending = request.pending
      /\ request'.resolved = request.resolved
  BY <1>1, <1>2 DEF Fields
<1>4. ClaimsSpan'
  BY <1>2 DEF PlacesKept, ClaimsSpan, db
<1>5. RequestPlaced(request', doc')
  BY <1>2, <1>3 DEF PlacesKept, RequestPlaced, Progress, Writing, OutcomesTyped, DocKept, StepsPlaced
<1> QED
  BY <1>4, <1>5 DEF PlacesKept

-----------------------------------------------------------------------------
(* Opening the document and resolving a paragraph keep the places.          *)

(* The claims that are not placed have outcomes of their own.               *)
LEMMA LostOutcomes ==
  ASSUME NEW X, NEW items, AreItems(items, X), NEW S \in SUBSET DOMAIN items, NEW r,
         ItemsFrom(r.claims.sentences, items),
         r.outcomes = [k \in DOMAIN Kept(items, S) |-> Outcome(Kept(items, S)[k].claim, "NO_BLOCK")]
  PROVE  OutcomesTyped(r) /\ \A c : ~ InsertedIn(r.outcomes, c)
<1> DEFINE lost == Kept(items, S)
           out == [k \in DOMAIN lost |-> Outcome(lost[k].claim, "NO_BLOCK")]
<1>1. items \in Seq(X)
  BY DEF AreItems
<1>2. lost \in Seq(X) /\ Selects(lost, items, S)
  BY <1>1, KeptSelects
<1> HIDE DEF lost
<1>3. PICK at : Chooses(at, lost, items, S)
  BY <1>2 DEF Selects
<1>4. \A k \in DOMAIN lost : lost[k].claim \in DOMAIN r.claims.sentences
  <2>1. \A k \in DOMAIN lost : at[k] \in DOMAIN items /\ lost[k] = items[at[k]]
    BY <1>3 DEF Chooses
  <2> QED
    BY <2>1 DEF ItemsFrom
<1>5. DOMAIN out = 1 .. Len(lost) /\ Len(lost) \in Nat /\ out = [k \in DOMAIN out |-> out[k]]
  BY <1>2
<1>6. \A k \in DOMAIN out : /\ out[k].claim = lost[k].claim /\ out[k].status = "NO_BLOCK"
                            /\ k \in DOMAIN lost
  BY DEF Outcome
<1> HIDE DEF out
<1>7. out \in Seq(Range(out))
  BY <1>5, FromFunction
<1>8. r.outcomes = out
  BY DEF out, lost
<1>9. \A k \in DOMAIN out : out[k].claim \in DOMAIN r.claims.sentences /\ out[k].status \in Statuses
  BY <1>4, <1>6 DEF Statuses
<1>10. \A c : ~ InsertedIn(out, c)
  BY <1>6 DEF InsertedIn
<1> QED
  BY <1>7, <1>8, <1>9, <1>10 DEF OutcomesTyped

LEMMA OpenPlaced ==
  ASSUME ExportKept, PlacesKept, OpenDocx
  PROVE  PlacesKept'
<1> DEFINE items == Items(request)
           without == {k \in DOMAIN items : BlockOf(request, items[k]) = {}}
           placed == Kept(items, DOMAIN items \ without)
           ss == request.claims.sentences
           bs == request.draft.blocks
<1>1. /\ request' = [request EXCEPT !.pc = "resolve", !.pending = Groups(placed),
                       !.outcomes = [k \in DOMAIN Kept(items, without) |->
                                       Outcome(Kept(items, without)[k].claim, "NO_BLOCK")]]
      /\ request.pc = "bundle" /\ request.format = "docx" /\ UNCHANGED db
      /\ doc'.paras = file.live.paras /\ doc'.flat = Walk(file.live) /\ doc'.source = file.live
      /\ doc'.audit = <<>>
  BY DEF OpenDocx, NoDocument
<1>2. DOMAIN request = Fields /\ request.resolved = <<>> /\ Loaded(request) /\ file.live \in AllFiles
  BY <1>1 DEF ExportKept, RequestKept, TablesKept, Fields
<1>3. AreItems(items, Range(items)) /\ ItemsFrom(ss, items)
  BY <1>2, ItemsOfLoaded, ItemsOfSentences
<1>4. without \in SUBSET DOMAIN items /\ DOMAIN items \ without \in SUBSET DOMAIN items
  OBVIOUS
<1>5. ss \in Seq(Range(ss)) /\ Spans(ss) /\ ClaimsSpan' /\ request.format \in Formats \cup {"md"}
  BY <1>1, <1>2 DEF Loaded, IsSentences, PlacesKept, RequestPlaced, ClaimsSpan, db
<1>6. \A k \in DOMAIN items : k \notin without => BlocksFor(bs, items[k].sentence) # {}
  BY DEF BlockOf, BlocksFor
<1>7. /\ request'.pc = "resolve" /\ request'.format = request.format
      /\ request'.claims = request.claims /\ request'.draft = request.draft
      /\ request'.pending = Groups(placed) /\ request'.resolved = <<>>
      /\ request'.outcomes = [k \in DOMAIN Kept(items, without) |->
                                Outcome(Kept(items, without)[k].claim, "NO_BLOCK")]
  BY <1>1, <1>2 DEF Fields
<1> HIDE DEF items, without
<1>8. OutcomesTyped(request') /\ \A c : ~ InsertedIn(request'.outcomes, c)
  <2>1. PICK r : r = request'
    OBVIOUS
  <2>2. ItemsFrom(r.claims.sentences, items)
    BY <1>3, <1>7, <2>1
  <2>3. r.outcomes = [k \in DOMAIN Kept(items, without) |->
                        Outcome(Kept(items, without)[k].claim, "NO_BLOCK")]
    BY <1>7, <2>1
  <2>4. OutcomesTyped(r) /\ \A c : ~ InsertedIn(r.outcomes, c)
    BY <1>3, <1>4, <2>2, <2>3, LostOutcomes
  <2> QED
    BY <2>1, <2>4
<1>9. Queued(ss, bs, Groups(placed))
  <2> DEFINE X == Range(items)
             S == DOMAIN items \ without
  <2>1. placed \in Seq(X) /\ Selects(placed, items, S)
    BY <1>3, <1>4, KeptSelects DEF AreItems
  <2> HIDE DEF placed
  <2>2. AreItems(placed, X)
    BY <1>3, <1>4, <2>1, ChosenItems
  <2>3. PICK at : Chooses(at, placed, items, S)
    BY <2>1 DEF Selects
  <2>4. \A k \in DOMAIN placed : at[k] \in DOMAIN items /\ at[k] \notin without /\ placed[k] = items[at[k]]
    BY <2>3 DEF Chooses
  <2>5. ItemsFrom(ss, placed)
    BY <1>3, <2>4 DEF ItemsFrom
  <2>6. \A k \in DOMAIN placed : BlocksFor(bs, placed[k].sentence) # {}
    BY <1>6, <2>4
  <2> QED
    BY <1>5, <2>2, <2>5, <2>6, GroupsAreQueued
<1>10. PointsPlaced(ss, bs, doc'.flat, doc'.paras, <<>>)
  BY DEF PointsPlaced
<1>11. StepsPlaced(request', doc')
  BY <1>7, <1>9, <1>10 DEF StepsPlaced
<1>12. /\ ParasKept(file.live.paras, file.live.paras)
       /\ \A id \in DOMAIN file.live.paras, c \in Nat \ {0} :
            Told(file.live.paras[id].runs) \in Seq(Others(c))
  BY <1>2, OpenedParas
<1>13. ClaimsPlaced(ss, bs, request'.outcomes, Walk(file.live), file.live.paras)
  BY <1>5, <1>8, <1>12, NothingPlaced
<1>14. DocKept(request', doc')
  BY <1>1, <1>2, <1>7, <1>12, <1>13 DEF DocKept
<1>15. Range(doc'.audit) \subseteq Statuses
  BY <1>1 DEF Range
<1>16. RequestPlaced(request', doc')
  BY <1>5, <1>7, <1>8, <1>11, <1>14, <1>15 DEF RequestPlaced, Progress, Writing
<1> QED
  BY <1>5, <1>16 DEF PlacesKept

LEMMA ResolvePlaced ==
  ASSUME ExportKept, PlacementKept, PlacesKept, ResolveParagraph
  PROVE  PlacesKept'
<1> DEFINE ss == request.claims.sentences
           bs == request.draft.blocks
           p == request.pending
<1>1. /\ request.pc = "resolve" /\ p # <<>> /\ UNCHANGED <<db, doc>>
      /\ request' = [request EXCEPT !.pc = "insert", !.pending = Tail(@), !.resolved = Points(Head(p))]
  BY DEF ResolveParagraph
<1>2. DOMAIN request = Fields /\ Loaded(request)
  BY <1>1 DEF ExportKept, RequestKept, Fields
<1>3. /\ request'.pc = "insert" /\ request'.format = request.format
      /\ request'.outcomes = request.outcomes /\ request'.claims = request.claims
      /\ request'.draft = request.draft /\ request'.pending = Tail(p)
      /\ request'.resolved = Points(Head(p))
  BY <1>1, <1>2 DEF Fields
<1>4. ClaimsSpan' /\ RequestPlaced(request, doc)
  BY <1>1 DEF PlacesKept, ClaimsSpan, db
<1>5. Spans(ss) /\ DocKept(request, doc) /\ Queued(ss, bs, p)
  BY <1>1, <1>4 DEF RequestPlaced, Writing, StepsPlaced
<1>6. IsBlocks(bs)
  BY <1>2 DEF Loaded, IsDraft
<1>7. p \in Seq(Range(p))
  BY <1>1 DEF PlacementKept, Once
<1>8. /\ 1 \in DOMAIN p /\ Head(p) = p[1]
      /\ \A k \in DOMAIN Tail(p) : k + 1 \in DOMAIN p /\ Tail(p)[k] = p[k + 1]
  BY <1>1, <1>7, TailOf
<1>9. QueuedGroup(ss, bs, Head(p))
  BY <1>5, <1>8 DEF Queued
<1>10. Queued(ss, bs, Tail(p))
  BY <1>5, <1>8 DEF Queued
<1>11. ParasKept(doc.source.paras, doc.paras) /\ \A k \in DOMAIN doc.flat : doc.flat[k] \in DOMAIN doc.paras
  BY <1>5, OpenedParas DEF DocKept, ParasKept
<1>12. PointsPlaced(ss, bs, doc.flat, doc.paras, Points(Head(p)))
  <2> HIDE DEF ss, bs, p
  <2>1. PICK group : group = Head(p)
    OBVIOUS
  <2>2. ss = request.claims.sentences /\ bs = request.draft.blocks
    BY DEF ss, bs
  <2>3. PointsPlaced(ss, bs, doc.flat, doc.paras, Points(group))
    BY <1>5, <1>6, <1>9, <1>11, <2>1, <2>2, PointsAreFound
  <2> QED
    BY <2>1, <2>3
<1>13. StepsPlaced(request', doc')
  BY <1>1, <1>3, <1>10, <1>12 DEF StepsPlaced
<1>14. DocKept(request', doc') /\ OutcomesTyped(request')
  BY <1>1, <1>3, <1>4, <1>5 DEF DocKept, RequestPlaced, OutcomesTyped
<1>15. RequestPlaced(request', doc')
  BY <1>1, <1>3, <1>4, <1>13, <1>14 DEF RequestPlaced, Progress, Writing
<1> QED
  BY <1>4, <1>15 DEF PlacesKept

-----------------------------------------------------------------------------
(* Inserting, finishing and writing Markdown keep the places, and so every  *)
(* step does.                                                               *)

(* A point that is not inserted at leaves the rest in place.                *)
LEMMA MismatchStep ==
  ASSUME NEW ss, NEW bs, NEW outs, outs \in Seq(Range(outs)), NEW flat, NEW paras,
         NEW v, v \in Seq(Range(v)), v # <<>>,
         ClaimsPlaced(ss, bs, outs, flat, paras), PointsPlaced(ss, bs, flat, paras, v),
         NEW y, y.status # "INSERTED"
  PROVE  ClaimsPlaced(ss, bs, Append(outs, y), flat, paras) /\ PointsPlaced(ss, bs, flat, paras, Tail(v))
<1> DEFINE more == Append(outs, y)
           rest == Tail(v)
<1>1. \A c : InsertedIn(more, c) <=> InsertedIn(outs, c)
  BY InsertedMore
<1>2. \A k \in DOMAIN rest : k \in Int /\ k + 1 \in DOMAIN v /\ rest[k] = v[k + 1]
  BY TailOf
<1> HIDE DEF more, rest
<1>3. ClaimsPlaced(ss, bs, more, flat, paras)
  <2>1. \A c, id : InsertedAt(ss, more, flat, c, id) <=> InsertedAt(ss, outs, flat, c, id)
    BY <1>1 DEF InsertedAt
  <2> QED
    BY <1>1, <2>1 DEF ClaimsPlaced
<1>4. \A k, l \in DOMAIN rest : k < l => k + 1 < l + 1
  BY <1>2
<1>5. PointsPlaced(ss, bs, flat, paras, rest)
  BY <1>2, <1>4 DEF PointsPlaced
<1> QED
  BY <1>3, <1>5 DEF more, rest

(* Outcomes stay typed as they are appended.                                *)
LEMMA MoreOutcomes ==
  ASSUME NEW r, OutcomesTyped(r), NEW y, y.claim \in DOMAIN r.claims.sentences, y.status \in Statuses,
         NEW q, q.outcomes = Append(r.outcomes, y), q.claims = r.claims
  PROVE  OutcomesTyped(q)
<1> DEFINE o == r.outcomes
           X == Range(o) \cup {y}
           more == Append(o, y)
<1>1. o \in Seq(X) /\ y \in X
  BY WiderSequence DEF OutcomesTyped
<1> HIDE DEF X
<1>2. more \in Seq(X)
  BY <1>1
<1>3. \A k \in DOMAIN more : (k \in DOMAIN o /\ more[k] = o[k]) \/ more[k] = y
  BY <1>1
<1>4. more \in Seq(Range(more))
  BY <1>2, OwnRange
<1> HIDE DEF more
<1>5. q.outcomes = more
  BY DEF more, o
<1> QED
  BY <1>3, <1>4, <1>5 DEF OutcomesTyped, o

LEMMA InsertPlaced ==
  ASSUME ExportKept, PlacementKept, PlacesKept, InsertNext
  PROVE  PlacesKept'
<1> DEFINE ss == request.claims.sentences
           bs == request.draft.blocks
           v == request.resolved
           outs == request.outcomes
           x == Head(v)
           found == x.point # Nowhere
           id == doc.flat[x.paragraph]
           y == Outcome(x.claim, IF found THEN "INSERTED" ELSE "POSITION_MISMATCH")
           new == PutAt(doc.paras, id, x, request.mode)
<1>1. /\ request.pc = "insert" /\ v # <<>> /\ UNCHANGED db
      /\ doc' = IF found THEN [doc EXCEPT !.paras = new] ELSE doc
      /\ request' = [request EXCEPT !.resolved = Tail(v), !.outcomes = Append(outs, y)]
  BY DEF InsertNext, PutAt
<1>2. DOMAIN request = Fields /\ Loaded(request) /\ DOMAIN doc = DocFields
  BY <1>1 DEF ExportKept, RequestKept, DocumentKept, Fields, DocFields
<1>3. /\ y.claim = x.claim /\ (found => y.status = "INSERTED") /\ (~ found => y.status = "POSITION_MISMATCH")
  BY DEF Outcome
<1> HIDE DEF y
<1>4. /\ request'.pc = "insert" /\ request'.format = request.format
      /\ request'.outcomes = Append(outs, y) /\ request'.claims = request.claims
      /\ request'.draft = request.draft /\ request'.pending = request.pending
      /\ request'.resolved = Tail(v)
  BY <1>1, <1>2 DEF Fields
<1>5. ClaimsSpan' /\ RequestPlaced(request, doc)
  BY <1>1 DEF PlacesKept, ClaimsSpan, db
<1>6. DocKept(request, doc) /\ StepsPlaced(request, doc) /\ OutcomesTyped(request)
  BY <1>1, <1>5 DEF RequestPlaced, Writing
<1>7. /\ ParasKept(doc.source.paras, doc.paras) /\ ClaimsPlaced(ss, bs, outs, doc.flat, doc.paras)
      /\ PointsPlaced(ss, bs, doc.flat, doc.paras, v)
  BY <1>6 DEF DocKept, StepsPlaced
<1>8. /\ outs \in Seq(Range(outs)) /\ v \in Seq(Range(v))
      /\ \A k \in DOMAIN outs : \A l \in DOMAIN v : outs[k].claim # v[l].claim
  BY <1>1 DEF PlacementKept, Once
<1>9. 1 \in DOMAIN v /\ x = v[1]
  BY <1>1, <1>8, TailOf
<1>10. ~ InsertedIn(outs, x.claim) /\ x.claim \in DOMAIN ss
  BY <1>7, <1>8, <1>9 DEF InsertedIn, PointsPlaced
<1>11. ss \in Seq(Range(ss))
  BY <1>2 DEF Loaded, IsSentences
<1>12. CASE found
  <2>1. doc' = [doc EXCEPT !.paras = new]
    BY <1>1, <1>12
  <2> HIDE DEF new
  <2>2. doc'.paras = new /\ doc'.flat = doc.flat /\ doc'.source = doc.source /\ doc'.audit = doc.audit
    BY <1>2, <2>1 DEF DocFields
  <2>3. /\ ClaimsPlaced(ss, bs, Append(outs, y), doc.flat, new)
        /\ PointsPlaced(ss, bs, doc.flat, new, Tail(v)) /\ ParasKept(doc.source.paras, new)
    <3> HIDE DEF ss, bs, outs, v
    <3>1. PICK x0 : x0 = x
      OBVIOUS
    <3>2. PICK flat, paras, old, mode : flat = doc.flat /\ paras = doc.paras /\ old = doc.source.paras
                                          /\ mode = request.mode
      OBVIOUS
    <3>3. PICK i0 : i0 = flat[x0.paragraph]
      OBVIOUS
    <3>4. new = PutAt(paras, i0, x0, mode)
      BY <3>1, <3>2, <3>3 DEF new
    <3>5. /\ x0 = Head(v) /\ x0.point # Nowhere /\ ~ InsertedIn(outs, x0.claim)
          /\ y.claim = x0.claim /\ y.status = "INSERTED"
      BY <1>3, <1>10, <1>12, <3>1
    <3>6. /\ ClaimsPlaced(ss, bs, outs, flat, paras) /\ PointsPlaced(ss, bs, flat, paras, v)
          /\ ParasKept(old, paras)
      BY <1>7, <3>2
    <3>7. StepDone(ss, bs, outs, flat, new, old, v, y)
      <4>1. /\ ss \in Seq(Range(ss)) /\ outs \in Seq(Range(outs)) /\ v \in Seq(Range(v)) /\ v # <<>>
        BY <1>1, <1>8, <1>11
      <4> HIDE DEF x, found
      <4> QED
        BY <4>1, <3>3, <3>4, <3>5, <3>6, InsertStep
    <3> QED
      BY <3>2, <3>7 DEF StepDone
  <2>4. DocKept(request', doc') /\ StepsPlaced(request', doc')
    BY <1>4, <1>6, <2>2, <2>3 DEF DocKept, StepsPlaced
  <2>5. y.status \in Statuses
    BY <1>3, <1>12 DEF Statuses
  <2>6. OutcomesTyped(request')
    BY <1>3, <1>4, <1>6, <1>10, <2>5, MoreOutcomes
  <2>7. RequestPlaced(request', doc')
    BY <1>1, <1>4, <1>5, <2>2, <2>4, <2>6 DEF RequestPlaced, Progress, Writing
  <2> QED
    BY <1>5, <2>7 DEF PlacesKept
<1>13. CASE ~ found
  <2>1. doc' = doc
    BY <1>1, <1>13
  <2>2. y.status # "INSERTED"
    BY <1>3, <1>13
  <2>3. ClaimsPlaced(ss, bs, Append(outs, y), doc.flat, doc.paras)
        /\ PointsPlaced(ss, bs, doc.flat, doc.paras, Tail(v))
    BY <1>1, <1>7, <1>8, <2>2, MismatchStep
  <2>4. DocKept(request', doc') /\ StepsPlaced(request', doc')
    BY <1>4, <1>6, <2>1, <2>3 DEF DocKept, StepsPlaced
  <2>5. y.status \in Statuses
    BY <1>3, <1>13 DEF Statuses
  <2>6. OutcomesTyped(request')
    BY <1>3, <1>4, <1>6, <1>10, <2>5, MoreOutcomes
  <2>7. RequestPlaced(request', doc')
    BY <1>1, <1>4, <1>5, <2>1, <2>4, <2>6 DEF RequestPlaced, Progress, Writing
  <2> QED
    BY <1>5, <2>7 DEF PlacesKept
<1> QED
  BY <1>12, <1>13

LEMMA FinishPlaced ==
  ASSUME ExportKept, PlacesKept, FinishDocx
  PROVE  PlacesKept'
<1> DEFINE listed == [doc EXCEPT !.references = Bibliography(Context(request.rows), request.style)]
<1>1. /\ request.pc = "resolve" /\ UNCHANGED db /\ request' = [request EXCEPT !.pc = "done"]
      /\ \E hasKeyword \in BOOLEAN :
           doc' = [IF hasKeyword THEN WithKeyword(request, listed) ELSE listed
                   EXCEPT !.audit = Audit(request)]
  BY DEF FinishDocx
<1>2. PICK e : doc' = [e EXCEPT !.audit = Audit(request)] /\ (e = WithKeyword(request, listed) \/ e = listed)
  BY <1>1
<1>3. /\ DOMAIN request = Fields /\ DOMAIN doc = DocFields /\ request.format = "docx"
  BY <1>1 DEF ExportKept, RequestKept, DocumentKept, Fields, DocFields
<1>4. /\ DOMAIN listed = DocFields /\ listed.paras = doc.paras /\ listed.flat = doc.flat
      /\ listed.source = doc.source
  BY <1>3 DEF DocFields
<1> HIDE DEF listed
<1>5. /\ request'.pc = "done" /\ request'.format = request.format
      /\ request'.outcomes = request.outcomes /\ request'.claims = request.claims
      /\ request'.draft = request.draft
  BY <1>1, <1>3 DEF Fields
<1>6. ClaimsSpan' /\ RequestPlaced(request, doc)
  BY <1>1 DEF PlacesKept, ClaimsSpan, db
<1>7. DocKept(request, doc) /\ OutcomesTyped(request)
  BY <1>1, <1>6 DEF RequestPlaced, Writing
<1>8. /\ ParasKept(doc.source.paras, doc.paras)
      /\ \A k \in DOMAIN doc.flat : doc.flat[k] \in DOMAIN doc.paras
  BY <1>7, OpenedParas DEF DocKept, ParasKept
<1>9. DOMAIN e = DocFields
  BY <1>2, <1>4, KeywordElsewhere DEF DocFields
<1>10. /\ e.flat = doc.flat /\ e.source = doc.source /\ ParasKept(doc.source.paras, e.paras)
       /\ \A id \in DOMAIN e.paras : Told(e.paras[id].runs) = Told(doc.paras[id].runs)
  <2>1. CASE e = listed
    BY <1>4, <1>8, <2>1
  <2>2. CASE e = WithKeyword(request, listed)
    <3>1. /\ ParasKept(doc.source.paras, listed.paras)
          /\ \A k \in DOMAIN listed.flat : listed.flat[k] \in DOMAIN listed.paras
      BY <1>4, <1>8
    <3>2. PICK old : old = doc.source.paras
      OBVIOUS
    <3>3. /\ e.flat = listed.flat /\ e.source = listed.source
          /\ ParasKept(old, e.paras)
          /\ \A id \in DOMAIN e.paras : Told(e.paras[id].runs) = Told(listed.paras[id].runs)
      BY <1>4, <2>2, <3>1, <3>2, KeywordPara
    <3> QED
      BY <1>4, <3>2, <3>3
  <2> QED
    BY <1>2, <2>1, <2>2
<1>11. /\ doc'.flat = e.flat /\ doc'.source = e.source /\ doc'.paras = e.paras
       /\ doc'.audit = Audit(request)
  BY <1>2, <1>9 DEF DocFields
<1>12. DOMAIN e.paras = DOMAIN doc.paras
  BY <1>8, <1>10 DEF ParasKept
<1>13. ClaimsPlaced(request.claims.sentences, request.draft.blocks, request.outcomes, doc.flat, e.paras)
  BY <1>7, <1>10, <1>12, SameTellings DEF DocKept
<1>14. DocKept(request', doc') /\ OutcomesTyped(request')
  BY <1>5, <1>7, <1>10, <1>11, <1>13 DEF DocKept, OutcomesTyped
<1>15. Range(doc'.audit) \subseteq Statuses
  BY <1>11, AuditStatuses
<1>16. RequestPlaced(request', doc')
  BY <1>1, <1>3, <1>5, <1>6, <1>14, <1>15 DEF RequestPlaced, Progress, Writing
<1> QED
  BY <1>6, <1>16 DEF PlacesKept

LEMMA MarkdownPlaced ==
  ASSUME ExportKept, PlacesKept, WriteMarkdown
  PROVE  PlacesKept'
<1> DEFINE parts == PartOutcomes(request)
           whole == Concatenated(parts)
           ss == request.claims.sentences
           items == Items(request)
<1>1. request.pc = "bundle" /\ request.format = "md" /\ UNCHANGED db
      /\ doc'.audit = Audit(request) /\ doc'.paras = <<>>
  BY DEF WriteMarkdown, NoDocument
<1>2. request' = [request EXCEPT !.pc = "done", !.outcomes = whole]
  <2> DEFINE blocks == [b \in DOMAIN request.draft.blocks |->
                          MarkdownBlock(request, request.draft.blocks[b])]
  <2>1. request' = [request EXCEPT !.pc = "done",
          !.outcomes = Concatenated([b \in DOMAIN blocks |-> blocks[b].outcomes])]
    BY DEF WriteMarkdown
  <2>2. [b \in DOMAIN blocks |-> blocks[b].outcomes] = PartOutcomes(request)
    BY DEF PartOutcomes, MarkdownBlock
  <2>3. QED
    BY <2>1, <2>2
<1>3. DOMAIN request = Fields /\ Loaded(request)
  BY <1>1 DEF ExportKept, RequestKept, Fields
<1> HIDE DEF whole
<1>4. /\ request'.pc = "done" /\ request'.format = "md" /\ request'.outcomes = whole
      /\ request'.claims = request.claims
  BY <1>1, <1>2, <1>3 DEF Fields
<1>5. ClaimsSpan' /\ Spans(ss) /\ request.format \in Formats \cup {"md"}
  BY <1>1 DEF PlacesKept, RequestPlaced, ClaimsSpan, db
<1>6. ItemsFrom(ss, items)
  BY <1>3, ItemsOfSentences
<1>7. whole \in Seq(MarkdownOutcomes(DOMAIN ss))
  <2> DEFINE Y == MarkdownOutcomes(DOMAIN ss)
             X == Range(items)
             blocks == request.draft.blocks
             its(b) == LastFirst(items, blocks[b].paragraph)
             n == Len(blocks)
  <2>1. AreItems(items, X)
    BY <1>3, ItemsOfLoaded
  <2>2. n \in Nat /\ DOMAIN blocks = 1 .. n
    BY <1>3 DEF Loaded, IsDraft, IsBlocks
  <2>3. /\ DOMAIN parts = 1 .. n /\ parts = [b \in DOMAIN parts |-> parts[b]]
        /\ \A b \in 1 .. n : parts[b] = InsertAll(blocks[b], its(b)).outcomes
    BY <2>2 DEF PartOutcomes
  <2> HIDE DEF items, parts, X, blocks, n, ss
  <2>4. ASSUME NEW b \in 1 .. n PROVE parts[b] \in Seq(Y)
    <3>1. PICK s : s = its(b)
      OBVIOUS
    <3>2. s \in Seq(X) /\ Selects(s, items, OfParagraph(items, blocks[b].paragraph))
      BY <2>1, <3>1, LastFirstSelects
    <3>3. PICK at : Chooses(at, s, items, OfParagraph(items, blocks[b].paragraph))
      BY <3>2 DEF Selects
    <3>4. \A k \in DOMAIN s : s[k].claim \in DOMAIN ss
      <4>1. \A k \in DOMAIN s : at[k] \in DOMAIN items /\ s[k] = items[at[k]]
        BY <3>3 DEF Chooses, OfParagraph
      <4> QED
        BY <1>6, <4>1 DEF ItemsFrom
    <3>5. PICK block : block = blocks[b]
      OBVIOUS
    <3>6. PICK C : C = DOMAIN ss
      OBVIOUS
    <3>7. \E out : out = InsertAll(block, s).outcomes /\ out \in Seq(MarkdownOutcomes(C))
      BY <3>2, <3>4, <3>6, InsertAllOutcomes
    <3> QED
      BY <2>3, <3>1, <3>5, <3>6, <3>7
  <2> HIDE DEF Y
  <2>5. Concatenated(parts) \in Seq(Y)
    BY <2>2, <2>3, <2>4, PutTogether
  <2> QED
    BY <2>5 DEF whole, Y
<1>8. OutcomesTyped(request')
  <2>1. whole \in Seq(Range(whole))
    BY <1>7, OwnRange
  <2>2. \A k \in DOMAIN whole : whole[k] \in MarkdownOutcomes(DOMAIN ss)
    BY <1>7, MembersOfSequence
  <2>3. \A o \in MarkdownOutcomes(DOMAIN ss) : o.claim \in DOMAIN ss /\ o.status \in Statuses
    BY DEF MarkdownOutcomes, Statuses
  <2> QED
    BY <1>4, <2>1, <2>2, <2>3 DEF OutcomesTyped
<1>9. Range(doc'.audit) \subseteq Statuses
  BY <1>1, AuditStatuses
<1>10. RequestPlaced(request', doc')
  BY <1>1, <1>4, <1>5, <1>8, <1>9 DEF RequestPlaced, Progress, Writing
<1> QED
  BY <1>5, <1>10 DEF PlacesKept

LEMMA NextPlaced ==
  ASSUME ExportKept, PlacementKept, PlacesKept, [Next]_vars
  PROVE  PlacesKept'
<1>1. CASE UNCHANGED vars \/ Accept \/ Edit \/ Reparse \/ Redetect
  BY <1>1, TablesPlaced
<1>2. CASE Export
  BY <1>2, EarlyPlaced, OpenPlaced, ResolvePlaced, InsertPlaced, NextParagraphPlaced,
     FinishPlaced, MarkdownPlaced, TablePlaced DEF Export
<1> QED
  BY <1>1, <1>2 DEF Next

-----------------------------------------------------------------------------
(* What the places say of the document written.                             *)

(* The words before a place: those of the block before the sentence, and of *)
(* the sentence before what ends it.                                        *)
LEMMA PlaceIs ==
  ASSUME NEW b, NEW s, IsSpan(s), b.start \in Nat, b.text \in Seq(Character), Reads(b.text, b, s),
         NEW n, n = InsertionOffset(s.text)
  PROVE  /\ OffsetIs(s.text, n)
         /\ Joined(Slice(b.text, 0, s.start - b.start), SubSeq(s.text, 1, n)) = Take(b.text, s.start - b.start + n)
<1>1. OffsetIs(s.text, n)
  BY InsertionOffsetIs DEF IsSpan
<1>2. PICK t \in Seq(Character) : t = b.text
  OBVIOUS
<1>3. PICK i, j, u : i = s.start - b.start /\ j = s.end - b.start /\ u = s.text
  OBVIOUS
<1>4. /\ i \in Nat /\ j \in Nat /\ i <= j /\ j <= Len(t) /\ u = Slice(t, i, j) /\ Len(u) = j - i
  <2>1. /\ b.start <= s.start /\ s.end <= b.start + Len(t) /\ u = Slice(t, i, j)
    BY <1>2, <1>3 DEF Reads
  <2>2. s.start \in Nat /\ s.end \in Nat /\ s.start < s.end /\ Len(u) = s.end - s.start
    BY <1>3 DEF IsSpan
  <2>3. Len(t) \in Nat
    OBVIOUS
  <2>4. i \in Nat /\ j \in Nat /\ i <= j /\ j <= Len(t) /\ s.end - s.start = j - i
    <3>1. \A x, y, z, l \in Nat : x <= y /\ y < z /\ z <= x + l =>
            y - x \in Nat /\ z - x \in Nat /\ y - x <= z - x /\ z - x <= l /\ z - y = (z - x) - (y - x)
      OBVIOUS
    <3>2. b.start \in Nat
      OBVIOUS
    <3>3. PICK x, y, z, l \in Nat : x = b.start /\ y = s.start /\ z = s.end /\ l = Len(t)
      BY <2>2, <2>3, <3>2
    <3>4. x <= y /\ y < z /\ z <= x + l /\ i = y - x /\ j = z - x
      BY <1>2, <1>3, <2>1, <2>2, <3>3
    <3> QED
      BY <3>1, <3>3, <3>4, ZenonT(40)
  <2> QED
    BY <2>1, <2>2, <2>4
<1>5. n \in Nat /\ n <= j - i
  BY <1>1, <1>3, <1>4 DEF OffsetIs
<1>6. Joined(Slice(t, 0, i), SubSeq(u, 1, n)) = Take(t, i + n)
  BY <1>4, <1>5, TextBefore
<1> QED
  BY <1>1, <1>2, <1>3, <1>6

LEMMA WordsOfRuns ==
  ASSUME NEW p, p.runs \in Seq(DocRuns)
  PROVE  Solids(OwnText(p)) = OwnWords(p.runs)
BY ParagraphTexts, OwnTextWords

(* Where a sentence ends, as the property states it.                        *)
LEMMA EndsInTerminal ==
  ASSUME NEW X, NEW t \in Seq(X), NEW n \in 0 .. Len(t), \A i \in n + 1 .. Len(t) : t[i] \in Terminal
  PROVE  Range(SubSeq(t, n + 1, Len(t))) \subseteq Terminal
<1>1. PICK u : u = SubSeq(t, n + 1, Len(t))
  OBVIOUS
<1>2. DOMAIN u = 1 .. Len(t) - n /\ \A k \in 1 .. Len(t) - n : u[k] = t[n + k]
  BY <1>1
<1>3. \A k \in 1 .. Len(t) - n : n + k \in n + 1 .. Len(t)
  OBVIOUS
<1>4. \A k \in DOMAIN u : u[k] \in Terminal
  BY <1>2, <1>3
<1> QED
  BY <1>1, <1>4 DEF Range

(* A claim's citation, where it is reported as inserted.                    *)
StandsFor(p, b, s, c) ==
  LET mine == {r \in DOMAIN p.runs : p.runs[r].claim = c}
      before(n) == Slice(b.text, 0, s.start - b.start) \o SubSeq(s.text, 1, n)
      ending == {n \in 0 .. Len(s.text) : Range(SubSeq(s.text, n + 1, Len(s.text))) \subseteq Terminal
                                            /\ (n > 0 => s.text[n] \notin Terminal)}
  IN /\ Cardinality(mine) = 1
     /\ \A r \in mine : \E n \in ending :
          Solids(OwnText([p EXCEPT !.runs = SubSeq(p.runs, 1, r - 1)])) = Solids(before(n))

LEMMA CitedStandsFor ==
  ASSUME NEW p, "runs" \in DOMAIN p, p.runs \in Seq(DocRuns), NEW c \in Nat \ {0}, NEW b, NEW s,
         IsSpan(s), b.start \in Nat, b.text \in Seq(Character), Reads(b.text, b, s),
         Cited(Told(p.runs), c, Place(b, s))
  PROVE  StandsFor(p, b, s, c)
<1> DEFINE runs == p.runs
           mine == {r \in DOMAIN p.runs : p.runs[r].claim = c}
           n == InsertionOffset(s.text)
           before(k) == Slice(b.text, 0, s.start - b.start) \o SubSeq(s.text, 1, k)
           ending == {k \in 0 .. Len(s.text) : Range(SubSeq(s.text, k + 1, Len(s.text))) \subseteq Terminal
                                                 /\ (k > 0 => s.text[k] \notin Terminal)}
<1>1. /\ OffsetIs(s.text, n)
      /\ Joined(Slice(b.text, 0, s.start - b.start), SubSeq(s.text, 1, n)) = Take(b.text, s.start - b.start + n)
  BY PlaceIs
<1>2. n \in ending
  <2>1. PICK t \in Seq(Character) : t = s.text
    BY DEF IsSpan
  <2>2. n \in 0 .. Len(t) /\ (\A i \in n + 1 .. Len(t) : t[i] \in Terminal) /\ (n > 0 => t[n] \notin Terminal)
    BY <1>1, <2>1 DEF OffsetIs
  <2> HIDE DEF n
  <2>3. Range(SubSeq(t, n + 1, Len(t))) \subseteq Terminal
    BY <2>2, EndsInTerminal
  <2> QED
    BY <2>1, <2>2, <2>3
<1>3. Solids(before(n)) = Place(b, s)
  <2>1. before(n) = Take(b.text, s.start - b.start + n)
    BY <1>1, Zenon DEF Joined
  <2> HIDE DEF before
  <2> QED
    BY <2>1, SolidsAre DEF Place
<1>4. /\ Cardinality(mine) = 1
      /\ \A r \in mine : OwnWords(SubSeq(runs, 1, r - 1)) = Place(b, s)
  <2>1. PICK w : w = Place(b, s)
    OBVIOUS
  <2>2. PICK rs \in Seq(DocRuns) : rs = p.runs
    OBVIOUS
  <2>3. Cited(Told(rs), c, w)
    BY <2>1, <2>2
  <2>4. mine = {r \in DOMAIN rs : rs[r].claim = c}
    BY <2>2
  <2> HIDE DEF mine
  <2>5. StandsAlone(rs, mine, w)
    BY <2>3, <2>4, CitedStands
  <2> QED
    BY <2>1, <2>2, <2>5 DEF StandsAlone
<1>5. ASSUME NEW r \in mine
      PROVE  Solids(OwnText([p EXCEPT !.runs = SubSeq(p.runs, 1, r - 1)])) = Solids(before(n))
  <2>1. PICK q : q = [p EXCEPT !.runs = SubSeq(p.runs, 1, r - 1)] /\ q.runs = SubSeq(runs, 1, r - 1)
    <3>1. \A v : [p EXCEPT !.runs = v].runs = v
      OBVIOUS
    <3>2. [p EXCEPT !.runs = SubSeq(p.runs, 1, r - 1)].runs = SubSeq(p.runs, 1, r - 1)
      BY <3>1
    <3> QED
      BY <3>2
  <2>2. SubSeq(runs, 1, r - 1) \in Seq(DocRuns)
    <3>1. r \in 1 .. Len(runs)
      OBVIOUS
    <3> HIDE DEF runs, mine
    <3>2. runs \in Seq(DocRuns)
      BY DEF runs
    <3> QED
      BY <3>1, <3>2, OneLonger
  <2>3. Solids(OwnText(q)) = OwnWords(q.runs)
    BY <2>1, <2>2, WordsOfRuns
  <2> QED
    BY <1>3, <1>4, <2>1, <2>3
<1> HIDE DEF mine, ending, n, before
<1>6. /\ Cardinality(mine) = 1
      /\ \A r \in mine : \E k \in ending :
           Solids(OwnText([p EXCEPT !.runs = SubSeq(p.runs, 1, r - 1)])) = Solids(before(k))
  BY <1>2, <1>4, <1>5
<1> QED
  BY <1>6, Zenon DEF StandsFor, mine, ending, before

(* What is kept of a paragraph, in the words of the property.               *)
LEMMA KeptTexts ==
  ASSUME NEW old, old.runs \in Seq(DocRuns), NEW new, ParaKept(old, new)
  PROVE  /\ Solids(OwnText(new)) = Solids(OwnText(old))
         /\ OwnText(new) = OwnText(old) \/ \E r \in DOMAIN old.runs : Range(old.runs[r].chars) \cap Elements # {}
<1>1. /\ new.runs \in Seq(DocRuns) /\ OwnWords(new.runs) = OwnWords(old.runs)
      /\ (\A i \in DOMAIN old.runs : NoElements(old.runs[i])) => Own(new.runs) = Own(old.runs)
  BY DEF ParaKept
<1>2. Solids(OwnText(new)) = Solids(OwnText(old))
  BY <1>1, WordsOfRuns
<1>3. OwnText(new) = Own(new.runs) /\ OwnText(old) = Own(old.runs)
  BY <1>1, ParagraphTexts
<1>4. ASSUME NEW i \in DOMAIN old.runs, ~ NoElements(old.runs[i])
      PROVE  Range(old.runs[i].chars) \cap Elements # {}
  BY <1>4 DEF NoElements, Range
<1> QED
  BY <1>1, <1>2, <1>3, <1>4

(* The places of the invariant are those of the property.                   *)
LEMMA PlacesHold ==
  ASSUME ExportKept, PlacesKept
  PROVE  CitationsInPlace
<1> DEFINE outs == request.outcomes
           ss == request.claims.sentences
           bs == request.draft.blocks
<1>1. RequestPlaced(request, doc)
  BY DEF PlacesKept
<1>2. CASE request.format = "docx" /\ ~ Writing(request)
  <2>1. outs = <<>> /\ doc.paras = <<>>
    BY <1>1, <1>2 DEF RequestPlaced
  <2>2. {x \in Range(outs) : x.status = "INSERTED"} = {} /\ DOMAIN doc.paras = {}
    BY <2>1 DEF Range
  <2> QED
    BY <2>2 DEF CitationsInPlace
<1>3. CASE Writing(request)
  <2>1. DocKept(request, doc) /\ OutcomesTyped(request) /\ Spans(ss) /\ Loaded(request)
    BY <1>1, <1>3 DEF RequestPlaced, Writing, ExportKept, RequestKept
  <2>2. /\ doc.source \in AllFiles /\ ParasKept(doc.source.paras, doc.paras)
        /\ ClaimsPlaced(ss, bs, outs, doc.flat, doc.paras)
    BY <2>1 DEF DocKept
  <2>3. IsBlocks(bs) /\ ss \in Seq(Range(ss))
    BY <2>1 DEF Loaded, IsDraft, IsSentences
  <2>4. ASSUME NEW o \in {x \in Range(outs) : x.status = "INSERTED"}
        PROVE  StandsFor(doc.paras[doc.flat[ss[o.claim].paragraph]],
                         CHOOSE b \in Range(bs) : b.paragraph = ss[o.claim].paragraph, ss[o.claim], o.claim)
    <3> DEFINE c == o.claim
               s == ss[c]
               id == doc.flat[s.paragraph]
               p == doc.paras[id]
    <3>1. InsertedIn(outs, c)
      BY DEF InsertedIn, Range
    <3>2. c \in DOMAIN ss /\ id \in DOMAIN doc.paras
      BY <2>2, <3>1 DEF ClaimsPlaced
    <3>3. InsertedAt(ss, outs, doc.flat, c, id)
      BY <3>1 DEF InsertedAt
    <3>4. CitedFor(bs, s, p.runs, c)
      BY <2>2, <3>2, <3>3 DEF ClaimsPlaced
    <3>5. PICK k \in ReadBlocks(bs, s) : Cited(Told(p.runs), c, Place(bs[k], s))
      BY <3>4 DEF CitedFor
    <3>6. k \in DOMAIN bs /\ bs[k].paragraph = s.paragraph /\ Reads(bs[k].text, bs[k], s)
      BY <3>5 DEF ReadBlocks, BlocksFor
    <3>7. bs[k].start \in Nat /\ bs[k].text \in Seq(Character)
      BY <2>3, <3>6 DEF IsBlocks
    <3>8. (CHOOSE b \in Range(bs) : b.paragraph = s.paragraph) = bs[k]
      <4>1. bs[k] \in Range(bs)
        BY <3>6 DEF Range
      <4>2. \A b \in Range(bs) : b.paragraph = s.paragraph => b = bs[k]
        BY <2>3, <3>6 DEF IsBlocks, Range
      <4> QED
        BY <3>6, <4>1, <4>2
    <3>9. "runs" \in DOMAIN p /\ p.runs \in Seq(DocRuns)
      BY <2>2, <3>2 DEF ParasKept, ParaKept
    <3>10. c \in Nat \ {0} /\ IsSpan(s)
      BY <2>1, <2>3, <3>2 DEF Spans
    <3> HIDE DEF c, s, id, p
    <3>11. PICK b : b = bs[k]
      OBVIOUS
    <3>12. b.start \in Nat /\ b.text \in Seq(Character) /\ Reads(b.text, b, s) /\ Cited(Told(p.runs), c, Place(b, s))
      BY <3>5, <3>6, <3>7, <3>11
    <3>13. StandsFor(p, b, s, c)
      BY <3>9, <3>10, <3>12, CitedStandsFor
    <3> QED
      BY <3>8, <3>11, <3>13 DEF p, s, id, c
  <2>5. ASSUME NEW id \in DOMAIN doc.paras
        PROVE  /\ Solids(OwnText(doc.paras[id])) = Solids(OwnText(doc.source.paras[id]))
               /\ OwnText(doc.paras[id]) = OwnText(doc.source.paras[id])
                    \/ \E r \in DOMAIN doc.source.paras[id].runs :
                         Range(doc.source.paras[id].runs[r].chars) \cap Elements # {}
    <3>1. id \in DOMAIN doc.source.paras /\ ParaKept(doc.source.paras[id], doc.paras[id])
      BY <2>2 DEF ParasKept
    <3>2. ParasKept(doc.source.paras, doc.source.paras)
      BY <2>2, OpenedParas
    <3>3. doc.source.paras[id].runs \in Seq(DocRuns)
      BY <3>1, <3>2 DEF ParasKept, ParaKept
    <3> QED
      BY <3>1, <3>3, KeptTexts
  <2> QED
    BY <2>4, <2>5, Zenon DEF CitationsInPlace, StandsFor
<1> QED
  BY <1>2, <1>3 DEF CitationsInPlace

(* And its types are those of the model.                                    *)
LEMMA PlacesTyped ==
  ASSUME ExportKept, PlacesKept
  PROVE  TypeOK
<1>1. RequestPlaced(request, doc) /\ claims.by >= 1
  BY DEF PlacesKept, ClaimsSpan
<1>2. /\ request.pc \in Progress /\ request.format \in Formats \cup {"md"} /\ request.style \in Styles
      /\ Range(doc.audit) \subseteq Statuses
  BY <1>1 DEF RequestPlaced, ExportKept, RequestKept
<1>3. \A o \in Range(request.outcomes) : o.claim \in DOMAIN request.claims.sentences /\ o.status \in Statuses
  BY <1>1 DEF RequestPlaced, OutcomesTyped, Range
<1>4. \A row \in Range(accepted) : row.by \in 1 .. claims.by /\ row.ref \in References
  <2>1. accepted \in Seq(Rows) /\ claims.by \in Nat /\ \A row \in Range(accepted) : row.by = claims.by
    BY DEF ExportKept, TablesKept
  <2>2. \A row \in Range(accepted) : row \in Rows
    BY <2>1, RangeIsFinite
  <2>3. \A row \in Rows : row.ref \in References
    BY DEF Rows
  <2> QED
    BY <1>1, <2>1, <2>2, <2>3
<1>5. ASSUME NEW p \in DOMAIN doc.paras, NEW r \in DOMAIN doc.paras[p].runs
      PROVE  doc.paras[p].runs[r].tracked \in Tracked
  <2>1. doc.paras # <<>>
    <3>1. DOMAIN <<>> = {}
      OBVIOUS
    <3> QED
      BY <3>1
  <2>2. DocKept(request, doc)
    BY <1>1, <2>1 DEF RequestPlaced
  <2>3. doc.paras[p].runs \in Seq(DocRuns)
    BY <2>2 DEF DocKept, ParasKept, ParaKept
  <2>4. doc.paras[p].runs[r] \in DocRuns
    BY <2>3, MembersOfSequence
  <2> QED
    BY <2>4, DocRunsAre
<1> QED
  BY <1>2, <1>3, <1>4, <1>5 DEF TypeOK, Progress

(* The inductive invariant of the places: what the export keeps of its      *)
(* tables, what outcomes and points are, and where the citations stand.     *)
THEOREM PlacesAreKept == Spec => [](ExportKept /\ PlacementKept /\ PlacesKept)
<1>1. Init /\ ExportKept => PlacesKept
  BY InitPlaced
<1>2. Init => ExportKept
  BY InitKeeps
<1>3. Init => PlacementKept
  BY DEF Init, NoRequest, PlacementKept, OneOutcomeEach
<1>4. ExportKept /\ [Next]_vars => ExportKept'
  BY NextKeeps
<1>5. ExportKept /\ PlacementKept /\ [Next]_vars => PlacementKept'
  BY NextPlaces
<1>6. ExportKept /\ PlacementKept /\ PlacesKept /\ [Next]_vars => PlacesKept'
  BY NextPlaced
<1> QED
  BY <1>1, <1>2, <1>3, <1>4, <1>5, <1>6, PTL DEF Spec

(* Whatever the file and the library hold, every value of the export is of   *)
(* the type the model gives it: outcomes tell of claims of the draft, an      *)
(* acceptance names a paper, and the runs of the document being written are   *)
(* of a tracked kind (app/services/export/docx_writer.py:76-210).             *)
THEOREM ExportStaysTyped == Spec => []TypeOK
<1>1. ExportKept /\ PlacesKept => TypeOK
  BY PlacesTyped
<1> QED
  BY <1>1, PlacesAreKept, PTL

(* Whatever the file holds, a citation reported as inserted stands directly   *)
(* behind the words of the sentence it cites and before its terminal mark,    *)
(* in a run of its own of the sentence's paragraph, whatever the runs, the    *)
(* normalization of spaces and the citations inserted after it: the insertion *)
(* point found in the text of a paragraph is in the right place of its raw    *)
(* runs, and inserting the last sentences first moves none of the others      *)
(* (app/services/export/docx_writer.py:76-210, docx_ops.py:58-184).           *)
THEOREM CitationsStayInPlace == Spec => []CitationsInPlace
<1>1. ExportKept /\ PlacesKept => CitationsInPlace
  BY PlacesHold
<1> QED
  BY <1>1, PlacesAreKept, PTL

-----------------------------------------------------------------------------
(* The agreement with Markdown: what InsertInBlock does to a block, for a   *)
(* sentence that the block has.                                             *)

(* The beginning of a text, as marks.                                       *)
LEMMA PlainTake ==
  ASSUME NEW u \in Seq(Written), NEW n \in Nat, NEW m \in Nat, n <= m, m <= Len(u)
  PROVE  /\ Plain(Take(u, m)) \in Seq(Marks) /\ Len(Plain(Take(u, m))) = m
         /\ \A i \in 1 .. m : Plain(Take(u, m))[i] = <<u[i], 0>>
         /\ Take(Plain(Take(u, m)), n) = Plain(Take(u, n))
<1> DEFINE P(k) == /\ Plain(Take(u, k)) \in Seq(Marks) /\ Len(Plain(Take(u, k))) = k
                   /\ \A i \in 1 .. k : Plain(Take(u, k))[i] = <<u[i], 0>>
<1>1. ASSUME NEW k \in Nat, k <= Len(u) PROVE P(k)
  <2>1. Take(u, k) \in Seq(Written) /\ Len(Take(u, k)) = k /\ \A i \in DOMAIN Take(u, k) : Take(u, k)[i] = u[i]
    <3>1. /\ Take(u, k) \in Seq(Written) /\ Len(Take(u, k)) = IF k < Len(u) THEN k ELSE Len(u)
          /\ \A i \in DOMAIN Take(u, k) : Take(u, k)[i] = u[i]
      BY TakeIsPrefix
    <3>2. (IF k < Len(u) THEN k ELSE Len(u)) = k
      BY <1>1
    <3> QED
      BY <3>1, <3>2
  <2>2. DOMAIN Take(u, k) = 1 .. k
    BY <2>1
  <2>3. PICK w \in Seq(Written) : w = Take(u, k)
    BY <2>1
  <2>4. /\ Plain(w) \in Seq(Marks) /\ Len(Plain(w)) = Len(w)
        /\ \A i \in DOMAIN w : Plain(w)[i] = <<w[i], 0>>
    BY PlainText
  <2> QED
    BY <2>1, <2>2, <2>3, <2>4
<1>2. n <= Len(u)
  OBVIOUS
<1>3. P(m) /\ P(n)
  BY <1>1, <1>2
<1>4. PICK a \in Seq(Marks), b \in Seq(Marks) : a = Plain(Take(u, m)) /\ b = Plain(Take(u, n))
  BY <1>3
<1>5. /\ Len(a) = m /\ (\A i \in 1 .. m : a[i] = <<u[i], 0>>)
      /\ Len(b) = n /\ \A i \in 1 .. n : b[i] = <<u[i], 0>>
  BY <1>3, <1>4
<1>6. Take(a, n) = b
  <2>1. /\ Take(a, n) \in Seq(Marks) /\ Len(Take(a, n)) = IF n < Len(a) THEN n ELSE Len(a)
        /\ \A i \in DOMAIN Take(a, n) : Take(a, n)[i] = a[i]
    BY TakeIsPrefix
  <2>2. PICK c \in Seq(Marks) : c = Take(a, n)
    BY <2>1
  <2>3. Len(c) = n
    BY <1>5, <2>1, <2>2
  <2>4. \A i \in 1 .. n : c[i] = b[i]
    <3> TAKE i \in 1 .. n
    <3>1. i \in 1 .. m /\ i \in DOMAIN c
      BY <2>3
    <3> QED
      BY <1>5, <2>1, <2>2, <3>1
  <2> QED
    BY <1>5, <2>2, <2>3, <2>4, SameSequence
<1> QED
  BY <1>3, <1>4, <1>6

(* The text of a block after an insertion: the block's own words up to the  *)
(* end of the sentence, the citation and what followed.                     *)
InsertedText(block, s, c, m, rest, new) ==
  LET at == AtOf(block, s) IN
  /\ at \in 0 .. m
  /\ \E d \in Seq(Marks) :
       /\ Plain(Take(block.text, m)) = Joined(Plain(Take(block.text, at)), d)
       /\ new = Joined(Joined(Plain(Take(block.text, at)), Labelled(Cite, c)), Joined(d, rest))

(* Where InsertInBlock finds a sentence of the block.                       *)
LEMMA SentenceInText ==
  ASSUME NEW B, B \in Seq(Written), NEW m \in Nat, m <= Len(B), NEW rest \in Seq(Marks),
         NEW text, text = Joined(Plain(Take(B, m)), rest),
         NEW x \in Nat, NEW y \in Nat, x <= y, y <= m
  PROVE  Slice(Chars(text), x, y) = Slice(B, x, y)
<1>1. PICK a \in Seq(Marks) : a = Plain(Take(B, m)) /\ Len(a) = m /\ \A i \in 1 .. m : a[i] = <<B[i], 0>>
  <2>1. m <= m
    OBVIOUS
  <2> QED
    BY <2>1, PlainTake
<1>2. text \in Seq(Marks) /\ Joins(Marks, a, rest, text)
  BY <1>1, JoinedJoins
<1>3. PICK t \in Seq(Written) : t = Chars(text) /\ Len(t) = Len(text) /\ \A i \in 1 .. Len(text) : t[i] = text[i][1]
  <2>1. \A i \in 1 .. Len(text) : text[i] \in Marks
    BY <1>2
  <2>2. \A i \in 1 .. Len(text) : text[i][1] \in Written
    BY <2>1 DEF Marks
  <2>3. Chars(text) = [i \in 1 .. Len(text) |-> text[i][1]]
    BY <1>2 DEF Chars
  <2>4. [i \in 1 .. Len(text) |-> text[i][1]] \in Seq(Written)
    BY <1>2, <2>2
  <2>5. PICK t \in Seq(Written) : t = [i \in 1 .. Len(text) |-> text[i][1]]
    BY <2>4
  <2>6. Len(text) \in Nat
    BY <1>2
  <2>7. Len(t) = Len(text)
    BY <2>5, <2>6
  <2>8. \A i \in 1 .. Len(text) : t[i] = text[i][1]
    BY <2>5
  <2> QED
    BY <2>3, <2>5, <2>7, <2>8
<1>4. m <= Len(text)
  <2>1. Len(rest) \in Nat /\ Len(text) = m + Len(rest)
    BY <1>1, <1>2 DEF Joins
  <2> QED
    BY <2>1
<1>5. \A i \in 1 .. m : t[i] = B[i]
  <2> TAKE i \in 1 .. m
  <2>1. i \in 1 .. Len(text)
    BY <1>2, <1>4
  <2>2. text[i] = a[i] /\ a[i] = <<B[i], 0>>
    BY <1>1, <1>2 DEF Joins
  <2>3. t[i] = text[i][1]
    BY <1>3, <2>1
  <2> QED
    BY <2>2, <2>3
<1>6. y <= Len(t) /\ y <= Len(B)
  BY <1>3, <1>4, <1>2
<1>7. /\ Slice(t, x, y) \in Seq(Written) /\ Len(Slice(t, x, y)) = y - x
      /\ \A i \in 1 .. y - x : Slice(t, x, y)[i] = t[x + i]
  BY <1>6, SliceIsPart, Zenon
<1>8. /\ Slice(B, x, y) \in Seq(Written) /\ Len(Slice(B, x, y)) = y - x
      /\ \A i \in 1 .. y - x : Slice(B, x, y)[i] = B[x + i]
  BY <1>6, SliceIsPart, Zenon
<1>9. \A i \in 1 .. y - x : t[x + i] = B[x + i]
  <2>1. \A i \in 1 .. y - x : x + i \in 1 .. m
    OBVIOUS
  <2> QED
    BY <1>5, <2>1
<1>10. PICK u \in Seq(Written), v \in Seq(Written) : u = Slice(t, x, y) /\ v = Slice(B, x, y)
  BY <1>7, <1>8
<1>11. Len(u) = Len(v) /\ \A i \in 1 .. Len(u) : u[i] = v[i]
  BY <1>7, <1>8, <1>9, <1>10
<1>12. u = v
  BY <1>11, SameSequence
<1> QED
  BY <1>3, <1>10, <1>12

-----------------------------------------------------------------------------
(* A citation inserted in a block, up to what the earlier insertions left   *)
(* alone.                                                                   *)

(* The text after an insertion that leaves the first m characters, and the  *)
(* citation behind the sentence.                                            *)
LEMMA InsertsInBlock ==
  ASSUME NEW block, block.text \in Seq(Character), block.start \in Nat,
         NEW item, IsSpan(item.sentence), item.claim \in Nat, Reads(block.text, block, item.sentence),
         NEW m \in Nat, m <= Len(block.text), item.sentence.end - block.start <= m,
         NEW rest \in Seq(Marks), NEW acc, acc.text = Joined(Plain(Take(block.text, m)), rest)
  PROVE  InsertedText(block, item.sentence, item.claim, m, rest, InsertInBlock(block, acc, item).text)
<1> DEFINE s == item.sentence
           c == item.claim
           B == block.text
           x == s.start - block.start
           y == s.end - block.start
           node == [k \in 1 .. 2 |-> <<<<" ", "cite">>[k], item.claim>>]
           at == AtOf(block, s)
<1>1. B \in Seq(Written)
  BY GapIsCharacter, WiderSequence
<1>2. /\ s.start \in Nat /\ s.end \in Nat /\ s.start < s.end
      /\ s.text \in Seq(Character) /\ Len(s.text) = s.end - s.start
      /\ block.start <= s.start /\ Slice(B, x, y) = s.text
  BY DEF IsSpan, Reads
<1>3. x \in Nat /\ y \in Nat /\ x <= y /\ y <= m /\ y - x = Len(s.text)
  BY <1>2, SMTT(40)
<1>4. PICK w : w = InsertionOffset(s.text)
  OBVIOUS
<1>5. w \in 0 .. Len(s.text)
  BY <1>2, <1>4, InsertionOffsetIs DEF OffsetIs
<1>6. at = x + w /\ at \in 0 .. m
  <2>1. at = x + w
    BY <1>4 DEF AtOf
  <2> QED
    BY <1>3, <1>5, <2>1
<1>7. Slice(Chars(acc.text), x, y) = s.text
  BY <1>1, <1>2, <1>3, SentenceInText
<1>8. Cite = <<" ", "cite">> /\ DOMAIN Cite = 1 .. 2
  BY DEF Cite
<1>9. node = Labelled(Cite, c)
  BY <1>8 DEF Labelled
<1>10. InsertInBlock(block, acc, item).text
         = SubSeq(acc.text, 1, x + InsertionOffset(Slice(Chars(acc.text), x, y))) \o node
             \o SubSeq(acc.text, x + InsertionOffset(Slice(Chars(acc.text), x, y)) + 1, Len(acc.text))
  BY DEF InsertInBlock
<1>11. x + InsertionOffset(Slice(Chars(acc.text), x, y)) = at
  BY <1>4, <1>6, <1>7
<1> HIDE DEF node, x, y, at
<1>12. InsertInBlock(block, acc, item).text
         = (SubSeq(acc.text, 1, at) \o node) \o SubSeq(acc.text, at + 1, Len(acc.text))
  BY <1>10, <1>11
<1>13. PICK a, text : /\ a \in Seq(Marks) /\ a = Plain(Take(B, m)) /\ text = acc.text
                      /\ Len(a) = m /\ Take(a, at) = Plain(Take(B, at))
  <2>1. at \in Nat /\ at <= m
    BY <1>6
  <2> QED
    BY <1>1, <2>1, PlainTake
<1>14. text = Joined(a, rest)
  BY <1>13
<1>15. PICK u, d : Split(Marks, text, at, a, rest, u, d)
  <2>1. at \in Nat /\ at <= Len(a)
    BY <1>6, <1>13
  <2>2. a \in Seq(Marks) /\ rest \in Seq(Marks)
    BY <1>13
  <2> QED
    BY <1>14, <2>1, <2>2, SplitPart
<1>16. /\ d \in Seq(Marks) /\ a = Joined(u, d) /\ u = Plain(Take(B, at))
       /\ SubSeq(text, 1, at) = u /\ SubSeq(text, at + 1, Len(text)) = Joined(d, rest)
  BY <1>13, <1>15 DEF Split
<1>17. PICK new : new = InsertInBlock(block, acc, item).text
  OBVIOUS
<1>18. new = Joined(Joined(u, node), Joined(d, rest))
  BY <1>12, <1>13, <1>16, <1>17, Zenon DEF Joined
<1>19. new = Joined(Joined(Plain(Take(B, at)), Labelled(Cite, c)), Joined(d, rest))
  BY <1>9, <1>16, <1>18
<1>20. Plain(Take(B, m)) = Joined(Plain(Take(B, at)), d)
  BY <1>13, <1>16
<1>21. InsertedText(block, s, c, m, rest, new)
  BY <1>6, <1>16, <1>19, <1>20 DEF InsertedText, at
<1> QED
  BY <1>17, <1>21

-----------------------------------------------------------------------------
(* The words of the Markdown text of a block after some of its insertions.  *)

(* The Markdown text of a block after the first k of these items, in the    *)
(* steps acc of InsertAll: up to m the block's own.  t are its words.       *)
Follows(block, its, acc) ==
  /\ InsertAll(block, its) = acc[Len(its)]
  /\ acc[0] = [text |-> Plain(block.text), outcomes |-> <<>>]
  /\ \A k \in 1 .. Len(its) : acc[k] = InsertInBlock(block, acc[k - 1], its[k])
RestLies(block, its, k, m) ==
  \A j \in DOMAIN its :
    j > k /\ Reads(block.text, block, its[j].sentence) => its[j].sentence.end - block.start <= m
(* The block text up to m and what follows it, as marks and as words.       *)
TextOf(B, m, rest) == Joined(Plain(Take(B, m)), rest)
WordsIn(B, m, rest) == Joined(SpaceFree(Take(B, m)), Without(rest, SpaceMarks))
Upto(block, its, k, t) ==
  \E acc, m, rest :
    /\ Follows(block, its, acc) /\ m \in 0 .. Len(block.text) /\ rest \in Seq(Marks)
    /\ acc[k].text = TextOf(block.text, m, rest) /\ t = WordsIn(block.text, m, rest)
    /\ RestLies(block, its, k, m)

(* Before the first insertion the block is as it was.                       *)
LEMMA UptoNone ==
  ASSUME NEW block, block.text \in Seq(Character), block.start \in Nat, NEW X, NEW its \in Seq(X),
         \A j \in DOMAIN its : its[j].sentence.end \in Nat
  PROVE  Upto(block, its, 0, SpaceFree(block.text))
<1>1. PICK acc : Follows(block, its, acc)
  <2>1. \E acc : /\ InsertAll(block, its) = acc[Len(its)]
                 /\ acc[0] = [text |-> Plain(block.text), outcomes |-> <<>>]
                 /\ \A k \in 1 .. Len(its) : acc[k] = InsertInBlock(block, acc[k - 1], its[k])
    BY InsertionsOneByOne
  <2> QED
    BY <2>1 DEF Follows
<1>2. PICK B \in Seq(Written) : B = block.text
  BY GapIsCharacter, WiderSequence
<1>3. PICK m \in Nat : m = Len(B)
  BY <1>2
<1>4. Take(B, m) = B
  <2>1. SubSeq(B, 1, m) = B
    BY <1>3
  <2> QED
    BY <1>3, <2>1 DEF Take
<1>5. <<>> \in Seq(Marks) /\ Without(<<>>, SpaceMarks) = <<>>
  BY NothingWithout
<1>6. Plain(B) \in Seq(Marks) /\ SpaceFree(B) \in Seq(Marks)
  <2>1. Without(B, Space) \in Seq(Written)
    BY WithoutIsText
  <2> QED
    BY <2>1, PlainText DEF SpaceFree
<1>7. TextOf(B, m, <<>>) = Plain(B) /\ WordsIn(B, m, <<>>) = SpaceFree(B)
  <2>1. Joined(Plain(B), <<>>) = Plain(B) /\ Joined(SpaceFree(B), <<>>) = SpaceFree(B)
    BY <1>6, NothingJoined
  <2> QED
    BY <1>4, <1>5, <2>1 DEF TextOf, WordsIn
<1>8. acc[0].text = Plain(B)
  BY <1>1, <1>2 DEF Follows
<1>9. RestLies(block, its, 0, m)
  <2>1. ASSUME NEW j \in DOMAIN its, Reads(block.text, block, its[j].sentence)
        PROVE  its[j].sentence.end - block.start <= m
    <3>1. its[j].sentence.end <= block.start + m
      BY <1>2, <1>3, <2>1 DEF Reads
    <3> QED
      BY <3>1
  <2> QED
    BY <2>1 DEF RestLies
<1>10. m \in 0 .. Len(block.text)
  BY <1>2, <1>3
<1>11. acc[0].text = TextOf(block.text, m, <<>>) /\ SpaceFree(block.text) = WordsIn(block.text, m, <<>>)
  BY <1>2, <1>7, <1>8
<1> QED
  BY <1>1, <1>5, <1>9, <1>10, <1>11 DEF Upto

(* After the last the text is what InsertAll returns.                       *)
LEMMA UptoAll ==
  ASSUME NEW block, block.text \in Seq(Character), NEW its, NEW t, Upto(block, its, Len(its), t)
  PROVE  t = Words(InsertAll(block, its).text)
<1>1. PICK acc, m, rest :
        /\ Follows(block, its, acc) /\ m \in 0 .. Len(block.text) /\ rest \in Seq(Marks)
        /\ acc[Len(its)].text = TextOf(block.text, m, rest) /\ t = WordsIn(block.text, m, rest)
  BY DEF Upto
<1>2. InsertAll(block, its).text = TextOf(block.text, m, rest)
  BY <1>1 DEF Follows
<1>3. PICK B \in Seq(Written) : B = block.text
  BY GapIsCharacter, WiderSequence
<1>4. m \in Nat /\ m <= Len(B)
  BY <1>1, <1>3
<1>5. PICK u \in Seq(Written) : u = Take(B, m)
  BY <1>4, TakeIsPrefix
<1>6. Plain(u) \in Seq(Marks) /\ Without(Plain(u), SpaceMarks) = SpaceFree(u)
  BY PlainText, PlainWords DEF SpaceFree
<1>7. Joined(Plain(u), rest) \in Seq(Marks)
  BY <1>1, <1>6, JoinedParts
<1>8. Words(Joined(Plain(u), rest)) = Without(Joined(Plain(u), rest), SpaceMarks)
  BY <1>7, WordsAre
<1>9. PICK p \in Seq(Marks), q \in Seq(Marks) : p = Plain(u) /\ q = rest
  BY <1>1, <1>6
<1>10. Without(Joined(Plain(u), rest), SpaceMarks) = Joined(SpaceFree(u), Without(rest, SpaceMarks))
  <2>1. Without(Joined(p, q), SpaceMarks) = Joined(Without(p, SpaceMarks), Without(q, SpaceMarks))
    BY WithoutJoined
  <2> QED
    BY <1>6, <1>9, <2>1
<1> QED
  BY <1>1, <1>2, <1>3, <1>5, <1>8, <1>10 DEF TextOf, WordsIn

-----------------------------------------------------------------------------
(* The same citation inserted in the block and in the paragraph.            *)

(* Items in the order of their sentences, the last first.                   *)
BehindEach(its) ==
  /\ \A k \in DOMAIN its : IsSpan(its[k].sentence) /\ its[k].claim \in Nat \ {0}
  /\ \A k, l \in DOMAIN its : k < l => its[l].sentence.end <= its[k].sentence.start

(* The words of a text as marks.                                            *)
LEMMA PlainSpaceFree ==
  ASSUME NEW u \in Seq(Written)
  PROVE  Without(Plain(u), SpaceMarks) = SpaceFree(u) /\ SpaceFree(u) \in Seq(Marks)
<1>1. Without(u, Space) \in Seq(Written)
  BY WithoutIsText
<1>2. Plain(Without(u, Space)) \in Seq(Marks)
  BY <1>1, PlainText
<1> QED
  BY <1>2, PlainWords DEF SpaceFree

(* A paragraph whose words up to the citation are those of the block,       *)
(* before and after.                                                        *)
AtCitation(a, d, rest, p, f, v, c, more) ==
  /\ a \in Seq(Marks) /\ d \in Seq(Marks) /\ rest \in Seq(Marks) /\ p \in Seq(Marks)
  /\ f \in Seq(Marks) /\ v \in Seq(Marks) /\ c \in Nat \ {0}
  /\ p = Joined(a, d) /\ f = Without(a, SpaceMarks)
  /\ Joined(Without(p, SpaceMarks), Without(rest, SpaceMarks)) = Joined(f, v)
  /\ more = Joined(Labelled(Cite, c), Joined(d, rest))

CitationRead(a, d, rest, v, c, more) ==
  /\ more \in Seq(Marks) /\ Without(more, SpaceMarks) = Joined(<<Mark(c)>>, v)
  /\ Joined(Joined(a, Labelled(Cite, c)), Joined(d, rest)) = Joined(a, more)

(* The words behind the citation are those that were there.                 *)
LEMMA WordsAfter ==
  ASSUME NEW a, NEW d, NEW rest, NEW p, NEW f, NEW v, NEW c, NEW more,
         AtCitation(a, d, rest, p, f, v, c, more)
  PROVE  CitationRead(a, d, rest, v, c, more)
<1>0. /\ a \in Seq(Marks) /\ d \in Seq(Marks) /\ rest \in Seq(Marks) /\ p \in Seq(Marks)
      /\ f \in Seq(Marks) /\ v \in Seq(Marks) /\ c \in Nat \ {0}
      /\ p = Joined(a, d) /\ f = Without(a, SpaceMarks)
      /\ Joined(Without(p, SpaceMarks), Without(rest, SpaceMarks)) = Joined(f, v)
      /\ more = Joined(Labelled(Cite, c), Joined(d, rest))
  BY DEF AtCitation
<1> USE <1>0
<1>1. PICK n \in Seq(Marks) : n = Labelled(Cite, c) /\ Without(n, SpaceMarks) = <<Mark(c)>>
  <2>1. Labelled(Cite, c) \in Seq(Marks)
    BY CiteIs, LabelledText
  <2>2. Without(Labelled(Cite, c), SpaceMarks) = <<Mark(c)>>
    BY CiteWords
  <2> QED
    BY <2>1, <2>2
<1>2. PICK x \in Seq(Marks), y \in Seq(Marks) : x = Without(d, SpaceMarks) /\ y = Without(rest, SpaceMarks)
  BY WithoutIsText
<1>3. Without(p, SpaceMarks) = Joined(f, x)
  BY <1>2, WithoutJoined
<1>4. Joined(Joined(f, x), y) = Joined(f, v)
  BY <1>2, <1>3
<1>5. Joined(f, Joined(x, y)) = Joined(f, v) /\ Joined(x, y) \in Seq(Marks)
  BY <1>4, JoinedParts
<1>6. PICK z \in Seq(Marks) : z = Joined(x, y)
  BY <1>5
<1>7. z = v
  <2>1. Joined(f, z) = Joined(f, v)
    BY <1>5, <1>6
  <2> QED
    BY <2>1, SameBeginning
<1>8. PICK e \in Seq(Marks) : e = Joined(d, rest)
  BY JoinedParts
<1>9. Without(e, SpaceMarks) = v
  <2>1. Without(Joined(d, rest), SpaceMarks) = Joined(Without(d, SpaceMarks), Without(rest, SpaceMarks))
    BY WithoutJoined
  <2> QED
    BY <1>2, <1>6, <1>7, <1>8, <2>1, Zenon
<1>10. more = Joined(n, e) /\ more \in Seq(Marks)
  <2>1. more = Joined(n, e)
    BY <1>1, <1>8
  <2> QED
    BY <2>1, JoinedParts
<1>11. Without(Joined(n, e), SpaceMarks) = Joined(Without(n, SpaceMarks), Without(e, SpaceMarks))
  BY WithoutJoined
<1>12. Joined(Joined(a, n), e) = Joined(a, Joined(n, e))
  BY JoinedParts
<1> QED
  BY <1>1, <1>8, <1>9, <1>10, <1>11, <1>12 DEF CitationRead

(* One citation more in both.                                               *)
LEMMA UptoOneMore ==
  ASSUME NEW block, block.text \in Seq(Character), block.start \in Nat,
         NEW X, NEW its \in Seq(X), BehindEach(its),
         NEW k \in Nat, k + 1 \in DOMAIN its, NEW s, s = its[k + 1].sentence,
         NEW c, c = its[k + 1].claim, Reads(block.text, block, s),
         NEW v \in Seq(Marks), NEW w, w = Place(block, s), Upto(block, its, k, Joined(Plain(w), v))
  PROVE  Upto(block, its, k + 1, Joined(Plain(w), Joined(<<Mark(c)>>, v)))
<1> DEFINE t == Joined(Plain(w), v)
           at == AtOf(block, s)
<1>1. PICK acc, m, rest :
        /\ Follows(block, its, acc) /\ m \in 0 .. Len(block.text) /\ rest \in Seq(Marks)
        /\ acc[k].text = TextOf(block.text, m, rest) /\ t = WordsIn(block.text, m, rest)
        /\ RestLies(block, its, k, m)
  BY DEF Upto
<1>2. PICK B \in Seq(Written) : B = block.text
  BY GapIsCharacter, WiderSequence
<1>3. k + 1 \in 1 .. Len(its) /\ k + 1 > k /\ (k + 1) - 1 = k /\ k + 1 \in Nat
  OBVIOUS
<1>4. IsSpan(s) /\ c \in Nat \ {0} /\ s.start \in Nat /\ s.end \in Nat
  BY DEF BehindEach, IsSpan
<1>5. s.end - block.start <= m
  BY <1>1, <1>3 DEF RestLies
<1>6. m \in Nat /\ m <= Len(B)
  BY <1>1, <1>2
<1>7. acc[k + 1] = InsertInBlock(block, acc[k], its[k + 1])
  BY <1>1, <1>3 DEF Follows
<1>8. PICK item, old, new : item = its[k + 1] /\ old = acc[k] /\ new = InsertInBlock(block, old, item).text
  OBVIOUS
<1>9. InsertedText(block, s, c, m, rest, new)
  <2>1. old.text = Joined(Plain(Take(block.text, m)), rest)
    BY <1>1, <1>8 DEF TextOf
  <2>2. item.sentence = s /\ item.claim = c /\ c \in Nat
    BY <1>4, <1>8
  <2>3. m <= Len(block.text)
    BY <1>2, <1>6
  <2>4. InsertedText(block, item.sentence, item.claim, m, rest, InsertInBlock(block, old, item).text)
    BY <1>1, <1>4, <1>5, <1>6, <2>1, <2>2, <2>3, InsertsInBlock
  <2> QED
    BY <1>8, <2>2, <2>4
<1> HIDE DEF t, at
<1>10. at \in 0 .. m
  BY <1>9 DEF InsertedText, at
<1>11. PICK d \in Seq(Marks) :
         /\ Plain(Take(B, m)) = Joined(Plain(Take(B, at)), d)
         /\ new = Joined(Joined(Plain(Take(B, at)), Labelled(Cite, c)), Joined(d, rest))
  BY <1>2, <1>9 DEF InsertedText, at
<1>12. PICK x \in Seq(Written), y \in Seq(Written) : x = Take(B, at) /\ y = Take(B, m)
  <2>1. at \in Nat
    BY <1>10
  <2> QED
    BY <1>6, <2>1, TakeIsPrefix
<1>13. PICK a \in Seq(Marks), p \in Seq(Marks), f \in Seq(Marks) :
         /\ a = Plain(x) /\ p = Plain(y) /\ f = SpaceFree(x)
         /\ f = Without(a, SpaceMarks) /\ SpaceFree(y) = Without(p, SpaceMarks)
  BY PlainText, PlainSpaceFree
<1>14. f = Plain(w)
  BY <1>2, <1>12, <1>13 DEF Place, SpaceFree, at, AtOf
<1>15. p = Joined(a, d) /\ Joined(Without(p, SpaceMarks), Without(rest, SpaceMarks)) = Joined(f, v)
  <2>1. p = Joined(a, d)
    BY <1>11, <1>12, <1>13
  <2>2. Joined(Without(p, SpaceMarks), Without(rest, SpaceMarks)) = t
    BY <1>1, <1>2, <1>12, <1>13 DEF WordsIn
  <2> QED
    BY <1>14, <2>1, <2>2 DEF t
<1>16. PICK more : more = Joined(Labelled(Cite, c), Joined(d, rest))
  OBVIOUS
<1>17. /\ more \in Seq(Marks) /\ Without(more, SpaceMarks) = Joined(<<Mark(c)>>, v)
       /\ Joined(Joined(a, Labelled(Cite, c)), Joined(d, rest)) = Joined(a, more)
  <2>1. rest \in Seq(Marks) /\ f = Without(a, SpaceMarks) /\ c \in Nat \ {0}
    BY <1>1, <1>4, <1>13
  <2> QED
    <3>1. a \in Seq(Marks) /\ d \in Seq(Marks) /\ p \in Seq(Marks) /\ f \in Seq(Marks) /\ v \in Seq(Marks)
      BY <1>11, <1>13
    <3>2. /\ p = Joined(a, d) /\ Joined(Without(p, SpaceMarks), Without(rest, SpaceMarks)) = Joined(f, v)
          /\ more = Joined(Labelled(Cite, c), Joined(d, rest))
      BY <1>15, <1>16
    <3>3. AtCitation(a, d, rest, p, f, v, c, more)
      BY <1>1, <2>1, <3>1, <3>2 DEF AtCitation
    <3>4. CitationRead(a, d, rest, v, c, more)
      BY <3>3, WordsAfter
    <3> QED
      BY <3>4 DEF CitationRead
<1>18. new = TextOf(block.text, at, more)
  BY <1>2, <1>11, <1>12, <1>13, <1>17 DEF TextOf
<1>19. Joined(Plain(w), Joined(<<Mark(c)>>, v)) = WordsIn(block.text, at, more)
  BY <1>2, <1>12, <1>13, <1>14, <1>17 DEF WordsIn
<1>20. RestLies(block, its, k + 1, at)
  <2>1. ASSUME NEW j \in DOMAIN its, j > k + 1
        PROVE  its[j].sentence.end - block.start <= at
    <3>1. its[j].sentence.end <= s.start
      BY <1>3, <2>1 DEF BehindEach
    <3>2. its[j].sentence.end \in Nat
      BY <2>1 DEF BehindEach, IsSpan
    <3>3. PICK n : n = InsertionOffset(s.text)
      OBVIOUS
    <3>4. n \in Nat
      <4>1. s.text \in Seq(Character)
        BY <1>4 DEF IsSpan
      <4>2. OffsetIs(s.text, n)
        BY <3>3, <4>1, InsertionOffsetIs
      <4> QED
        BY <4>1, <4>2 DEF OffsetIs
    <3>5. at = s.start - block.start + n
      BY <3>3 DEF at, AtOf
    <3>6. PICK e0, x0, b0 : e0 = its[j].sentence.end /\ x0 = s.start /\ b0 = block.start
      OBVIOUS
    <3>7. e0 \in Nat /\ x0 \in Nat /\ b0 \in Nat /\ e0 <= x0
      BY <1>4, <3>1, <3>2, <3>6
    <3>8. e0 - b0 <= x0 - b0 + n
      BY <3>4, <3>7
    <3> QED
      BY <3>5, <3>6, <3>8
  <2> QED
    BY <2>1 DEF RestLies
<1>21. at \in 0 .. Len(block.text)
  BY <1>2, <1>6, <1>10
<1>22. acc[k + 1].text = TextOf(block.text, at, more)
  BY <1>7, <1>8, <1>18
<1> QED
  BY <1>1, <1>17, <1>19, <1>20, <1>21, <1>22 DEF Upto

-----------------------------------------------------------------------------
(* The claims of a paragraph are in the same order for both writers,        *)
(* whatever is left out.                                                    *)

(* Where the sentence of an item starts.                                    *)
StartOf(X) == [x \in X |-> IF x.sentence.start \in Int THEN x.sentence.start ELSE 0]

(* The items of a paragraph fall, the last first.                           *)
LEMMA GroupFalls ==
  ASSUME NEW X, NEW ss, ss \in Seq(Range(ss)), Spans(ss), NEW p,
         NEW group \in Seq(X), GroupOf(ss, group, p)
  PROVE  Falls(StartOf(X), group) /\ BehindEach(group)
<1>1. ASSUME NEW k \in 1 .. Len(group)
      PROVE  /\ IsSpan(group[k].sentence) /\ group[k].claim \in Nat \ {0}
             /\ StartOf(X)[group[k]] = group[k].sentence.start
  <2>1. /\ group[k].claim \in DOMAIN ss /\ group[k].sentence = ss[group[k].claim] /\ group[k] \in X
    BY DEF GroupOf
  <2>2. IsSpan(group[k].sentence)
    BY <2>1 DEF Spans
  <2>3. group[k].sentence.start \in Int
    BY <2>2 DEF IsSpan
  <2> QED
    BY <2>1, <2>2, <2>3 DEF StartOf
<1>2. ASSUME NEW k \in 1 .. Len(group), NEW l \in 1 .. Len(group), k < l
      PROVE  StartOf(X)[group[l]] < StartOf(X)[group[k]]
  <2>1. group[l].sentence.end <= group[k].sentence.start
    BY <1>2 DEF GroupOf
  <2>2. PICK a, b, c : a = group[l].sentence.start /\ b = group[l].sentence.end /\ c = group[k].sentence.start
    OBVIOUS
  <2>3. a \in Nat /\ b \in Nat /\ c \in Nat /\ a < b /\ b <= c
    BY <1>1, <2>1, <2>2 DEF IsSpan
  <2> QED
    BY <1>1, <2>2, <2>3
<1>3. DOMAIN group = 1 .. Len(group)
  OBVIOUS
<1> QED
  BY <1>1, <1>2, <1>3 DEF Falls, BehindEach, GroupOf

(* The items left out are none of the paragraph's.                          *)
LEMMA SameGroup ==
  ASSUME NEW X, NEW items, AreItems(items, X), NEW ss, ss \in Seq(Range(ss)), Spans(ss),
         ItemsFrom(ss, items), NEW S \in SUBSET DOMAIN items, NEW p, OfParagraph(items, p) \subseteq S
  PROVE  LastFirst(Kept(items, S), p) = LastFirst(items, p)
<1>1. PICK placed : placed = Kept(items, S)
  OBVIOUS
<1>2. placed \in Seq(X) /\ Selects(placed, items, S)
  BY <1>1, KeptSelects DEF AreItems
<1>3. AreItems(placed, X)
  BY <1>2, ChosenItems
<1>4. PICK a : Chooses(a, placed, items, S)
  BY <1>2 DEF Selects
<1>5. ItemsFrom(ss, placed)
  BY <1>4 DEF Chooses, ItemsFrom
<1>6. PICK u, v : u = LastFirst(placed, p) /\ v = LastFirst(items, p)
  OBVIOUS
<1>7. /\ u \in Seq(X) /\ GroupOf(ss, u, p) /\ Selects(u, placed, OfParagraph(placed, p))
      /\ v \in Seq(X) /\ GroupOf(ss, v, p) /\ Selects(v, items, OfParagraph(items, p))
  BY <1>3, <1>5, <1>6, LastFirstGroup
<1>8. Falls(StartOf(X), u) /\ Falls(StartOf(X), v)
  BY <1>7, GroupFalls
<1>9. PICK b, c : Chooses(b, u, placed, OfParagraph(placed, p)) /\ Chooses(c, v, items, OfParagraph(items, p))
  BY <1>7 DEF Selects
<1>10. ASSUME NEW i \in DOMAIN u PROVE \E j \in DOMAIN v : u[i] = v[j]
  <2>1. b[i] \in DOMAIN placed /\ u[i] = placed[b[i]] /\ placed[b[i]].sentence.paragraph = p
    BY <1>9 DEF Chooses, OfParagraph
  <2>2. PICK x \in DOMAIN items : placed[b[i]] = items[x]
    BY <1>4, <2>1 DEF Chooses
  <2>3. x \in OfParagraph(items, p)
    BY <2>1, <2>2 DEF OfParagraph
  <2>4. PICK j \in DOMAIN v : c[j] = x
    BY <1>9, <2>3 DEF Chooses
  <2> QED
    BY <1>9, <2>1, <2>2, <2>4 DEF Chooses
<1>11. ASSUME NEW j \in DOMAIN v PROVE \E i \in DOMAIN u : v[j] = u[i]
  <2>1. c[j] \in S /\ v[j] = items[c[j]] /\ items[c[j]].sentence.paragraph = p
    BY <1>9 DEF Chooses, OfParagraph
  <2>2. PICK y \in DOMAIN placed : a[y] = c[j]
    BY <1>4, <2>1 DEF Chooses
  <2>3. placed[y] = v[j] /\ y \in OfParagraph(placed, p)
    BY <1>4, <2>1, <2>2 DEF Chooses, OfParagraph
  <2>4. PICK i \in DOMAIN u : b[i] = y
    BY <1>9, <2>3 DEF Chooses
  <2> QED
    BY <1>9, <2>3, <2>4 DEF Chooses
<1>12. DOMAIN u = 1 .. Len(u) /\ DOMAIN v = 1 .. Len(v)
  BY <1>7
<1>13. Within(u, v) /\ Within(v, u)
  BY <1>10, <1>11, <1>12 DEF Within
<1>14. StartOf(X) \in [X -> Int]
  BY DEF StartOf
<1>15. u = v
  BY <1>7, <1>8, <1>13, <1>14, SameFall
<1> QED
  BY <1>1, <1>6, <1>15

-----------------------------------------------------------------------------
(* The groups are those of their paragraphs; what a run inserted tells.     *)

(* Each group is that of a paragraph.                                       *)
NamedGroup(items, group, p) ==
  group # <<>> /\ group[1].sentence.paragraph = p /\ group = LastFirst(items, p)

(* The groups of the claims are the items of their paragraphs.              *)
LEMMA GroupsNamed ==
  ASSUME NEW X, NEW items, AreItems(items, X), NEW g \in DOMAIN Groups(items)
  PROVE  \E p : NamedGroup(items, Groups(items)[g], p) /\ OfParagraph(items, p) # {}
<1> DEFINE P == {items[k].sentence.paragraph : k \in DOMAIN items}
           order == Ascending(P)
<1>1. DOMAIN items = 1 .. Len(items) /\ Len(items) \in Nat /\ P \in SUBSET Int
  BY DEF AreItems
<1>2. IsFiniteSet(P)
  <2> DEFINE f == [k \in DOMAIN items |-> items[k].sentence.paragraph]
  <2>1. f \in [DOMAIN items -> P] /\ \A t \in P : \E k \in DOMAIN items : f[k] = t
    OBVIOUS
  <2>2. IsFiniteSet(DOMAIN items)
    BY <1>1, FS_Interval
  <2> HIDE DEF f, P
  <2> QED
    BY <2>1, <2>2, ImageIsFinite
<1>3. Groups(items) = [h \in DOMAIN order |-> LastFirst(items, order[h])]
  BY DEF Groups
<1>4. \A p \in P : \E k \in DOMAIN items : items[k].sentence.paragraph = p
  OBVIOUS
<1> HIDE DEF P
<1>5. order \in Seq(P)
  BY <1>1, <1>2, AscendingEnumerates
<1> HIDE DEF order
<1>6. order[g] \in P /\ Groups(items)[g] = LastFirst(items, order[g])
  BY <1>3, <1>5
<1>7. PICK p, group : p = order[g] /\ group = LastFirst(items, p)
  OBVIOUS
<1>8. PICK x \in DOMAIN items : items[x].sentence.paragraph = p
  BY <1>4, <1>6, <1>7
<1>9. group \in Seq(X) /\ Selects(group, items, OfParagraph(items, p))
  BY <1>7, LastFirstSelects
<1>10. PICK at : Chooses(at, group, items, OfParagraph(items, p))
  BY <1>9 DEF Selects
<1>11. \E k \in DOMAIN group : at[k] = x
  BY <1>8, <1>10 DEF Chooses, OfParagraph
<1>12. 1 \in DOMAIN group /\ group # <<>>
  BY <1>9, <1>11
<1>13. group[1].sentence.paragraph = p
  BY <1>10, <1>12 DEF Chooses, OfParagraph
<1>14. OfParagraph(items, p) # {}
  BY <1>8 DEF OfParagraph
<1> QED
  BY <1>6, <1>7, <1>12, <1>13, <1>14 DEF NamedGroup

(* The text of a run inserted for a claim.                                  *)
LEMMA InsertedTells ==
  ASSUME NEW old, NEW p, ParaKept(old, p), NEW point, NEW w, At(p.runs, point, w),
         NEW c \in Nat \ {0}, NEW mode, NEW q, q = Insert(p, point, Node(c, mode))
  PROVE  \E v : Tells(p.runs, q.runs, c, w, v)
<1> DEFINE node == Node(c, mode)
           runs == p.runs
           new == q.runs
<1>1. node \in Citations /\ node.claim = c /\ node \in DocRuns
  BY NodeIsCitation
<1>2. "runs" \in DOMAIN p /\ runs \in Seq(DocRuns)
  BY DEF ParaKept
<1>3. \E a, b, f, g \in Seq(DocRuns) : Puts(runs, point, node, new, a, b, f, g)
  BY <1>1, <1>2, InsertPuts
<1>4. PICK a \in Seq(DocRuns), b \in Seq(DocRuns), f \in Seq(DocRuns), g \in Seq(DocRuns) :
        Puts(runs, point, node, new, a, b, f, g)
  BY <1>3
<1> HIDE DEF node, runs, new
<1>5. At(runs, point, w)
  BY DEF runs
<1>6. \E v : Tells(runs, new, node.claim, w, v)
  BY <1>1, <1>2, <1>4, <1>5, PutsTells
<1> QED
  BY <1>1, <1>6 DEF runs, new

(* What the paragraph tells is compared by its words.                       *)
LEMMA UptoTells ==
  ASSUME NEW block, block.text \in Seq(Character), block.start \in Nat,
         NEW X, NEW its \in Seq(X), BehindEach(its),
         NEW k \in Nat, k + 1 \in DOMAIN its, NEW s, s = its[k + 1].sentence,
         NEW c, c = its[k + 1].claim, Reads(block.text, block, s),
         NEW runs, NEW new, NEW w, w = Place(block, s), NEW v, Tells(runs, new, c, w, v),
         Upto(block, its, k, Told(runs))
  PROVE  Upto(block, its, k + 1, Told(new))
<1>1. v \in Seq(Marks) /\ Told(runs) = Joined(Plain(w), v)
  BY DEF Tells
<1>2. Told(new) = Joined(Plain(w), Joined(<<Mark(c)>>, v))
  BY DEF Tells
<1>3. Upto(block, its, k, Joined(Plain(w), v))
  BY <1>1
<1>4. Upto(block, its, k + 1, Joined(Plain(w), Joined(<<Mark(c)>>, v)))
  BY <1>1, <1>3, UptoOneMore
<1> QED
  BY <1>2, <1>4

(* Where a point is found, the paragraph tells the words of the block.      *)
LEMMA ResolvedTold ==
  ASSUME NEW runs, NEW block, NEW s, NEW point, ResolvesTo(runs, block, s, point)
  PROVE  Told(runs) = SpaceFree(block.text)
<1>1. PICK live : live = NormalizeWithMap(Live(runs))
  OBVIOUS
<1>2. runs \in Seq(DocRuns) /\ live.text = block.text /\ block.text \in Seq(Character)
  BY <1>1 DEF ResolvesTo, Resolving, Reads
<1>3. \A r \in 1 .. Len(runs) : runs[r].tracked = "del" \/ ~ OurRun(runs[r])
  BY <1>1, <1>2, NoneOfOurs
<1>4. Told(runs) = SpaceFree(Live(runs))
  BY <1>2, <1>3, LiveWords
<1>5. PICK raw \in Seq(Written) : raw = Live(runs)
  BY <1>2, TextsAre
<1>6. Without(raw, Space) = Without(live.text, Space)
  BY <1>1, <1>5, GapIsCharacter, NormalizedAll
<1> QED
  BY <1>2, <1>4, <1>5, <1>6 DEF SpaceFree

-----------------------------------------------------------------------------
(* The agreement as far as a request is: a paragraph with citations alone   *)
(* reads as its block with as many.                                         *)

(* A paragraph has outcomes, all of them insertions.                        *)
AllInserted(ss, outs, p) ==
  /\ \E k \in DOMAIN outs : ss[outs[k].claim].paragraph = p
  /\ \A k \in DOMAIN outs : ss[outs[k].claim].paragraph = p => outs[k].status = "INSERTED"

(* The points of a paragraph that wait, and what the paragraph tells.       *)
Waiting(v, p) == IF v # <<>> /\ v[1].paragraph = p THEN Len(v) ELSE 0
TextAt(flat, paras, p) == Told(paras[flat[p]].runs)

(* Such a paragraph reads as its block of the Markdown export with as many  *)
(* citations as are inserted.                                               *)
AgreesSoFar(items, ss, bs, outs, flat, paras, v) ==
  \A b \in DOMAIN bs :
    LET p == bs[b].paragraph
        its == LastFirst(items, p)
    IN AllInserted(ss, outs, p) =>
         \E k \in Nat : k + Waiting(v, p) = Len(its) /\ Upto(bs[b], its, k, TextAt(flat, paras, p))

(* The points still to be inserted at are those of a paragraph's last       *)
(* items; no other paragraph's citations stand where one of them is found.  *)
PointsNext(items, ss, bs, outs, flat, paras, v) ==
  v # <<>> =>
    LET p == v[1].paragraph
        its == LastFirst(items, p)
    IN /\ Len(v) <= Len(its)
       /\ \A i \in DOMAIN v : v[i].claim = its[Len(its) - Len(v) + i].claim
       /\ Len(v) < Len(its) => \E k \in DOMAIN outs : ss[outs[k].claim].paragraph = p
       /\ (\E i \in DOMAIN v : v[i].point # Nowhere) =>
            /\ \A c : InsertedIn(outs, c) /\ flat[ss[c].paragraph] = flat[p] => ss[c].paragraph = p
            /\ Len(v) = Len(its) =>
                 \A b \in DOMAIN bs : bs[b].paragraph = p => TextAt(flat, paras, p) = SpaceFree(bs[b].text)

(* No outcome is of a paragraph whose group is pending.                     *)
GroupsNext(items, ss, outs, groups) ==
  \A g \in DOMAIN groups :
    \E p : /\ NamedGroup(items, groups[g], p)
           /\ \A k \in DOMAIN outs : ss[outs[k].claim].paragraph # p

(* One outcome more, and what it adds of each paragraph.                    *)
AppendedTo(outs, y, more) ==
  /\ DOMAIN more = 1 .. Len(outs) + 1 /\ DOMAIN outs = 1 .. Len(outs) /\ Len(outs) \in Nat
  /\ \A k \in DOMAIN outs : k \in DOMAIN more /\ more[k] = outs[k]
  /\ \A k \in DOMAIN more : more[k] = y \/ k \in DOMAIN outs
  /\ \E k \in DOMAIN more : more[k] = y

(* An outcome adds one to its own paragraph alone.                          *)
LEMMA AppendedOne ==
  ASSUME NEW outs, outs \in Seq(Range(outs)), NEW y
  PROVE  AppendedTo(outs, y, Append(outs, y))
<1>1. PICK X : outs \in Seq(X) /\ y \in X
  <2>1. outs \in Seq(Range(outs) \cup {y})
    BY WiderSequence
  <2> QED
    BY <2>1
<1>2. /\ DOMAIN Append(outs, y) = 1 .. Len(outs) + 1 /\ DOMAIN outs = 1 .. Len(outs) /\ Len(outs) \in Nat
      /\ \A k \in 1 .. Len(outs) : Append(outs, y)[k] = outs[k]
      /\ Append(outs, y)[Len(outs) + 1] = y
  BY <1>1
<1> QED
  BY <1>2 DEF AppendedTo

(* The points v are of the last of its.                                     *)
LastOnes(its, v) ==
  /\ v \in Seq(Range(v)) /\ v # <<>> /\ \A i \in DOMAIN v : v[i].paragraph = v[1].paragraph
  /\ its \in Seq(Range(its)) /\ Len(v) <= Len(its)
  /\ \A i \in DOMAIN v : v[i].claim = its[Len(its) - Len(v) + i].claim

(* What becomes of the rest when the first point is done with.              *)
RestOf(its, v, k, t) ==
  /\ k \in Nat /\ k + 1 \in DOMAIN its /\ its[k + 1].claim = v[1].claim
  /\ Len(v) \in Nat /\ Len(its) \in Nat /\ Len(t) = Len(v) - 1
  /\ (k + 1) + Waiting(t, v[1].paragraph) = Len(its)
  /\ \A i \in DOMAIN t : /\ t[i].claim = its[Len(its) - Len(t) + i].claim
                         /\ t[i].paragraph = v[1].paragraph
  /\ \A p : p # v[1].paragraph => Waiting(t, p) = 0 /\ Waiting(v, p) = 0
  /\ Waiting(v, v[1].paragraph) = Len(v)

(* The rest of the points is of the items that follow.                      *)
LEMMA RestIsNext ==
  ASSUME NEW its, NEW v, LastOnes(its, v), NEW k, k = Len(its) - Len(v), NEW t, t = Tail(v)
  PROVE  RestOf(its, v, k, t)
<1>0. /\ v \in Seq(Range(v)) /\ v # <<>> /\ \A i \in DOMAIN v : v[i].paragraph = v[1].paragraph
      /\ its \in Seq(Range(its)) /\ Len(v) <= Len(its)
      /\ \A i \in DOMAIN v : v[i].claim = its[Len(its) - Len(v) + i].claim
  BY DEF LastOnes
<1> USE <1>0
<1>2. /\ t \in Seq(Range(t)) /\ 1 \in DOMAIN v
      /\ \A i \in DOMAIN t : i \in Int /\ i + 1 \in DOMAIN v /\ i + 1 # 1 /\ t[i] = v[i + 1]
  BY TailOf
<1>3. Len(t) = Len(v) - 1 /\ Len(v) \in Nat /\ Len(v) > 0 /\ Len(its) \in Nat /\ DOMAIN its = 1 .. Len(its)
  OBVIOUS
<1>4. k \in Nat /\ k + 1 \in DOMAIN its
  BY <1>3
<1>5. its[k + 1].claim = v[1].claim
  BY <1>2
<1>6. ASSUME NEW i \in DOMAIN t
      PROVE  t[i].claim = its[Len(its) - Len(t) + i].claim /\ t[i].paragraph = v[1].paragraph
  <2>1. i \in Int /\ i + 1 \in DOMAIN v /\ t[i] = v[i + 1]
    BY <1>2
  <2>2. Len(its) - Len(v) + (i + 1) = Len(its) - Len(t) + i
    BY <1>3, <2>1
  <2>3. v[i + 1].claim = its[Len(its) - Len(v) + (i + 1)].claim
    BY <2>1
  <2> QED
    BY <2>1, <2>2, <2>3
<1>7. t # <<>> => 1 \in DOMAIN t /\ t[1].paragraph = v[1].paragraph
  <2>1. t # <<>> => 1 \in DOMAIN t
    BY <1>2
  <2> QED
    BY <1>6, <2>1
<1>8. t = <<>> <=> Len(t) = 0
  BY <1>2, EmptyIs
<1>9. Waiting(t, v[1].paragraph) = Len(t)
  BY <1>7, <1>8 DEF Waiting
<1>10. \A p : p # v[1].paragraph => Waiting(t, p) = 0 /\ Waiting(v, p) = 0
  BY <1>7 DEF Waiting
<1>11. Waiting(v, v[1].paragraph) = Len(v)
  BY DEF Waiting
<1>12. (k + 1) + Len(t) = Len(its)
  <2>1. PICK m, n : m = Len(its) /\ n = Len(v)
    OBVIOUS
  <2>2. m \in Nat /\ n \in Nat /\ k = m - n /\ Len(t) = n - 1
    BY <1>3, <2>1
  <2> QED
    BY <2>1, <2>2
<1> QED
  BY <1>3, <1>4, <1>5, <1>6, <1>9, <1>10, <1>11, <1>12 DEF RestOf

-----------------------------------------------------------------------------
(* An insertion is that of the next item of its paragraph.                  *)

(* What is known when a citation is inserted, or found to have no place.    *)
Inserting(X, items, ss, bs, outs, flat, paras, old, v) ==
  /\ AreItems(items, X) /\ ss \in Seq(Range(ss)) /\ Spans(ss) /\ ItemsFrom(ss, items)
  /\ IsBlocks(bs) /\ outs \in Seq(Range(outs)) /\ v \in Seq(Range(v)) /\ v # <<>>
  /\ ClaimsPlaced(ss, bs, outs, flat, paras) /\ PointsPlaced(ss, bs, flat, paras, v)
  /\ ParasKept(old, paras)
  /\ AgreesSoFar(items, ss, bs, outs, flat, paras, v)
  /\ PointsNext(items, ss, bs, outs, flat, paras, v)

(* The first point is that of item k of its paragraph.                      *)
FirstPoint(ss, its, v, p, k, t) ==
  /\ 1 \in DOMAIN v /\ Head(v) = v[1] /\ p = v[1].paragraph
  /\ v[1].claim \in DOMAIN ss /\ v[1].claim \in Nat \ {0} /\ p = ss[v[1].claim].paragraph
  /\ BehindEach(its) /\ LastOnes(its, v) /\ RestOf(its, v, k, t)
  /\ its[k + 1].sentence = ss[v[1].claim]

(* The first of the points that are next.                                   *)
LEMMA FirstPointIs ==
  ASSUME NEW X, NEW items, NEW ss, NEW bs, NEW outs, NEW flat, NEW paras, NEW old, NEW v,
         Inserting(X, items, ss, bs, outs, flat, paras, old, v),
         NEW p, p = v[1].paragraph, NEW its, its = LastFirst(items, p), NEW k, k = Len(its) - Len(v),
         NEW t, t = Tail(v)
  PROVE  FirstPoint(ss, its, v, p, k, t)
<1>2. /\ AreItems(items, X) /\ ss \in Seq(Range(ss)) /\ Spans(ss) /\ ItemsFrom(ss, items)
      /\ v \in Seq(Range(v)) /\ v # <<>>
  BY DEF Inserting
<1>3. its \in Seq(X) /\ GroupOf(ss, its, p)
  BY <1>2, LastFirstGroup
<1>4. BehindEach(its) /\ its \in Seq(Range(its))
  BY <1>2, <1>3, GroupFalls, OwnRange
<1>5. 1 \in DOMAIN v /\ Head(v) = v[1]
  BY <1>2, TailOf
<1>6. /\ Len(v) <= Len(its)
      /\ \A i \in DOMAIN v : v[i].claim = its[Len(its) - Len(v) + i].claim
  BY <1>2 DEF Inserting, PointsNext
<1>7. v[1].claim \in DOMAIN ss /\ p = ss[v[1].claim].paragraph
  BY <1>5 DEF Inserting, PointsPlaced
<1>8. \A i \in DOMAIN v : v[i].paragraph = v[1].paragraph
  <2>1. \A i \in DOMAIN v : i = 1 \/ 1 < i
    BY <1>2
  <2> QED
    BY <1>5, <2>1 DEF Inserting, PointsPlaced
<1>9. LastOnes(its, v)
  BY <1>2, <1>4, <1>6, <1>8 DEF LastOnes
<1>10. RestOf(its, v, k, t)
  BY <1>9, RestIsNext
<1>11. k + 1 \in DOMAIN its /\ its[k + 1].claim = v[1].claim
  BY <1>10 DEF RestOf
<1>12. its[k + 1].sentence = ss[v[1].claim]
  BY <1>3, <1>11 DEF GroupOf
<1>13. v[1].claim \in Nat \ {0}
  BY <1>4, <1>11 DEF BehindEach
<1> QED
  BY <1>4, <1>5, <1>7, <1>9, <1>10, <1>12, <1>13 DEF FirstPoint

(* The points that are left are next.                                       *)
LEMMA PointsNextStep ==
  ASSUME NEW X, NEW items, NEW ss, NEW bs, NEW outs, NEW flat, NEW paras, NEW old, NEW v,
         Inserting(X, items, ss, bs, outs, flat, paras, old, v),
         NEW y, y.claim = v[1].claim, NEW new
  PROVE  PointsNext(items, ss, bs, Append(outs, y), flat, new, Tail(v))
<1>1. PICK p, its, k, more, t : /\ p = v[1].paragraph /\ its = LastFirst(items, p) /\ k = Len(its) - Len(v)
                                /\ more = Append(outs, y) /\ t = Tail(v)
  OBVIOUS
<1>2. FirstPoint(ss, its, v, p, k, t) /\ LastOnes(its, v) /\ RestOf(its, v, k, t)
  <2>1. FirstPoint(ss, its, v, p, k, t)
    BY <1>1, FirstPointIs
  <2> QED
    BY <2>1 DEF FirstPoint
<1>3. outs \in Seq(Range(outs)) /\ v \in Seq(Range(v)) /\ v # <<>>
  BY DEF Inserting
<1>4. AppendedTo(outs, y, more)
  BY <1>1, <1>3, AppendedOne
<1>5. SUFFICES ASSUME t # <<>> PROVE PointsNext(items, ss, bs, more, flat, new, t)
  BY <1>1 DEF PointsNext
<1>6. /\ 1 \in DOMAIN t
      /\ \A i \in DOMAIN t : i \in Int /\ i + 1 \in DOMAIN v /\ t[i] = v[i + 1]
  <2>1. t \in Seq(Range(t))
    BY <1>1, <1>3, TailOf
  <2> QED
    BY <1>1, <1>3, <1>5, <2>1, TailOf
<1>7. t[1].paragraph = p /\ Len(t) < Len(its) /\ Len(t) <= Len(its) /\ Len(t) # Len(its)
  <2>1. t[1].paragraph = p
    BY <1>1, <1>2, <1>6 DEF RestOf
  <2>2. PICK m, n : m = Len(its) /\ n = Len(v)
    OBVIOUS
  <2>3. m \in Nat /\ n \in Nat /\ n <= m /\ Len(t) = n - 1
    BY <1>2, <2>2 DEF RestOf, LastOnes
  <2> QED
    BY <2>1, <2>2, <2>3
<1>8. \A i \in DOMAIN t : t[i].claim = its[Len(its) - Len(t) + i].claim
  BY <1>2 DEF RestOf
<1>9. \E j \in DOMAIN more : ss[more[j].claim].paragraph = p
  BY <1>2, <1>4 DEF FirstPoint, AppendedTo
<1>10. ASSUME NEW i \in DOMAIN t, t[i].point # Nowhere,
              NEW c, InsertedIn(more, c), flat[ss[c].paragraph] = flat[p]
       PROVE  ss[c].paragraph = p
  <2>1. InsertedIn(outs, c) \/ y.claim = c
    BY <1>1, <1>3, <1>10, InsertedMore
  <2>2. CASE y.claim = c
    BY <1>2, <2>2 DEF FirstPoint
  <2>3. CASE InsertedIn(outs, c)
    <3>1. \E j \in DOMAIN v : v[j].point # Nowhere
      BY <1>6, <1>10
    <3> QED
      BY <1>1, <1>3, <1>10, <2>3, <3>1 DEF Inserting, PointsNext
  <2> QED
    BY <2>1, <2>2, <2>3
<1> QED
  BY <1>1, <1>7, <1>8, <1>9, <1>10 DEF PointsNext

-----------------------------------------------------------------------------
(* The paragraphs agree after an insertion, or a mismatch.                  *)

(* No place was found: the paragraph has an outcome that is no insertion.   *)
LEMMA AgreesWithout ==
  ASSUME NEW X, NEW items, NEW ss, NEW bs, NEW outs, NEW flat, NEW paras, NEW old, NEW v,
         Inserting(X, items, ss, bs, outs, flat, paras, old, v),
         NEW y, y.claim = v[1].claim, y.status # "INSERTED"
  PROVE  AgreesSoFar(items, ss, bs, Append(outs, y), flat, paras, Tail(v))
<1>1. PICK p, its, k, more, t : /\ p = v[1].paragraph /\ its = LastFirst(items, p) /\ k = Len(its) - Len(v)
                                /\ more = Append(outs, y) /\ t = Tail(v)
  OBVIOUS
<1>2. FirstPoint(ss, its, v, p, k, t)
  BY <1>1, FirstPointIs
<1>3. p = ss[y.claim].paragraph /\ \A q : q # p => Waiting(t, q) = 0 /\ Waiting(v, q) = 0
  BY <1>1, <1>2 DEF FirstPoint, RestOf
<1>4. AppendedTo(outs, y, more)
  BY <1>1, AppendedOne DEF Inserting
<1>5. ASSUME NEW b \in DOMAIN bs, AllInserted(ss, more, bs[b].paragraph)
      PROVE  bs[b].paragraph # p /\ AllInserted(ss, outs, bs[b].paragraph)
  <2>1. bs[b].paragraph # p
    BY <1>3, <1>4, <1>5 DEF AllInserted, AppendedTo
  <2> QED
    BY <1>3, <1>4, <1>5, <2>1 DEF AllInserted, AppendedTo
<1>6. AgreesSoFar(items, ss, bs, outs, flat, paras, v)
  BY DEF Inserting
<1>7. AgreesSoFar(items, ss, bs, more, flat, paras, t)
  BY <1>3, <1>5, <1>6 DEF AgreesSoFar
<1> QED
  BY <1>1, <1>7

(* The other paragraphs, when a citation is inserted in one.                *)
LEMMA OthersAgree ==
  ASSUME NEW X, NEW items, NEW ss, NEW bs, NEW outs, NEW flat, NEW paras, NEW old, NEW v,
         Inserting(X, items, ss, bs, outs, flat, paras, old, v), v[1].point # Nowhere,
         NEW q, q # v[1].paragraph, AllInserted(ss, outs, q)
  PROVE  flat[q] \in DOMAIN paras /\ flat[q] # flat[v[1].paragraph]
<1>1. PICK k \in DOMAIN outs : ss[outs[k].claim].paragraph = q /\ outs[k].status = "INSERTED"
  BY DEF AllInserted
<1>2. PICK c : c = outs[k].claim
  OBVIOUS
<1>3. InsertedIn(outs, c) /\ ss[c].paragraph = q
  BY <1>1, <1>2 DEF InsertedIn
<1>4. flat[q] \in DOMAIN paras
  BY <1>3 DEF Inserting, ClaimsPlaced
<1>5. v # <<>> /\ 1 \in DOMAIN v
  BY TailOf DEF Inserting
<1>6. flat[ss[c].paragraph] = flat[v[1].paragraph] => ss[c].paragraph = v[1].paragraph
  BY <1>3, <1>5 DEF Inserting, PointsNext
<1> QED
  BY <1>3, <1>4, <1>6

(* The outcomes of a paragraph are insertions.                              *)
OnlyInserted(ss, outs, p) ==
  \A j \in DOMAIN outs : ss[outs[j].claim].paragraph = p => outs[j].status = "INSERTED"

(* Its own paragraph's text, before.                                        *)
LEMMA OwnAgrees ==
  ASSUME NEW X, NEW items, NEW ss, NEW bs, NEW outs, NEW flat, NEW paras, NEW old, NEW v,
         Inserting(X, items, ss, bs, outs, flat, paras, old, v), v[1].point # Nowhere,
         NEW p, p = v[1].paragraph, NEW its, its = LastFirst(items, p), NEW k, k = Len(its) - Len(v),
         NEW t, t = Tail(v), FirstPoint(ss, its, v, p, k, t),
         NEW b \in DOMAIN bs, bs[b].paragraph = p,
         OnlyInserted(ss, outs, p)
  PROVE  Upto(bs[b], its, k, TextAt(flat, paras, p))
<1>1. /\ Len(v) \in Nat /\ Len(its) \in Nat /\ Len(v) <= Len(its) /\ Waiting(v, p) = Len(v)
      /\ its \in Seq(Range(its)) /\ BehindEach(its) /\ v # <<>> /\ 1 \in DOMAIN v
  BY DEF FirstPoint, LastOnes, RestOf
<1>2. bs[b].text \in Seq(Character) /\ bs[b].start \in Nat
  BY DEF Inserting, IsBlocks
<1>3. PointsNext(items, ss, bs, outs, flat, paras, v) /\ AgreesSoFar(items, ss, bs, outs, flat, paras, v)
  BY DEF Inserting
<1>4. CASE Len(v) = Len(its)
  <2>1. TextAt(flat, paras, p) = SpaceFree(bs[b].text)
    BY <1>1, <1>3, <1>4 DEF PointsNext
  <2>2. k = 0
    BY <1>1, <1>4
  <2>3. \A j \in DOMAIN its : its[j].sentence.end \in Nat
    BY <1>1 DEF BehindEach, IsSpan
  <2>4. Upto(bs[b], its, 0, SpaceFree(bs[b].text))
    BY <1>1, <1>2, <2>3, UptoNone
  <2> QED
    BY <2>1, <2>2, <2>4
<1>5. CASE Len(v) < Len(its)
  <2>1. AllInserted(ss, outs, p)
    BY <1>1, <1>3, <1>5 DEF PointsNext, AllInserted, OnlyInserted
  <2>2. PICK n \in Nat : n + Waiting(v, p) = Len(its) /\ Upto(bs[b], its, n, TextAt(flat, paras, p))
    BY <1>3, <2>1 DEF AgreesSoFar
  <2>3. n = k
    BY <1>1, <2>2
  <2> QED
    BY <2>2, <2>3
<1> QED
  BY <1>1, <1>4, <1>5

(* The paragraph with the citation reads as the block with one more.        *)
LEMMA AgreesInserted ==
  ASSUME NEW X, NEW items, NEW ss, NEW bs, NEW outs, NEW flat, NEW paras, NEW old, NEW v,
         Inserting(X, items, ss, bs, outs, flat, paras, old, v), v[1].point # Nowhere,
         NEW y, y.claim = v[1].claim, NEW mode,
         NEW new, new = PutAt(paras, flat[v[1].paragraph], v[1], mode)
  PROVE  AgreesSoFar(items, ss, bs, Append(outs, y), flat, new, Tail(v))
<1>1. PICK p, its, k, more, t : /\ p = v[1].paragraph /\ its = LastFirst(items, p) /\ k = Len(its) - Len(v)
                                /\ more = Append(outs, y) /\ t = Tail(v)
  OBVIOUS
<1>2. FirstPoint(ss, its, v, p, k, t)
  BY <1>1, FirstPointIs
<1>3. PICK c, s, id : c = v[1].claim /\ s = ss[c] /\ id = flat[p]
  OBVIOUS
<1>4. /\ c \in Nat \ {0} /\ c \in DOMAIN ss /\ p = s.paragraph /\ 1 \in DOMAIN v
      /\ k \in Nat /\ k + 1 \in DOMAIN its /\ its[k + 1].claim = c /\ its[k + 1].sentence = s
      /\ (k + 1) + Waiting(t, p) = Len(its) /\ k + 1 \in Nat
      /\ its \in Seq(Range(its)) /\ BehindEach(its)
      /\ \A q : q # p => Waiting(t, q) = 0 /\ Waiting(v, q) = 0
  BY <1>1, <1>2, <1>3 DEF FirstPoint, RestOf, LastOnes
<1>5. AppendedTo(outs, y, more)
  BY <1>1, AppendedOne DEF Inserting
<1>6. PointFound(ss, bs, flat, paras, v[1])
  BY <1>4 DEF Inserting, PointsPlaced
<1>7. PICK e \in ReadBlocks(bs, s) : At(paras[id].runs, v[1].point, Place(bs[e], s))
  BY <1>1, <1>3, <1>6 DEF PointFound
<1>8. id \in DOMAIN paras
  BY <1>1, <1>3, <1>6 DEF PointFound
<1>9. /\ e \in DOMAIN bs /\ bs[e].paragraph = p /\ Reads(bs[e].text, bs[e], s)
      /\ bs[e].text \in Seq(Character) /\ bs[e].start \in Nat
  BY <1>4, <1>7 DEF ReadBlocks, BlocksFor, Inserting, IsBlocks
<1>10. PICK para, w, point : para = paras[id] /\ w = Place(bs[e], s) /\ point = v[1].point
  OBVIOUS
<1>11. PICK q0 : q0 = Insert(para, point, Node(c, mode))
  OBVIOUS
<1>12. ParaKept(old[id], para)
  BY <1>8, <1>10 DEF Inserting, ParasKept
<1>13. PICK u : Tells(para.runs, q0.runs, c, w, u)
  BY <1>4, <1>7, <1>10, <1>11, <1>12, InsertedTells
<1>14. new[id] = q0 /\ \A j \in DOMAIN paras : j # id => new[j] = paras[j]
  BY <1>1, <1>3, <1>8, <1>10, <1>11 DEF PutAt
<1>15. ASSUME NEW b \in DOMAIN bs, AllInserted(ss, more, bs[b].paragraph), bs[b].paragraph # p
       PROVE  \E n \in Nat : /\ n + Waiting(t, bs[b].paragraph) = Len(LastFirst(items, bs[b].paragraph))
                             /\ Upto(bs[b], LastFirst(items, bs[b].paragraph), n,
                                     TextAt(flat, new, bs[b].paragraph))
  <2>1. AllInserted(ss, outs, bs[b].paragraph)
    BY <1>3, <1>4, <1>5, <1>15 DEF AllInserted, AppendedTo
  <2>2. flat[bs[b].paragraph] \in DOMAIN paras /\ flat[bs[b].paragraph] # id
    BY <1>1, <1>3, <1>15, <2>1, OthersAgree
  <2>3. TextAt(flat, new, bs[b].paragraph) = TextAt(flat, paras, bs[b].paragraph)
    BY <1>14, <2>2 DEF TextAt
  <2>4. AgreesSoFar(items, ss, bs, outs, flat, paras, v)
    BY DEF Inserting
  <2> QED
    BY <1>4, <1>15, <2>1, <2>3, <2>4 DEF AgreesSoFar
<1>16. ASSUME NEW b \in DOMAIN bs, AllInserted(ss, more, p), bs[b].paragraph = p
       PROVE  \E n \in Nat : n + Waiting(t, p) = Len(its) /\ Upto(bs[b], its, n, TextAt(flat, new, p))
  <2>1. OnlyInserted(ss, outs, p)
    BY <1>5, <1>16 DEF AllInserted, AppendedTo, OnlyInserted
  <2>2. Upto(bs[b], its, k, TextAt(flat, paras, p))
    BY <1>1, <1>2, <1>16, <2>1, OwnAgrees
  <2>3. b = e
    BY <1>9, <1>16 DEF Inserting, IsBlocks
  <2>4. PICK block : block = bs[e]
    OBVIOUS
  <2>5. Upto(block, its, k, Told(para.runs))
    BY <1>3, <1>10, <2>2, <2>3, <2>4 DEF TextAt
  <2>6. Upto(block, its, k + 1, Told(q0.runs))
    BY <1>4, <1>9, <1>10, <1>13, <2>4, <2>5, UptoTells
  <2>7. TextAt(flat, new, p) = Told(q0.runs)
    BY <1>3, <1>14 DEF TextAt
  <2> QED
    BY <1>4, <2>3, <2>4, <2>6, <2>7
<1>17. AgreesSoFar(items, ss, bs, more, flat, new, t)
  BY <1>1, <1>15, <1>16 DEF AgreesSoFar
<1> QED
  BY <1>1, <1>17

-----------------------------------------------------------------------------
(* The inductive invariant of the agreement.  A document that is opened     *)
(* agrees, since nothing is inserted.                                       *)

(* What of this is known at each step of a request.                         *)
Agreement(r, d) ==
  /\ Writing(r) => /\ AgreesSoFar(Items(r), r.claims.sentences, r.draft.blocks, r.outcomes,
                                  d.flat, d.paras, r.resolved)
                   /\ r.pc = "done" => r.resolved = <<>>
  /\ r.pc \in {"resolve", "insert"} =>
       /\ PointsNext(Items(r), r.claims.sentences, r.draft.blocks, r.outcomes,
                     d.flat, d.paras, r.resolved)
       /\ GroupsNext(Items(r), r.claims.sentences, r.outcomes, r.pending)

(* The inductive invariant of the agreement with Markdown.                  *)
AgreementKept == Agreement(request, doc)

(* Every group is pending once, before anything is inserted.                *)
LEMMA GroupsNamedAll ==
  ASSUME NEW X, NEW items, AreItems(items, X), NEW ss, ss \in Seq(Range(ss)), Spans(ss),
         ItemsFrom(ss, items), NEW S \in SUBSET DOMAIN items,
         \A x, y \in DOMAIN items : items[x].sentence.paragraph = items[y].sentence.paragraph =>
           (x \in S <=> y \in S),
         NEW outs,
         \A k \in DOMAIN outs : \E x \in DOMAIN items \ S :
           ss[outs[k].claim].paragraph = items[x].sentence.paragraph
  PROVE  GroupsNext(items, ss, outs, Groups(Kept(items, S)))
<1>1. PICK placed : placed = Kept(items, S)
  OBVIOUS
<1>2. placed \in Seq(X) /\ Selects(placed, items, S)
  BY <1>1, KeptSelects DEF AreItems
<1>3. AreItems(placed, X)
  BY <1>2, ChosenItems
<1>4. PICK a : Chooses(a, placed, items, S)
  BY <1>2 DEF Selects
<1>5. ASSUME NEW g \in DOMAIN Groups(placed)
      PROVE  \E p : /\ NamedGroup(items, Groups(placed)[g], p)
                    /\ \A k \in DOMAIN outs : ss[outs[k].claim].paragraph # p
  <2>1. PICK p : NamedGroup(placed, Groups(placed)[g], p) /\ OfParagraph(placed, p) # {}
    BY <1>3, GroupsNamed
  <2>2. PICK y \in DOMAIN placed : placed[y].sentence.paragraph = p
    BY <2>1 DEF OfParagraph
  <2>3. a[y] \in S /\ items[a[y]].sentence.paragraph = p
    BY <1>4, <2>2 DEF Chooses
  <2>4. \A x \in DOMAIN items : items[x].sentence.paragraph = p => x \in S
    BY <2>3
  <2>5. LastFirst(placed, p) = LastFirst(items, p)
    <3>1. OfParagraph(items, p) \subseteq S
      BY <2>4 DEF OfParagraph
    <3> QED
      BY <1>1, <3>1, SameGroup
  <2>6. NamedGroup(items, Groups(placed)[g], p)
    BY <2>1, <2>5 DEF NamedGroup
  <2>7. \A k \in DOMAIN outs : ss[outs[k].claim].paragraph # p
    BY <2>4
  <2> QED
    BY <2>6, <2>7
<1> QED
  BY <1>1, <1>5 DEF GroupsNext

(* A document as it is opened agrees.                                       *)
LEMMA OpenAgrees ==
  ASSUME ExportKept, PlacesKept, OpenDocx
  PROVE  AgreementKept'
<1> DEFINE items == Items(request)
           without == {k \in DOMAIN items : BlockOf(request, items[k]) = {}}
           S == DOMAIN items \ without
           ss == request.claims.sentences
           bs == request.draft.blocks
<1>1. /\ request' = [request EXCEPT !.pc = "resolve", !.pending = Groups(Kept(items, S)),
                       !.outcomes = [k \in DOMAIN Kept(items, without) |->
                                       Outcome(Kept(items, without)[k].claim, "NO_BLOCK")]]
      /\ request.pc = "bundle"
  BY DEF OpenDocx
<1>2. DOMAIN request = Fields /\ request.resolved = <<>> /\ Loaded(request)
  BY <1>1 DEF ExportKept, RequestKept, Fields
<1>3. AreItems(items, Range(items)) /\ ItemsFrom(ss, items)
  BY <1>2, ItemsOfLoaded, ItemsOfSentences
<1>4. ss \in Seq(Range(ss)) /\ Spans(ss)
  BY <1>1, <1>2 DEF Loaded, IsSentences, PlacesKept, RequestPlaced
<1>5. PICK lost : lost = Kept(items, without)
  OBVIOUS
<1>6. PICK outs : outs = [k \in DOMAIN lost |-> Outcome(lost[k].claim, "NO_BLOCK")]
  OBVIOUS
<1>7. /\ request'.pc = "resolve" /\ request'.claims = request.claims
      /\ request'.draft = request.draft /\ request'.rows = request.rows
      /\ request'.pending = Groups(Kept(items, S)) /\ request'.resolved = <<>>
      /\ request'.outcomes = outs
  BY <1>1, <1>2, <1>5, <1>6 DEF Fields
<1>8. Items(request') = items
  BY <1>7, SameItems
<1>9. without \in SUBSET DOMAIN items /\ S \in SUBSET DOMAIN items /\ DOMAIN items \ S = without
  OBVIOUS
<1>10. \A k \in DOMAIN items : k \in without <=> BlocksFor(bs, items[k].sentence) = {}
  BY DEF BlockOf, BlocksFor
<1>11. \A x, y \in DOMAIN items : items[x].sentence.paragraph = items[y].sentence.paragraph =>
         (x \in S <=> y \in S)
  BY <1>9, <1>10 DEF BlocksFor
<1> HIDE DEF items, without, S
<1>12. ASSUME NEW k \in DOMAIN outs
       PROVE  \E x \in without : ss[outs[k].claim].paragraph = items[x].sentence.paragraph
  <2>1. lost \in Seq(Range(items)) /\ Selects(lost, items, without)
    BY <1>3, <1>5, <1>9, KeptSelects DEF AreItems
  <2>2. PICK a : Chooses(a, lost, items, without)
    BY <2>1 DEF Selects
  <2>3. outs[k].claim = lost[k].claim /\ k \in DOMAIN lost
    BY <1>6 DEF Outcome
  <2>4. a[k] \in without /\ lost[k] = items[a[k]] /\ a[k] \in DOMAIN items
    BY <1>9, <2>2, <2>3 DEF Chooses
  <2>5. items[a[k]].sentence = ss[items[a[k]].claim]
    BY <1>3, <2>4 DEF ItemsFrom
  <2> QED
    BY <2>3, <2>4, <2>5
<1>13. GroupsNext(items, ss, outs, Groups(Kept(items, S)))
  <2>1. \A k \in DOMAIN outs : \E x \in DOMAIN items \ S :
          ss[outs[k].claim].paragraph = items[x].sentence.paragraph
    BY <1>9, <1>12
  <2> HIDE DEF ss
  <2> QED
    BY <1>3, <1>4, <1>9, <1>11, <2>1, GroupsNamedAll
<1>14. \A b \in DOMAIN bs : ~ AllInserted(ss, outs, bs[b].paragraph)
  BY <1>9, <1>10, <1>12 DEF AllInserted, BlocksFor
<1>15. AgreesSoFar(items, ss, bs, outs, doc'.flat, doc'.paras, <<>>)
  BY <1>14 DEF AgreesSoFar
<1>16. PointsNext(items, ss, bs, outs, doc'.flat, doc'.paras, <<>>)
  BY DEF PointsNext
<1> QED
  BY <1>7, <1>8, <1>13, <1>15, <1>16 DEF AgreementKept, Agreement

(* An uncited paragraph has no run of a claim.                              *)
LEMMA NotUncited ==
  ASSUME NEW t, NEW c \in Nat \ {0}, NEW w, Cited(t, c, w), NEW u \in Seq(Written), t = Plain(u)
  PROVE  FALSE
<1>1. PICK x \in Seq(Others(c)), y \in Seq(Others(c)) : t = Joined(x, Joined(<<Mark(c)>>, y))
  BY DEF Cited
<1>2. x \in Seq(Marks) /\ y \in Seq(Marks) /\ Mark(c) \in Marks
  BY OthersAreMarks, MarksAre
<1>3. Joined(x, Joined(<<Mark(c)>>, y)) \notin Seq(Marks \ {Mark(c)})
  BY <1>2, NotWithout
<1>4. t \in Seq(Others(c))
  BY PlainIsUnmarked
<1> QED
  BY <1>1, <1>3, <1>4 DEF Others

(* No citation stands in the paragraph of p.                                *)
NoneInserted(ss, outs, flat, p) == \A c : ~ (InsertedIn(outs, c) /\ flat[ss[c].paragraph] = flat[p])

(* A point is found in it.                                                  *)
FoundIn(ss, bs, outs, flat, paras, p, runs) ==
  /\ ss \in Seq(Range(ss)) /\ ClaimsPlaced(ss, bs, outs, flat, paras)
  /\ p \in DOMAIN flat /\ flat[p] \in DOMAIN paras /\ runs = paras[flat[p]].runs

(* Where a point is found, the text is the block's, without a citation.     *)
LEMMA FoundText ==
  ASSUME NEW ss, NEW bs, NEW outs, NEW flat, NEW paras, NEW p, NEW runs,
         FoundIn(ss, bs, outs, flat, paras, p, runs),
         NEW block, NEW s, NEW point, ResolvesTo(runs, block, s, point)
  PROVE  /\ TextAt(flat, paras, p) = SpaceFree(block.text)
         /\ NoneInserted(ss, outs, flat, p)
<1>1. PICK id : id = flat[p]
  OBVIOUS
<1> USE DEF FoundIn
<1>2. Told(runs) = SpaceFree(block.text)
  BY <1>1, ResolvedTold
<1>3. block.text \in Seq(Character)
  BY DEF ResolvesTo, Resolving
<1>4. PICK u \in Seq(Written) : u = Without(block.text, Space)
  <2>1. Without(block.text, Space) \in Seq(Character)
    BY <1>3, WithoutIsText
  <2> QED
    BY <2>1, GapIsCharacter, WiderSequence
<1>5. Told(runs) = Plain(u)
  BY <1>2, <1>4 DEF SpaceFree
<1>6. ASSUME NEW c, InsertedIn(outs, c), flat[ss[c].paragraph] = flat[p] PROVE FALSE
  <2>1. c \in DOMAIN ss /\ InsertedAt(ss, outs, flat, c, id)
    BY <1>1, <1>6 DEF ClaimsPlaced, InsertedAt
  <2>2. CitedFor(bs, ss[c], runs, c)
    BY <1>1, <2>1 DEF ClaimsPlaced
  <2>3. PICK w : Cited(Told(runs), c, w)
    BY <2>2 DEF CitedFor
  <2>4. c \in Nat \ {0}
    BY <2>1
  <2> QED
    BY <1>5, <2>3, <2>4, NotUncited
<1> QED
  BY <1>1, <1>2, <1>6 DEF TextAt, NoneInserted

(* The text of a paragraph where a point is found is that of the block, and *)
(* nothing is cited in it.                                                  *)
LEMMA PointText ==
  ASSUME NEW ss, NEW bs, ss = request.claims.sentences, bs = request.draft.blocks,
         NEW group, QueuedGroup(ss, bs, group), Spans(ss), IsBlocks(bs), ss \in Seq(Range(ss)),
         NEW old, ParasKept(old, doc.paras), \A k \in DOMAIN doc.flat : doc.flat[k] \in DOMAIN doc.paras,
         NEW outs, ClaimsPlaced(ss, bs, outs, doc.flat, doc.paras),
         NEW i \in DOMAIN group, Points(group)[i].point # Nowhere,
         NEW p, p = group[i].sentence.paragraph
  PROVE  /\ \A b \in DOMAIN bs : bs[b].paragraph = p => TextAt(doc.flat, doc.paras, p) = SpaceFree(bs[b].text)
         /\ NoneInserted(ss, outs, doc.flat, p)
<1> DEFINE e == CHOOSE b \in BlocksFor(bs, group[i].sentence) : TRUE
           s == group[i].sentence
           para == doc.paras[doc.flat[p]]
<1>1. Points(group)[i].point = Resolve(bs[e], s)
  BY DEF Points, BlockOf, BlocksFor
<1>2. e \in DOMAIN bs /\ bs[e].paragraph = p /\ IsSpan(s)
  <2>1. e \in BlocksFor(bs, s)
    BY DEF QueuedGroup
  <2> QED
    BY <2>1 DEF BlocksFor, QueuedGroup, Spans
<1>3. PICK block : block = bs[e] /\ block.start \in Nat /\ block.text \in Seq(Character)
  BY <1>2 DEF IsBlocks
<1> HIDE DEF e, s
<1>4. p \in DOMAIN doc.flat /\ ResolveIn(para, block, s) # Nowhere
  BY <1>1, <1>2, <1>3 DEF Resolve
<1>5. doc.flat[p] \in DOMAIN doc.paras /\ "runs" \in DOMAIN para /\ para.runs \in Seq(DocRuns)
  BY <1>4 DEF ParasKept, ParaKept
<1>6. ResolvesTo(para.runs, block, s, ResolveIn(para, block, s))
  BY <1>2, <1>3, <1>4, <1>5, ResolvedIn
<1>7. TextAt(doc.flat, doc.paras, p) = SpaceFree(block.text) /\ NoneInserted(ss, outs, doc.flat, p)
  <2>1. PICK flat, paras, point, runs :
          flat = doc.flat /\ paras = doc.paras /\ point = ResolveIn(para, block, s) /\ runs = para.runs
    OBVIOUS
  <2>2. ResolvesTo(runs, block, s, point)
    BY <1>6, <2>1
  <2>3. FoundIn(ss, bs, outs, flat, paras, p, runs)
    BY <1>4, <1>5, <2>1 DEF FoundIn
  <2>4. TextAt(flat, paras, p) = SpaceFree(block.text) /\ NoneInserted(ss, outs, flat, p)
    <3> HIDE DEF para
    <3> QED
      BY <2>2, <2>3, FoundText
  <2> QED
    BY <2>1, <2>4
<1>8. \A b \in DOMAIN bs : bs[b].paragraph = p => b = e
  BY <1>2 DEF IsBlocks
<1> QED
  BY <1>3, <1>7, <1>8

-----------------------------------------------------------------------------
(* Resolving a paragraph: where a point is found, its text is still that of *)
(* the block.                                                               *)

(* The points of a paragraph without outcomes are next.                     *)
NextPoints(items, ss, bs, outs, flat, paras, v, p) ==
  LET its == LastFirst(items, p) IN
  /\ v # <<>> /\ v[1].paragraph = p /\ Len(v) = Len(its) /\ Len(v) \in Nat
  /\ \A i \in DOMAIN v : i \in Nat /\ v[i].claim = its[i].claim
  /\ \A k \in DOMAIN outs : ss[outs[k].claim].paragraph # p
  /\ \A i \in DOMAIN v : v[i].point # Nowhere =>
       /\ NoneInserted(ss, outs, flat, p)
       /\ \A b \in DOMAIN bs : bs[b].paragraph = p => TextAt(flat, paras, p) = SpaceFree(bs[b].text)

(* The points that are found are next.                                      *)
LEMMA PointsAgree ==
  ASSUME NEW items, NEW ss, NEW bs, NEW outs, NEW flat, NEW paras, NEW v, NEW p,
         AgreesSoFar(items, ss, bs, outs, flat, paras, <<>>),
         NextPoints(items, ss, bs, outs, flat, paras, v, p)
  PROVE  /\ AgreesSoFar(items, ss, bs, outs, flat, paras, v)
         /\ PointsNext(items, ss, bs, outs, flat, paras, v)
<1>1. \A q : Waiting(<<>>, q) = 0 /\ (q # p => Waiting(v, q) = 0)
  BY DEF Waiting, NextPoints
<1>2. \A q : AllInserted(ss, outs, q) => q # p
  BY DEF AllInserted, NextPoints
<1>3. AgreesSoFar(items, ss, bs, outs, flat, paras, v)
  BY <1>1, <1>2 DEF AgreesSoFar
<1>4. PICK its, n : its = LastFirst(items, p) /\ n = Len(v)
  OBVIOUS
<1>5. n \in Nat /\ Len(its) = n
  BY <1>4 DEF NextPoints
<1>6. \A i \in DOMAIN v : v[i].claim = its[n - n + i].claim
  <2>1. \A i \in Nat : n - n + i = i
    BY <1>5
  <2> QED
    BY <1>4, <2>1 DEF NextPoints
<1>7. (\E i \in DOMAIN v : v[i].point # Nowhere) =>
        /\ \A c : InsertedIn(outs, c) /\ flat[ss[c].paragraph] = flat[p] => ss[c].paragraph = p
        /\ \A b \in DOMAIN bs : bs[b].paragraph = p => TextAt(flat, paras, p) = SpaceFree(bs[b].text)
  BY DEF NextPoints, NoneInserted
<1>8. v[1].paragraph = p
  BY DEF NextPoints
<1> QED
  BY <1>3, <1>4, <1>5, <1>6, <1>7, <1>8 DEF PointsNext

(* Resolving a paragraph keeps the agreement.                               *)
LEMMA ResolveAgrees ==
  ASSUME ExportKept, PlacementKept, PlacesKept, AgreementKept, ResolveParagraph
  PROVE  AgreementKept'
<1> DEFINE ss == request.claims.sentences
           bs == request.draft.blocks
           outs == request.outcomes
           groups == request.pending
           items == Items(request)
<1>1. /\ request.pc = "resolve" /\ groups # <<>> /\ UNCHANGED <<db, doc>>
      /\ request' = [request EXCEPT !.pc = "insert", !.pending = Tail(@), !.resolved = Points(Head(groups))]
  BY DEF ResolveParagraph
<1>2. DOMAIN request = Fields /\ Loaded(request)
  BY <1>1 DEF ExportKept, RequestKept, Fields
<1>3. /\ request'.pc = "insert" /\ request'.outcomes = outs /\ request'.claims = request.claims
      /\ request'.draft = request.draft /\ request'.rows = request.rows
      /\ request'.pending = Tail(groups) /\ request'.resolved = Points(Head(groups))
  BY <1>1, <1>2 DEF Fields
<1>4. Items(request') = items
  BY <1>3, SameItems
<1>5. request.resolved = <<>> /\ groups \in Seq(Range(groups))
      /\ \A g \in DOMAIN groups : groups[g] \in Seq(Range(groups[g]))
  BY <1>1 DEF PlacementKept, Once
<1>6. /\ Spans(ss) /\ DocKept(request, doc) /\ Queued(ss, bs, groups)
  BY <1>1 DEF PlacesKept, RequestPlaced, Writing, StepsPlaced
<1>7. /\ AgreesSoFar(items, ss, bs, outs, doc.flat, doc.paras, <<>>) /\ GroupsNext(items, ss, outs, groups)
  BY <1>1, <1>5 DEF AgreementKept, Agreement, Writing
<1>8. IsBlocks(bs) /\ ss \in Seq(Range(ss))
  BY <1>2 DEF Loaded, IsDraft, IsSentences
<1>9. /\ 1 \in DOMAIN groups /\ Head(groups) = groups[1]
      /\ \A k \in DOMAIN Tail(groups) : k + 1 \in DOMAIN groups /\ Tail(groups)[k] = groups[k + 1]
  BY <1>1, <1>5, TailOf
<1>10. PICK group, v : group = groups[1] /\ v = Points(group)
  OBVIOUS
<1>11. QueuedGroup(ss, bs, group) /\ group \in Seq(Range(group))
  BY <1>5, <1>6, <1>9, <1>10 DEF Queued
<1>12. PICK p : /\ NamedGroup(items, group, p)
                /\ \A k \in DOMAIN outs : ss[outs[k].claim].paragraph # p
  BY <1>7, <1>9, <1>10 DEF GroupsNext
<1>13. /\ ParasKept(doc.source.paras, doc.paras) /\ ClaimsPlaced(ss, bs, outs, doc.flat, doc.paras)
       /\ \A k \in DOMAIN doc.flat : doc.flat[k] \in DOMAIN doc.paras
  BY <1>6, OpenedParas DEF DocKept, ParasKept
<1>14. GroupsNext(items, ss, outs, Tail(groups))
  BY <1>7, <1>9 DEF GroupsNext
<1>15. /\ DOMAIN v = DOMAIN group /\ v = [k \in DOMAIN group |-> v[k]]
       /\ \A i \in DOMAIN v : v[i].claim = group[i].claim /\ v[i].paragraph = group[i].sentence.paragraph
  BY <1>10 DEF Points
<1>16. Len(v) = Len(group) /\ Len(v) \in Nat /\ DOMAIN v = 1 .. Len(v) /\ group # <<>>
  BY <1>11, <1>12, <1>15 DEF NamedGroup
<1>17. \A i \in DOMAIN group : group[i].sentence.paragraph = p
  <2>1. \A i \in DOMAIN group : 1 \in DOMAIN group /\ (i = 1 \/ 1 < i)
    BY <1>11
  <2> QED
    BY <1>11, <1>12, <2>1 DEF QueuedGroup, NamedGroup
<1>18. ASSUME NEW i \in DOMAIN v, v[i].point # Nowhere
       PROVE  /\ NoneInserted(ss, outs, doc.flat, p)
              /\ \A b \in DOMAIN bs : bs[b].paragraph = p =>
                   TextAt(doc.flat, doc.paras, p) = SpaceFree(bs[b].text)
  <2>1. PICK old : old = doc.source.paras
    OBVIOUS
  <2>2. i \in DOMAIN group /\ p = group[i].sentence.paragraph /\ Points(group)[i].point # Nowhere
    BY <1>10, <1>15, <1>17, <1>18
  <2>3. ParasKept(old, doc.paras)
    BY <1>13, <2>1
  <2>4. ss = request.claims.sentences /\ bs = request.draft.blocks
    OBVIOUS
  <2> HIDE DEF ss, bs, outs, groups, items
  <2> QED
    BY <1>6, <1>8, <1>11, <1>13, <2>2, <2>3, <2>4, PointText
<1>19. NextPoints(items, ss, bs, outs, doc.flat, doc.paras, v, p)
  <2>1. 1 \in DOMAIN group
    BY <1>11, <1>16
  <2>2. v # <<>>
    BY <1>15, <2>1
  <2> HIDE DEF ss, bs, outs, groups, items
  <2>3. \A i \in DOMAIN v : i \in Nat
    BY <1>16
  <2>4. v[1].paragraph = p
    BY <1>15, <1>17, <2>1
  <2>5. group = LastFirst(items, p)
    BY <1>12 DEF NamedGroup
  <2> QED
    BY <1>12, <1>15, <1>16, <1>18, <2>2, <2>3, <2>4, <2>5 DEF NextPoints
<1> HIDE DEF ss, bs, outs, groups, items
<1>20. /\ AgreesSoFar(items, ss, bs, outs, doc.flat, doc.paras, v)
       /\ PointsNext(items, ss, bs, outs, doc.flat, doc.paras, v)
  BY <1>7, <1>19, PointsAgree
<1>21. request'.resolved = v /\ doc' = doc
  BY <1>1, <1>3, <1>9, <1>10
<1> QED
  BY <1>3, <1>4, <1>14, <1>20, <1>21 DEF AgreementKept, Agreement, ss, bs, outs, groups, items

-----------------------------------------------------------------------------
(* Inserting keeps the agreement.                                           *)

(* The pending groups have no outcome of the one inserted.                  *)
LEMMA GroupsNextStep ==
  ASSUME NEW X, NEW items, NEW ss, NEW bs, NEW outs, NEW flat, NEW paras, NEW old, NEW v,
         Inserting(X, items, ss, bs, outs, flat, paras, old, v),
         NEW groups, GroupsNext(items, ss, outs, groups),
         \A g \in DOMAIN groups : \A l \in DOMAIN groups[g] : v[1].claim # groups[g][l].claim,
         NEW y, y.claim = v[1].claim
  PROVE  GroupsNext(items, ss, Append(outs, y), groups)
<1>1. PICK p, its, k, more, t : /\ p = v[1].paragraph /\ its = LastFirst(items, p) /\ k = Len(its) - Len(v)
                                /\ more = Append(outs, y) /\ t = Tail(v)
  OBVIOUS
<1>2. FirstPoint(ss, its, v, p, k, t)
  BY <1>1, FirstPointIs
<1>3. k + 1 \in DOMAIN its /\ its[k + 1].claim = v[1].claim /\ p = ss[y.claim].paragraph
  BY <1>2 DEF FirstPoint, RestOf
<1>4. AppendedTo(outs, y, more)
  BY <1>1, AppendedOne DEF Inserting
<1>5. ASSUME NEW g \in DOMAIN groups
      PROVE  \E q : NamedGroup(items, groups[g], q) /\ \A j \in DOMAIN more : ss[more[j].claim].paragraph # q
  <2>1. PICK q : NamedGroup(items, groups[g], q) /\ \A j \in DOMAIN outs : ss[outs[j].claim].paragraph # q
    BY DEF GroupsNext
  <2>2. q # p
    BY <1>1, <1>3, <2>1 DEF NamedGroup
  <2>3. \A j \in DOMAIN more : ss[more[j].claim].paragraph # q
    BY <1>3, <1>4, <2>1, <2>2 DEF AppendedTo
  <2> QED
    BY <2>1, <2>3
<1>6. GroupsNext(items, ss, more, groups)
  BY <1>5 DEF GroupsNext
<1> QED
  BY <1>1, <1>6

(* What an insertion leaves.                                                *)
InsertedNext(items, ss, bs, outs, flat, new, v, groups, y) ==
  /\ AgreesSoFar(items, ss, bs, Append(outs, y), flat, new, Tail(v))
  /\ PointsNext(items, ss, bs, Append(outs, y), flat, new, Tail(v))
  /\ GroupsNext(items, ss, Append(outs, y), groups)

(* One insertion.                                                           *)
LEMMA InsertAgreesStep ==
  ASSUME NEW X, NEW items, NEW ss, NEW bs, NEW outs, NEW flat, NEW paras, NEW old, NEW v,
         Inserting(X, items, ss, bs, outs, flat, paras, old, v),
         NEW groups, GroupsNext(items, ss, outs, groups),
         \A g \in DOMAIN groups : \A l \in DOMAIN groups[g] : v[1].claim # groups[g][l].claim,
         NEW y, y.claim = v[1].claim, NEW mode, NEW new,
         \/ v[1].point # Nowhere /\ new = PutAt(paras, flat[v[1].paragraph], v[1], mode)
         \/ y.status # "INSERTED" /\ new = paras
  PROVE  InsertedNext(items, ss, bs, outs, flat, new, v, groups, y)
<1>1. AgreesSoFar(items, ss, bs, Append(outs, y), flat, new, Tail(v))
  <2>1. CASE v[1].point # Nowhere /\ new = PutAt(paras, flat[v[1].paragraph], v[1], mode)
    BY <2>1, AgreesInserted
  <2>2. CASE y.status # "INSERTED" /\ new = paras
    BY <2>2, AgreesWithout
  <2> QED
    BY <2>1, <2>2
<1>2. PointsNext(items, ss, bs, Append(outs, y), flat, new, Tail(v))
  BY PointsNextStep
<1>3. GroupsNext(items, ss, Append(outs, y), groups)
  BY GroupsNextStep
<1> QED
  BY <1>1, <1>2, <1>3 DEF InsertedNext

(* Inserting a citation keeps the agreement.                                *)
LEMMA InsertAgrees ==
  ASSUME ExportKept, PlacementKept, PlacesKept, AgreementKept, InsertNext
  PROVE  AgreementKept'
<1> DEFINE ss == request.claims.sentences
           bs == request.draft.blocks
           v == request.resolved
           outs == request.outcomes
           groups == request.pending
           items == Items(request)
           x == Head(v)
           found == x.point # Nowhere
           y == Outcome(x.claim, IF found THEN "INSERTED" ELSE "POSITION_MISMATCH")
           put == PutAt(doc.paras, doc.flat[x.paragraph], x, request.mode)
<1>1. /\ request.pc = "insert" /\ v # <<>> /\ UNCHANGED db
      /\ doc' = IF found THEN [doc EXCEPT !.paras = put] ELSE doc
      /\ request' = [request EXCEPT !.resolved = Tail(v), !.outcomes = Append(outs, y)]
  BY DEF InsertNext, PutAt
<1>2. DOMAIN request = Fields /\ Loaded(request) /\ DOMAIN doc = DocFields
  BY <1>1 DEF ExportKept, RequestKept, DocumentKept, Fields, DocFields
<1>3. /\ y.claim = x.claim /\ (~ found => y.status # "INSERTED")
  BY DEF Outcome
<1> HIDE DEF y
<1>4. /\ request'.pc = "insert" /\ request'.outcomes = Append(outs, y) /\ request'.claims = request.claims
      /\ request'.draft = request.draft /\ request'.pending = groups /\ request'.rows = request.rows
      /\ request'.resolved = Tail(v)
  BY <1>1, <1>2 DEF Fields
<1>5. Items(request') = items
  BY <1>4, SameItems
<1>6. DocKept(request, doc) /\ StepsPlaced(request, doc) /\ OutcomesTyped(request) /\ Spans(ss)
  BY <1>1 DEF PlacesKept, RequestPlaced, Writing
<1>7. /\ ParasKept(doc.source.paras, doc.paras) /\ ClaimsPlaced(ss, bs, outs, doc.flat, doc.paras)
      /\ PointsPlaced(ss, bs, doc.flat, doc.paras, v)
  BY <1>6 DEF DocKept, StepsPlaced
<1>8. /\ outs \in Seq(Range(outs)) /\ v \in Seq(Range(v))
      /\ \A k \in DOMAIN v : \A g \in DOMAIN groups : \A l \in DOMAIN groups[g] :
           v[k].claim # groups[g][l].claim
  BY <1>1 DEF PlacementKept, Once
<1>9. 1 \in DOMAIN v /\ x = v[1]
  BY <1>1, <1>8, TailOf
<1>10. ss \in Seq(Range(ss)) /\ IsBlocks(bs)
  BY <1>2 DEF Loaded, IsSentences, IsDraft
<1>11. AreItems(items, Range(items)) /\ ItemsFrom(ss, items)
  BY <1>2, ItemsOfLoaded, ItemsOfSentences
<1>12. /\ AgreesSoFar(items, ss, bs, outs, doc.flat, doc.paras, v)
       /\ PointsNext(items, ss, bs, outs, doc.flat, doc.paras, v)
       /\ GroupsNext(items, ss, outs, groups)
  BY <1>1 DEF AgreementKept, Agreement, Writing
<1>13. PICK new : new = doc'.paras
  OBVIOUS
<1> HIDE DEF put
<1>14. doc'.flat = doc.flat /\ new = IF found THEN put ELSE doc.paras
  BY <1>1, <1>2, <1>13 DEF DocFields
<1>15. InsertedNext(items, ss, bs, outs, doc.flat, new, v, groups, y)
  <2>1. PICK flat, paras, old, mode, X :
          /\ flat = doc.flat /\ paras = doc.paras /\ old = doc.source.paras /\ mode = request.mode
          /\ X = Range(items)
    OBVIOUS
  <2>2. \/ v[1].point # Nowhere /\ new = PutAt(paras, flat[v[1].paragraph], v[1], mode)
        \/ y.status # "INSERTED" /\ new = paras
    BY <1>3, <1>9, <1>14, <2>1 DEF put
  <2>3. y.claim = v[1].claim
    BY <1>3, <1>9
  <2>4. \A g \in DOMAIN groups : \A l \in DOMAIN groups[g] : v[1].claim # groups[g][l].claim
    BY <1>8, <1>9
  <2> HIDE DEF ss, bs, outs, groups, items, v
  <2>5. Inserting(X, items, ss, bs, outs, flat, paras, old, v)
    BY <1>1, <1>6, <1>7, <1>8, <1>10, <1>11, <1>12, <2>1 DEF Inserting
  <2>6. InsertedNext(items, ss, bs, outs, flat, new, v, groups, y)
    BY <1>12, <2>2, <2>3, <2>4, <2>5, InsertAgreesStep
  <2> QED
    BY <2>1, <2>6
<1> HIDE DEF ss, bs, outs, groups, items, v
<1>16. /\ AgreesSoFar(items, ss, bs, Append(outs, y), doc.flat, new, Tail(v))
       /\ PointsNext(items, ss, bs, Append(outs, y), doc.flat, new, Tail(v))
       /\ GroupsNext(items, ss, Append(outs, y), groups)
  BY <1>15 DEF InsertedNext
<1> QED
  BY <1>4, <1>5, <1>13, <1>14, <1>16 DEF AgreementKept, Agreement, ss, bs, groups, items

-----------------------------------------------------------------------------
(* The other steps keep it, and at the end it is the agreement of the       *)
(* property.                                                                *)

(* Going on to the next paragraph keeps the agreement.                      *)
LEMMA NextParagraphAgrees ==
  ASSUME ExportKept, AgreementKept, NextParagraph
  PROVE  AgreementKept'
<1>1. DOMAIN request = Fields
  BY DEF ExportKept, RequestKept, Fields
<1>2. /\ request.pc = "insert" /\ UNCHANGED <<db, doc>>
      /\ request' = [request EXCEPT !.pc = "resolve"]
  BY DEF NextParagraph
<1>3. /\ request'.pc = "resolve" /\ request'.outcomes = request.outcomes /\ request'.claims = request.claims
      /\ request'.draft = request.draft /\ request'.pending = request.pending
      /\ request'.resolved = request.resolved /\ request'.rows = request.rows
  BY <1>1, <1>2 DEF Fields
<1>4. Items(request') = Items(request)
  BY <1>3, SameItems
<1> QED
  BY <1>2, <1>3, <1>4 DEF AgreementKept, Agreement, Writing

(* Paragraphs that tell the same agree the same.                            *)
LEMMA SameTellingsAgree ==
  ASSUME NEW items, NEW ss, NEW bs, NEW outs, NEW flat, NEW paras, NEW new,
         ClaimsPlaced(ss, bs, outs, flat, paras),
         \A id \in DOMAIN paras : Told(new[id].runs) = Told(paras[id].runs),
         AgreesSoFar(items, ss, bs, outs, flat, paras, <<>>)
  PROVE  AgreesSoFar(items, ss, bs, outs, flat, new, <<>>)
<1>1. ASSUME NEW q, AllInserted(ss, outs, q)
      PROVE  TextAt(flat, new, q) = TextAt(flat, paras, q)
  <2>1. PICK k \in DOMAIN outs : ss[outs[k].claim].paragraph = q /\ outs[k].status = "INSERTED"
    BY <1>1 DEF AllInserted
  <2>2. PICK c : c = outs[k].claim
    OBVIOUS
  <2>3. InsertedIn(outs, c) /\ ss[c].paragraph = q
    BY <2>1, <2>2 DEF InsertedIn
  <2>4. flat[q] \in DOMAIN paras
    BY <2>3 DEF ClaimsPlaced
  <2> QED
    BY <2>4 DEF TextAt
<1> QED
  BY <1>1 DEF AgreesSoFar

(* The keyword and the acceptance of the document keep it.                  *)
LEMMA FinishAgrees ==
  ASSUME ExportKept, PlacementKept, PlacesKept, AgreementKept, FinishDocx
  PROVE  AgreementKept'
<1> DEFINE listed == [doc EXCEPT !.references = Bibliography(Context(request.rows), request.style)]
<1>1. /\ request.pc = "resolve" /\ request' = [request EXCEPT !.pc = "done"]
      /\ \E hasKeyword \in BOOLEAN :
           doc' = [IF hasKeyword THEN WithKeyword(request, listed) ELSE listed
                   EXCEPT !.audit = Audit(request)]
  BY DEF FinishDocx
<1>2. PICK e : doc' = [e EXCEPT !.audit = Audit(request)] /\ (e = WithKeyword(request, listed) \/ e = listed)
  BY <1>1
<1>3. DOMAIN request = Fields /\ DOMAIN doc = DocFields /\ request.resolved = <<>>
  BY <1>1 DEF ExportKept, RequestKept, DocumentKept, PlacementKept, Fields, DocFields
<1>4. /\ DOMAIN listed = DocFields /\ listed.paras = doc.paras /\ listed.flat = doc.flat
  BY <1>3 DEF DocFields
<1> HIDE DEF listed
<1>5. /\ request'.pc = "done" /\ request'.outcomes = request.outcomes /\ request'.claims = request.claims
      /\ request'.draft = request.draft /\ request'.rows = request.rows /\ request'.resolved = <<>>
  BY <1>1, <1>3 DEF Fields
<1>6. DocKept(request, doc)
  BY <1>1 DEF PlacesKept, RequestPlaced, Writing
<1>7. /\ ParasKept(doc.source.paras, doc.paras)
      /\ \A k \in DOMAIN doc.flat : doc.flat[k] \in DOMAIN doc.paras
  BY <1>6, OpenedParas DEF DocKept, ParasKept
<1>8. DOMAIN e = DocFields
  BY <1>2, <1>4, KeywordElsewhere DEF DocFields
<1>9. /\ e.flat = doc.flat /\ \A id \in DOMAIN doc.paras : Told(e.paras[id].runs) = Told(doc.paras[id].runs)
  <2>1. CASE e = listed
    BY <1>4, <2>1
  <2>2. CASE e = WithKeyword(request, listed)
    <3>1. /\ ParasKept(doc.source.paras, listed.paras)
          /\ \A k \in DOMAIN listed.flat : listed.flat[k] \in DOMAIN listed.paras
      BY <1>4, <1>7
    <3>2. PICK old : old = doc.source.paras
      OBVIOUS
    <3>3. /\ e.flat = listed.flat /\ ParasKept(old, e.paras)
          /\ \A id \in DOMAIN e.paras : Told(e.paras[id].runs) = Told(listed.paras[id].runs)
      BY <1>4, <2>2, <3>1, <3>2, KeywordPara
    <3>4. DOMAIN e.paras = DOMAIN doc.paras
      BY <1>7, <3>2, <3>3 DEF ParasKept
    <3> QED
      BY <1>4, <3>3, <3>4
  <2> QED
    BY <1>2, <2>1, <2>2
<1>10. doc'.flat = doc.flat /\ doc'.paras = e.paras
  BY <1>2, <1>8, <1>9 DEF DocFields
<1>11. AgreesSoFar(Items(request), request.claims.sentences, request.draft.blocks, request.outcomes,
                   doc.flat, doc.paras, <<>>)
  BY <1>1, <1>3 DEF AgreementKept, Agreement, Writing
<1>12. AgreesSoFar(Items(request), request.claims.sentences, request.draft.blocks, request.outcomes,
                   doc.flat, e.paras, <<>>)
  BY <1>6, <1>9, <1>11, SameTellingsAgree DEF DocKept
<1>13. Items(request') = Items(request)
  BY <1>5, SameItems
<1> QED
  BY <1>5, <1>10, <1>12, <1>13 DEF AgreementKept, Agreement

(* Every step keeps the agreement.                                          *)
LEMMA NextAgrees ==
  ASSUME ExportKept, PlacementKept, PlacesKept, AgreementKept, [Next]_vars
  PROVE  AgreementKept'
<1>1. CASE UNCHANGED vars \/ Accept \/ Edit \/ Reparse \/ Redetect
  <2>1. UNCHANGED <<request, doc>>
    BY <1>1 DEF vars, db, Accept, Edit, Reparse, Redetect
  <2> QED
    BY <2>1 DEF AgreementKept
<1>2. CASE StartExport \/ ReadClaims \/ ReadAccepted \/ Refuse \/ WriteMarkdown \/ WriteTable
  <2>1. DOMAIN request = Fields
    BY DEF ExportKept, RequestKept, Fields
  <2>2. request'.pc \in {"draft", "claims", "bundle", "refused"}
          \/ (request'.pc = "done" /\ request'.format # "docx")
    <3>1. CASE StartExport \/ ReadClaims \/ ReadAccepted \/ Refuse
      BY <2>1, <3>1 DEF StartExport, NoRequest, ReadClaims, ReadAccepted, Refuse, Fields
    <3>2. CASE WriteMarkdown
      BY <2>1, <3>2 DEF WriteMarkdown, Fields
    <3>3. CASE WriteTable
      BY <2>1, <3>3 DEF WriteTable, Fields
    <3> QED
      BY <1>2, <3>1, <3>2, <3>3
  <2>3. ~ Writing(request') /\ request'.pc \notin {"resolve", "insert"}
    BY <2>2 DEF Writing
  <2> QED
    BY <2>3 DEF AgreementKept, Agreement
<1>3. CASE OpenDocx \/ ResolveParagraph \/ InsertNext \/ NextParagraph \/ FinishDocx
  BY <1>3, OpenAgrees, ResolveAgrees, InsertAgrees, NextParagraphAgrees, FinishAgrees
<1> QED
  BY <1>1, <1>2, <1>3 DEF Next, Export

(* At the end no point waits: such a paragraph has all its citations.       *)
LEMMA ParagraphAgrees ==
  ASSUME NEW items, NEW ss, NEW bs, NEW outs, NEW flat, NEW paras, NEW old,
         ClaimsPlaced(ss, bs, outs, flat, paras), ParasKept(old, paras), IsBlocks(bs),
         AgreesSoFar(items, ss, bs, outs, flat, paras, <<>>),
         NEW b \in DOMAIN bs, NEW p, p = bs[b].paragraph, AllInserted(ss, outs, p),
         NEW its, its = LastFirst(items, p), Len(its) \in Nat
  PROVE  Words(Marked(paras[flat[p]])) = Words(InsertAll(bs[b], its).text)
<1>1. PICK k \in DOMAIN outs : ss[outs[k].claim].paragraph = p /\ outs[k].status = "INSERTED"
  BY DEF AllInserted
<1>2. PICK c : c = outs[k].claim
  OBVIOUS
<1>3. InsertedIn(outs, c) /\ ss[c].paragraph = p
  BY <1>1, <1>2 DEF InsertedIn
<1>4. flat[p] \in DOMAIN paras
  BY <1>3 DEF ClaimsPlaced
<1>5. PICK para : para = paras[flat[p]]
  OBVIOUS
<1>6. para.runs \in Seq(DocRuns)
  BY <1>4, <1>5 DEF ParasKept, ParaKept
<1>7. Words(Marked(para)) = Told(para.runs)
  BY <1>6, ToldWords
<1>8. PICK n \in Nat : n + Waiting(<<>>, p) = Len(its) /\ Upto(bs[b], its, n, TextAt(flat, paras, p))
  BY DEF AgreesSoFar
<1>9. n = Len(its)
  BY <1>8 DEF Waiting
<1>10. PICK block, t : block = bs[b] /\ t = TextAt(flat, paras, p)
  OBVIOUS
<1>11. Upto(block, its, Len(its), t) /\ block.text \in Seq(Character)
  BY <1>8, <1>9, <1>10 DEF IsBlocks
<1>12. t = Words(InsertAll(block, its).text)
  BY <1>11, UptoAll
<1> QED
  BY <1>5, <1>7, <1>10, <1>12 DEF TextAt

(* The invariant implies the property.                                      *)
LEMMA AgreementHolds ==
  ASSUME ExportKept, PlacesKept, AgreementKept
  PROVE  MarkdownAgrees
<1> DEFINE outs == request.outcomes
           ss == request.claims.sentences
           bs == request.draft.blocks
           items == Items(request)
<1>1. SUFFICES ASSUME request.pc = "done", request.format = "docx", NEW block \in Range(bs),
                      \E o \in Range(outs) : ss[o.claim].paragraph = block.paragraph,
                      \A o \in Range(outs) : ss[o.claim].paragraph = block.paragraph => o.status = "INSERTED"
               PROVE  Words(Marked(doc.paras[doc.flat[block.paragraph]]))
                        = Words(MarkdownBlock(request, block).text)
  BY DEF MarkdownAgrees
<1>2. PICK b \in DOMAIN bs : block = bs[b]
  BY DEF Range
<1>3. PICK p : p = block.paragraph
  OBVIOUS
<1>4. AllInserted(ss, outs, p)
  BY <1>1, <1>3 DEF AllInserted, Range
<1>5. DocKept(request, doc) /\ Loaded(request) /\ Spans(ss)
  BY <1>1 DEF PlacesKept, RequestPlaced, Writing, ExportKept, RequestKept
<1>6. /\ ClaimsPlaced(ss, bs, outs, doc.flat, doc.paras) /\ ParasKept(doc.source.paras, doc.paras)
  BY <1>5 DEF DocKept
<1>7. IsBlocks(bs) /\ ss \in Seq(Range(ss))
  BY <1>5 DEF Loaded, IsDraft, IsSentences
<1>8. AgreesSoFar(items, ss, bs, outs, doc.flat, doc.paras, <<>>)
  BY <1>1 DEF AgreementKept, Agreement, Writing
<1>9. PICK its : its = LastFirst(items, p)
  OBVIOUS
<1>10. Len(its) \in Nat
  <2>1. AreItems(items, Range(items))
    BY <1>5, ItemsOfLoaded
  <2>2. its \in Seq(Range(items))
    BY <1>9, <2>1, LastFirstSelects
  <2> QED
    BY <2>2
<1>11. MarkdownBlock(request, block) = InsertAll(block, its)
  BY <1>3, <1>9 DEF MarkdownBlock
<1> HIDE DEF ss, bs, outs, items
<1>12. PICK flat, paras, old : flat = doc.flat /\ paras = doc.paras /\ old = doc.source.paras
  OBVIOUS
<1>13. Words(Marked(paras[flat[p]])) = Words(InsertAll(bs[b], its).text)
  <2>1. ClaimsPlaced(ss, bs, outs, flat, paras) /\ ParasKept(old, paras)
        /\ AgreesSoFar(items, ss, bs, outs, flat, paras, <<>>)
    BY <1>6, <1>8, <1>12
  <2>2. p = bs[b].paragraph
    BY <1>2, <1>3
  <2> QED
    BY <1>4, <1>7, <1>9, <1>10, <2>1, <2>2, ParagraphAgrees
<1> QED
  BY <1>2, <1>3, <1>11, <1>12, <1>13

(* A docx export and a Markdown export of one bundle agree: a paragraph of    *)
(* the document in which every citation was inserted reads, words, citations  *)
(* and their places, as its block of the Markdown export, whatever the runs   *)
(* and spaces of the file and although one inserts by runs and the other by   *)
(* offsets (app/services/export/docx_writer.py:76-210,                        *)
(* markdown_writer.py:25-95).                                                 *)
THEOREM ExportsAgree == Spec => []MarkdownAgrees
<1>1. Init => AgreementKept
  BY DEF Init, NoRequest, AgreementKept, Agreement, Writing
<1>2. ExportKept /\ PlacementKept /\ PlacesKept /\ AgreementKept /\ [Next]_vars => AgreementKept'
  BY NextAgrees
<1>3. ExportKept /\ PlacesKept /\ AgreementKept => MarkdownAgrees
  BY AgreementHolds
<1> QED
  BY <1>1, <1>2, <1>3, PlacesAreKept, PTL DEF Spec
================================================================================
