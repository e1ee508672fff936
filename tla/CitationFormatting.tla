-------------------------- MODULE CitationFormatting --------------------------
(***************************************************************************)
(* citation_formatting_service.py: in-text citations and reference-list    *)
(* entries of a sequence of accepted references, in APA, Chicago           *)
(* author-date and IEEE.                                                   *)
(*                                                                         *)
(* A word of a name or title is a natural, in alphabetical order and       *)
(* already without case; so is a letter.  A year is a natural, 0 when      *)
(* unknown.  A citation is a tuple of the parts that tell two of them      *)
(* apart; punctuation is left out, except the parentheses that joining     *)
(* removes.                                                                *)
(***************************************************************************)
EXTENDS Naturals, Sequences, FiniteSets, SequencesExt, Ordering

Styles == {"APA", "CHICAGO", "IEEE"}   \* SUPPORTED_STYLES

-----------------------------------------------------------------------------
(* Author names.  A raw name is a sequence of tokens with blanks between:   *)
(* a comma; a group of one to four unaccented initials, _TRAILING_INITIALS_ *)
(* TOKEN ("J.", "J.H."); or any other word.  letters are the first letters  *)
(* of the runs of unaccented letters in it, which is what _to_initials      *)
(* finds: one for "James", two for "Jean-Pierre" and for the word "J.-P.",  *)
(* none for an accented initial, which is a word too.                       *)

Word(w, letters) == [kind |-> "word", letters |-> letters, word |-> w]
InitialsGroup(w, letters) == [kind |-> "initials", letters |-> letters, word |-> w]
Comma == [kind |-> "comma", letters |-> <<>>, word |-> 0]

(* _to_initials: the letters of every token.                                *)
ToInitials(tokens) == Concatenated([i \in DOMAIN tokens |-> tokens[i].letters])

AuthorName(family, given) ==
  [family |-> [i \in DOMAIN family |-> family[i].word], initials |-> ToInitials(given)]

(* Mutant: trailing initials are taken for the family name.                 *)
FamilyIsAlwaysLast(raw) == AuthorName(<<Last(raw)>>, Front(raw))

(* parse_author_name: a comma ends the surname; a last token of initials    *)
(* leaves the rest as the surname; otherwise the last word is the surname,  *)
(* with or without _GIVEN_FIRST_INITIALS, initials or given names before it.*)
ParseAuthorName(raw) ==
  LET commas == {i \in 2 .. Len(raw) - 1 : raw[i].kind = "comma" /\ raw[1].kind # "comma"} IN
    CASE commas # {} ->
           LET c == CHOOSE i \in commas : \A j \in commas : i <= j
           IN AuthorName(SubSeq(raw, 1, c - 1), SubSeq(raw, c + 1, Len(raw)))
      [] commas = {} /\ Len(raw) > 1 /\ Last(raw).kind = "initials" ->
           AuthorName(Front(raw), <<Last(raw)>>)
      [] OTHER -> AuthorName(<<Last(raw)>>, Front(raw))

-----------------------------------------------------------------------------
(* References: [authors, title, year, source, link], authors parsed.        *)

ShortTitle(title) == SubSeq(title, 1, IF Len(title) < 4 THEN Len(title) ELSE 4)

(* _author_year_key and the year: what year letters must tell apart.        *)
AuthorYearKey(ref) ==
  [name |-> IF ref.authors = <<>> THEN <<"title", ShortTitle(ref.title)>>
            ELSE <<"family", ref.authors[1].family>>,
   year |-> ref.year]

(* _in_text_authors; Chicago differs in "and" for "&" only.                 *)
InTextAuthors(ref) ==
  LET n == Len(ref.authors) IN
    CASE n = 0 -> <<"title", ShortTitle(ref.title)>>
      [] n \in {1, 2} -> <<"names", [i \in 1 .. n |-> ref.authors[i].family]>>
      [] OTHER -> <<"et al.", ref.authors[1].family>>

(* How many authors an entry lists, and how many it keeps of a longer list. *)
MaxEntryAuthors == [APA |-> 20, CHICAGO |-> 10, IEEE |-> 6]
KeptEntryAuthors == [APA |-> 19, CHICAGO |-> 7, IEEE |-> 3]

(* _entry_authors and its two siblings: only APA closes a list it has cut   *)
(* with the last author.                                                    *)
EntryAuthors(authors, style) ==
  IF Len(authors) <= MaxEntryAuthors[style] THEN authors
  ELSE SubSeq(authors, 1, KeptEntryAuthors[style])
       \o (IF style = "APA" THEN <<Last(authors)>> ELSE <<>>)

-----------------------------------------------------------------------------
(* CitationContext over the references refs, style by style.                *)

Group(refs, i) == {j \in DOMAIN refs : AuthorYearKey(refs[j]) = AuthorYearKey(refs[i])}

WordsBefore(s, t) ==
  \E i \in 1 .. Len(t) :
    /\ Len(s) >= i - 1 /\ SubSeq(s, 1, i - 1) = SubSeq(t, 1, i - 1)
    /\ Len(s) = i - 1 \/ s[i] < t[i]

(* members.sort by title is stable: equal titles keep the input order.      *)
TitleBefore(refs, i, j) ==
  \/ WordsBefore(refs[i].title, refs[j].title)
  \/ refs[i].title = refs[j].title /\ i < j

(* Mutant: letters in input order.                                          *)
LetterByPosition(refs, i) ==
  IF Cardinality(Group(refs, i)) < 2 THEN 0
  ELSE 1 + Cardinality({j \in Group(refs, i) : j < i})

(* The year letter of refs[i]: 0 for none, 1 for "a", ...                   *)
YearLetter(refs, i) ==
  IF Cardinality(Group(refs, i)) < 2 THEN 0
  ELSE 1 + Cardinality({j \in Group(refs, i) : TitleBefore(refs, j, i)})

InText(refs, i, style) ==
  IF style = "IEEE" THEN [parens |-> FALSE, body |-> <<i>>]
  ELSE [parens |-> TRUE,
        body |-> <<InTextAuthors(refs[i]), refs[i].year, YearLetter(refs, i)>>]

Entry(refs, i, style) ==
  [label |-> IF style = "IEEE" THEN i ELSE YearLetter(refs, i),
   authors |-> EntryAuthors(refs[i].authors, style), title |-> refs[i].title,
   year |-> refs[i].year, source |-> refs[i].source, link |-> refs[i].link]

(* sort_key: the quote that opens a title sorts before any letter.          *)
SortsBefore(refs, i, j, style) ==
  LET a == AuthorYearKey(refs[i])
      b == AuthorYearKey(refs[j])
  IN IF style = "IEEE" THEN i < j
     ELSE \/ a.name[1] = "title" /\ b.name[1] = "family"
          \/ a.name[1] = b.name[1] /\ WordsBefore(a.name[2], b.name[2])
          \/ a.name = b.name /\ a.year < b.year
          \/ a = b /\ YearLetter(refs, i) < YearLetter(refs, j)

(* bibliography(): positions of refs in reference-list order.               *)
Bibliography(refs, style) ==
  OrderedBy(DOMAIN refs, [i \in DOMAIN refs |-> {j \in DOMAIN refs : SortsBefore(refs, j, i, style)}])

(* join_in_text: several citations share one pair of parentheses.           *)
JoinInText(texts) ==
  [parens |-> IF Len(texts) = 1 THEN texts[1].parens ELSE texts # <<>>,
   body |-> [k \in DOMAIN texts |-> texts[k].body]]
=============================================================================
