---------------------------- MODULE MCDraftExport ----------------------------
(***************************************************************************)
(* DraftExport with eight drafts and two papers of one year by James Smith *)
(* and Ozgur Muller (with umlauts: z and r begin the rest of the given     *)
(* name), whose names are written differently.  Draft 1, in two edits: two *)
(* sentences in one paragraph that share a run; a word or a paragraph may  *)
(* be edited.  Draft 2: a keywords line, and a cell merged over two        *)
(* columns.  Drafts 3 and 4: tracked changes, tabs, breaks, one sentence   *)
(* twice.  Draft 5: a content control, a no-break hyphen, the end of a     *)
(* page.  Draft 6: Markdown and plain text.                                *)
(***************************************************************************)
EXTENDS DraftExport

Run(chars) == [tracked |-> "no", chars |-> chars, claim |-> 0]
Ins(chars) == [tracked |-> "ins", chars |-> chars, claim |-> 0]
Del(chars) == [tracked |-> "del", chars |-> chars, claim |-> 0]
Nested(chars) == [tracked |-> "nested", chars |-> chars, claim |-> 0]
Para(role, runs) == [role |-> role, runs |-> runs]
Docx(paras, body, cells) ==
  [kind |-> "docx", paras |-> paras, body |-> body, cells |-> cells, chunks |-> <<>>]
Text(kind, chunks) ==
  [kind |-> kind, paras |-> <<>>, body |-> <<>>, cells |-> <<>>, chunks |-> chunks]

Empty == Para("body", <<>>)
Keywords == Para("keywords", <<Run(<<"k">>)>>)
Intro == Para("intro", <<Run(<<" ", "i">>)>>)
TwoSentences(word) ==
  Para("body", <<Run(<<"a">>), Run(<<"nbsp", " ", word, "?", ".", " ", "b">>), Run(<<" ", "c", ".">>)>>)
Cell == Para("body", <<Run(<<"d">>)>>)

Paper1(word) == Docx(<<Empty, Intro, TwoSentences(word)>>, <<1, 2, 3>>, <<>>)
Shorter == Docx(<<Intro, TwoSentences("x")>>, <<1, 2>>, <<>>)
Paper2 == Docx(<<Keywords, Cell>>, <<1>>, <<<<2>>, <<2>>>>)

Changed == Para("body", <<Run(<<"a">>), Ins(<<"e">>), Run(<<".">>)>>)
Deleted == Para("body", <<Run(<<"a">>), Del(<<"e">>), Run(<<" ", "b", ".">>)>>)
Indented == Para("body", <<Run(<<"tab", "a", " ", "b", ".">>)>>)
Broken == Para("body", <<Run(<<"a", ".", "lf", "a", ".">>)>>)
Controlled == Para("body", <<Run(<<"a">>), Nested(<<"e">>), Run(<<".">>)>>)
Hyphenated == Para("body", <<Run(<<"page">>), Run(<<"a", "hyphen", "b", ".">>)>>)
Paper3 == Docx(<<Changed, Deleted>>, <<1, 2>>, <<>>)
Paper4 == Docx(<<Indented, Broken>>, <<1, 2>>, <<>>)
Paper5 == Docx(<<Controlled, Hyphenated>>, <<1, 2>>, <<>>)

Paper6(kind) ==
  Text(kind, <<<<<<>>, <<"#", " ", "h">>>>, <<<<"a", ".">>, <<"b", " ">>>>, <<<<" ">>>>>>)

MCFiles ==
  {<<Paper1("x"), Paper1("y")>>, <<Paper1("x"), Shorter>>, <<Paper2, Paper2>>,
   <<Paper3, Paper3>>, <<Paper4, Paper4>>, <<Paper5, Paper5>>,
   <<Paper6("md"), Paper6("md")>>, <<Paper6("txt"), Paper6("txt")>>}

Written(authors, title) ==
  [authors |-> authors, title |-> <<title>>, year |-> 2020,
   source |-> 1, link |-> 1]
Smith == Word(31, <<3>>)
James == [full |-> Word(25, <<2>>), short |-> InitialsGroup(26, <<2>>)]
Muller == Word(33, <<3, 4>>)
Ozgur == [full |-> Word(27, <<7, 8>>), short |-> Word(28, <<>>)]
MCPaper ==
  [first |-> Written(<<<<Smith, James.short>>, <<Muller, Comma, Ozgur.full>>>>, 10),
   second |-> Written(<<<<Smith, Comma, James.full>>, <<Ozgur.short, Muller>>>>, 20)]
MCFamilyNames == {Smith, Muller}
MCGivenNames == {James, Ozgur}
==============================================================================
