--------------------------- MODULE MCAnalysisStages ---------------------------
(***************************************************************************)
(* AnalysisStages with drafts of five sentences, three references and      *)
(* three goals.  Texts 1 to 4: 1 and 3 are strong claims, 2 is not and     *)
(* carries a citation, 4 is of the abstract.  Text 1 occurs twice.         *)
(***************************************************************************)
EXTENDS AnalysisStages

MCJobs == 1 .. 2
Sentence(text, section, start, marks, citations) ==
  [text |-> text, section |-> section, start |-> start, marks |-> marks, citations |-> citations]
Strong == {"consensus_phrase", "reporting_verb"}
Sentences ==
  <<Sentence(4, "abstract", 5, Strong, 1),
    Sentence(1, "introduction", 20, Strong, 0),
    Sentence(2, "introduction", 30, {"statistic"}, 1),
    Sentence(1, "results", 40, Strong, 0),
    Sentence(3, "results", 50, Strong, 0)>>
Intro(start) == <<[intro |-> FALSE, start |-> 0], [intro |-> TRUE, start |-> start]>>
Draft(blocks, found) == [blocks |-> blocks, sentences |-> Sentences, found |-> found]
Blank == [blocks |-> <<>>, sentences |-> <<>>, found |-> {}]

MCScenarios ==
  {[draft |-> Blank, todo |-> <<"classify", "detect", "recommend">>]} \cup
  {[draft |-> Draft(Intro(60), {}), todo |-> <<"detect">>]} \cup
  {[draft |-> Draft(Intro(10), {}), todo |-> chain] :
     chain \in {<<"detect", "detect">>, <<"detect", "recommend">>, <<"recommend", "recommend">>}} \cup
  {[draft |-> Draft(<<>>, found), todo |-> <<"classify">>] :
     found \in {{}, {11}, {12}, {10, 12}, {11, 13, 20, 21}, {12, 21}}}

(* Complete, out of order, missing, repeated and foreign indices.           *)
Says(idx, needs) == [idx |-> idx, needs |-> needs]
MCAnswers ==
  {<<>>, <<Says(0, TRUE), Says(1, FALSE)>>, <<Says(1, TRUE), Says(0, FALSE)>>,
   <<Says(1, FALSE)>>, <<Says(0, FALSE), Says(0, TRUE)>>, <<Says(2, TRUE), Says(0, FALSE)>>}
Judges(idx, verdict) == [idx |-> idx, verdict |-> verdict]
MCJudgements ==
  {<<>>, <<Judges(1, "SUPPORTED"), Judges(0, "CONTRADICTED")>>, <<Judges(1, "INSUFFICIENT_EVIDENCE")>>,
   <<Judges(0, "CONTRADICTED"), Judges(0, "TOPICALLY_RELATED_BUT_NOT_EVIDENCE")>>,
   <<Judges(-1, "SUPPORTED"), Judges(0, "PARTIALLY_SUPPORTED"), Judges(1, "SKIPPED")>>}

MCReferences == 1 .. 3
MCIndexed == 1 .. 2
ByText(a, b, c) == <<a, b, c, a>>
MCSemantic == ByText(<<90, 80, 60>>, <<20, 70, 50>>, <<95, 60, 90>>)
MCBm25 == ByText(<<4, 8, 2>>, <<0, 0, 0>>, <<3, 3, 3>>)
MCCrossEncoder == ByText(<<95, 97, 80>>, <<40, 60, 30>>, <<90, 50, 99>>)
MCClaimTokens == ByText({1, 2}, {3}, {})
MCReferenceTokens == <<{1}, {2, 3}, {}>>
MCAbstracts == {1, 2}

MCGoalKeywords == <<<<10, 11, 12>>, <<20, 21>>, <<13>>>>
MCNameOf == <<10, 0, 0>>
MCLength == [k \in {10, 11, 12, 13, 20, 21} |-> k]
MCGeneric == {12, 13}
==============================================================================
