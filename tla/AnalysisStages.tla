---------------------------- MODULE AnalysisStages ----------------------------
(***************************************************************************)
(* The stages of analyses of one draft, executed one after another by the  *)
(* worker: classify_draft, detect_and_store_claims, recommend_for_draft.   *)
(* A stage reads its input, asks the model through the client in a pool of *)
(* threads, and writes its result in one commit at its end; a stage that   *)
(* raises is rolled back.  A call of a stage is a job of LLMClient.  What  *)
(* an answer says is chosen when the stage reads it.                       *)
(***************************************************************************)
EXTENDS SdgClassification, LLMClient

CONSTANTS
  Scenarios,      \* [draft, todo]: a parsed draft and the stages to execute
  Threads,        \* llm_max_concurrency
  BatchSize,      \* classify_batch_size
  Answers,        \* bound: answers to a batch, sequences of [idx, needs]
  Judgements,     \* bound: answers to a claim, sequences of [idx, verdict]
  FirstAbstracts  \* references with an abstract at the beginning

(* Every sentence of a draft has a text that the models score.              *)
ASSUME ScenariosAssumption ==
  \A s \in Scenarios :
    /\ s.draft.sentences \in Seq(Range(s.draft.sentences))
    /\ \A sentence \in Range(s.draft.sentences) : sentence.text \in Texts

(* An index that the model answers with is any integer.                     *)
ASSUME AnswersAssumption ==
  /\ Answers \subseteq Seq([idx : Int, needs : BOOLEAN])
  /\ Judgements \subseteq Seq([idx : Int, verdict : Verdicts])

ASSUME BatchSizeAssumption == BatchSize \in Nat \ {0}

(* There is a job for every call of a stage: the pick and its follow-up,    *)
(* every batch of a draft, every claim that is verified.                    *)
ASSUME JobsAssumption ==
  /\ 1 .. 2 \subseteq Jobs /\ 1 .. VerifyClaimLimit \subseteq Jobs
  /\ \A s \in Scenarios :
       1 .. (Cardinality(ToClassify(s.draft)) + BatchSize - 1) \div BatchSize \subseteq Jobs

VARIABLES
  draft, todo, stage,
  claims, classified,   \* claims; llm_classification_cache: text -> decision
  recs, verdicts,       \* claim -> rows; llm_verification_cache
  abstracts,            \* references that have an abstract
  sdg                   \* the draft's sdg columns

tables == <<claims, classified, recs, verdicts, sdg>>
vars == <<llmVars, draft, todo, stage, tables, abstracts>>

StageNo == [classify |-> 2, detect |-> 3, recommend |-> 4]
Idle == [name |-> "none", calls |-> <<>>, goal |-> 0, cancelled |-> FALSE]

(* The draft was analysed before, by a model that judged no sentence.       *)
Init ==
  /\ LLMInit
  /\ \E s \in Scenarios :
       draft = s.draft /\ todo = s.todo /\ claims = Claims(s.draft, <<>>)
  /\ stage = Idle
  /\ classified = <<>> /\ verdicts = <<>>
  /\ recs = [i \in DOMAIN claims |-> <<>>]
  /\ abstracts = FirstAbstracts
  /\ sdg = NoSdg

-----------------------------------------------------------------------------
(* The pool of the stage.                                                   *)

(* A claim of which nothing is pending makes no call.                       *)
Asks(k) ==
  k \in DOMAIN stage.calls /\ (stage.name = "recommend" => stage.calls[k].pending # <<>>)

Ended(k) == ~ Asks(k) \/ job[k].pc \in {"ok", "failed"}
AllEnded == \A k \in DOMAIN stage.calls : Ended(k)
AllOk == \A k \in DOMAIN stage.calls : job[k].pc = "ok"

BeginCall(j) ==
  /\ Asks(j) /\ ~ stage.cancelled
  /\ \A i \in 1 .. j - 1 : Asks(i) => job[i].pc # "idle"
  /\ Cardinality({i \in Jobs : Running(i)}) < Threads
  /\ Begin(j)
  /\ UNCHANGED <<draft, todo, stage, tables, abstracts>>

(* The first LLMOutputError in submission order cancels what has not begun. *)
(* Verification and the follow-up for a keyword catch it instead.           *)
Raises(j) ==
  /\ job[j].pc = "failed"
  /\ stage.name = "detect" \/ (stage.name = "classify" /\ j = 1)

Cancel ==
  /\ ~ stage.cancelled
  /\ \E j \in DOMAIN stage.calls : Raises(j) /\ \A i \in 1 .. j - 1 : job[i].pc = "ok"
  /\ stage' = [stage EXCEPT !.cancelled = TRUE]
  /\ UNCHANGED <<llmVars, draft, todo, tables, abstracts>>

-----------------------------------------------------------------------------
StartStage(name, calls) ==
  /\ stage.name = "none" /\ todo # <<>> /\ Head(todo) = name
  /\ stage' = [Idle EXCEPT !.name = name, !.calls = calls]
  /\ UNCHANGED <<llmVars, draft, todo, tables, abstracts>>

(* There is nothing to do: the stage returns without writing.               *)
NothingToDo ==
  CASE Head(todo) = "classify" -> draft.found = {} /\ draft.sentences = <<>>
    [] Head(todo) = "detect" -> draft.sentences = <<>>
    [] OTHER -> \A i \in DOMAIN claims : ~ claims[i].needs

Return ==
  /\ stage.name = "none" /\ todo # <<>> /\ NothingToDo
  /\ todo' = Tail(todo)
  /\ UNCHANGED <<llmVars, draft, stage, tables, abstracts>>

StartClassify == todo # <<>> /\ ~ NothingToDo /\ StartStage("classify", <<"goal">>)

StartDetect ==
  /\ todo # <<>> /\ ~ NothingToDo
  /\ StartStage("detect", Batches(draft, classified, BatchSize))

StartRecommend ==
  /\ todo # <<>> /\ ~ NothingToDo
  /\ StartStage("recommend", Plans(claims, verdicts, abstracts))

LeavePool ==
  /\ stage' = Idle
  /\ job' = [j \in Jobs |-> NoJob]
  /\ UNCHANGED <<nextIn, faults, draft, abstracts>>

(* Mutant: the deletion of the old claims was committed before the calls.   *)
FailAfterDelete ==
  /\ stage.cancelled /\ \A j \in Jobs : ~ Running(j)
  /\ LeavePool
  /\ todo' = IF Len(todo) > 1 /\ StageNo[todo[2]] > StageNo[todo[1]] THEN <<>> ELSE Tail(todo)
  /\ claims' = IF stage.name = "detect" THEN <<>> ELSE claims
  /\ recs' = IF stage.name = "detect" THEN <<>> ELSE recs
  /\ UNCHANGED <<classified, verdicts, sdg>>

(* Rolled back once the pool is left; the rest of this run's chain is lost. *)
Fail ==
  /\ stage.cancelled /\ \A j \in Jobs : ~ Running(j)
  /\ LeavePool
  /\ todo' = IF Len(todo) > 1 /\ StageNo[todo[2]] > StageNo[todo[1]] THEN <<>> ELSE Tail(todo)
  /\ UNCHANGED tables

Finish == LeavePool /\ todo' = Tail(todo)

-----------------------------------------------------------------------------
(* classify_draft                                                           *)

Picks == [fits : BOOLEAN, goal : Goals \cup {0}, keyword : AllKeywords \cup {0}]

ClassifyGoal ==
  LET candidates == Candidates(draft.found) IN
  /\ stage.name = "classify" /\ stage.goal = 0 /\ job[1].pc = "ok"
  /\ \E pick \in Picks :
       LET match == Match(candidates, pick)
           keyword == Keyword(match, pick)
       IN IF Fits(match, pick) /\ keyword = 0
          THEN /\ stage' = [stage EXCEPT !.goal = match.goal, !.calls = <<"goal", "keyword">>]
               /\ UNCHANGED <<llmVars, draft, todo, tables, abstracts>>
          ELSE /\ Finish
               /\ sdg' = IF Fits(match, pick) THEN Confirmed(match, keyword) ELSE Declined(match)
               /\ UNCHANGED <<claims, classified, recs, verdicts>>

ClassifyKeyword ==
  /\ stage.name = "classify" /\ stage.goal # 0 /\ Ended(2)
  /\ \E keyword \in AllKeywords \cup {0} :
       sdg' = Confirmed(stage, IF job[2].pc = "ok" THEN FromFullGroup(stage.goal, keyword) ELSE 0)
  /\ Finish
  /\ UNCHANGED <<claims, classified, recs, verdicts>>

-----------------------------------------------------------------------------
(* detect_and_store_claims                                                  *)

(* An index counts from 0; it may be repeated, missing or of no sentence.   *)
Told(batch, answer) ==
  [k \in DOMAIN answer |->
     LET idx == answer[k].idx IN
     [idx |-> idx,
      decision |-> [about |-> IF idx + 1 \in DOMAIN batch
                               THEN draft.sentences[batch[idx + 1]].text ELSE 0,
                    needs |-> answer[k].needs, confidence |-> 90]]]

DetectCommit ==
  /\ stage.name = "detect" /\ AllOk
  /\ \E shapes \in [DOMAIN stage.calls -> Answers] :
       LET answers == [b \in DOMAIN stage.calls |-> Told(stage.calls[b], shapes[b])] IN
       /\ claims' = Claims(draft, Extended(CachedDecisions(draft, classified),
                                           Classified(stage.calls, answers)))
       /\ classified' = StoreCache(draft, classified, stage.calls, answers)
  /\ recs' = [i \in DOMAIN claims' |-> <<>>]
  /\ Finish
  /\ UNCHANGED <<verdicts, sdg>>

-----------------------------------------------------------------------------
(* recommend_for_draft                                                      *)

(* No answer when nothing was asked or the call failed.                     *)
Batch(k, judgements) ==
  LET plan == stage.calls[k] IN
  IF ~ Asks(k) \/ job[k].pc # "ok" THEN NoBatch
  ELSE [e \in DOMAIN judgements |->
          LET idx == judgements[e].idx IN
          [idx |-> idx,
           outcome |-> [verdict |-> judgements[e].verdict,
                        about |-> IF idx + 1 \in DOMAIN plan.pending
                                  THEN <<plan.text, plan.pending[idx + 1]>> ELSE Nobody]]]

(* The old rows of every prepared claim are gone; the verified ones get new *)
(* rows.                                                                    *)
RecommendCommit ==
  LET cleared == {item.claim : item \in Range(Prepared(claims, abstracts))}
      plans == stage.calls
  IN
  /\ stage.name = "recommend" /\ AllEnded
  /\ \E shapes \in [DOMAIN plans -> Judgements] :
       LET batches == [k \in DOMAIN plans |-> Batch(k, shapes[k])] IN
       /\ verdicts' = StoreVerdicts(verdicts, plans, batches)
       /\ recs' = [i \in DOMAIN claims |->
            CASE \E k \in DOMAIN plans : plans[k].claim = i ->
                   LET k == CHOOSE k \in DOMAIN plans : plans[k].claim = i
                   IN Rows(plans[k], batches[k])
              [] OTHER -> IF i \in cleared THEN <<>> ELSE recs[i]]
  /\ Finish
  /\ UNCHANGED <<claims, classified, sdg>>

-----------------------------------------------------------------------------
(* Enrichment finds an abstract, whatever stage is at work.                 *)
AbstractArrives ==
  /\ \E r \in References \ abstracts : abstracts' = abstracts \cup {r}
  /\ UNCHANGED <<llmVars, draft, todo, stage, tables>>

StageStep ==
  \/ Return \/ StartClassify \/ StartDetect \/ StartRecommend \/ Fail
  \/ ClassifyGoal \/ ClassifyKeyword \/ DetectCommit \/ RecommendCommit

Client == LLMNext /\ UNCHANGED <<draft, todo, stage, tables, abstracts>>

Pool == Client \/ (\E j \in Jobs : BeginCall(j)) \/ Cancel

Next == Pool \/ StageStep \/ AbstractArrives

Spec == Init /\ [][Next]_vars

(* The pool goes on while anything in it can: threads run, sleeps end, and  *)
(* a request ends, by its timeout if need be.                               *)
FairSpec == Spec /\ WF_vars(Pool)

-----------------------------------------------------------------------------
(* Properties.                                                              *)

(* Type correctness of the client, the stage and the tables.                *)
Decision == [about : Texts, needs : BOOLEAN, confidence : 0 .. 100]
TypeOK ==
  /\ ClientTypeOK
  /\ stage.name \in DOMAIN StageNo \cup {"none"} /\ DOMAIN stage.calls \subseteq Jobs
  /\ DOMAIN claims \subseteq DOMAIN draft.sentences /\ DOMAIN recs = DOMAIN claims
  /\ \A t \in DOMAIN classified : classified[t] \in Decision
  /\ DOMAIN verdicts \subseteq {d.text : d \in Range(draft.sentences)} \X References
  /\ \A key \in DOMAIN verdicts : verdicts[key].verdict \in Verdicts
  /\ sdg \in [goal : Goals \cup {0}, keyword : AllKeywords \cup {0}, closest : Goals \cup {0}]

(* One structured call makes at most two prompts of llm_max_attempts        *)
(* requests each, whatever comes back (_call_primary_with_retry inside      *)
(* complete_structured, llm_client.py:255-345).                             *)
RequestsBounded ==
  \A j \in Jobs : job[j].prompt <= 2 /\ job[j].sent <= MaxAttempts * job[j].prompt

(* Start times that threads have booked and not reached are the spacing     *)
(* apart, although back-offs and warnings move the schedule                 *)
(* (llm_client.py:178-208).                                                 *)
StartsApart ==
  \A i, j \in Jobs :
    i # j /\ job[i].pc = "paced" /\ job[j].pc = "paced" /\ 0 < job[i].sleep
      /\ job[i].sleep <= job[j].sleep
    => job[j].sleep >= job[i].sleep + Spacing

(* The pool of every stage drains: its calls end, or are cancelled and none *)
(* runs, although they are queued, paced, retried and repaired              *)
(* (claim_detection_service.py:455-457, recommendation_pipeline.py:311-319).*)
Drained == AllEnded \/ (stage.cancelled /\ \A j \in Jobs : ~ Running(j))
PoolDrains == stage.name # "none" ~> Drained

(* A decision of the model is stored with the sentence it was made about,   *)
(* and cached under that text, whatever indices are missing, repeated or    *)
(* foreign (classify_batch, claim_detection_service.py:261-306).            *)
DecisionsOnTheirSentence ==
  /\ \A i \in DOMAIN claims :
       claims[i].method = "LLM" =>
         claims[i].decision.about = draft.sentences[i].text
  /\ \A t \in DOMAIN classified : classified[t].about = t

(* A committed set of claims is of a whole draft: it has every analysed     *)
(* sentence with a citation, and every one the rules hold for a strong      *)
(* claim that the model did not judge, also after a stage that failed       *)
(* (claim_detection_service.py:380, 465-532).                               *)
ClaimsAreComplete ==
  \A i \in Analysed(draft) :
    LET s == draft.sentences[i] IN
      s.citations > 0 \/ (Prefilter(s) = "STRONG" /\ s.text \notin DOMAIN classified)
        => i \in DOMAIN claims

(* The next run finds what this one shows: a detection that only looks in   *)
(* the Tier-1 cache stores the same claims, and the verdict of a row is the *)
(* cached one of its pair.  Of equal sentences judged in one run at least   *)
(* one is like that; the others may have been judged otherwise              *)
(* (claim_detection_service.py:423-468, verification_service.py:131-190).   *)
SameIn(again, i) ==
  /\ i \in DOMAIN claims <=> i \in DOMAIN again
  /\ i \in DOMAIN claims => claims[i] = again[i]
RerunRepeats ==
  /\ LET again == Claims(draft, CachedDecisions(draft, classified))
         asked == ToClassify(draft)
     IN \A i \in asked : \E j \in asked :
          draft.sentences[j].text = draft.sentences[i].text /\ SameIn(again, j)
  /\ \A i \in DOMAIN claims : claims[i].method = "LLM" => claims[i].text \in DOMAIN classified
  /\ \A i \in DOMAIN recs : \A row \in Range(recs[i]) :
       row.about # Nobody =>
         /\ row.about \in DOMAIN verdicts
         /\ \/ verdicts[row.about].verdict = row.verdict
            \/ \E j \in DOMAIN claims \ {i} : claims[j].text = claims[i].text

(* A verdict is stored with the claim and the reference it was given for;   *)
(* what no model said (no abstract, no answer) is never cached, so that an  *)
(* abstract that arrives, or a provider that recovers, is made use of       *)
(* (verification_service.py:188-292).                                       *)
VerdictsOnTheirPair ==
  /\ \A key \in DOMAIN verdicts : verdicts[key].about = key
  /\ \A i \in DOMAIN recs : \A row \in Range(recs[i]) :
       row.about \in {Nobody, <<claims[i].text, row.ref>>}

(* The rows of a claim are of distinct references, best percentage first,   *)
(* each with the reranker score of its own pair                             *)
(* (recommendation_pipeline.py:85-213).                                     *)
RanksAreSound ==
  \A i \in DOMAIN recs : \A k \in DOMAIN recs[i] :
    LET row == recs[i][k] IN
    /\ row.reranker = CrossEncoder[claims[i].text][row.ref]
    /\ \A l \in 1 .. k - 1 : recs[i][l].ref # row.ref /\ recs[i][l].percentage >= row.percentage

(* What was not verified, or was contradicted, is never labelled as a       *)
(* recommendation, however similar it is (scoring.py:53-133).               *)
NoFalseSupport ==
  \A i \in DOMAIN recs : \A row \in Range(recs[i]) :
    row.label \in {"Strong recommendation", "Recommended"} =>
      row.hasAbstract /\ row.verdict \notin {"SKIPPED", "INSUFFICIENT_EVIDENCE", "CONTRADICTED"}

(* The shortlist names no reference twice, and a claim's best reference is  *)
(* left out only for as many others that are at least as good               *)
(* (best_references_for_draft, recommendations.py:173-222).                 *)
ShortlistIsBest ==
  \A limit \in 1 .. 2 :
    LET list == BestReferences(recs, limit) IN
    /\ \A k, l \in DOMAIN list : k # l => list[k].ref # list[l].ref
    /\ \A row \in Range(TopRows(recs)) :
         row.ref \notin {listed.ref : listed \in Range(list)} =>
           Len(list) = limit /\ \A listed \in Range(list) : listed.percentage >= row.percentage

(* A stored SDG is either confirmed or a closest one; the keyword of a      *)
(* confirmed one is of its group, and is the goal's own name only where the *)
(* name heads the group; generic words alone confirm no goal                *)
(* (classify_draft, sdg_classification_service.py:236-372).                 *)
SdgIsGrounded ==
  /\ sdg.goal = 0 => sdg.keyword = 0
  /\ sdg.goal # 0 =>
       /\ sdg.closest = 0
       /\ sdg.keyword \in Range(GoalKeywords[sdg.goal]) \cup {0}
       /\ sdg.keyword = NameOf[sdg.goal] => sdg.keyword \in {0, GoalKeywords[sdg.goal][1]}
       /\ LET matched == Range(GoalKeywords[sdg.goal]) \cap draft.found
          IN matched # {} => ~ matched \subseteq Generic
=============================================================================
