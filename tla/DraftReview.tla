----------------------------- MODULE DraftReview -----------------------------
(***************************************************************************)
(* The review of one draft: citation_recommendations and their decisions,  *)
(* accepted_citations and their texts, under                               *)
(*   - the handlers that record a decision, one action per SQL statement,  *)
(*     each handler in a transaction of its own (PostgreSQL, READ          *)
(*     COMMITTED: a statement sees what was committed before it);          *)
(*   - the stages of an analysis that delete and rebuild claims and        *)
(*     recommendations in one long transaction each.                       *)
(* A row that a transaction has written stays locked until it ends; a      *)
(* transaction that needs the row waits; PostgreSQL aborts one member of a *)
(* circle of waiters.  What is not committed is kept with its transaction. *)
(***************************************************************************)
EXTENDS CitationFormatting

CONSTANTS
  Requests,        \* decisions posted: an initial segment of the naturals
  Pairs,           \* (claim, reference) pairs that may be recommended: naturals
  RefOf,           \* Pairs -> the reference
  Paper,           \* reference -> what citation_formatting_service reads of it
  NoText,          \* citation_text IS NULL
  MaxAnalyses,     \* bound: detection stages
  MaxRecommends    \* bound: recommendation stages

ASSUME RequestsAssumption == Requests \subseteq Nat \ {0} /\ IsFiniteSet(Requests)
ASSUME PairsAssumption == Pairs \subseteq Nat \ {0} /\ Pairs # {}
ASSUME RefOfAssumption == RefOf \in [Pairs -> DOMAIN Paper]
ASSUME BoundsAssumption == MaxAnalyses \in Nat /\ MaxRecommends \in Nat

VARIABLES
  claims,     \* which detection stored the claims now committed
  rec,        \* citation_recommendations: pair -> row id and user_decision
  accepted,   \* accepted_citations: pair -> row id and citation_text
  tx,         \* request -> its handler and its transaction
  stage,      \* the worker's stage: its transaction
  detections, recommends,
  stale,      \* history: pairs written past a newer decision or rebuilt row
  textsStale  \* history: the decision committed last had its texts, or the
              \* citation it decides, before another one changed the citations

vars == <<claims, rec, accepted, tx, stage, detections, recommends, stale, textsStale>>
history == <<stale, textsStale>>
tables == <<claims, rec, accepted>>
worker == <<stage, detections, recommends>>

-----------------------------------------------------------------------------
Decisions == {"PENDING", "ACCEPTED", "REJECTED"}

(* Mutant: the decision of the request is not checked.                      *)
AnyDecision == Decisions \cup {"MAYBE"}

(* What a user may decide; IRRELEVANT is handled as REJECTED.               *)
UserDecisions == Decisions \ {"PENDING"}

NoRec == [row |-> 0, decision |-> "PENDING"]
NoCitation == [row |-> 0, text |-> NoText]

(* citation_text of the pairs in S, were they the accepted ones.            *)
Texts == [S \in SUBSET Pairs |->
  LET refs == SetToSeq({RefOf[p] : p \in S}) IN
    [p \in S |-> InText([i \in DOMAIN refs |-> Paper[refs[i]]],
                        CHOOSE i \in DOMAIN refs : refs[i] = RefOf[p], "APA")]]

PCs == {"idle", "loaded", "flushed", "found", "changed", "writing",
        "done", "refused"}

Fresh == [pc |-> "idle", pair |-> CHOOSE p \in Pairs : TRUE, decision |-> "PENDING",
          seen |-> NoRec, claims |-> 0, wrote |-> FALSE, existing |-> NoCitation,
          op |-> "none", writes |-> {}, alone |-> TRUE]

InProgress(q) == tx[q].pc \in PCs \ {"idle", "done", "refused"}

(* A draft analysed once, some of its recommendations decided since.  The   *)
(* row id of a citation is 0 for none, the number of the request that       *)
(* inserted it, or one greater than all of these for those accepted before. *)
Init ==
  /\ claims = 1
  /\ rec \in [Pairs -> [row : {1}, decision : Decisions]]
  /\ LET cited == {p \in Pairs : rec[p].decision = "ACCEPTED"} IN
       accepted = [p \in Pairs |-> IF p \in cited
                    THEN [row |-> Cardinality(Requests) + p, text |-> Texts[cited][p]] ELSE NoCitation]
  /\ tx = [q \in Requests |-> Fresh]
  /\ stage = "idle" /\ detections = 1 /\ recommends = 1
  /\ stale = {} /\ textsStale = FALSE

-----------------------------------------------------------------------------
(* Row locks.                                                               *)

(* Rows of citation_recommendations and accepted_citations that q wrote.    *)
HoldsRec(q, p) == InProgress(q) /\ tx[q].wrote /\ tx[q].pair = p
HoldsCitation(q, p) ==
  /\ InProgress(q)
  /\ \/ tx[q].op # "none" /\ tx[q].pair = p
     \/ \E w \in tx[q].writes : w.pair = p /\ w.done

StageHoldsRows == stage \in {"detecting", "recommending"}
StageHoldsClaims == stage \in {"deleting", "detecting"}

NextWrite(q) ==
  CHOOSE w \in tx[q].writes :
    /\ ~ w.done
    /\ \A v \in tx[q].writes : ~ v.done => w.row <= v.row

Unwritten(q) == {w \in tx[q].writes : ~ w.done}

(* The other transactions that hold the rows of a pair.                     *)
RecRivals(q, p) == {r \in Requests \ {q} : HoldsRec(r, p)}
CitationRivals(q, p) == {r \in Requests \ {q} : HoldsCitation(r, p)}

(* What the next statement of q has to wait for: 0 stands for the worker.   *)
WaitsFor(q) ==
  LET t == tx[q]
      worker0(held) == IF held THEN {0} ELSE {}
  IN CASE t.pc = "loaded" /\ t.decision # t.seen.decision ->
            RecRivals(q, t.pair) \cup worker0(StageHoldsRows)
       [] t.pc = "found" /\ t.decision = "ACCEPTED" /\ t.existing.row = 0 ->
            CitationRivals(q, t.pair) \cup worker0(StageHoldsClaims \/ StageHoldsRows)
       [] t.pc = "found" /\ t.decision # "ACCEPTED" /\ t.existing.row # 0 ->
            CitationRivals(q, t.pair) \cup worker0(StageHoldsRows)
       [] t.pc = "writing" /\ Unwritten(q) # {} ->
            CitationRivals(q, NextWrite(q).pair) \cup worker0(StageHoldsRows)
       [] OTHER -> {}

(* DELETE FROM claims waits for the key-share lock of an inserted citation, *)
(* the cascade and the deletion of recommendations for every row written.   *)
Inserters == {q \in Requests : InProgress(q) /\ tx[q].op = "insert"}
RowHolders ==
  {q \in Requests : \E p \in Pairs : HoldsRec(q, p) \/ HoldsCitation(q, p)}

WaitsOn(x) == IF x = 0 THEN (IF stage = "deleting" THEN RowHolders ELSE {}) ELSE WaitsFor(x)

(* A circle of waiters, each waiting for another member.                    *)
Deadlocked(x) ==
  \E C \in SUBSET (Requests \cup {0}) :
    x \in C /\ \A y \in C : WaitsOn(y) \cap C # {}

-----------------------------------------------------------------------------
(* 404, or 500 with the transaction rolled back.                            *)
Refuse(q) ==
  /\ tx' = [tx EXCEPT ![q] = [Fresh EXCEPT !.pc = "refused"]]
  /\ UNCHANGED <<tables, worker, history>>

Step(q, t) ==
  /\ tx' = [tx EXCEPT ![q] = t]
  /\ UNCHANGED <<tables, worker, history>>

(* Plausible bugs: mutants.                                                 *)

(* A rejected recommendation keeps its accepted citation.                   *)
ChangeNeverDeletes(q) ==
  LET t == tx[q] IN
  /\ t.pc = "found" /\ WaitsFor(q) = {}
  /\ Step(q, [t EXCEPT !.pc = "changed",
       !.op = IF t.decision = "ACCEPTED" /\ t.existing.row = 0 THEN "insert" ELSE "none"])

(* The texts are computed for the new citation only.                        *)
RecomputeOwnOnly(q) ==
  LET t == tx[q]
      own == IF t.op = "insert" THEN {t.pair} ELSE {}
  IN
  /\ t.pc = "changed"
  /\ Step(q, [t EXCEPT !.pc = "writing",
       !.writes = {[pair |-> p, row |-> q, text |-> Texts[own][p], done |-> TRUE] : p \in own}])

-----------------------------------------------------------------------------
(* POST /recommendations/{id}/decision, /accept, /reject.                   *)

(* _get_recommendation: of a row that was shown to the user, and may have   *)
(* been replaced since.                                                     *)
Load(q) ==
  /\ tx[q].pc = "idle"
  /\ \E p \in Pairs, d \in UserDecisions :
       \/ rec[p].row # 1 /\ Refuse(q)
       \/ /\ rec[p].row # 0
          /\ Step(q, [Fresh EXCEPT !.pc = "loaded", !.pair = p, !.decision = d,
                                   !.seen = rec[p], !.claims = claims])

(* The query for an existing citation flushes the decision first: an UPDATE *)
(* only if it differs from the one loaded, an error if the row is gone.     *)
FlushDecision(q) ==
  LET t == tx[q]
      changes == t.decision # t.seen.decision
  IN
  /\ t.pc = "loaded" /\ WaitsFor(q) = {}
  /\ IF changes /\ rec[t.pair].row # t.seen.row THEN Refuse(q)
     ELSE Step(q, [t EXCEPT !.pc = "flushed", !.wrote = changes])

FindCitation(q) ==
  /\ tx[q].pc = "flushed"
  /\ Step(q, [tx[q] EXCEPT !.pc = "found", !.existing = accepted[tx[q].pair]])

(* INSERT for an acceptance that finds none: refused by the unique index    *)
(* when one was committed meanwhile, and by the foreign keys when the claim *)
(* or the recommendation is gone.  DELETE for a rejection that finds one:   *)
(* of no row if it is gone.                                                 *)
ChangeCitation(q) ==
  LET t == tx[q]
      inserts == t.decision = "ACCEPTED" /\ t.existing.row = 0
      deletes == t.decision # "ACCEPTED" /\ t.existing.row # 0
  IN
  /\ t.pc = "found" /\ WaitsFor(q) = {}
  /\ IF inserts /\ (accepted[t.pair].row # 0 \/ rec[t.pair].row # t.seen.row
                    \/ claims # t.claims)
     THEN Refuse(q)
     ELSE Step(q, [t EXCEPT !.pc = "changed",
            !.op = CASE inserts -> "insert"
                     [] deletes /\ accepted[t.pair].row = t.existing.row -> "delete"
                     [] OTHER -> "none"])

(* _recompute_accepted_citation_texts: the draft's citations as this        *)
(* transaction sees them, and their texts; those that differ are written.   *)
(* An object loaded by FindCitation keeps the text it had then.             *)
Recompute(q) ==
  LET t == tx[q]
      gone == IF t.op = "delete" THEN {t.pair} ELSE {}
      own == IF t.op = "insert" THEN {t.pair} ELSE {}
      others == {p \in Pairs \ gone : accepted[p].row # 0}
      text == Texts[others \cup own]
      loaded(p) == IF p = t.pair /\ t.existing.row = accepted[p].row
                   THEN t.existing.text ELSE accepted[p].text
  IN
  /\ t.pc = "changed"
  /\ Step(q, [t EXCEPT !.pc = "writing",
       !.writes =
         {[pair |-> p, row |-> q, text |-> text[p], done |-> TRUE] : p \in own} \cup
         {[pair |-> p, row |-> accepted[p].row, text |-> text[p], done |-> FALSE] :
            p \in {x \in others : loaded(x) # text[x]}}])

(* The flush of the commit updates the other texts in the order of their    *)
(* keys.  A row deleted meanwhile is an error, unless the statement updates *)
(* several, whose count the driver does not report.                         *)
WriteText(q) ==
  LET t == tx[q]
      w == NextWrite(q)
  IN
  /\ t.pc = "writing" /\ Unwritten(q) # {} /\ WaitsFor(q) = {}
  /\ IF accepted[w.pair].row = w.row
     THEN Step(q, [t EXCEPT !.writes = (@ \ {w}) \cup {[w EXCEPT !.done = TRUE]}])
     ELSE \/ Refuse(q)
          \/ /\ Cardinality({v \in t.writes : v.row # q}) > 1
             /\ Step(q, [t EXCEPT !.writes = @ \ {w}])

(* A repeat of a decision that had been overtaken when it was written.      *)
Overtaken(q) == tx[q].op # "none" /\ ~ tx[q].wrote /\ rec[tx[q].pair].decision # tx[q].decision

WriteOf(t, p) == CHOOSE w \in t.writes : w.pair = p

(* What r goes on with was read before the commit of another decision that  *)
(* changes the citations: the texts it has computed, or the citation it has *)
(* loaded, whose text the session keeps.                                    *)
Missed(r) ==
  /\ accepted' # accepted
  /\ \/ tx[r].pc = "writing"
     \/ tx[r].existing.row # 0 /\ tx[r].existing # accepted'[tx[r].pair]

Commit(q) ==
  LET t == tx[q] IN
  /\ t.pc = "writing" /\ Unwritten(q) = {}
  /\ rec' = IF t.wrote THEN [rec EXCEPT ![t.pair].decision = t.decision] ELSE rec
  /\ accepted' = [p \in Pairs |->
       CASE \E w \in t.writes : w.pair = p ->
              [row |-> WriteOf(t, p).row, text |-> WriteOf(t, p).text]
         [] t.op = "delete" /\ p = t.pair -> NoCitation
         [] OTHER -> accepted[p]]
  /\ tx' = [r \in Requests |->
       IF r = q THEN [Fresh EXCEPT !.pc = "done"]
       ELSE [tx[r] EXCEPT !.alone = @ /\ ~ Missed(r)]]
  /\ stale' = IF Overtaken(q) THEN stale \cup {t.pair} ELSE stale
  /\ textsStale' = ~ t.alone
  /\ UNCHANGED <<claims, worker>>

(* PostgreSQL aborts a transaction of a circle: the handler answers 500.    *)
AbortDeadlocked(q) == WaitsFor(q) # {} /\ Deadlocked(q) /\ Refuse(q)

-----------------------------------------------------------------------------
(* The stages of an analysis.                                               *)

(* DELETE FROM claims, and then its cascade.                                *)
DetectDelete ==
  /\ stage = "idle" /\ detections < MaxAnalyses
  /\ Inserters = {}
  /\ stage' = "deleting" /\ detections' = detections + 1
  /\ UNCHANGED <<tables, tx, recommends, history>>

DetectCascade ==
  /\ stage = "deleting" /\ RowHolders = {}
  /\ stage' = "detecting"
  /\ UNCHANGED <<tables, tx, detections, recommends, history>>

DetectCommit ==
  /\ stage = "detecting"
  /\ claims' = detections
  /\ rec' = [p \in Pairs |-> NoRec]
  /\ accepted' = [p \in Pairs |-> NoCitation]
  /\ stale' = {} /\ textsStale' = FALSE
  /\ stage' = "detected"
  /\ UNCHANGED <<tx, detections, recommends>>

(* recommend_for_draft: the old rows are deleted before the verdicts are    *)
(* asked for, the new ones committed with the deletion.  It follows the     *)
(* detection, or runs again when its message is delivered twice.  It takes  *)
(* its row locks in one step, where PostgreSQL takes them row by row.       *)
RecommendDelete ==
  /\ stage \in {"idle", "detected"} /\ recommends < MaxRecommends
  /\ RowHolders = {}
  /\ stage' = "recommending" /\ recommends' = recommends + 1
  /\ UNCHANGED <<tables, tx, detections, history>>

RecommendCommit ==
  /\ stage = "recommending"
  /\ rec' = [p \in Pairs |-> [row |-> recommends, decision |-> "PENDING"]]
  /\ stale' = stale \cup {p \in Pairs : accepted[p].row # 0}
  /\ stage' = "idle"
  /\ UNCHANGED <<claims, accepted, tx, detections, recommends, textsStale>>

(* The stage raises, or is aborted as the member of a circle: rolled back.  *)
StageFails ==
  /\ stage \in {"detecting", "recommending"} \/ (stage = "deleting" /\ Deadlocked(0))
  /\ stage' = "idle"
  /\ UNCHANGED <<tables, tx, detections, recommends, history>>

-----------------------------------------------------------------------------
RequestStep(q) ==
  \/ FlushDecision(q) \/ FindCitation(q) \/ ChangeCitation(q)
  \/ Recompute(q) \/ WriteText(q) \/ Commit(q) \/ AbortDeadlocked(q)

StageStep ==
  DetectCascade \/ DetectCommit \/ RecommendCommit \/ StageFails

Next ==
  \/ \E q \in Requests : Load(q) \/ RequestStep(q)
  \/ DetectDelete \/ RecommendDelete \/ StageStep

Spec == Init /\ [][Next]_vars

-----------------------------------------------------------------------------
(* Properties.                                                              *)

(* Type correctness of the tables, the transactions and the worker.         *)
Text == UNION {{Texts[S][p] : p \in S} : S \in SUBSET Pairs}
Recommended == [row : Nat, decision : Decisions]
Citations == [row : Nat, text : {NoText} \cup Text]
Write == [pair : Pairs, row : Nat, text : Text, done : BOOLEAN]
Transaction ==
  [pc : PCs, pair : Pairs, decision : Decisions, seen : Recommended, claims : Nat,
   wrote : BOOLEAN, existing : Citations, op : {"none", "insert", "delete"},
   writes : SUBSET Write, alone : BOOLEAN]
TypeOK ==
  /\ claims \in Nat /\ detections \in Nat /\ recommends \in Nat
  /\ rec \in [Pairs -> Recommended] /\ accepted \in [Pairs -> Citations]
  /\ tx \in [Requests -> Transaction]
  /\ stage \in {"idle", "deleting", "detecting", "detected", "recommending"}
  /\ stale \subseteq Pairs /\ textsStale \in BOOLEAN

(* A pair has an accepted citation exactly when its recommendation is       *)
(* decided ACCEPTED (_apply_decision, recommendations.py:316-352), whatever *)
(* decisions and analyses overlap; except after a repeat of a decision that *)
(* another one overtook, or a second recommendation stage, which leaves the *)
(* citations of the rows it replaces.                                       *)
CitedIffAccepted ==
  \A p \in Pairs \ stale :
    accepted[p].row # 0 <=> rec[p].row # 0 /\ rec[p].decision = "ACCEPTED"

(* The stored citation texts are those of the whole accepted set, year      *)
(* letters included (recommendations.py:33-58), also after decisions that   *)
(* overlap.  Exempt is one order of statements only: another decision       *)
(* changed the citations between the computation of the texts of the one    *)
(* committed last (or its reading of the citation it decides) and its       *)
(* commit.                                                                  *)
TextsAgree ==
  LET cited == {p \in Pairs : accepted[p].row # 0} IN
    ~ textsStale => \A p \in cited : accepted[p].text = Texts[cited][p]

=============================================================================
