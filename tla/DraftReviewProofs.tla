-------------------------- MODULE DraftReviewProofs --------------------------
(***************************************************************************)
(* What holds of DraftReview for any number of decisions, pairs and        *)
(* stages: type correctness, that a pair is cited exactly when its         *)
(* recommendation is decided ACCEPTED, and that the stored texts are those *)
(* of all accepted citations.                                              *)
(***************************************************************************)
EXTENDS DraftReview, OrderingProofs, FiniteSetTheorems

-----------------------------------------------------------------------------
(* The inductive invariant.                                                 *)

(* The same as InProgress and the locks, of the record of a transaction.    *)
Going(t) == t.pc \in PCs \ {"idle", "done", "refused"}
RecHeld(t, p) == Going(t) /\ t.wrote /\ t.pair = p
CitationHeld(t, p) ==
  /\ Going(t)
  /\ \/ t.op # "none" /\ t.pair = p
     \/ \E w \in t.writes : w.pair = p /\ w.done

(* What a transaction has written is what it found, for it holds the locks. *)
WroteWhatItSaw(t) ==
  /\ t.seen.row # 0
  /\ t.wrote => rec[t.pair].row = t.seen.row
  /\ t.op = "insert" =>
       /\ t.decision = "ACCEPTED"
       /\ rec[t.pair].row = t.seen.row /\ accepted[t.pair].row = 0
       /\ t.pc = "writing" => \E w \in t.writes : w.pair = t.pair /\ w.done
  /\ t.op = "delete" =>
       /\ t.decision # "ACCEPTED" /\ accepted[t.pair].row # 0
       /\ \A w \in t.writes : w.pair # t.pair
  /\ \A w \in t.writes :
       /\ w.row # 0
       /\ w.done => accepted[w.pair].row = w.row \/ (t.op = "insert" /\ w.pair = t.pair)

InOrder(t) ==
  /\ t.pc = "loaded" => ~ t.wrote
  /\ t.pc \in {"loaded", "flushed", "found"} => t.op = "none"
  /\ t.pc # "writing" => t.writes = {}

(* While a decision is written but not committed, others leave the pair's   *)
(* citation alone, but for repeats of a decision that it overtakes.         *)
Undisturbed(t) ==
  t.wrote /\ t.pair \notin stale =>
    /\ t.pc \in {"found", "changed", "writing"} =>
         accepted[t.pair].row = t.existing.row
    /\ t.pc \in {"changed", "writing"} /\ t.op = "none" =>
         (t.existing.row # 0 <=> t.decision = "ACCEPTED")

TxOK(t) == Going(t) => WroteWhatItSaw(t) /\ InOrder(t) /\ Undisturbed(t)

(* The row locks: a row is written by one transaction at a time.            *)
OneWriterPerRec ==
  \A q, r \in Requests, p \in Pairs : HoldsRec(q, p) /\ HoldsRec(r, p) => q = r
OneWriterPerCitation ==
  \A q, r \in Requests, p \in Pairs :
    HoldsCitation(q, p) /\ HoldsCitation(r, p) => q = r

(* A stage that holds the rows of the draft holds them alone.               *)
StageAlone ==
  StageHoldsRows => \A q \in Requests, p \in Pairs : ~ HoldsRec(q, p) /\ ~ HoldsCitation(q, p)

IInv ==
  /\ TypeOK
  /\ OneWriterPerRec /\ OneWriterPerCitation /\ StageAlone
  /\ \A q \in Requests : TxOK(tx[q])
  /\ CitedIffAccepted

-----------------------------------------------------------------------------
(* Types.                                                                   *)

LEMMA TextTyped ==
  ASSUME NEW S \in SUBSET Pairs, NEW p \in S
  PROVE  Texts[S][p] \in Text
  BY DEF Text

LEMMA NothingTyped == NoRec \in Recommended /\ NoCitation \in Citations
  BY DEF NoRec, NoCitation, Recommended, Citations, Decisions

LEMMA FreshTyped ==
  ASSUME NEW pc \in {"idle", "done", "refused"}
  PROVE  [Fresh EXCEPT !.pc = pc] \in Transaction /\ ~ Going([Fresh EXCEPT !.pc = pc])
<1>1. (CHOOSE p \in Pairs : TRUE) \in Pairs
  BY PairsAssumption
<1>2. Fresh \in Transaction
  BY <1>1, NothingTyped DEF Fresh, Transaction, PCs, Decisions
<1> DEFINE t == [Fresh EXCEPT !.pc = pc]
<1>3. t \in Transaction
  BY <1>2 DEF Transaction, PCs
<1>4. t.pc = pc
  BY <1>2 DEF Transaction
<1> HIDE DEF t
<1>5. ~ Going(t)
  BY <1>4 DEF Going
<1>6. QED
  BY <1>3, <1>5 DEF t

LEMMA Holding ==
  ASSUME NEW q \in Requests, NEW p \in Pairs
  PROVE  /\ HoldsRec(q, p) <=> RecHeld(tx[q], p)
         /\ HoldsCitation(q, p) <=> CitationHeld(tx[q], p)
         /\ InProgress(q) <=> Going(tx[q])
  BY DEF HoldsRec, HoldsCitation, RecHeld, CitationHeld, InProgress, Going

(* A statement of one handler that changes no table keeps the invariant, if *)
(* its locks were free.                                                     *)
LEMMA OneMoves ==
  ASSUME IInv, NEW q \in Requests, NEW t \in Transaction,
         tx' = [tx EXCEPT ![q] = t], UNCHANGED <<tables, worker, history>>, TxOK(t),
         \A p \in Pairs :
           /\ RecHeld(t, p) =>
                HoldsRec(q, p) \/ (~ StageHoldsRows /\ RecRivals(q, p) = {})
           /\ CitationHeld(t, p) =>
                HoldsCitation(q, p) \/ (~ StageHoldsRows /\ CitationRivals(q, p) = {})
  PROVE  IInv'
<1>1. /\ tx \in [Requests -> Transaction]
      /\ tx'[q] = t /\ \A r \in Requests \ {q} : tx'[r] = tx[r]
  BY DEF IInv, TypeOK
<1>2. /\ rec' = rec /\ accepted' = accepted /\ claims' = claims
      /\ stage' = stage /\ detections' = detections /\ recommends' = recommends
      /\ stale' = stale /\ textsStale' = textsStale
  BY DEF tables, worker, history
<1>3. TypeOK'
  BY <1>1, <1>2 DEF IInv, TypeOK
<1>4. ASSUME NEW r \in Requests, NEW p \in Pairs
      PROVE  /\ HoldsRec(r, p)' <=> RecHeld(tx'[r], p)
             /\ HoldsCitation(r, p)' <=> CitationHeld(tx'[r], p)
  BY DEF HoldsRec, HoldsCitation, RecHeld, CitationHeld, InProgress, Going
<1>5. ASSUME NEW r \in Requests \ {q}, NEW p \in Pairs
      PROVE  /\ HoldsRec(r, p)' <=> HoldsRec(r, p)
             /\ HoldsCitation(r, p)' <=> HoldsCitation(r, p)
  BY <1>1, <1>4, Holding
<1>6. OneWriterPerRec'
  BY <1>1, <1>4, <1>5 DEF IInv, OneWriterPerRec, RecRivals
<1>7. OneWriterPerCitation'
  BY <1>1, <1>4, <1>5 DEF IInv, OneWriterPerCitation, CitationRivals
<1>8. StageAlone'
  BY <1>1, <1>2, <1>4, <1>5 DEF IInv, StageAlone, StageHoldsRows
<1>9. ASSUME NEW r \in Requests PROVE TxOK(tx[r])'
  <2>1. TxOK(tx'[r])
    BY <1>1 DEF IInv
  <2>2. QED
    BY <1>2, <2>1 DEF TxOK, WroteWhatItSaw, InOrder, Undisturbed, Going
<1>10. CitedIffAccepted'
  BY <1>2 DEF IInv, CitedIffAccepted
<1>11. QED
  BY <1>3, <1>6, <1>7, <1>8, <1>9, <1>10 DEF IInv

LEMMA Refused ==
  ASSUME IInv, NEW q \in Requests, Refuse(q)
  PROVE  IInv'
<1> DEFINE t == [Fresh EXCEPT !.pc = "refused"]
<1>1. t \in Transaction /\ ~ Going(t)
  BY FreshTyped
<1>2. tx' = [tx EXCEPT ![q] = t] /\ UNCHANGED <<tables, worker, history>>
  BY DEF Refuse
<1> HIDE DEF t
<1>3. TxOK(t) /\ \A p \in Pairs : ~ RecHeld(t, p) /\ ~ CitationHeld(t, p)
  BY <1>1 DEF TxOK, RecHeld, CitationHeld
<1>4. QED
  BY <1>1, <1>2, <1>3, OneMoves

-----------------------------------------------------------------------------
(* The handler, statement by statement.                                     *)

LEMMA LoadKeeps ==
  ASSUME IInv, NEW q \in Requests, Load(q)
  PROVE  IInv'
<1>1. PICK p \in Pairs, d \in UserDecisions :
        \/ rec[p].row # 1 /\ Refuse(q)
        \/ /\ rec[p].row # 0
           /\ Step(q, [Fresh EXCEPT !.pc = "loaded", !.pair = p, !.decision = d,
                                    !.seen = rec[p], !.claims = claims])
  BY DEF Load
<1>2. CASE Refuse(q)
  BY <1>2, Refused
<1>3. CASE /\ rec[p].row # 0
           /\ Step(q, [Fresh EXCEPT !.pc = "loaded", !.pair = p, !.decision = d,
                                    !.seen = rec[p], !.claims = claims])
  <2> DEFINE t == [Fresh EXCEPT !.pc = "loaded", !.pair = p, !.decision = d,
                                !.seen = rec[p], !.claims = claims]
  <2>1. tx' = [tx EXCEPT ![q] = t] /\ UNCHANGED <<tables, worker, history>>
    BY <1>3 DEF Step
  <2>2. rec[p] \in Recommended /\ claims \in Nat /\ d \in Decisions
    BY DEF IInv, TypeOK, UserDecisions, Decisions
  <2>3. /\ t.pc = "loaded" /\ t.seen = rec[p] /\ t.wrote = FALSE
        /\ t.op = "none" /\ t.writes = {}
    BY DEF Fresh
  <2>4. t \in Transaction
    BY <2>2, NothingTyped DEF Fresh, Transaction, PCs
  <2> HIDE DEF t
  <2>5. TxOK(t)
    BY <1>3, <2>3 DEF TxOK, WroteWhatItSaw, InOrder, Undisturbed
  <2>6. \A r \in Pairs : ~ RecHeld(t, r) /\ ~ CitationHeld(t, r)
    BY <2>3 DEF RecHeld, CitationHeld
  <2>7. QED
    BY <2>1, <2>4, <2>5, <2>6, OneMoves
<1>4. QED
  BY <1>1, <1>2, <1>3

LEMMA FlushKeeps ==
  ASSUME IInv, NEW q \in Requests, FlushDecision(q)
  PROVE  IInv'
<1> DEFINE changes == tx[q].decision # tx[q].seen.decision
           t == [tx[q] EXCEPT !.pc = "flushed", !.wrote = changes]
<1>1. CASE Refuse(q)
  BY <1>1, Refused
<1>2. CASE Step(q, t) /\ (changes => rec[tx[q].pair].row = tx[q].seen.row)
  <2>0. /\ tx[q] \in Transaction /\ TxOK(tx[q]) /\ tx[q].pc = "loaded" /\ Going(tx[q])
        /\ WaitsFor(q) = {}
    BY DEF IInv, TypeOK, FlushDecision, Going, PCs
  <2>1. tx' = [tx EXCEPT ![q] = t] /\ UNCHANGED <<tables, worker, history>>
    BY <1>2 DEF Step
  <2>2. t \in Transaction
    BY <2>0 DEF Transaction, PCs
  <2>3. /\ t.pc = "flushed" /\ t.seen = tx[q].seen /\ t.pair = tx[q].pair
        /\ t.op = tx[q].op /\ t.writes = tx[q].writes /\ (t.wrote <=> changes)
    BY <2>0 DEF Transaction
  <2>4. t.op = "none" /\ t.writes = {} /\ tx[q].seen.row # 0
    BY <2>0, <2>3 DEF TxOK, InOrder, WroteWhatItSaw
  <2>5. changes => RecRivals(q, tx[q].pair) = {} /\ ~ StageHoldsRows
    BY <2>0 DEF WaitsFor
  <2> HIDE DEF t, changes
  <2>6. TxOK(t)
    BY <1>2, <2>3, <2>4 DEF TxOK, WroteWhatItSaw, InOrder, Undisturbed
  <2>7. \A p \in Pairs : ~ CitationHeld(t, p) /\
          (RecHeld(t, p) => p = tx[q].pair /\ changes)
    BY <2>3, <2>4 DEF RecHeld, CitationHeld
  <2>8. QED
    BY <2>1, <2>2, <2>5, <2>6, <2>7, OneMoves
<1>3. QED
  BY <1>1, <1>2 DEF FlushDecision

LEMMA FindKeeps ==
  ASSUME IInv, NEW q \in Requests, FindCitation(q)
  PROVE  IInv'
<1> DEFINE t == [tx[q] EXCEPT !.pc = "found", !.existing = accepted[tx[q].pair]]
<1>1. /\ tx[q] \in Transaction /\ TxOK(tx[q]) /\ tx[q].pc = "flushed" /\ Going(tx[q])
  BY DEF IInv, TypeOK, FindCitation, Going, PCs
<1>2. tx' = [tx EXCEPT ![q] = t] /\ UNCHANGED <<tables, worker, history>>
  BY DEF FindCitation, Step
<1>3. t \in Transaction
  <2>1. accepted[tx[q].pair] \in Citations
    BY <1>1 DEF IInv, TypeOK, Transaction
  <2>2. QED
    BY <1>1, <2>1 DEF Transaction, PCs
<1>4. /\ t.pc = "found" /\ t.seen = tx[q].seen /\ t.pair = tx[q].pair
      /\ t.op = tx[q].op /\ t.writes = tx[q].writes /\ t.wrote = tx[q].wrote
      /\ t.existing = accepted[tx[q].pair] /\ t.decision = tx[q].decision
  BY <1>1 DEF Transaction
<1>5. t.op = "none" /\ t.writes = {} /\ Going(t)
  BY <1>1, <1>4 DEF TxOK, InOrder, Going, PCs
<1> HIDE DEF t
<1>6. TxOK(t)
  BY <1>1, <1>4, <1>5 DEF TxOK, WroteWhatItSaw, InOrder, Undisturbed
<1>7. \A p \in Pairs : ~ CitationHeld(t, p) /\ (RecHeld(t, p) => HoldsRec(q, p))
  BY <1>1, <1>4, <1>5, Holding DEF RecHeld, CitationHeld
<1>8. QED
  BY <1>2, <1>3, <1>6, <1>7, OneMoves

LEMMA ChangeKeeps ==
  ASSUME IInv, NEW q \in Requests, ChangeCitation(q)
  PROVE  IInv'
<1> DEFINE u == tx[q]
           inserts == u.decision = "ACCEPTED" /\ u.existing.row = 0
           deletes == u.decision # "ACCEPTED" /\ u.existing.row # 0
           there == accepted[u.pair].row = u.existing.row
           op == CASE inserts -> "insert" [] deletes /\ there -> "delete" [] OTHER -> "none"
           t == [u EXCEPT !.pc = "changed", !.op = op]
<1>1. CASE Refuse(q)
  BY <1>1, Refused
<1>2. CASE Step(q, t) /\ (inserts => accepted[u.pair].row = 0 /\ rec[u.pair].row = u.seen.row)
  <2>0. u \in Transaction /\ TxOK(u) /\ u.pc = "found" /\ Going(u) /\ WaitsFor(q) = {}
    BY DEF IInv, TypeOK, ChangeCitation, Going, PCs
  <2>1. tx' = [tx EXCEPT ![q] = t] /\ UNCHANGED <<tables, worker, history>>
    BY <1>2 DEF Step
  <2>2. op \in {"none", "insert", "delete"}
    OBVIOUS
  <2>3. t \in Transaction
    BY <2>0, <2>2 DEF Transaction, PCs
  <2>4. /\ t.pc = "changed" /\ t.seen = u.seen /\ t.pair = u.pair
        /\ t.op = op /\ t.writes = u.writes /\ t.wrote = u.wrote
        /\ t.existing = u.existing /\ t.decision = u.decision
    BY <2>0 DEF Transaction
  <2>5. t.writes = {} /\ Going(t)
    BY <2>0, <2>4 DEF TxOK, InOrder, Going, PCs
  <2>6. inserts \/ deletes => CitationRivals(q, u.pair) = {} /\ ~ StageHoldsRows
    BY <2>0 DEF WaitsFor
  <2>7. /\ op = "insert" => inserts
        /\ op = "delete" => deletes /\ there
        /\ op = "none" => ~ inserts /\ ~ (deletes /\ there)
    OBVIOUS
  <2> HIDE DEF t, op
  <2>8. WroteWhatItSaw(t)
    BY <1>2, <2>0, <2>4, <2>5, <2>7 DEF TxOK, WroteWhatItSaw
  <2>9. Undisturbed(t)
    BY <2>0, <2>4, <2>7 DEF TxOK, Undisturbed
  <2>10. TxOK(t)
    BY <2>4, <2>5, <2>8, <2>9 DEF TxOK, InOrder
  <2>11. \A p \in Pairs :
          /\ RecHeld(t, p) => HoldsRec(q, p)
          /\ CitationHeld(t, p) => p = u.pair /\ (inserts \/ deletes)
    BY <2>0, <2>4, <2>5, <2>7, <2>2, Holding DEF RecHeld, CitationHeld
  <2>12. QED
    BY <2>1, <2>3, <2>6, <2>10, <2>11, OneMoves
<1>3. QED
  BY <1>1, <1>2 DEF ChangeCitation

LEMMA RecomputeKeeps ==
  ASSUME IInv, NEW q \in Requests, Recompute(q)
  PROVE  IInv'
<1> DEFINE u == tx[q]
           gone == IF u.op = "delete" THEN {u.pair} ELSE {}
           own == IF u.op = "insert" THEN {u.pair} ELSE {}
           others == {p \in Pairs \ gone : accepted[p].row # 0}
           text == Texts[others \cup own]
           loaded(p) == IF p = u.pair /\ u.existing.row = accepted[p].row
                        THEN u.existing.text ELSE accepted[p].text
           mine == {[pair |-> p, row |-> q, text |-> text[p], done |-> TRUE] : p \in own}
           rest == {[pair |-> p, row |-> accepted[p].row, text |-> text[p], done |-> FALSE] :
                      p \in {x \in others : loaded(x) # text[x]}}
           writes == mine \cup rest
           t == [u EXCEPT !.pc = "writing", !.writes = writes]
<1>1. u \in Transaction /\ TxOK(u) /\ u.pc = "changed" /\ Going(u)
  BY DEF IInv, TypeOK, Recompute, Going, PCs
<1>2. tx' = [tx EXCEPT ![q] = t] /\ UNCHANGED <<tables, worker, history>>
  BY DEF Recompute, Step
<1>3. u.pair \in Pairs /\ own \subseteq {u.pair} /\ others \subseteq Pairs
  BY <1>1 DEF Transaction
<1>4. q \in Nat /\ q # 0 /\ \A p \in Pairs : accepted[p].row \in Nat
  BY RequestsAssumption DEF IInv, TypeOK, Citations
<1>5. \A p \in others \cup own : text[p] \in Text
  BY <1>3, TextTyped
<1>a. \A p \in others : accepted[p].row # 0
  OBVIOUS
<1>b. u.op = "insert" => u.pair \in own
  OBVIOUS
<1>6. \A w \in mine : w \in Write /\ w.pair \in own /\ w.row # 0
  <2>1. ASSUME NEW p \in own
        PROVE  [pair |-> p, row |-> q, text |-> text[p], done |-> TRUE] \in Write
    <3>1. p \in Pairs /\ text[p] \in Text
      BY <1>3, <1>5
    <3> HIDE DEF text
    <3>2. QED
      BY <1>4, <3>1 DEF Write
  <2> HIDE DEF own, text
  <2>2. QED
    BY <1>4, <2>1
<1>7. \A w \in rest : w \in Write /\ w.pair \in others /\ w.row # 0 /\ w.done = FALSE
  <2>1. ASSUME NEW p \in others
        PROVE  [pair |-> p, row |-> accepted[p].row, text |-> text[p], done |-> FALSE] \in Write
    <3>1. p \in Pairs /\ text[p] \in Text
      BY <1>3, <1>5
    <3> HIDE DEF text
    <3>2. QED
      BY <1>4, <3>1 DEF Write
  <2> HIDE DEF others, text, loaded
  <2>2. QED
    BY <1>a, <2>1
<1>8. writes \in SUBSET Write
  BY <1>6, <1>7
<1>9. u.op = "insert" => \E w \in writes : w.pair = u.pair /\ w.done
  <2>1. ASSUME u.op = "insert"
        PROVE  [pair |-> u.pair, row |-> q, text |-> text[u.pair], done |-> TRUE] \in writes
    BY <1>b, <2>1
  <2> HIDE DEF writes
  <2>2. QED
    BY <2>1
<1>10. u.op = "delete" => \A w \in writes : w.pair # u.pair
  <2>1. u.op = "delete" => own = {} /\ u.pair \notin others
    OBVIOUS
  <2> HIDE DEF own, others, mine, rest
  <2>2. QED
    BY <1>6, <1>7, <2>1
<1>11. \A w \in writes : w.row # 0 /\ (w.done => u.op = "insert" /\ w.pair = u.pair)
  <2>1. own # {} => u.op = "insert"
    OBVIOUS
  <2> HIDE DEF own, others, mine, rest
  <2>2. QED
    BY <1>3, <1>6, <1>7, <2>1
<1> HIDE DEF writes
<1>12. t \in Transaction
  BY <1>1, <1>8 DEF Transaction, PCs
<1>13. /\ t.pc = "writing" /\ t.seen = u.seen /\ t.pair = u.pair
       /\ t.op = u.op /\ t.writes = writes /\ t.wrote = u.wrote
       /\ t.existing = u.existing /\ t.decision = u.decision
  BY <1>1 DEF Transaction
<1> HIDE DEF t
<1>14. WroteWhatItSaw(t)
  BY <1>1, <1>9, <1>10, <1>11, <1>13 DEF TxOK, WroteWhatItSaw
<1>15. Undisturbed(t) /\ InOrder(t)
  BY <1>1, <1>13 DEF TxOK, Undisturbed, InOrder
<1>16. \A p \in Pairs :
         /\ RecHeld(t, p) => HoldsRec(q, p)
         /\ CitationHeld(t, p) => HoldsCitation(q, p)
  BY <1>1, <1>11, <1>13, Holding DEF RecHeld, CitationHeld
<1>17. TxOK(t)
  BY <1>14, <1>15 DEF TxOK
<1>18. QED
  BY <1>2, <1>12, <1>16, <1>17, OneMoves

(* The next write is one of those to be done.                               *)
LEMMA NextWriteExists ==
  ASSUME TypeOK, NEW q \in Requests, Unwritten(q) # {}
  PROVE  NextWrite(q) \in tx[q].writes /\ ~ NextWrite(q).done
<1> DEFINE rows == {w.row : w \in Unwritten(q)}
<1>1. tx[q].writes \subseteq Write
  BY DEF TypeOK, Transaction
<1>2. rows \subseteq Nat /\ rows # {}
  BY <1>1 DEF Unwritten, Write
<1>4. PICK n \in rows : \A m \in rows : n <= m
  <2> HIDE DEF rows
  <2>1. QED
    BY <1>2, LeastNatural
<1>5. PICK w \in tx[q].writes : ~ w.done /\ w.row = n
  BY DEF Unwritten
<1>6. \A v \in tx[q].writes : ~ v.done => w.row <= v.row
  BY <1>4, <1>5 DEF Unwritten
<1>7. QED
  BY <1>5, <1>6 DEF NextWrite

LEMMA WriteKeeps ==
  ASSUME IInv, NEW q \in Requests, WriteText(q)
  PROVE  IInv'
<1> DEFINE u == tx[q]
           w == NextWrite(q)
           done == [w EXCEPT !.done = TRUE]
           written == [u EXCEPT !.writes = (@ \ {w}) \cup {done}]
           dropped == [u EXCEPT !.writes = @ \ {w}]
<1>1. /\ u \in Transaction /\ TxOK(u) /\ u.pc = "writing" /\ Going(u)
      /\ Unwritten(q) # {} /\ WaitsFor(q) = {} /\ u.writes \subseteq Write
  BY DEF IInv, TypeOK, WriteText, Going, PCs, Transaction
<1>2. w \in u.writes /\ ~ w.done /\ w \in Write
  BY <1>1, NextWriteExists DEF IInv
<1>3. CitationRivals(q, w.pair) = {} /\ ~ StageHoldsRows
  BY <1>1 DEF WaitsFor
<1>4. CASE Refuse(q)
  BY <1>4, Refused
<1>5. CASE accepted[w.pair].row = w.row /\ Step(q, written)
  <2>1. done \in Write /\ done.pair = w.pair /\ done.row = w.row /\ done.done = TRUE
    BY <1>2 DEF Write
  <2> HIDE DEF done, w
  <2>2. tx' = [tx EXCEPT ![q] = written] /\ UNCHANGED <<tables, worker, history>>
    BY <1>5 DEF Step
  <2>3. written \in Transaction
    BY <1>1, <2>1 DEF Transaction
  <2>4. /\ written.pc = u.pc /\ written.seen = u.seen /\ written.pair = u.pair
        /\ written.op = u.op /\ written.wrote = u.wrote
        /\ written.writes = (u.writes \ {w}) \cup {done}
        /\ written.existing = u.existing /\ written.decision = u.decision
    BY <1>1 DEF Transaction
  <2> HIDE DEF written
  <2>5. WroteWhatItSaw(written)
    BY <1>1, <1>2, <1>5, <2>1, <2>4 DEF TxOK, WroteWhatItSaw
  <2>6. TxOK(written)
    BY <1>1, <2>4, <2>5 DEF TxOK, Undisturbed, InOrder
  <2>7. \A p \in Pairs :
          /\ RecHeld(written, p) => HoldsRec(q, p)
          /\ CitationHeld(written, p) => HoldsCitation(q, p) \/ p = w.pair
    BY <1>1, <2>1, <2>4, Holding DEF RecHeld, CitationHeld
  <2>8. QED
    BY <1>3, <2>2, <2>3, <2>6, <2>7, OneMoves
<1>6. CASE Step(q, dropped)
  <2> HIDE DEF w
  <2>2. tx' = [tx EXCEPT ![q] = dropped] /\ UNCHANGED <<tables, worker, history>>
    BY <1>6 DEF Step
  <2>3. dropped \in Transaction
    BY <1>1 DEF Transaction
  <2>4. /\ dropped.pc = u.pc /\ dropped.seen = u.seen /\ dropped.pair = u.pair
        /\ dropped.op = u.op /\ dropped.wrote = u.wrote
        /\ dropped.writes = u.writes \ {w}
        /\ dropped.existing = u.existing /\ dropped.decision = u.decision
    BY <1>1 DEF Transaction
  <2> HIDE DEF dropped
  <2>5. WroteWhatItSaw(dropped)
    BY <1>1, <1>2, <2>4 DEF TxOK, WroteWhatItSaw
  <2>6. TxOK(dropped)
    BY <1>1, <2>4, <2>5 DEF TxOK, Undisturbed, InOrder
  <2>7. \A p \in Pairs :
          /\ RecHeld(dropped, p) => HoldsRec(q, p)
          /\ CitationHeld(dropped, p) => HoldsCitation(q, p)
    BY <1>1, <2>4, Holding DEF RecHeld, CitationHeld
  <2>8. QED
    BY <2>2, <2>3, <2>6, <2>7, OneMoves
<1>7. QED
  BY <1>4, <1>5, <1>6 DEF WriteText

-----------------------------------------------------------------------------
(* The commit of a decision.                                                *)

(* Which citations it adds and removes.                                     *)
LEMMA CommitChangesItsPair ==
  ASSUME IInv, NEW q \in Requests, Commit(q), NEW x \in Pairs
  PROVE  /\ accepted'[x] \in Citations
         /\ x # tx[q].pair \/ tx[q].op = "none" => accepted'[x].row = accepted[x].row
         /\ x = tx[q].pair /\ tx[q].op = "insert" => accepted'[x].row # 0
         /\ x = tx[q].pair /\ tx[q].op = "delete" => accepted'[x].row = 0
<1> DEFINE u == tx[q]
<1>1. /\ u \in Transaction /\ TxOK(u) /\ u.pc = "writing" /\ Going(u)
      /\ u.writes \subseteq Write /\ accepted[x] \in Citations
      /\ \A w \in u.writes : w.done
  BY DEF IInv, TypeOK, Commit, Going, PCs, Transaction, Unwritten
<1>a. accepted'[x] = CASE \E w \in u.writes : w.pair = x ->
                           [row |-> WriteOf(u, x).row, text |-> WriteOf(u, x).text]
                      [] u.op = "delete" /\ x = u.pair -> NoCitation
                      [] OTHER -> accepted[x]
  BY DEF Commit
<1>2. CASE \E w \in u.writes : w.pair = x
  <2> DEFINE w == WriteOf(u, x)
  <2>1. w \in u.writes /\ w.pair = x
    BY <1>2 DEF WriteOf
  <2>2. accepted'[x] = [row |-> w.row, text |-> w.text]
    <3>1. u.op = "delete" => x # u.pair
      BY <1>1, <1>2 DEF TxOK, WroteWhatItSaw
    <3>2. QED
      BY <1>2, <1>a, <3>1
  <2> HIDE DEF w
  <2>3. w.row \in Nat /\ w.text \in Text /\ w.done
    BY <1>1, <2>1 DEF Write
  <2>4. /\ w.row # 0 /\ (accepted[x].row = w.row \/ (u.op = "insert" /\ x = u.pair))
        /\ u.op = "delete" => x # u.pair
    BY <1>1, <2>1, <2>3 DEF TxOK, WroteWhatItSaw
  <2>5. accepted'[x] \in Citations /\ accepted'[x].row = w.row
    BY <2>2, <2>3 DEF Citations
  <2>6. QED
    BY <2>4, <2>5
<1>3. CASE ~ \E w \in u.writes : w.pair = x
  <2>1. ~ (u.op = "insert" /\ x = u.pair)
    BY <1>1, <1>3 DEF TxOK, WroteWhatItSaw
  <2>2. accepted'[x] = IF u.op = "delete" /\ x = u.pair THEN NoCitation ELSE accepted[x]
    BY <1>3, <1>a
  <2>3. NoCitation.row = 0
    BY DEF NoCitation
  <2>4. QED
    BY <1>1, <2>1, <2>2, <2>3, NothingTyped
<1>4. QED
  BY <1>2, <1>3

(* It disturbs no other transaction's pair, but by a repeat of a decision   *)
(* that has been overtaken.                                                 *)
LEMMA CommitDisturbsNobody ==
  ASSUME IInv, NEW q \in Requests, Commit(q), NEW r \in Requests \ {q}, NEW x \in Pairs
  PROVE  /\ HoldsCitation(r, x) => accepted'[x].row = accepted[x].row
         /\ HoldsRec(r, x) /\ x \notin stale' => accepted'[x].row = accepted[x].row
<1> DEFINE u == tx[q]
<1>1. u \in Transaction /\ TxOK(u) /\ u.pc = "writing" /\ Going(u)
  BY DEF IInv, TypeOK, Commit, Going, PCs
<1>2. CASE x # u.pair \/ u.op = "none"
  BY <1>2, CommitChangesItsPair
<1>3. CASE x = u.pair /\ u.op # "none"
  <2>1. HoldsCitation(q, x)
    BY <1>1, <1>3, Holding DEF CitationHeld
  <2>2. ~ HoldsCitation(r, x)
    BY <2>1 DEF IInv, OneWriterPerCitation
  <2>3. ASSUME HoldsRec(r, x), x \notin stale' PROVE FALSE
    <3>1. ~ u.wrote
      BY <1>1, <1>3, <2>3, Holding DEF IInv, OneWriterPerRec, RecHeld
    <3>2. x \notin stale /\ ~ Overtaken(q)
      BY <1>3, <2>3 DEF Commit
    <3>3. rec[x].decision = u.decision
      BY <1>3, <3>1, <3>2 DEF Overtaken
    <3>4. accepted[x].row # 0 <=> rec[x].row # 0 /\ rec[x].decision = "ACCEPTED"
      BY <3>2 DEF IInv, CitedIffAccepted
    <3>5. /\ u.op = "insert" => u.decision = "ACCEPTED" /\ rec[x].row # 0 /\ accepted[x].row = 0
          /\ u.op = "delete" => u.decision # "ACCEPTED" /\ accepted[x].row # 0
      BY <1>1, <1>3 DEF TxOK, WroteWhatItSaw
    <3>6. u.op \in {"insert", "delete"}
      BY <1>1, <1>3 DEF Transaction
    <3>7. QED
      BY <3>3, <3>4, <3>5, <3>6
  <2>4. QED
    BY <2>2, <2>3
<1>4. QED
  BY <1>2, <1>3

(* The pair it decides is cited afterwards if the decision is ACCEPTED.     *)
LEMMA CommitAgrees ==
  ASSUME IInv, NEW q \in Requests, Commit(q)
  PROVE  CitedIffAccepted'
<1> DEFINE u == tx[q]
<1>1. u \in Transaction /\ TxOK(u) /\ u.pc = "writing" /\ Going(u) /\ u.pair \in Pairs
  BY DEF IInv, TypeOK, Commit, Going, PCs, Transaction
<1>2. /\ rec \in [Pairs -> Recommended]
      /\ \A x \in Pairs \ {u.pair} : rec'[x] = rec[x]
      /\ rec'[u.pair].row = rec[u.pair].row
      /\ u.wrote => rec'[u.pair].decision = u.decision
      /\ ~ u.wrote => rec'[u.pair] = rec[u.pair]
  <2>1. rec \in [Pairs -> Recommended]
    BY DEF IInv, TypeOK
  <2>2. CASE u.wrote
    <3>1. rec' = [rec EXCEPT ![u.pair].decision = u.decision]
      BY <2>2 DEF Commit
    <3>2. rec[u.pair] \in Recommended
      BY <1>1, <2>1
    <3> HIDE DEF u
    <3>3. QED
      BY <1>1, <2>1, <2>2, <3>1, <3>2 DEF Recommended
  <2>3. CASE ~ u.wrote
    BY <2>1, <2>3 DEF Commit
  <2>4. QED
    BY <2>1, <2>2, <2>3
<1>3. stale \subseteq stale' /\ (Overtaken(q) => u.pair \in stale')
  BY DEF Commit
<1>4. ASSUME NEW x \in Pairs \ stale', x # u.pair
      PROVE  accepted'[x].row # 0 <=> rec'[x].row # 0 /\ rec'[x].decision = "ACCEPTED"
  BY <1>2, <1>3, <1>4, CommitChangesItsPair DEF IInv, CitedIffAccepted
<1>5. ASSUME u.pair \notin stale'
      PROVE  accepted'[u.pair].row # 0 <=>
               rec'[u.pair].row # 0 /\ rec'[u.pair].decision = "ACCEPTED"
  <2>1. accepted[u.pair].row # 0 <=> rec[u.pair].row # 0 /\ rec[u.pair].decision = "ACCEPTED"
    BY <1>1, <1>3, <1>5 DEF IInv, CitedIffAccepted
  <2>2. u.op # "none" /\ ~ u.wrote => rec[u.pair].decision = u.decision
    BY <1>3, <1>5 DEF Overtaken
  <2>3. u.op \in {"none", "insert", "delete"} /\ u.seen.row # 0
    BY <1>1 DEF Transaction, TxOK, WroteWhatItSaw
  <2>4. CASE u.op = "insert"
    BY <1>1, <1>2, <2>2, <2>3, <2>4, CommitChangesItsPair DEF TxOK, WroteWhatItSaw
  <2>5. CASE u.op = "delete"
    BY <1>1, <1>2, <2>2, <2>5, CommitChangesItsPair DEF TxOK, WroteWhatItSaw
  <2>6. CASE u.op = "none" /\ ~ u.wrote
    BY <1>1, <1>2, <2>1, <2>6, CommitChangesItsPair
  <2>7. CASE u.op = "none" /\ u.wrote
    <3>1. accepted[u.pair].row # 0 <=> u.decision = "ACCEPTED"
      BY <1>1, <1>3, <1>5, <2>7 DEF TxOK, Undisturbed
    <3>2. rec[u.pair].row # 0
      BY <1>1, <2>3, <2>7 DEF TxOK, WroteWhatItSaw
    <3>3. QED
      BY <1>1, <1>2, <2>7, <3>1, <3>2, CommitChangesItsPair
  <2>8. QED
    BY <2>3, <2>4, <2>5, <2>6, <2>7
<1>6. QED
  BY <1>4, <1>5 DEF CitedIffAccepted

LEMMA CommitKeeps ==
  ASSUME IInv, NEW q \in Requests, Commit(q)
  PROVE  IInv'
<1> DEFINE u == tx[q]
           over == [Fresh EXCEPT !.pc = "done"]
           late(r) == [tx[r] EXCEPT !.alone = @ /\ ~ Missed(r)]
<1>1. /\ tx \in [Requests -> Transaction] /\ u \in Transaction /\ u.pair \in Pairs
      /\ tx' = [r \in Requests |-> IF r = q THEN over ELSE late(r)]
  BY DEF IInv, TypeOK, Commit, Transaction
<1>a. \A r \in Requests : Missed(r) \in BOOLEAN
  BY DEF Missed
<1>2. over \in Transaction /\ ~ Going(over)
  BY FreshTyped
<1>3. ASSUME NEW r \in Requests
      PROVE  /\ late(r) \in Transaction
             /\ late(r).pc = tx[r].pc /\ late(r).seen = tx[r].seen /\ late(r).pair = tx[r].pair
             /\ late(r).op = tx[r].op /\ late(r).writes = tx[r].writes
             /\ late(r).wrote = tx[r].wrote /\ late(r).existing = tx[r].existing
             /\ late(r).decision = tx[r].decision
  <2> HIDE DEF Missed
  <2>1. QED
    BY <1>1, <1>a DEF Transaction
<1> HIDE DEF over, late
<1>4. tx'[q] = over /\ \A r \in Requests \ {q} : tx'[r] = late(r)
  BY <1>1
<1>5. /\ claims' = claims /\ stage' = stage /\ detections' = detections
      /\ recommends' = recommends /\ stale \subseteq stale' /\ stale' \subseteq Pairs
      /\ textsStale' \in BOOLEAN
  BY <1>1 DEF Commit, worker, IInv, TypeOK
<1>6. rec' \in [Pairs -> Recommended] /\ \A x \in Pairs : rec'[x].row = rec[x].row
  <2>1. rec \in [Pairs -> Recommended] /\ u.decision \in Decisions
    BY <1>1 DEF IInv, TypeOK, Transaction
  <2>2. CASE rec' = rec
    BY <2>1, <2>2
  <2>3. CASE rec' = [rec EXCEPT ![u.pair].decision = u.decision]
    <3> HIDE DEF u
    <3>1. QED
      BY <1>1, <2>1, <2>3 DEF Recommended
  <2>4. QED
    BY <2>2, <2>3 DEF Commit
<1>7. accepted' \in [Pairs -> Citations]
  <2>1. accepted' = [x \in Pairs |-> accepted'[x]]
    BY DEF Commit
  <2>2. QED
    BY <2>1, CommitChangesItsPair
<1>8. TypeOK'
  <2>1. tx' \in [Requests -> Transaction]
    BY <1>1, <1>2, <1>3
  <2>2. QED
    BY <2>1, <1>5, <1>6, <1>7 DEF IInv, TypeOK
<1>9. ASSUME NEW r \in Requests, NEW p \in Pairs
      PROVE  /\ HoldsRec(r, p)' <=> RecHeld(tx'[r], p)
             /\ HoldsCitation(r, p)' <=> CitationHeld(tx'[r], p)
  BY DEF HoldsRec, HoldsCitation, RecHeld, CitationHeld, InProgress, Going
<1>10. ASSUME NEW r \in Requests, NEW p \in Pairs
       PROVE  /\ HoldsRec(r, p)' <=> r # q /\ HoldsRec(r, p)
              /\ HoldsCitation(r, p)' <=> r # q /\ HoldsCitation(r, p)
  <2>1. CASE r = q
    BY <1>2, <1>4, <1>9, <2>1 DEF RecHeld, CitationHeld
  <2>2. CASE r # q
    BY <1>3, <1>4, <1>9, <2>2, Holding DEF RecHeld, CitationHeld, Going
  <2>3. QED
    BY <2>1, <2>2
<1>11. OneWriterPerRec' /\ OneWriterPerCitation' /\ StageAlone'
  BY <1>5, <1>10 DEF IInv, OneWriterPerRec, OneWriterPerCitation, StageAlone, StageHoldsRows
<1>12. ASSUME NEW r \in Requests PROVE TxOK(tx[r])'
  <2>1. CASE r = q
    BY <1>2, <1>4, <2>1 DEF TxOK, Going
  <2>2. CASE r # q
    <3> DEFINE v == tx[r]
    <3>1. /\ v \in Transaction /\ TxOK(v) /\ v.pair \in Pairs /\ v.writes \subseteq Write
          /\ \A w \in v.writes : w.pair \in Pairs
      BY DEF IInv, TypeOK, Transaction, Write
    <3>2. SUFFICES ASSUME Going(v)
                   PROVE  WroteWhatItSaw(tx[r])' /\ InOrder(tx[r])' /\ Undisturbed(tx[r])'
      BY <1>3, <1>4, <2>2 DEF TxOK, Going, WroteWhatItSaw, InOrder, Undisturbed
    <3>3. \A x \in Pairs : CitationHeld(v, x) => accepted'[x].row = accepted[x].row
      BY <2>2, CommitDisturbsNobody, Holding
    <3>4. \A x \in Pairs : RecHeld(v, x) /\ x \notin stale' => accepted'[x].row = accepted[x].row
      BY <2>2, CommitDisturbsNobody, Holding
    <3>5. WroteWhatItSaw(tx[r])'
      BY <1>3, <1>4, <1>6, <2>2, <3>1, <3>2, <3>3 DEF TxOK, WroteWhatItSaw, CitationHeld
    <3>6. InOrder(tx[r])'
      BY <1>3, <1>4, <2>2, <3>1, <3>2 DEF TxOK, InOrder
    <3>7. Undisturbed(tx[r])'
      BY <1>3, <1>4, <1>5, <2>2, <3>1, <3>2, <3>4 DEF TxOK, Undisturbed, RecHeld
    <3>8. QED
      BY <3>5, <3>6, <3>7
  <2>3. QED
    BY <2>1, <2>2
<1>13. QED
  BY <1>8, <1>11, <1>12, CommitAgrees DEF IInv

-----------------------------------------------------------------------------
(* The stages of the worker.                                                *)

(* A stage that changes no table of the draft keeps the invariant; it may   *)
(* come to hold the rows when no handler does.                              *)
LEMMA StageMoves ==
  ASSUME IInv, UNCHANGED <<tables, tx, history>>,
         stage' \in {"idle", "deleting", "detecting", "detected", "recommending"},
         detections' \in Nat, recommends' \in Nat,
         StageHoldsRows' => RowHolders = {}
  PROVE  IInv'
<1>1. /\ rec' = rec /\ accepted' = accepted /\ claims' = claims /\ tx' = tx
      /\ stale' = stale /\ textsStale' = textsStale
  BY DEF tables, history
<1>2. TypeOK'
  BY <1>1 DEF IInv, TypeOK
<1>3. ASSUME NEW q \in Requests, NEW p \in Pairs
      PROVE  /\ HoldsRec(q, p)' <=> HoldsRec(q, p)
             /\ HoldsCitation(q, p)' <=> HoldsCitation(q, p)
  BY <1>1 DEF HoldsRec, HoldsCitation, InProgress
<1>4. OneWriterPerRec' /\ OneWriterPerCitation'
  BY <1>3 DEF IInv, OneWriterPerRec, OneWriterPerCitation
<1>5. StageAlone'
  BY <1>3 DEF StageAlone, RowHolders
<1>6. ASSUME NEW q \in Requests PROVE TxOK(tx[q])'
  BY <1>1 DEF IInv, TxOK, Going, WroteWhatItSaw, InOrder, Undisturbed
<1>7. CitedIffAccepted'
  BY <1>1 DEF IInv, CitedIffAccepted
<1>8. QED
  BY <1>2, <1>4, <1>5, <1>6, <1>7 DEF IInv

(* A handler that holds no row has written nothing.                         *)
LEMMA WithoutLocks ==
  ASSUME IInv, StageHoldsRows, NEW q \in Requests, Going(tx[q])
  PROVE  ~ tx[q].wrote /\ tx[q].op = "none" /\ \A w \in tx[q].writes : ~ w.done
<1>1. tx[q].pair \in Pairs /\ \A w \in tx[q].writes : w.pair \in Pairs
  BY DEF IInv, TypeOK, Transaction, Write
<1>2. \A p \in Pairs : ~ RecHeld(tx[q], p) /\ ~ CitationHeld(tx[q], p)
  BY Holding DEF IInv, StageAlone
<1>3. QED
  BY <1>1, <1>2 DEF RecHeld, CitationHeld

(* A stage that replaces rows while it holds them all.                      *)
LEMMA StageCommits ==
  ASSUME IInv, StageHoldsRows, ~ StageHoldsRows', TypeOK', tx' = tx, CitedIffAccepted'
  PROVE  IInv'
<1>1. ASSUME NEW q \in Requests, NEW p \in Pairs
      PROVE  /\ HoldsRec(q, p)' <=> HoldsRec(q, p)
             /\ HoldsCitation(q, p)' <=> HoldsCitation(q, p)
  BY DEF HoldsRec, HoldsCitation, InProgress
<1>2. OneWriterPerRec' /\ OneWriterPerCitation' /\ StageAlone'
  BY <1>1 DEF IInv, OneWriterPerRec, OneWriterPerCitation, StageAlone
<1>3. ASSUME NEW q \in Requests PROVE TxOK(tx[q])'
  <2>1. CASE ~ Going(tx[q])
    BY <2>1 DEF TxOK, Going
  <2>2. CASE Going(tx[q])
    <3>1. TxOK(tx[q])
      BY DEF IInv
    <3>2. QED
      BY <2>2, <3>1, WithoutLocks DEF TxOK, Going, WroteWhatItSaw, InOrder, Undisturbed
  <2>3. QED
    BY <2>1, <2>2
<1>4. QED
  BY <1>2, <1>3 DEF IInv

LEMMA WorkerKeeps ==
  ASSUME IInv, DetectDelete \/ RecommendDelete \/ StageStep
  PROVE  IInv'
<1>1. detections \in Nat /\ recommends \in Nat /\ Decisions = {"PENDING", "ACCEPTED", "REJECTED"}
  BY DEF IInv, TypeOK, Decisions
<1>2. CASE DetectDelete
  BY <1>1, <1>2, StageMoves DEF DetectDelete, StageHoldsRows
<1>3. CASE RecommendDelete
  BY <1>1, <1>3, StageMoves DEF RecommendDelete
<1>4. CASE DetectCascade
  BY <1>1, <1>4, StageMoves DEF DetectCascade
<1>5. CASE StageFails
  BY <1>1, <1>5, StageMoves DEF StageFails, StageHoldsRows
<1>6. CASE DetectCommit
  <2>1. TypeOK'
    BY <1>1, <1>6, NothingTyped DEF DetectCommit, IInv, TypeOK
  <2>2. \A p \in Pairs : rec'[p].row = 0 /\ accepted'[p].row = 0
    BY <1>6 DEF DetectCommit, NoRec, NoCitation
  <2>3. CitedIffAccepted'
    BY <2>2 DEF CitedIffAccepted
  <2>4. QED
    BY <1>6, <2>1, <2>3, StageCommits DEF DetectCommit, StageHoldsRows
<1>7. CASE RecommendCommit
  <2>1. /\ rec' = [p \in Pairs |-> [row |-> recommends, decision |-> "PENDING"]]
        /\ [row |-> recommends, decision |-> "PENDING"] \in Recommended
    BY <1>1, <1>7 DEF RecommendCommit, Recommended
  <2>2. rec' \in [Pairs -> Recommended] /\ \A p \in Pairs : rec'[p].decision = "PENDING"
    BY <2>1
  <2>3. TypeOK'
    BY <1>1, <1>7, <2>2 DEF RecommendCommit, IInv, TypeOK
  <2>4. \A p \in Pairs \ stale' : accepted'[p].row = 0
    BY <1>7 DEF RecommendCommit
  <2>5. CitedIffAccepted'
    BY <2>2, <2>4 DEF CitedIffAccepted
  <2>6. QED
    BY <1>7, <2>3, <2>5, StageCommits DEF RecommendCommit, StageHoldsRows
<1>8. QED
  BY <1>2, <1>3, <1>4, <1>5, <1>6, <1>7 DEF StageStep

-----------------------------------------------------------------------------
LEMMA InitHolds == ASSUME Init PROVE IInv
<1> DEFINE cited == {p \in Pairs : rec[p].decision = "ACCEPTED"}
<1>1. Cardinality(Requests) \in Nat
  BY RequestsAssumption, FS_CardinalityType
<1>2. /\ rec \in [Pairs -> [row : {1}, decision : Decisions]]
      /\ accepted = [p \in Pairs |-> IF p \in cited
                       THEN [row |-> Cardinality(Requests) + p, text |-> Texts[cited][p]]
                       ELSE NoCitation]
      /\ tx = [q \in Requests |-> Fresh]
  BY DEF Init
<1>3. Fresh \in Transaction /\ ~ Going(Fresh)
  <2>1. Fresh = [Fresh EXCEPT !.pc = "idle"]
    BY DEF Fresh
  <2>2. QED
    BY <2>1, FreshTyped
<1>4. ASSUME NEW p \in Pairs
      PROVE  accepted[p] \in Citations /\ (accepted[p].row # 0 <=> p \in cited)
  <2>1. CASE p \in cited
    <3>1. Texts[cited][p] \in Text
      BY <2>1, TextTyped
    <3>2. accepted[p] = [row |-> Cardinality(Requests) + p, text |-> Texts[cited][p]]
      BY <1>2, <2>1
    <3> HIDE DEF cited
    <3>3. QED
      BY <1>1, <2>1, <3>1, <3>2, PairsAssumption DEF Citations
  <2>2. CASE p \notin cited
    BY <1>2, <2>2, NothingTyped DEF NoCitation
  <2>3. QED
    BY <2>1, <2>2
<1>5. TypeOK
  <2>1. accepted \in [Pairs -> Citations]
    BY <1>2, <1>4
  <2>2. rec \in [Pairs -> Recommended]
    BY <1>2 DEF Recommended
  <2>3. tx \in [Requests -> Transaction]
    BY <1>2, <1>3
  <2>4. QED
    BY <2>1, <2>2, <2>3 DEF Init, TypeOK
<1>6. \A q \in Requests : ~ Going(tx[q])
  BY <1>2, <1>3
<1>7. \A q \in Requests, p \in Pairs : ~ HoldsRec(q, p) /\ ~ HoldsCitation(q, p)
  BY <1>6, Holding DEF RecHeld, CitationHeld
<1>8. CitedIffAccepted
  <2>1. \A p \in Pairs : rec[p].row = 1
    BY <1>2
  <2>2. QED
    BY <1>4, <2>1 DEF CitedIffAccepted
<1>9. QED
  BY <1>5, <1>6, <1>7, <1>8 DEF IInv, OneWriterPerRec, OneWriterPerCitation, StageAlone, TxOK

LEMMA NextKeeps == ASSUME IInv, [Next]_vars PROVE IInv'
<1>1. ASSUME NEW q \in Requests, Load(q) \/ RequestStep(q) PROVE IInv'
  BY <1>1, LoadKeeps, FlushKeeps, FindKeeps, ChangeKeeps, RecomputeKeeps, WriteKeeps,
     CommitKeeps, Refused DEF RequestStep, AbortDeadlocked
<1>2. CASE UNCHANGED vars
  <2>1. UNCHANGED <<tables, tx, history>> /\ stage' = stage
        /\ detections' = detections /\ recommends' = recommends
    BY <1>2 DEF vars, tables, history
  <2>2. TypeOK' /\ CitedIffAccepted'
    BY <2>1 DEF IInv, TypeOK, CitedIffAccepted, tables, history
  <2>3. ASSUME NEW q \in Requests, NEW p \in Pairs
        PROVE  /\ HoldsRec(q, p)' <=> HoldsRec(q, p)
               /\ HoldsCitation(q, p)' <=> HoldsCitation(q, p)
    BY <2>1 DEF HoldsRec, HoldsCitation, InProgress
  <2>4. OneWriterPerRec' /\ OneWriterPerCitation' /\ StageAlone'
    BY <2>1, <2>3 DEF IInv, OneWriterPerRec, OneWriterPerCitation, StageAlone, StageHoldsRows
  <2>5. ASSUME NEW q \in Requests PROVE TxOK(tx[q])'
    BY <2>1 DEF IInv, TxOK, Going, WroteWhatItSaw, InOrder, Undisturbed, tables, history
  <2>6. QED
    BY <2>2, <2>4, <2>5 DEF IInv
<1>3. QED
  BY <1>1, <1>2, WorkerKeeps DEF Next

LEMMA Invariant == Spec => []IInv
  BY InitHolds, NextKeeps, PTL DEF Spec

(* The tables, the transactions and the worker are of their types, for any  *)
(* number of decisions, pairs and stages.                                   *)
THEOREM TypeCorrect == Spec => []TypeOK
<1>1. IInv => TypeOK
  BY DEF IInv
<1>2. QED
  BY <1>1, Invariant, PTL

(* However many decisions overlap with each other and with stages, a pair   *)
(* is cited exactly when its decision is ACCEPTED, but for those that a     *)
(* repeat of an overtaken decision or a rebuild has made stale              *)
(* (_apply_decision, recommendations.py:316-352).                           *)
THEOREM DecisionsDecideCitations == Spec => []CitedIffAccepted
<1>1. IInv => CitedIffAccepted
  BY DEF IInv
<1>2. QED
  BY <1>1, Invariant, PTL
-----------------------------------------------------------------------------
(* The texts.  TextsAgree is not inductive: a commit is right only because  *)
(* the transaction computed its writes from the citations that are still    *)
(* there, and from the text of the citation it had loaded.  That is what it *)
(* may rely on while it has missed no change of the citations (Missed).  A  *)
(* detection may have emptied the table.                                    *)

(* The accepted pairs after the commit of t.                                *)
CitedAfter(t) ==
  ({p \in Pairs : accepted[p].row # 0} \ (IF t.op = "delete" THEN {t.pair} ELSE {}))
    \cup (IF t.op = "insert" THEN {t.pair} ELSE {})

(* Every write is the text of the set after the commit, and every citation  *)
(* that is not written has that text; or nothing is left to be written.     *)
WritesAgree(t) ==
  \/ /\ \A w \in t.writes :
          /\ w.pair \in CitedAfter(t) /\ w.text = Texts[CitedAfter(t)][w.pair]
          /\ w.done \/ accepted[w.pair].row = w.row
     /\ \A p \in CitedAfter(t) : (\A w \in t.writes : w.pair # p) =>
          accepted[p].row # 0 /\ accepted[p].text = Texts[CitedAfter(t)][p]
  \/ t.op = "none" /\ (\A p \in Pairs : accepted[p].row = 0) /\ \A w \in t.writes : ~ w.done

ReadsAgree(t) ==
  Going(t) /\ t.alone =>
    /\ t.pc \in {"found", "changed", "writing"} /\ t.existing.row # 0 =>
         accepted[t.pair] = t.existing \/ accepted[t.pair].row = 0
    /\ t.pc = "writing" => WritesAgree(t)

TextInv == TextsAgree /\ \A q \in Requests : ReadsAgree(tx[q])

(* A statement of one handler that changes no table.                        *)
LEMMA OneReads ==
  ASSUME IInv, TextInv, NEW q \in Requests, NEW t \in Transaction,
         tx' = [tx EXCEPT ![q] = t], UNCHANGED <<tables, worker, history>>, ReadsAgree(t)
  PROVE  TextInv'
<1>1. tx'[q] = t /\ \A r \in Requests \ {q} : tx'[r] = tx[r]
  BY DEF IInv, TypeOK
<1>2. accepted' = accepted /\ textsStale' = textsStale
  BY DEF tables, history
<1>3. TextsAgree'
  BY <1>2 DEF TextInv, TextsAgree
<1>4. ASSUME NEW r \in Requests PROVE ReadsAgree(tx[r])'
  <2>1. ReadsAgree(tx'[r])
    BY <1>1 DEF TextInv
  <2>2. QED
    BY <1>2, <2>1 DEF ReadsAgree, WritesAgree, CitedAfter, Going
<1>5. QED
  BY <1>3, <1>4 DEF TextInv

LEMMA RefusedReads ==
  ASSUME IInv, TextInv, NEW q \in Requests, Refuse(q)
  PROVE  TextInv'
<1> DEFINE t == [Fresh EXCEPT !.pc = "refused"]
<1>1. t \in Transaction /\ ~ Going(t)
  BY FreshTyped
<1>2. tx' = [tx EXCEPT ![q] = t] /\ UNCHANGED <<tables, worker, history>>
  BY DEF Refuse
<1> HIDE DEF t
<1>3. QED
  BY <1>1, <1>2, OneReads DEF ReadsAgree

LEMMA LoadReads ==
  ASSUME IInv, TextInv, NEW q \in Requests, Load(q)
  PROVE  TextInv'
<1>1. CASE Refuse(q)
  BY <1>1, RefusedReads
<1>2. ASSUME NEW p \in Pairs, NEW d \in UserDecisions,
             Step(q, [Fresh EXCEPT !.pc = "loaded", !.pair = p, !.decision = d,
                                   !.seen = rec[p], !.claims = claims])
      PROVE  TextInv'
  <2> DEFINE t == [Fresh EXCEPT !.pc = "loaded", !.pair = p, !.decision = d,
                                !.seen = rec[p], !.claims = claims]
  <2>1. [Fresh EXCEPT !.pc = "idle"] \in Transaction /\ [Fresh EXCEPT !.pc = "idle"] = Fresh
    BY FreshTyped DEF Fresh
  <2>2. rec[p] \in Recommended /\ claims \in Nat
    BY DEF IInv, TypeOK
  <2>3. t \in Transaction /\ t.pc = "loaded"
    BY <2>1, <2>2 DEF Transaction, PCs, UserDecisions
  <2>4. tx' = [tx EXCEPT ![q] = t] /\ UNCHANGED <<tables, worker, history>>
    BY <1>2 DEF Step
  <2> HIDE DEF t
  <2>5. QED
    BY <2>3, <2>4, OneReads DEF ReadsAgree
<1>3. QED
  BY <1>1, <1>2 DEF Load

(* The statements before the texts are computed.                            *)
LEMMA StatementReads ==
  ASSUME IInv, TextInv, NEW q \in Requests,
         FlushDecision(q) \/ FindCitation(q) \/ ChangeCitation(q)
  PROVE  TextInv'
<1> DEFINE u == tx[q]
<1>1. /\ u \in Transaction /\ ReadsAgree(u) /\ u.pair \in Pairs
      /\ u.pc \in {"loaded", "flushed", "found"} /\ Going(u)
  BY DEF IInv, TypeOK, TextInv, Transaction, FlushDecision, FindCitation, ChangeCitation,
     Going, PCs
<1>2. CASE Refuse(q)
  BY <1>2, RefusedReads
<1>3. ASSUME FlushDecision(q), ~ Refuse(q) PROVE TextInv'
  <2> DEFINE t == [u EXCEPT !.pc = "flushed", !.wrote = (u.decision # u.seen.decision)]
  <2>1. tx' = [tx EXCEPT ![q] = t] /\ UNCHANGED <<tables, worker, history>>
    BY <1>3 DEF FlushDecision, Step
  <2>2. t \in Transaction /\ t.pc = "flushed"
    BY <1>1 DEF Transaction, PCs
  <2> HIDE DEF t
  <2>3. QED
    BY <2>1, <2>2, OneReads DEF ReadsAgree
<1>4. ASSUME FindCitation(q) PROVE TextInv'
  <2> DEFINE t == [u EXCEPT !.pc = "found", !.existing = accepted[u.pair]]
  <2>1. tx' = [tx EXCEPT ![q] = t] /\ UNCHANGED <<tables, worker, history>>
    BY <1>4 DEF FindCitation, Step
  <2>2. accepted[u.pair] \in Citations
    BY <1>1 DEF IInv, TypeOK
  <2>3. t \in Transaction /\ t.pc = "found" /\ t.pair = u.pair /\ t.existing = accepted[u.pair]
    BY <1>1, <2>2 DEF Transaction, PCs
  <2> HIDE DEF t
  <2>4. QED
    BY <2>1, <2>3, OneReads DEF ReadsAgree
<1>5. ASSUME ChangeCitation(q), ~ Refuse(q) PROVE TextInv'
  <2>1. PICK op \in {"none", "insert", "delete"} :
          Step(q, [u EXCEPT !.pc = "changed", !.op = op])
    BY <1>5 DEF ChangeCitation
  <2> DEFINE t == [u EXCEPT !.pc = "changed", !.op = op]
  <2>2. tx' = [tx EXCEPT ![q] = t] /\ UNCHANGED <<tables, worker, history>>
    BY <2>1 DEF Step
  <2>3. u.pc = "found"
    BY <1>5 DEF ChangeCitation
  <2>4. /\ t \in Transaction /\ t.pc = "changed" /\ t.pair = u.pair
        /\ t.existing = u.existing /\ t.alone = u.alone
    BY <1>1 DEF Transaction, PCs
  <2> HIDE DEF t
  <2>5. ReadsAgree(t)
    BY <1>1, <2>3, <2>4 DEF ReadsAgree
  <2>6. QED
    BY <2>2, <2>4, <2>5, OneReads
<1>6. QED
  BY <1>2, <1>3, <1>4, <1>5

(* What is computed alone is right.                                         *)
LEMMA RecomputeReads ==
  ASSUME IInv, IInv', TextInv, NEW q \in Requests, Recompute(q)
  PROVE  TextInv'
<1> DEFINE u == tx[q]
           gone == IF u.op = "delete" THEN {u.pair} ELSE {}
           own == IF u.op = "insert" THEN {u.pair} ELSE {}
           others == {p \in Pairs \ gone : accepted[p].row # 0}
           text == Texts[others \cup own]
           loaded(p) == IF p = u.pair /\ u.existing.row = accepted[p].row
                        THEN u.existing.text ELSE accepted[p].text
           writes == {[pair |-> p, row |-> q, text |-> text[p], done |-> TRUE] : p \in own} \cup
                     {[pair |-> p, row |-> accepted[p].row, text |-> text[p], done |-> FALSE] :
                        p \in {x \in others : loaded(x) # text[x]}}
           t == [u EXCEPT !.pc = "writing", !.writes = writes]
<1>1. /\ u \in Transaction /\ u.pc = "changed" /\ ReadsAgree(u) /\ u.pair \in Pairs
      /\ Going(u) /\ tx \in [Requests -> Transaction]
  BY DEF IInv, TypeOK, Transaction, Recompute, TextInv, Going, PCs
<1>2. tx' = [tx EXCEPT ![q] = t] /\ UNCHANGED <<tables, worker, history>>
  BY DEF Recompute, Step
<1>3. t \in Transaction
  <2> HIDE DEF t
  <2>1. tx'[q] = t
    BY <1>1, <1>2
  <2>2. QED
    BY <2>1 DEF IInv, TypeOK
<1>4. /\ t.pc = "writing" /\ t.pair = u.pair /\ t.op = u.op /\ t.writes = writes
      /\ t.existing = u.existing /\ t.alone = u.alone
  BY <1>1 DEF Transaction
<1> HIDE DEF t
<1>5. CitedAfter(t) = others \cup own
  BY <1>1, <1>4 DEF CitedAfter
<1>6. ASSUME u.alone PROVE WritesAgree(t)
  <2>1. u.existing.row # 0 => accepted[u.pair] = u.existing \/ accepted[u.pair].row = 0
    BY <1>1, <1>6 DEF ReadsAgree
  <2>2. ASSUME NEW w \in writes
        PROVE  /\ w.pair \in others \cup own /\ w.text = text[w.pair]
               /\ w.done \/ accepted[w.pair].row = w.row
    OBVIOUS
  <2>3. ASSUME NEW p \in others \cup own, \A w \in writes : w.pair # p
        PROVE  accepted[p].row # 0 /\ accepted[p].text = text[p]
    <3>1. p \notin own
      <4>1. ASSUME p \in own PROVE FALSE
        <5> DEFINE w == [pair |-> p, row |-> q, text |-> text[p], done |-> TRUE]
        <5>1. w \in writes /\ w.pair = p
          BY <4>1
        <5>2. QED
          BY <2>3, <5>1
      <4>2. QED
        BY <4>1
    <3>2. p \in others /\ accepted[p].row # 0
      BY <3>1
    <3>3. loaded(p) = text[p]
      <4>1. ASSUME loaded(p) # text[p] PROVE FALSE
        <5> DEFINE w == [pair |-> p, row |-> accepted[p].row, text |-> text[p], done |-> FALSE]
        <5>1. w \in writes /\ w.pair = p
          BY <3>2, <4>1
        <5>2. QED
          BY <2>3, <5>1
      <4>2. QED
        BY <4>1
    <3>4. loaded(p) = accepted[p].text
      BY <2>1, <3>2
    <3>5. QED
      BY <3>2, <3>3, <3>4
  <2> HIDE DEF writes, text, others, own
  <2>4. text = Texts[CitedAfter(t)]
    BY <1>5 DEF text
  <2>5. QED
    BY <1>4, <1>5, <2>2, <2>3, <2>4 DEF WritesAgree
<1>7. ReadsAgree(t)
  BY <1>1, <1>4, <1>6 DEF ReadsAgree
<1>8. QED
  BY <1>2, <1>3, <1>7, OneReads

(* A statement that no longer finds its row is refused while it is alone,   *)
(* unless a detection has emptied the table.                                *)
LEMMA WriteReads ==
  ASSUME IInv, IInv', TextInv, NEW q \in Requests, WriteText(q)
  PROVE  TextInv'
<1> DEFINE u == tx[q]
           w == NextWrite(q)
           done == [w EXCEPT !.done = TRUE]
           written == [u EXCEPT !.writes = (@ \ {w}) \cup {done}]
           dropped == [u EXCEPT !.writes = @ \ {w}]
<1>1. /\ u \in Transaction /\ TxOK(u) /\ u.pc = "writing" /\ Going(u) /\ ReadsAgree(u)
      /\ Unwritten(q) # {} /\ u.writes \subseteq Write /\ tx \in [Requests -> Transaction]
  BY DEF IInv, TypeOK, WriteText, Going, PCs, Transaction, TextInv
<1>2. w \in u.writes /\ ~ w.done /\ w \in Write /\ w.row # 0
  BY <1>1, NextWriteExists DEF IInv, TxOK, WroteWhatItSaw
<1>3. CASE Refuse(q)
  BY <1>3, RefusedReads
<1>4. CASE accepted[w.pair].row = w.row /\ Step(q, written)
  <2>1. done \in Write /\ done.pair = w.pair /\ done.text = w.text /\ done.done = TRUE
    BY <1>2 DEF Write
  <2> HIDE DEF done, w
  <2>2. tx' = [tx EXCEPT ![q] = written] /\ UNCHANGED <<tables, worker, history>>
    BY <1>4 DEF Step
  <2>3. /\ written \in Transaction
        /\ written.pc = u.pc /\ written.pair = u.pair /\ written.op = u.op
        /\ written.writes = (u.writes \ {w}) \cup {done}
        /\ written.existing = u.existing /\ written.alone = u.alone
    BY <1>1, <2>1 DEF Transaction
  <2> HIDE DEF written
  <2>4. CitedAfter(written) = CitedAfter(u)
    BY <2>3 DEF CitedAfter
  <2>5. ASSUME WritesAgree(u) PROVE WritesAgree(written)
    <3>1. \E p \in Pairs : accepted[p].row # 0
      BY <1>2, <1>4 DEF Write
    <3>2. \A p \in Pairs : (\A v \in written.writes : v.pair # p) => \A v \in u.writes : v.pair # p
      BY <2>1, <2>3
    <3>3. CitedAfter(u) \subseteq Pairs
      BY <1>1 DEF CitedAfter, Transaction
    <3>4. QED
      BY <1>2, <2>1, <2>3, <2>4, <2>5, <3>1, <3>2, <3>3 DEF WritesAgree
  <2>6. ReadsAgree(written)
    BY <1>1, <2>3, <2>5 DEF ReadsAgree
  <2>7. QED
    BY <2>2, <2>3, <2>6, OneReads
<1>5. CASE accepted[w.pair].row # w.row /\ Step(q, dropped)
  <2> HIDE DEF w
  <2>1. tx' = [tx EXCEPT ![q] = dropped] /\ UNCHANGED <<tables, worker, history>>
    BY <1>5 DEF Step
  <2>2. /\ dropped \in Transaction
        /\ dropped.pc = u.pc /\ dropped.pair = u.pair /\ dropped.op = u.op
        /\ dropped.writes = u.writes \ {w}
        /\ dropped.existing = u.existing /\ dropped.alone = u.alone
    BY <1>1 DEF Transaction
  <2> HIDE DEF dropped
  <2>3. ASSUME WritesAgree(u) PROVE WritesAgree(dropped)
    <3>1. u.op = "none" /\ (\A p \in Pairs : accepted[p].row = 0) /\ \A v \in u.writes : ~ v.done
      BY <1>2, <1>5, <2>3 DEF WritesAgree
    <3>2. QED
      BY <2>2, <3>1 DEF WritesAgree
  <2>4. ReadsAgree(dropped)
    BY <1>1, <2>2, <2>3 DEF ReadsAgree
  <2>5. QED
    BY <2>1, <2>2, <2>4, OneReads
<1>6. QED
  BY <1>3, <1>4, <1>5 DEF WriteText

(* The commit of a transaction that missed nothing leaves the right texts,  *)
(* whatever was there before; after any other they are marked stale.        *)
LEMMA CommitReads ==
  ASSUME IInv, TextInv, NEW q \in Requests, Commit(q)
  PROVE  TextInv'
<1> DEFINE u == tx[q]
           over == [Fresh EXCEPT !.pc = "done"]
           late(r) == [tx[r] EXCEPT !.alone = @ /\ ~ Missed(r)]
<1>1. /\ tx \in [Requests -> Transaction] /\ u \in Transaction /\ u.pair \in Pairs
      /\ u.pc = "writing" /\ Going(u) /\ TxOK(u) /\ ReadsAgree(u)
      /\ u.writes \subseteq Write
  BY DEF IInv, TypeOK, Commit, Transaction, Going, PCs, TextInv
<1>2. ~ Going(over)
  BY FreshTyped
<1>3. ASSUME NEW r \in Requests
      PROVE  /\ late(r).alone => tx[r].alone /\ ~ Missed(r)
             /\ late(r).pc = tx[r].pc /\ late(r).pair = tx[r].pair /\ late(r).op = tx[r].op
             /\ late(r).existing = tx[r].existing /\ late(r).writes = tx[r].writes
  <2>1. Missed(r) \in BOOLEAN /\ tx[r] \in Transaction
    BY <1>1 DEF Missed
  <2> HIDE DEF Missed
  <2>2. QED
    BY <2>1 DEF Transaction
<1> HIDE DEF over, late
<1>4. \A r \in Requests : tx'[r] = IF r = q THEN over ELSE late(r)
  BY DEF Commit, over, late
<1>5. ASSUME NEW r \in Requests PROVE ReadsAgree(tx[r])'
  <2>1. CASE r = q
    BY <1>2, <1>4, <2>1 DEF ReadsAgree, Going
  <2>2. CASE r # q
    <3>1. ReadsAgree(tx[r]) /\ tx'[r] = late(r)
      BY <1>4, <2>2 DEF TextInv
    <3>2. CASE accepted' = accepted
      <4>1. WritesAgree(tx[r]) => WritesAgree(tx[r])'
        BY <1>3, <3>1, <3>2 DEF WritesAgree, CitedAfter
      <4>2. QED
        BY <1>3, <3>1, <3>2, <4>1 DEF ReadsAgree, Going
    <3>3. CASE accepted' # accepted
      <4>1. ~ Missed(r) => tx[r].pc # "writing" /\
              (tx[r].existing.row = 0 \/ tx[r].existing = accepted'[tx[r].pair])
        BY <3>3 DEF Missed
      <4>2. QED
        BY <1>3, <3>1, <4>1 DEF ReadsAgree
    <3>4. QED
      BY <3>2, <3>3
  <2>3. QED
    BY <2>1, <2>2
<1>6. ASSUME u.alone PROVE TextsAgree'
  <2>1. WritesAgree(u)
    BY <1>1, <1>6 DEF ReadsAgree
  <2>2. \A w \in u.writes : w.done /\ w.row # 0
    BY <1>1 DEF Commit, Unwritten, TxOK, WroteWhatItSaw
  <2>3. ASSUME NEW p \in Pairs
        PROVE  accepted'[p] =
                 CASE \E w \in u.writes : w.pair = p ->
                        [row |-> WriteOf(u, p).row, text |-> WriteOf(u, p).text]
                   [] u.op = "delete" /\ p = u.pair -> NoCitation
                   [] OTHER -> accepted[p]
    BY DEF Commit
  <2>4. CASE u.op = "none" /\ (\A p \in Pairs : accepted[p].row = 0) /\ \A w \in u.writes : ~ w.done
    <3>1. u.writes = {}
      BY <2>2, <2>4
    <3>2. \A p \in Pairs : accepted'[p].row = 0
      BY <2>3, <2>4, <3>1
    <3>3. QED
      BY <3>2 DEF TextsAgree
  <2>5. CASE /\ \A w \in u.writes :
                  w.pair \in CitedAfter(u) /\ w.text = Texts[CitedAfter(u)][w.pair]
             /\ \A p \in CitedAfter(u) : (\A w \in u.writes : w.pair # p) =>
                  accepted[p].row # 0 /\ accepted[p].text = Texts[CitedAfter(u)][p]
    <3>1. ASSUME NEW p \in Pairs, \E w \in u.writes : w.pair = p
          PROVE  /\ p \in CitedAfter(u) /\ accepted'[p].row # 0
                 /\ accepted'[p].text = Texts[CitedAfter(u)][p]
      <4>1. WriteOf(u, p) \in u.writes /\ WriteOf(u, p).pair = p
        BY <3>1 DEF WriteOf
      <4>2. accepted'[p] = [row |-> WriteOf(u, p).row, text |-> WriteOf(u, p).text]
        <5>1. u.op = "delete" => p # u.pair
          BY <1>1, <3>1 DEF TxOK, WroteWhatItSaw
        <5>2. QED
          BY <2>3, <3>1, <5>1
      <4>3. QED
        BY <2>2, <2>5, <4>1, <4>2
    <3>2. ASSUME NEW p \in Pairs, \A w \in u.writes : w.pair # p
          PROVE  /\ p \in CitedAfter(u) <=> accepted'[p].row # 0
                 /\ p \in CitedAfter(u) => accepted'[p].text = Texts[CitedAfter(u)][p]
      <4>1. u.op = "insert" => p # u.pair
        BY <1>1, <3>2 DEF TxOK, WroteWhatItSaw
      <4>2. CASE u.op = "delete" /\ p = u.pair
        <5>1. accepted'[p] = NoCitation
          BY <2>3, <3>2, <4>2
        <5>2. p \notin CitedAfter(u)
          BY <4>2 DEF CitedAfter
        <5>3. QED
          BY <5>1, <5>2 DEF NoCitation
      <4>3. CASE ~ (u.op = "delete" /\ p = u.pair)
        <5>1. accepted'[p] = accepted[p]
          BY <2>3, <3>2, <4>3
        <5>2. p \in CitedAfter(u) <=> accepted[p].row # 0
          BY <4>1, <4>3 DEF CitedAfter
        <5>3. QED
          BY <2>5, <3>2, <5>1, <5>2
      <4>4. QED
        BY <4>2, <4>3
    <3>3. CitedAfter(u) = {p \in Pairs : accepted'[p].row # 0}
      <4>1. CitedAfter(u) \subseteq Pairs
        BY <1>1 DEF CitedAfter
      <4>2. QED
        BY <3>1, <3>2, <4>1
    <3>4. QED
      BY <3>1, <3>2, <3>3 DEF TextsAgree
  <2>6. QED
    BY <2>1, <2>4, <2>5 DEF WritesAgree
<1>7. ASSUME ~ u.alone PROVE TextsAgree'
  BY <1>1, <1>7 DEF Commit, TextsAgree
<1>8. QED
  BY <1>5, <1>6, <1>7 DEF TextInv

(* The stages: only the commit of a detection changes a citation.           *)
LEMMA WorkerReads ==
  ASSUME IInv, TextInv, DetectDelete \/ RecommendDelete \/ StageStep
  PROVE  TextInv'
<1>1. ASSUME accepted' = accepted, tx' = tx, textsStale' = textsStale PROVE TextInv'
  <2>1. TextsAgree'
    BY <1>1 DEF TextInv, TextsAgree
  <2>2. ASSUME NEW q \in Requests PROVE ReadsAgree(tx[q])'
    <3>1. ReadsAgree(tx[q])
      BY DEF TextInv
    <3>2. QED
      BY <1>1, <3>1 DEF ReadsAgree, WritesAgree, CitedAfter, Going
  <2>3. QED
    BY <2>1, <2>2 DEF TextInv
<1>2. CASE DetectDelete \/ RecommendDelete \/ DetectCascade \/ RecommendCommit \/ StageFails
  BY <1>1, <1>2 DEF DetectDelete, RecommendDelete, DetectCascade, RecommendCommit, StageFails,
     tables, history
<1>3. CASE DetectCommit
  <2>1. /\ tx' = tx /\ StageHoldsRows
        /\ \A p \in Pairs : accepted'[p].row = 0
    BY <1>3 DEF DetectCommit, StageHoldsRows, NoCitation
  <2>2. TextsAgree'
    BY <2>1 DEF TextsAgree
  <2>3. ASSUME NEW q \in Requests PROVE ReadsAgree(tx[q])'
    <3>1. CASE ~ Going(tx[q])
      BY <2>1, <3>1 DEF ReadsAgree, Going
    <3>2. CASE Going(tx[q])
      <4>1. tx[q].op = "none" /\ \A w \in tx[q].writes : ~ w.done
        BY <2>1, <3>2, WithoutLocks
      <4>2. tx[q].pair \in Pairs
        BY DEF IInv, TypeOK, Transaction
      <4>3. QED
        BY <2>1, <4>1, <4>2 DEF ReadsAgree, WritesAgree
    <3>3. QED
      BY <3>1, <3>2
  <2>4. QED
    BY <2>2, <2>3 DEF TextInv
<1>4. QED
  BY <1>2, <1>3 DEF StageStep

LEMMA InitReads == ASSUME Init PROVE TextInv
<1>1. \A q \in Requests : tx[q].pc = "idle"
  BY DEF Init, Fresh
<1>2. \A q \in Requests : ReadsAgree(tx[q])
  BY <1>1 DEF ReadsAgree, Going
<1> DEFINE cited == {p \in Pairs : rec[p].decision = "ACCEPTED"}
<1>3. accepted = [p \in Pairs |-> IF p \in cited
        THEN [row |-> Cardinality(Requests) + p, text |-> Texts[cited][p]] ELSE NoCitation]
  BY DEF Init
<1>4. \A p \in Pairs : Cardinality(Requests) + p # 0
  BY RequestsAssumption, PairsAssumption, FS_CardinalityType
<1> HIDE DEF cited
<1>5. \A p \in Pairs : accepted[p].row # 0 <=> p \in cited
  BY <1>3, <1>4 DEF NoCitation
<1>6. cited = {p \in Pairs : accepted[p].row # 0}
  BY <1>5 DEF cited
<1>7. \A p \in cited : accepted[p].text = Texts[cited][p]
  BY <1>3 DEF cited
<1>8. TextsAgree
  BY <1>6, <1>7 DEF TextsAgree
<1>9. QED
  BY <1>2, <1>8 DEF TextInv

LEMMA NextReads == ASSUME IInv, IInv', TextInv, [Next]_vars PROVE TextInv'
<1>1. ASSUME NEW q \in Requests, Load(q) \/ RequestStep(q) PROVE TextInv'
  BY <1>1, LoadReads, StatementReads, RecomputeReads, WriteReads, CommitReads, RefusedReads
     DEF RequestStep, AbortDeadlocked
<1>2. CASE UNCHANGED vars
  <2>1. accepted' = accepted /\ tx' = tx /\ textsStale' = textsStale
    BY <1>2 DEF vars
  <2>2. TextsAgree'
    BY <2>1 DEF TextInv, TextsAgree
  <2>3. ASSUME NEW q \in Requests PROVE ReadsAgree(tx[q])'
    <3>1. ReadsAgree(tx[q])
      BY DEF TextInv
    <3>2. WritesAgree(tx[q]) => WritesAgree(tx[q])'
      <4>1. CitedAfter(tx[q])' = CitedAfter(tx[q])
        BY <2>1 DEF CitedAfter
      <4>2. QED
        BY <2>1, <4>1 DEF WritesAgree
    <3>3. QED
      BY <2>1, <3>1, <3>2 DEF ReadsAgree, Going
  <2>4. QED
    BY <2>2, <2>3 DEF TextInv
<1>3. QED
  BY <1>1, <1>2, WorkerReads DEF Next

(* The stored texts are those of the whole accepted set, year letters       *)
(* included, for any number of decisions and stages, also of overlapping    *)
(* ones (recommendations.py:33-58).  Not so from the commit of a decision   *)
(* that had computed its texts, or loaded the citation it decides, before   *)
(* another one changed the citations, until one is committed that had not.  *)
THEOREM TextsAreOfTheWholeSet == Spec => []TextsAgree
<1>1. Init => TextInv
  BY InitReads
<1>2. IInv /\ IInv' /\ TextInv /\ [Next]_vars => TextInv'
  BY NextReads
<1>3. TextInv => TextsAgree
  BY DEF TextInv
<1>4. QED
  BY <1>1, <1>2, <1>3, Invariant, PTL DEF Spec
=============================================================================
