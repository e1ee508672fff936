------------------------- MODULE LibraryRefreshProofs -------------------------
(***************************************************************************)
(* What the lock of library.refresh guarantees for any number of slots,    *)
(* rows and faults, any chunk size and any colliding rows: while no chunk  *)
(* outlives the TTL, ticks are apart and no row is fetched twice.          *)
(***************************************************************************)
EXTENDS LibraryRefresh, TLAPS

(* Until a TTL ends under its holder, the lock names the tick at work.      *)
LockNamesWorker == expiries = 0 => \A w \in Slots : Working(w) => lock = w

(* The case FetchedOnce is about.                                           *)
Undisturbed == expiries = 0 /\ faults = 0 /\ \A p \in Poison : fetched[p] = 0

(* The rows a tick is enriching were fetched, and one fetched and still     *)
(* PENDING is in the chunk of the tick that fetched it.                     *)
FetchesAccounted ==
  /\ \A w \in Slots : tick[w].pc = "enrich" => \A r \in tick[w].rows : fetched[r] > 0
  /\ Undisturbed => \A r \in Row :
       /\ fetched[r] <= 1
       /\ fetched[r] > 0 => Exists(r)
       /\ fetched[r] > 0 /\ row[r].status = "PENDING" =>
            \E w \in Slots : tick[w].pc = "enrich" /\ r \in tick[w].rows

IInv == TypeOK /\ LockNamesWorker /\ FetchesAccounted

-----------------------------------------------------------------------------
(* Facts about the operators.                                               *)

LEMMA OldestSubset ==
  ASSUME NEW S \in SUBSET Row, NEW n
  PROVE  Oldest(S, n) \in SUBSET Row /\ Oldest(S, n) \subseteq S
  BY DEF Oldest

LEMMA IdleTickType == IdleTick \in Tick /\ [IdleTick EXCEPT !.pc = "unlock"] \in Tick
  BY DEF IdleTick, Tick, PCs

LEMMA QueuesAreRows == ToEnrich \in SUBSET Row /\ ToEmbed \in SUBSET Row
  BY DEF ToEnrich, ToEmbed

LEMMA InitHolds == Init => IInv
<1> SUFFICES ASSUME Init PROVE IInv
  OBVIOUS
<1>1. TypeOK
  <2>1. AbsentRow \in RowRecord
    BY DEF AbsentRow, RowRecord, Statuses
  <2>2. 0 \in 0 .. 2 /\ 0 \in Nat
    OBVIOUS
  <2>3. QED
    BY <2>1, <2>2, IdleTickType DEF Init, TypeOK
<1>2. \A w \in Slots : tick[w].pc = "idle"
  BY DEF Init, IdleTick
<1>3. LockNamesWorker
  BY <1>2 DEF LockNamesWorker, Working
<1>4. FetchesAccounted
  BY <1>2 DEF FetchesAccounted, Init
<1>5. QED
  BY <1>1, <1>3, <1>4 DEF IInv

-----------------------------------------------------------------------------
(* The type invariant, one action at a time.                                *)

LEMMA TypeKept ==
  ASSUME TypeOK, [Next]_vars
  PROVE  TypeOK'
<1>1. ASSUME NEW r \in Row, ImportRow(r) \/ BackfillAbstract(r) PROVE TypeOK'
  <2>1. row' \in [Row -> RowRecord]
    <3>1. ASSUME NEW abstract \in BOOLEAN
          PROVE  [status |-> IF abstract THEN "ENRICHED" ELSE "PENDING",
                  abstract |-> abstract, hashed |-> FALSE] \in RowRecord
      BY DEF RowRecord, Statuses
    <3>2. [status |-> "ENRICHED", abstract |-> TRUE, hashed |-> FALSE] \in RowRecord
      BY DEF RowRecord, Statuses
    <3>3. CASE ImportRow(r)
      <4>1. PICK abstract \in BOOLEAN : row' = [row EXCEPT ![r] =
              [status |-> IF abstract THEN "ENRICHED" ELSE "PENDING",
               abstract |-> abstract, hashed |-> FALSE]]
        BY <3>3 DEF ImportRow
      <4>2. QED
        BY <3>1, <4>1 DEF TypeOK
    <3>4. CASE BackfillAbstract(r)
      BY <3>2, <3>4 DEF TypeOK, BackfillAbstract
    <3>5. QED
      BY <1>1, <3>3, <3>4
  <2>2. QED
    BY <1>1, <2>1 DEF TypeOK, ImportRow, BackfillAbstract, counters
<1>2. CASE BeatTick \/ AnalysisStarts \/ AnalysisEnds
  <2>1. inFlight' \in BOOLEAN
    BY <1>2, Zenon DEF TypeOK, BeatTick, AnalysisStarts, AnalysisEnds, counters
  <2>4. messages' \in Nat
    BY <1>2 DEF TypeOK, BeatTick, AnalysisStarts, AnalysisEnds
  <2>5. analyses' \in Nat
    BY <1>2 DEF TypeOK, BeatTick, AnalysisStarts, AnalysisEnds, counters
  <2>2. UNCHANGED <<row, tick, lock, fetched, expiries, faults>>
    BY <1>2 DEF BeatTick, AnalysisStarts, AnalysisEnds, counters
  <2>3. QED
    BY <2>1, <2>2, <2>4, <2>5 DEF TypeOK
<1>3. ASSUME NEW w \in Slots PROVE Start(w) => TypeOK'
  BY DEF TypeOK, Start, Tick, PCs, counters
<1>4. ASSUME NEW w \in Slots PROVE Check(w) => TypeOK'
  BY DEF TypeOK, Check, Tick, PCs, counters
<1>5. ASSUME NEW w \in Slots, Select(w) PROVE TypeOK'
  <2> DEFINE rows == Oldest(ToEnrich, Chunk)
  <2>1. rows \in SUBSET Row
    BY OldestSubset, QueuesAreRows
  <2>2. tick' = [tick EXCEPT ![w].pc = IF rows = {} THEN "choose" ELSE "enrich",
                             ![w].rows = rows]
    BY <1>5 DEF Select
  <2>3. fetched' = [r \in Row |-> IF r \in rows /\ fetched[r] < 2 THEN fetched[r] + 1
                                  ELSE fetched[r]]
    BY <1>5 DEF Select
  <2> HIDE DEF rows
  <2>4. tick' \in [Slots -> Tick]
    BY <2>1, <2>2 DEF TypeOK, Tick, PCs
  <2>5. fetched' \in [Row -> 0 .. 2]
    BY <2>3 DEF TypeOK
  <2>6. QED
    BY <1>5, <2>4, <2>5 DEF TypeOK, Select, counters
<1>6. ASSUME NEW w \in Slots, Enrich(w) PROVE TypeOK'
  <2>1. row' \in [Row -> RowRecord]
    <3>1. PICK outcome \in [tick[w].rows -> {"ENRICHED", "INCOMPLETE", "FAILED"}] :
            row' = [r \in Row |->
              IF r \in tick[w].rows
              THEN [row[r] EXCEPT !.status = outcome[r],
                                  !.abstract = @ \/ outcome[r] = "ENRICHED"]
              ELSE row[r]]
      BY <1>6 DEF Enrich
    <3>2. ASSUME NEW r \in Row PROVE row'[r] \in RowRecord
      BY <3>1 DEF TypeOK, RowRecord, Statuses
    <3>3. QED
      BY <3>1, <3>2
  <2>2. tick' \in [Slots -> Tick]
    <3>1. tick[w] \in Tick
      BY DEF TypeOK
    <3> DEFINE full == Cardinality(tick[w].rows) >= Chunk
    <3>2. full \in BOOLEAN
      OBVIOUS
    <3>3. tick' = [tick EXCEPT ![w] = [tick[w] EXCEPT !.pc = "choose", !.rows = {},
                                                      !.again = full]]
      BY <1>6 DEF Enrich, TypeOK, Tick
    <3> HIDE DEF full
    <3>5. [tick[w] EXCEPT !.pc = "choose", !.rows = {}, !.again = full] \in Tick
      BY <3>1, <3>2 DEF Tick, PCs
    <3>4. QED
      BY <3>3, <3>5 DEF TypeOK
  <2>3. QED
    BY <1>6, <2>1, <2>2 DEF TypeOK, Enrich, counters
<1>7. ASSUME NEW w \in Slots PROVE EnrichCollides(w) \/ TickRaises(w) => TypeOK'
  BY IdleTickType DEF TypeOK, EnrichCollides, TickRaises, counters
<1>8. ASSUME NEW w \in Slots PROVE Choose(w) => TypeOK'
  <2>1. Oldest(ToEmbed, Chunk) \in SUBSET Row
    BY OldestSubset, QueuesAreRows
  <2>2. QED
    <3>1. Choose(w) => tick' \in [Slots -> Tick]
      <4> DEFINE rows == Oldest(ToEmbed, Chunk)
      <4>1. Choose(w) => tick' = [tick EXCEPT ![w].pc = "embed", ![w].rows = rows]
        BY DEF Choose
      <4>2. rows \in SUBSET Row
        BY <2>1
      <4> HIDE DEF rows
      <4>3. QED
        BY <4>1, <4>2 DEF TypeOK, Tick, PCs
    <3>2. QED
      BY <3>1 DEF TypeOK, Choose, counters
<1>9. ASSUME NEW w \in Slots, EmbedNext(w) PROVE TypeOK'
  <2>1. row' \in [Row -> RowRecord]
    BY <1>9 DEF TypeOK, EmbedNext, RowRecord
  <2>2. tick' \in [Slots -> Tick]
    BY <1>9 DEF TypeOK, EmbedNext, Tick
  <2>3. QED
    BY <1>9, <2>1, <2>2 DEF TypeOK, EmbedNext, counters
<1>10. ASSUME NEW w \in Slots PROVE EmbedDone(w) => TypeOK'
  <2>1. ASSUME EmbedDone(w) PROVE tick' \in [Slots -> Tick]
    <3> DEFINE again == tick[w].again \/ ToEmbed # {}
    <3>1. tick[w] \in Tick
      BY DEF TypeOK
    <3>2. again \in BOOLEAN
      OBVIOUS
    <3>3. tick' = [tick EXCEPT ![w] = [tick[w] EXCEPT !.pc = "unlock", !.again = again]]
      BY <2>1 DEF EmbedDone, TypeOK, Tick
    <3> HIDE DEF again
    <3>4. QED
      BY <3>1, <3>2, <3>3 DEF TypeOK, Tick, PCs
  <2>2. QED
    BY <2>1 DEF TypeOK, EmbedDone, counters
<1>11. ASSUME NEW w \in Slots PROVE Unlock(w) => TypeOK'
  BY DEF TypeOK, Unlock, Tick, PCs, counters
<1>12. ASSUME NEW w \in Slots PROVE Decide(w) => TypeOK'
  BY IdleTickType DEF TypeOK, Decide, counters
<1>13. CASE Crash \/ ExpireAbandoned \/ ExpireHeld
  BY <1>13, IdleTickType DEF TypeOK, Crash, ExpireAbandoned, ExpireHeld, counters
<1>14. CASE UNCHANGED vars
  BY <1>14 DEF TypeOK, vars, counters
<1>15. QED
  BY <1>1, <1>2, <1>3, <1>4, <1>5, <1>6, <1>7, <1>8, <1>9, <1>10, <1>11, <1>12, <1>13, <1>14
     DEF Next, StartSome, TickStep

-----------------------------------------------------------------------------
(* The lock.                                                                *)

LEMMA CountersGrow ==
  ASSUME TypeOK, [Next]_vars
  PROVE  /\ expiries' = 0 => expiries = 0
         /\ faults' = 0 => faults = 0
<1>1. CASE ExpireHeld
  BY <1>1 DEF TypeOK, ExpireHeld
<1>2. CASE Crash \/ \E w \in Slots : TickRaises(w)
  BY <1>2 DEF TypeOK, Crash, TickRaises
<1>3. CASE UNCHANGED <<expiries, faults>>
  BY <1>3
<1>4. ASSUME NEW w \in Slots, TickStep(w) \/ Start(w) PROVE UNCHANGED <<expiries, faults>>
  BY <1>4 DEF TickStep, Start, Check, Select, Enrich, EnrichCollides, Choose, EmbedNext,
       EmbedDone, Unlock, Decide, counters
<1>5. ASSUME NEW r \in Row, ImportRow(r) \/ BackfillAbstract(r)
      PROVE  UNCHANGED <<expiries, faults>>
  BY <1>5 DEF ImportRow, BackfillAbstract, counters
<1>6. CASE BeatTick \/ AnalysisStarts \/ AnalysisEnds \/ ExpireAbandoned \/ UNCHANGED vars
  BY <1>3, <1>6 DEF BeatTick, AnalysisStarts, AnalysisEnds, ExpireAbandoned, counters, vars
<1>7. QED
  BY <1>1, <1>2, <1>3, <1>4, <1>5, <1>6 DEF Next, StartSome

LEMMA LockKept ==
  ASSUME TypeOK, LockNamesWorker, [Next]_vars
  PROVE  LockNamesWorker'
<1> SUFFICES ASSUME expiries' = 0, NEW u \in Slots, Working(u)' PROVE lock' = u
  BY DEF LockNamesWorker
<1>0. /\ expiries \in Nat /\ faults \in Nat /\ analyses \in Nat
      /\ tick \in [Slots -> Tick]
  BY DEF TypeOK
<1>1. expiries = 0
  BY <1>0, CountersGrow
<1>2. \A w \in Slots : Working(w) => lock = w
  BY <1>1 DEF LockNamesWorker
<1>3. ASSUME NEW w \in Slots, Start(w) PROVE lock' = u
  <2>1. CASE lock = None
    <3>1. lock' = w /\ tick' = [tick EXCEPT ![w].pc = "check"]
      BY <1>3, <2>1 DEF Start
    <3>2. u # w => Working(u)
      BY <1>0, <3>1 DEF Working
    <3>3. QED
      BY <1>2, <2>1, <3>1, <3>2, NoneAssumption
  <2>2. CASE lock # None
    BY <1>2, <1>3, <2>2 DEF Start, Working
  <2>3. QED
    BY <2>1, <2>2
<1>4. ASSUME NEW w \in Slots,
             \/ Check(w) \/ Select(w) \/ Enrich(w) \/ EnrichCollides(w) \/ Choose(w)
             \/ EmbedNext(w) \/ EmbedDone(w) \/ TickRaises(w)
      PROVE  lock' = u
  <2>1. lock' = lock /\ Working(w) /\ \A v \in Slots : v # w => tick'[v] = tick[v]
    BY <1>0, <1>4 DEF Working, Check, Select, Enrich, EnrichCollides, Choose, EmbedNext,
         EmbedDone, TickRaises
  <2>2. Working(u)
    BY <2>1 DEF Working
  <2>3. QED
    BY <1>2, <2>1, <2>2
<1>5. ASSUME NEW w \in Slots, Unlock(w) PROVE lock' = u
  <2>1. Working(w) /\ tick' = [tick EXCEPT ![w].pc = "decide"]
    BY <1>5 DEF Unlock, Working
  <2>2. u # w /\ Working(u)
    BY <1>0, <2>1 DEF Working, Tick
  <2>3. QED
    BY <1>2, <2>1, <2>2
<1>6. ASSUME NEW w \in Slots, Decide(w) PROVE lock' = u
  <2>1. lock' = lock /\ Working(u)
    BY <1>0, <1>6 DEF Decide, IdleTick, Working
  <2>2. QED
    BY <1>2, <2>1
<1>7. CASE Crash
  BY <1>7 DEF Crash, IdleTick, Working
<1>8. CASE ExpireAbandoned
  <2>1. Working(u) /\ ~ Working(lock)
    BY <1>8 DEF ExpireAbandoned, Working
  <2>2. QED
    BY <1>2, <2>1
<1>9. CASE ExpireHeld
  BY <1>0, <1>1, <1>9 DEF ExpireHeld
<1>10. CASE UNCHANGED <<tick, lock>>
  BY <1>2, <1>10 DEF Working
<1>11. QED
  BY <1>3, <1>4, <1>5, <1>6, <1>7, <1>8, <1>9, <1>10
     DEF Next, vars, StartSome, TickStep, ImportRow, BackfillAbstract, BeatTick,
         AnalysisStarts, AnalysisEnds

-----------------------------------------------------------------------------
(* What has been fetched.                                                   *)

LEMMA FetchesGrow ==
  ASSUME TypeOK, [Next]_vars, NEW r \in Row
  PROVE  fetched'[r] >= fetched[r] /\ fetched[r] \in 0 .. 2
<1>0. fetched \in [Row -> 0 .. 2]
  BY DEF TypeOK
<1>1. ASSUME NEW w \in Slots, Select(w) PROVE fetched'[r] >= fetched[r]
  BY <1>0, <1>1 DEF Select
<1>2. CASE UNCHANGED fetched
  BY <1>0, <1>2
<1>3. ASSUME NEW w \in Slots, TickStep(w) \/ Start(w) \/ TickRaises(w), ~ Select(w)
      PROVE  UNCHANGED fetched
  BY <1>3 DEF TickStep, Start, Check, Enrich, EnrichCollides, Choose, EmbedNext, EmbedDone,
       Unlock, Decide, TickRaises
<1>4. CASE \E x \in Row : ImportRow(x) \/ BackfillAbstract(x)
  BY <1>2, <1>4 DEF ImportRow, BackfillAbstract
<1>5. CASE \/ BeatTick \/ AnalysisStarts \/ AnalysisEnds \/ Crash
           \/ ExpireAbandoned \/ ExpireHeld \/ UNCHANGED vars
  BY <1>2, <1>5 DEF BeatTick, AnalysisStarts, AnalysisEnds, Crash, ExpireAbandoned,
       ExpireHeld, vars
<1>6. QED
  BY <1>0, <1>1, <1>2, <1>3, <1>4, <1>5 DEF Next, StartSome

LEMMA EnrichTick ==
  ASSUME NEW w \in Slots, tick \in [Slots -> Tick], Enrich(w)
  PROVE  tick'[w].pc = "choose" /\ \A v \in Slots : v # w => tick'[v] = tick[v]
<1> DEFINE full == Cardinality(tick[w].rows) >= Chunk
<1>1. tick' = [tick EXCEPT ![w].pc = "choose", ![w].rows = {}, ![w].again = full]
  BY DEF Enrich
<1> HIDE DEF full
<1>2. QED
  BY <1>1 DEF Tick

LEMMA ChunksStayFetched ==
  ASSUME IInv, [Next]_vars, NEW w \in Slots, tick'[w].pc = "enrich", NEW r \in tick'[w].rows
  PROVE  fetched'[r] > 0
<1>0. /\ tick \in [Slots -> Tick] /\ fetched \in [Row -> 0 .. 2]
      /\ tick'[w] \in Tick /\ r \in Row
  BY TypeKept DEF IInv, TypeOK, Tick
<1>1. CASE tick'[w] = tick[w]
  <2>1. fetched[r] > 0
    BY <1>1 DEF IInv, FetchesAccounted
  <2>2. fetched'[r] >= fetched[r] /\ fetched[r] \in 0 .. 2
    BY <1>0, FetchesGrow DEF IInv
  <2>3. fetched'[r] \in 0 .. 2
    BY <1>0, TypeKept DEF IInv, TypeOK
  <2>4. QED
    BY <2>1, <2>2, <2>3
<1>2. CASE Select(w)
  <2> DEFINE rows == Oldest(ToEnrich, Chunk)
  <2>1. tick'[w].rows = rows
    BY <1>0, <1>2 DEF Select, Tick
  <2>2. fetched' = [x \in Row |-> IF x \in rows /\ fetched[x] < 2 THEN fetched[x] + 1
                                  ELSE fetched[x]]
    BY <1>2 DEF Select
  <2> HIDE DEF rows
  <2>3. QED
    BY <1>0, <2>1, <2>2
<1>3. CASE \/ Start(w) \/ Check(w) \/ Enrich(w) \/ EnrichCollides(w) \/ Choose(w)
           \/ EmbedNext(w) \/ EmbedDone(w) \/ Unlock(w) \/ Decide(w) \/ TickRaises(w)
  <2>0. tick[w] \in Tick
    BY <1>0
  <2>a. Enrich(w) => tick'[w].pc = "choose"
    BY <1>0, EnrichTick
  <2>b. Start(w) \/ Check(w) \/ Choose(w) \/ EmbedDone(w) \/ Unlock(w) =>
          tick'[w] = tick[w] \/ tick'[w].pc # "enrich"
    BY <1>0, <2>0 DEF Start, Check, Choose, EmbedDone, Unlock, Tick
  <2>c. EnrichCollides(w) \/ EmbedNext(w) \/ Decide(w) \/ TickRaises(w) =>
          tick'[w] = tick[w] \/ tick'[w].pc # "enrich"
    BY <1>0, <2>0 DEF EnrichCollides, EmbedNext, Decide, TickRaises, IdleTick, Tick
  <2>1. tick'[w] = tick[w] \/ tick'[w].pc # "enrich"
    BY <1>3, <2>a, <2>b, <2>c
  <2>2. QED
    BY <1>1, <2>1
<1>4. ASSUME NEW v \in Slots, v # w, Start(v) \/ TickStep(v) \/ TickRaises(v)
      PROVE  tick'[w] = tick[w]
  BY <1>0, <1>4 DEF TickStep, Start, Check, Select, Enrich, EnrichCollides, Choose,
       EmbedNext, EmbedDone, Unlock, Decide, TickRaises
<1>5. CASE Crash
  BY <1>5 DEF Crash, IdleTick
<1>6. CASE UNCHANGED tick
  BY <1>1, <1>6
<1>7. QED
  BY <1>1, <1>2, <1>3, <1>4, <1>5, <1>6
     DEF Next, vars, StartSome, TickStep, ImportRow, BackfillAbstract, BeatTick,
         AnalysisStarts, AnalysisEnds, ExpireAbandoned, ExpireHeld

-----------------------------------------------------------------------------
(* Undisturbed, a fetched row still PENDING belongs to a tick.              *)
InHand(r) == \E w \in Slots : tick[w].pc = "enrich" /\ r \in tick[w].rows

Accounted(r) ==
  /\ fetched[r] <= 1
  /\ fetched[r] > 0 => Exists(r)
  /\ fetched[r] > 0 /\ row[r].status = "PENDING" => InHand(r)

LEMMA AccountedUnlessEnriching ==
  ASSUME NEW r \in Row, Accounted(r), row'[r].status = row[r].status,
         fetched'[r] = fetched[r],
         \A w \in Slots : tick[w].pc = "enrich" => tick'[w] = tick[w]
  PROVE  Accounted(r)'
  BY DEF Accounted, Exists, InHand

LEMMA UndisturbedKept ==
  ASSUME IInv, [Next]_vars, Undisturbed'
  PROVE  Undisturbed
<1>1. \A p \in Poison : fetched[p] = 0
  <2>1. ASSUME NEW p \in Poison PROVE fetched[p] = 0
    <3>1. p \in Row /\ fetched'[p] = 0
      BY SizeAssumption DEF Undisturbed
    <3>2. QED
      BY <3>1, FetchesGrow DEF IInv
  <2>2. QED
    BY <2>1
<1>2. QED
  BY <1>1, CountersGrow DEF Undisturbed, IInv

LEMMA AccountedKept ==
  ASSUME IInv, [Next]_vars, Undisturbed', NEW r \in Row
  PROVE  Accounted(r)'
<1>0. /\ tick \in [Slots -> Tick] /\ fetched \in [Row -> 0 .. 2]
      /\ row \in [Row -> RowRecord]
      /\ expiries \in Nat /\ faults \in Nat
  BY DEF IInv, TypeOK
<1>u. Undisturbed
  BY UndisturbedKept
<1>a. Accounted(r)
  BY <1>u DEF IInv, FetchesAccounted, Accounted, InHand
<1>1. ASSUME NEW x \in Row, ImportRow(x) PROVE Accounted(r)'
  <2>1. tick' = tick /\ fetched' = fetched /\ ~ Exists(x) /\ (r # x => row'[r] = row[r])
    BY <1>0, <1>1 DEF ImportRow
  <2>2. CASE r = x
    BY <1>0, <1>a, <2>1, <2>2 DEF Accounted
  <2>3. CASE r # x
    BY <1>a, <2>1, <2>3, AccountedUnlessEnriching
  <2>4. QED
    BY <2>2, <2>3
<1>2. ASSUME NEW x \in Row, BackfillAbstract(x) PROVE Accounted(r)'
  <2>1. tick' = tick /\ fetched' = fetched /\ (r # x => row'[r] = row[r])
    BY <1>0, <1>2 DEF BackfillAbstract
  <2>2. CASE r = x
    <3>1. row'[r].status = "ENRICHED"
      BY <1>0, <1>2, <2>2 DEF BackfillAbstract
    <3>2. QED
      BY <1>a, <2>1, <3>1 DEF Accounted, Exists
  <2>3. CASE r # x
    BY <1>a, <2>1, <2>3, AccountedUnlessEnriching
  <2>4. QED
    BY <2>2, <2>3
<1>3. CASE UNCHANGED <<row, tick, fetched>>
  BY <1>a, <1>3, AccountedUnlessEnriching
<1>4. ASSUME NEW w \in Slots,
             Start(w) \/ Check(w) \/ Choose(w) \/ EmbedDone(w) \/ Unlock(w) \/ Decide(w)
      PROVE  Accounted(r)'
  <2>1. row' = row /\ fetched' = fetched /\ tick[w].pc # "enrich"
    BY <1>4 DEF Start, Check, Choose, EmbedDone, Unlock, Decide
  <2>2. \A v \in Slots : v # w => tick'[v] = tick[v]
    BY <1>0, <1>4 DEF Start, Check, Choose, EmbedDone, Unlock, Decide
  <2>3. QED
    BY <1>a, <2>1, <2>2, AccountedUnlessEnriching
<1>5. ASSUME NEW w \in Slots, EmbedNext(w) PROVE Accounted(r)'
  <2>1. fetched' = fetched /\ tick[w].pc # "enrich"
    BY <1>5 DEF EmbedNext
  <2>2. \A v \in Slots : v # w => tick'[v] = tick[v]
    BY <1>0, <1>5 DEF EmbedNext
  <2>3. row'[r].status = row[r].status
    BY <1>0, <1>5 DEF EmbedNext, RowRecord
  <2>4. QED
    BY <1>a, <2>1, <2>2, <2>3, AccountedUnlessEnriching
<1>6. ASSUME NEW w \in Slots, Select(w) PROVE Accounted(r)'
  <2> DEFINE rows == Oldest(ToEnrich, Chunk)
  <2>1. /\ row' = row /\ tick[w].pc = "select"
        /\ fetched' = [x \in Row |-> IF x \in rows /\ fetched[x] < 2 THEN fetched[x] + 1
                                     ELSE fetched[x]]
    BY <1>6 DEF Select
  <2>2. /\ tick'[w].rows = rows
        /\ rows # {} => tick'[w].pc = "enrich"
    BY <1>0, <1>6 DEF Select, Tick
  <2>3. rows \subseteq ToEnrich
    BY OldestSubset, QueuesAreRows
  <2> HIDE DEF rows
  <2>4. \A v \in Slots : Working(v) => lock = v
    BY <1>u DEF IInv, LockNamesWorker, Undisturbed
  <2>5. Working(w) /\ \A v \in Slots : tick[v].pc = "enrich" => Working(v)
    BY <2>1 DEF Working
  <2>6. \A v \in Slots : tick[v].pc # "enrich"
    BY <2>1, <2>4, <2>5
  <2>7. ~ InHand(r)
    BY <2>6 DEF InHand
  <2>8. CASE r \in rows
    <3>1. row[r].status = "PENDING"
      BY <2>3, <2>8 DEF ToEnrich
    <3>2. fetched[r] = 0
      BY <1>0, <1>a, <2>7, <3>1 DEF Accounted
    <3>3. fetched'[r] = 1
      BY <2>1, <2>8, <3>2
    <3>4. InHand(r)'
      BY <2>2, <2>8 DEF InHand
    <3>5. QED
      BY <2>1, <3>1, <3>3, <3>4 DEF Accounted, Exists
  <2>9. CASE r \notin rows
    <3>1. fetched'[r] = fetched[r]
      BY <2>1, <2>9
    <3>2. QED
      BY <1>a, <2>1, <2>6, <3>1, AccountedUnlessEnriching
  <2>10. QED
    BY <2>8, <2>9
<1>7. ASSUME NEW w \in Slots, Enrich(w) PROVE Accounted(r)'
  <2>1. PICK outcome \in [tick[w].rows -> {"ENRICHED", "INCOMPLETE", "FAILED"}] :
          row' = [x \in Row |->
            IF x \in tick[w].rows
            THEN [row[x] EXCEPT !.status = outcome[x],
                                !.abstract = @ \/ outcome[x] = "ENRICHED"]
            ELSE row[x]]
    BY <1>7 DEF Enrich
  <2>2. fetched' = fetched /\ \A v \in Slots : v # w => tick'[v] = tick[v]
    BY <1>0, <1>7, EnrichTick DEF Enrich
  <2>3. CASE r \in tick[w].rows
    <3>1. row'[r].status = outcome[r]
      BY <1>0, <2>1, <2>3 DEF RowRecord
    <3>2. row'[r].status \in {"ENRICHED", "INCOMPLETE", "FAILED"}
      BY <2>3, <3>1
    <3>3. QED
      BY <1>a, <2>2, <3>2 DEF Accounted, Exists
  <2>4. CASE r \notin tick[w].rows
    <3>1. row'[r] = row[r]
      BY <2>1, <2>4
    <3>2. InHand(r) => InHand(r)'
      BY <2>2, <2>4 DEF InHand
    <3>3. QED
      BY <1>a, <2>2, <3>1, <3>2 DEF Accounted, Exists
  <2>5. QED
    BY <2>3, <2>4
<1>8. ASSUME NEW w \in Slots, EnrichCollides(w) PROVE FALSE
  <2>1. PICK p \in Poison : p \in tick[w].rows /\ tick[w].pc = "enrich"
    BY <1>8 DEF EnrichCollides
  <2>2. fetched[p] > 0
    BY <2>1 DEF IInv, FetchesAccounted
  <2>3. QED
    BY <1>u, <2>2 DEF Undisturbed
<1>9. ~ Crash /\ \A w \in Slots : ~ TickRaises(w)
  BY <1>0 DEF Crash, TickRaises, Undisturbed
<1>10. ~ ExpireHeld
  BY <1>0 DEF ExpireHeld, Undisturbed
<1>11. CASE BeatTick \/ AnalysisStarts \/ AnalysisEnds \/ ExpireAbandoned \/ UNCHANGED vars
  BY <1>3, <1>11 DEF BeatTick, AnalysisStarts, AnalysisEnds, ExpireAbandoned, vars
<1>12. QED
  BY <1>1, <1>2, <1>4, <1>5, <1>6, <1>7, <1>8, <1>9, <1>10, <1>11
     DEF Next, StartSome, TickStep

-----------------------------------------------------------------------------
(* The theorems.                                                            *)

LEMMA StepHolds ==
  ASSUME IInv, [Next]_vars
  PROVE  IInv'
<1>1. TypeOK' /\ LockNamesWorker'
  BY TypeKept, LockKept DEF IInv
<1>2. FetchesAccounted'
  BY ChunksStayFetched, AccountedKept DEF FetchesAccounted, Accounted, InHand
<1>3. QED
  BY <1>1, <1>2 DEF IInv

LEMMA InductiveInvariant == Spec => []IInv
  BY InitHolds, StepHolds, PTL DEF Spec

(* Rows, messages, ticks, lock and counters keep their types.               *)
THEOREM TypeCorrect == Spec => []TypeOK
<1>1. IInv => TypeOK
  BY DEF IInv
<1>2. QED
  BY <1>1, InductiveInvariant, PTL

(* The Redis lock keeps ticks apart for as long as no chunk outlives its    *)
(* TTL, whatever crashes, raises or is abandoned (refresh_library.py:65-87). *)
THEOREM TicksApart == Spec => []TicksAloneWithinTTL
<1>1. IInv => TicksAloneWithinTTL
  BY DEF IInv, LockNamesWorker, TicksAloneWithinTTL, TicksNeverOverlap
<1>2. QED
  BY <1>1, InductiveInvariant, PTL

(* Without faults, expiries and colliding rows, the providers are asked at  *)
(* most once about a paper, for any library and any chunk size.             *)
THEOREM PaidOncePerPaper == Spec => []FetchedOnce
<1>1. IInv => FetchedOnce
  BY DEF IInv, FetchesAccounted, Undisturbed, FetchedOnce
<1>2. QED
  BY <1>1, InductiveInvariant, PTL
===============================================================================
