-------------------------- MODULE LibraryRowsProofs --------------------------
(***************************************************************************)
(* What holds of the library's rows for any papers, any number of          *)
(* overlapping ticks and any number of imports: status, abstract and       *)
(* content_hash agree, and the hash is current and a file's abstract safe  *)
(* wherever no commit wrote from out-of-date data.                         *)
(***************************************************************************)
EXTENDS LibraryRows, TLAPS

RowOK(r) ==
  /\ r.status = "ENRICHED" => r.abstract # None
  /\ r.abstract # None => r.status \notin {"ABSENT", "PENDING"}
  /\ r.hash # None => r.abstract # None

(***************************************************************************)
(* The invariants need what the sessions remember: an open import knows    *)
(* which rows exist (only imports insert), the rows it will backfill still *)
(* have no file's abstract (only imports write one), and a row copied with *)
(* an abstract still has one (no writer removes it).                       *)
(***************************************************************************)
ImportSees ==
  import.open =>
    /\ imported \in Imports
    /\ import.existing = {k \in Keys : Exists(k)}
    /\ import.got \subseteq ToBackfill
    /\ \A k \in ToBackfill : table[k].abstract \notin Imports
    /\ \A k \in import.got :
         /\ RowOK(import.copy[k])
         /\ import.copy[k].abstract \notin Imports
         /\ import.copy[k].abstract # None => table[k].abstract # None

TickSees(t) ==
  /\ tick[t].pc = "enrich" => \A k \in tick[t].rows :
       /\ Exists(k)
       /\ tick[t].copy[k].status = "PENDING"
       /\ tick[t].copy[k].abstract = None /\ tick[t].copy[k].hash = None
  /\ tick[t].pc \in {"encode", "write"} => \A k \in tick[t].rows :
       tick[t].copy[k].abstract # None /\ table[k].abstract # None

IInv ==
  /\ TypeOK
  /\ \A k \in Keys : RowOK(table[k])
  /\ ImportSees
  /\ \A t \in Ticks : TickSees(t)
  /\ HashIsCurrentUnlessStaleWrite

-----------------------------------------------------------------------------
(* Facts about rows.                                                        *)

LEMMA FlushType ==
  ASSUME NEW a \in Row, NEW b \in Row, NEW c \in Row
  PROVE  /\ Flush(a, b, c) \in Row
         /\ Flush(a, b, c).abstract = IF c.abstract = b.abstract THEN a.abstract ELSE c.abstract
         /\ Flush(a, b, c).status = IF c.status = b.status THEN a.status ELSE c.status
         /\ Flush(a, b, c).hash = IF c.hash = b.hash THEN a.hash ELSE c.hash
         /\ a = b => Flush(a, b, c) = c
  BY DEF Flush, Row

LEMMA AbsentRowFacts == AbsentRow \in Row /\ RowOK(AbsentRow) /\ AbsentRow.status = "ABSENT"
  BY DEF AbsentRow, Row, RowOK, Statuses

LEMMA BackfilledFacts ==
  ASSUME NEW r \in Row, NEW n \in Imports
  PROVE  /\ Backfilled(r, n) \in Row
         /\ Backfilled(r, n).abstract = n
         /\ Backfilled(r, n).status = "ENRICHED"
         /\ Backfilled(r, n).hash = None
  BY DEF Backfilled, Row, Statuses, Texts

LEMMA NewRowFacts ==
  ASSUME NEW n \in Imports, NEW e \in FileEntry
  PROVE  /\ NewRow(n, e) \in Row /\ RowOK(NewRow(n, e))
         /\ NewRow(n, e).hash = None /\ NewRow(n, e).status # "ABSENT"
  BY NoneAssumption DEF NewRow, Row, RowOK, Statuses, Texts

LEMMA EnrichedFacts ==
  ASSUME NEW r \in Row, NEW o \in Outcomes, r.abstract = None, r.hash = None
  PROVE  /\ Enriched(r, o) \in Row
         /\ Enriched(r, o).abstract \in ProviderTexts \cup {None}
         /\ Enriched(r, o).hash = None
         /\ Enriched(r, o).status \in {"ENRICHED", "INCOMPLETE", "FAILED"}
         /\ Enriched(r, o).status = "ENRICHED" => Enriched(r, o).abstract # None
<1>1. CASE o = "FAILED"
  BY <1>1 DEF Enriched, Row, Statuses
<1>2. CASE o # "FAILED" /\ o \in ProviderTexts
  <2>1. Enriched(r, o) = [r EXCEPT !.abstract = o, !.hash = None, !.status = "ENRICHED"]
    BY <1>2 DEF Enriched, Row
  <2>2. o \in Texts /\ o # None
    BY <1>2, NoneAssumption DEF Texts
  <2>3. QED
    BY <2>1, <2>2, <1>2 DEF Row, Statuses
<1>3. CASE o # "FAILED" /\ o \notin ProviderTexts
  <2>1. Enriched(r, o) = [r EXCEPT !.status = "INCOMPLETE"]
    BY <1>3 DEF Enriched
  <2>2. QED
    BY <2>1 DEF Row, Statuses
<1>4. QED
  BY <1>1, <1>2, <1>3

-----------------------------------------------------------------------------
(* The parts of the type invariant, one variable at a time.                 *)

LEMMA IdleTickType == IdleTick \in Tick
  BY AbsentRowFacts DEF IdleTick, Tick

LEMMA NoImportType == NoImport \in Import
  BY AbsentRowFacts DEF NoImport, Import, FileEntry

LEMMA InitHolds == Init => IInv
<1> SUFFICES ASSUME Init PROVE IInv
  OBVIOUS
<1>1. TypeOK
  BY AbsentRowFacts, IdleTickType, NoImportType, BoundAssumption DEF TypeOK, Init
<1>2. \A k \in Keys : RowOK(table[k]) /\ table[k].hash = None
  BY AbsentRowFacts DEF Init, AbsentRow
<1>3. ImportSees
  BY DEF Init, ImportSees, NoImport
<1>4. \A t \in Ticks : TickSees(t)
  BY DEF Init, TickSees, IdleTick
<1>5. HashIsCurrentUnlessStaleWrite
  BY <1>2 DEF HashIsCurrentUnlessStaleWrite
<1>6. QED
  BY <1>1, <1>2, <1>3, <1>4, <1>5 DEF IInv

-----------------------------------------------------------------------------
(* What a step may do to a row, whoever takes it.                           *)
RowStep(k) ==
  /\ table'[k] \in Row
  /\ RowOK(table'[k])
  /\ Exists(k) => table'[k].status # "ABSENT"
  /\ table[k].abstract # None => table'[k].abstract # None
  /\ ~ staleWrite'[k] => ~ staleWrite[k]
  /\ table'[k].hash # None /\ ~ staleWrite'[k] => table'[k].hash = table'[k].abstract
  /\ table[k].abstract \in Imports /\ ~ staleWrite'[k] => table'[k].abstract = table[k].abstract

LEMMA RowUnchanged ==
  ASSUME IInv, NEW k \in Keys, table'[k] = table[k], staleWrite'[k] = staleWrite[k]
  PROVE  RowStep(k)
  BY DEF IInv, TypeOK, RowStep, Exists, HashIsCurrentUnlessStaleWrite

LEMMA ImportCommitRows ==
  ASSUME IInv, ImportCommit, NEW k \in Keys
  PROVE  RowStep(k)
<1> DEFINE c == import.copy[k]
           new == Backfilled(c, imported)
<1>1. /\ table[k] \in Row /\ c \in Row /\ imported \in Imports
      /\ import.file[k] \in FileEntry /\ RowOK(table[k])
      /\ import.got = ToBackfill /\ imported # None
  BY NoneAssumption DEF IInv, TypeOK, ImportCommit, ImportSees, Import, Texts
<1>2. staleWrite'[k] = (staleWrite[k] \/ (k \in ToBackfill /\ c # table[k]))
  BY DEF ImportCommit
<1>3. CASE k \in ToBackfill
  <2>1. /\ RowOK(c) /\ c.abstract \notin Imports /\ table[k].abstract \notin Imports
        /\ c.abstract # None => table[k].abstract # None
    BY <1>1, <1>3 DEF IInv, ImportSees, ImportCommit
  <2>2. /\ new \in Row /\ new.abstract = imported
        /\ new.status = "ENRICHED" /\ new.hash = None
    BY <1>1, BackfilledFacts
  <2>3. table'[k] = Flush(table[k], c, new)
    BY <1>3 DEF ImportCommit
  <2>4. /\ table'[k] \in Row
        /\ table'[k].abstract = imported
        /\ table'[k].status = IF c.status = "ENRICHED" THEN table[k].status ELSE "ENRICHED"
        /\ c = table[k] => table'[k] = new
    BY <1>1, <2>1, <2>2, <2>3, FlushType
  <2>5. table'[k].status \notin {"ABSENT", "PENDING"}
    BY <1>1, <2>1, <2>4 DEF RowOK
  <2>6. RowOK(table'[k])
    BY <1>1, <2>4, <2>5 DEF RowOK
  <2>7. ~ staleWrite'[k] => table'[k].hash = None
    BY <1>2, <1>3, <2>2, <2>4
  <2>8. QED
    BY <1>1, <1>2, <2>1, <2>4, <2>5, <2>6, <2>7 DEF RowStep
<1>4. CASE k \notin ToBackfill /\ k \in ToInsert
  <2>1. table'[k] = NewRow(imported, import.file[k])
    BY <1>4 DEF ImportCommit
  <2>2. ~ Exists(k)
    BY <1>4 DEF IInv, ImportSees, ImportCommit, ToInsert
  <2>3. table[k].abstract = None
    BY <1>1, <2>2 DEF RowOK, Exists
  <2>4. table'[k] \in Row /\ RowOK(table'[k]) /\ table'[k].hash = None /\ table'[k].status # "ABSENT"
    BY <1>1, <2>1, NewRowFacts
  <2>5. None \notin Imports
    BY NoneAssumption DEF Texts
  <2>6. QED
    BY <1>2, <2>2, <2>3, <2>4, <2>5 DEF RowStep
<1>5. CASE k \notin ToBackfill /\ k \notin ToInsert
  <2>1. table'[k] = table[k] /\ staleWrite'[k] = staleWrite[k]
    BY <1>2, <1>5 DEF ImportCommit, IInv, TypeOK
  <2>2. QED
    BY <2>1, RowUnchanged
<1>6. QED
  BY <1>3, <1>4, <1>5

LEMMA TickEnrichRows ==
  ASSUME IInv, NEW t \in Ticks, TickEnrich(t), NEW k \in Keys
  PROVE  RowStep(k)
<1> DEFINE mine == tick[t].rows
           c == tick[t].copy[k]
<1>1. PICK outcome \in [mine -> Outcomes] :
        table' = [j \in Keys |->
          IF j \in mine
          THEN Flush(table[j], tick[t].copy[j], Enriched(tick[t].copy[j], outcome[j]))
          ELSE table[j]]
  BY DEF TickEnrich
<1>2. staleWrite'[k] = (staleWrite[k] \/ (k \in mine /\ c # table[k]))
  BY DEF TickEnrich
<1>3. CASE k \in mine
  <2> DEFINE new == Enriched(c, outcome[k])
  <2>1. /\ table[k] \in Row /\ c \in Row /\ RowOK(table[k])
        /\ Exists(k) /\ c.status = "PENDING" /\ c.abstract = None /\ c.hash = None
    BY <1>3 DEF IInv, TypeOK, TickSees, TickEnrich, Tick
  <2>2. /\ new \in Row /\ new.abstract \in ProviderTexts \cup {None} /\ new.hash = None
        /\ new.status \in {"ENRICHED", "INCOMPLETE", "FAILED"}
        /\ new.status = "ENRICHED" => new.abstract # None
    BY <1>3, <2>1, EnrichedFacts
  <2>3. table'[k] = Flush(table[k], c, new)
    BY <1>1, <1>3
  <2>4. /\ table'[k] \in Row
        /\ table'[k].abstract = IF new.abstract = None THEN table[k].abstract ELSE new.abstract
        /\ table'[k].status = new.status
        /\ table'[k].hash = table[k].hash
        /\ c = table[k] => table'[k] = new
    BY <2>1, <2>2, <2>3, FlushType
  <2>5. RowOK(table'[k])
    BY <2>1, <2>2, <2>4 DEF RowOK
  <2>6. None \notin Imports
    BY NoneAssumption DEF Texts
  <2>7. ~ staleWrite'[k] => c = table[k]
    BY <1>2, <1>3
  <2>8. QED
    BY <1>2, <2>1, <2>2, <2>4, <2>5, <2>6, <2>7 DEF RowStep
<1>4. CASE k \notin mine
  <2>1. table'[k] = table[k] /\ staleWrite'[k] = staleWrite[k]
    BY <1>1, <1>2, <1>4 DEF IInv, TypeOK
  <2>2. QED
    BY <2>1, RowUnchanged
<1>5. QED
  BY <1>3, <1>4

LEMMA TickWriteRows ==
  ASSUME IInv, NEW t \in Ticks, TickWrite(t), NEW k \in Keys
  PROVE  RowStep(k)
<1> DEFINE mine == tick[t].rows
           c == tick[t].copy[k]
           new == [c EXCEPT !.hash = c.abstract]
<1>1. table'[k] = IF k \in mine THEN Flush(table[k], c, new) ELSE table[k]
  BY DEF TickWrite
<1>2. staleWrite'[k] = (staleWrite[k] \/ (k \in mine /\ c # table[k]))
  BY DEF TickWrite
<1>3. CASE k \in mine
  <2>1. /\ table[k] \in Row /\ c \in Row /\ RowOK(table[k])
        /\ c.abstract # None /\ table[k].abstract # None
    BY <1>3 DEF IInv, TypeOK, TickSees, TickWrite, Tick
  <2>2. new \in Row /\ new.abstract = c.abstract /\ new.status = c.status /\ new.hash = c.abstract
    BY <2>1 DEF Row
  <2>3. /\ table'[k] \in Row
        /\ table'[k].abstract = table[k].abstract
        /\ table'[k].status = table[k].status
        /\ c = table[k] => table'[k] = new
    <3>1. table'[k] = Flush(table[k], c, new)
      BY <1>1, <1>3
    <3> HIDE DEF new
    <3>2. QED
      BY <3>1, <2>1, <2>2, FlushType
  <2>4. RowOK(table'[k])
    BY <2>1, <2>3 DEF RowOK
  <2>5. ~ staleWrite'[k] => c = table[k]
    BY <1>2, <1>3
  <2>6. QED
    BY <1>2, <2>1, <2>2, <2>3, <2>4, <2>5 DEF RowStep, Exists
<1>4. CASE k \notin mine
  <2>1. table'[k] = table[k] /\ staleWrite'[k] = staleWrite[k]
    BY <1>1, <1>2, <1>4 DEF IInv, TypeOK
  <2>2. QED
    BY <2>1, RowUnchanged
<1>5. QED
  BY <1>3, <1>4

LEMMA AnyRowStep ==
  ASSUME IInv, [Next]_vars
  PROVE  \A k \in Keys : RowStep(k)
<1>1. CASE ImportCommit
  BY <1>1, ImportCommitRows
<1>2. CASE \E t \in Ticks : TickEnrich(t)
  BY <1>2, TickEnrichRows
<1>3. CASE \E t \in Ticks : TickWrite(t)
  BY <1>3, TickWriteRows
<1>4. CASE UNCHANGED <<table, staleWrite>>
  BY <1>4, RowUnchanged
<1>5. QED
  BY <1>1, <1>2, <1>3, <1>4
     DEF Next, vars, ImportBegin, ImportGet, ImportFails, TickSelect, TickChoose,
         TickGet, TickDies

(* What each session still knows after a step.                              *)

LEMMA ImportStillSees ==
  ASSUME IInv, [Next]_vars
  PROVE  ImportSees'
<1> SUFFICES ASSUME import'.open PROVE ImportSees'
  BY DEF ImportSees
<1>a. None \notin Imports
  BY NoneAssumption DEF Texts
<1>r. \A k \in Keys : RowStep(k)
  BY AnyRowStep
<1>1. CASE ImportBegin
  <2>1. imported \in Nat /\ imported' = imported + 1 /\ imported' <= MaxImports
    BY <1>1, BoundAssumption DEF ImportBegin, IInv, TypeOK
  <2>2. imported' \in Imports
    BY <2>1, BoundAssumption DEF Imports
  <2>3. import'.existing = {k \in Keys : Exists(k)} /\ import'.got = {} /\ table' = table
    BY <1>1 DEF ImportBegin
  <2>4. import'.hasAbstract = {k \in Keys : table[k].abstract # None}
    BY <1>1 DEF ImportBegin
  <2>5. \A k \in ToBackfill' : table'[k].abstract = None
    BY <2>3, <2>4 DEF ToBackfill
  <2>6. QED
    BY <1>a, <2>2, <2>3, <2>5 DEF ImportSees, Exists
<1>2. CASE \E k \in Keys : ImportGet(k)
  <2>1. PICK j \in Keys : ImportGet(j)
    BY <1>2
  <2>2. /\ import.open /\ j \in ToBackfill /\ table' = table /\ imported' = imported
        /\ import' = [import EXCEPT !.got = @ \cup {j}, !.copy[j] = table[j]]
    BY <2>1 DEF ImportGet
  <2>3. import \in Import /\ RowOK(table[j])
    BY DEF IInv, TypeOK
  <2>4. /\ import'.existing = import.existing
        /\ import'.hasAbstract = import.hasAbstract
        /\ import'.file = import.file
        /\ import'.got = import.got \cup {j}
        /\ \A k \in Keys : import'.copy[k] = IF k = j THEN table[j] ELSE import.copy[k]
    BY <2>2, <2>3 DEF Import
  <2>5. ToBackfill' = ToBackfill
    BY <2>4 DEF ToBackfill
  <2>6. ImportSees /\ import.got \subseteq Keys
    BY <2>3 DEF IInv, Import
  <2>7. \A k \in import'.got :
          /\ RowOK(import'.copy[k])
          /\ import'.copy[k].abstract \notin Imports
          /\ import'.copy[k].abstract # None => table'[k].abstract # None
    BY <2>2, <2>3, <2>4, <2>6 DEF ImportSees
  <2>8. QED
    BY <2>2, <2>4, <2>5, <2>6, <2>7 DEF ImportSees, Exists
<1>3. CASE import' = import /\ imported' = imported
  <2>1. import.open /\ ImportSees /\ import \in Import /\ ToBackfill' = ToBackfill
    BY <1>3 DEF IInv, TypeOK, ToBackfill
  <2>2. \A k \in Keys : Exists(k)' <=> Exists(k)
    <3>1. CASE \E t \in Ticks : TickEnrich(t)
      <4>1. PICK t \in Ticks : TickEnrich(t)
        BY <3>1
      <4>2. \A k \in Keys : ~ Exists(k) => k \notin tick[t].rows
        BY <4>1 DEF TickEnrich, IInv, TickSees
      <4>3. \A k \in Keys : k \notin tick[t].rows => table'[k] = table[k]
        BY <4>1 DEF TickEnrich, IInv, TypeOK
      <4>4. QED
        BY <1>r, <4>2, <4>3 DEF RowStep, Exists
    <3>2. CASE \E t \in Ticks : TickWrite(t)
      <4>1. PICK t \in Ticks : TickWrite(t)
        BY <3>2
      <4>2. \A k \in Keys : k \in tick[t].rows => Exists(k)
        BY <4>1 DEF TickWrite, IInv, TickSees, RowOK, Exists
      <4>3. \A k \in Keys : k \notin tick[t].rows => table'[k] = table[k]
        BY <4>1 DEF TickWrite, IInv, TypeOK
      <4>4. QED
        BY <1>r, <4>2, <4>3 DEF RowStep, Exists
    <3>3. CASE table' = table
      BY <3>3 DEF Exists
    <3>4. ~ ImportCommit
      BY <1>3, <2>1 DEF ImportCommit, NoImport
    <3>5. QED
      BY <3>1, <3>2, <3>3, <3>4
         DEF Next, vars, ImportBegin, ImportGet, ImportFails, TickSelect, TickChoose,
             TickGet, TickDies
  <2>3. \A k \in ToBackfill : table'[k].abstract \notin Imports
    <3>1. CASE \E t \in Ticks : TickEnrich(t)
      <4>1. PICK t \in Ticks : TickEnrich(t)
        BY <3>1
      <4>2. PICK outcome \in [tick[t].rows -> Outcomes] :
              table' = [k \in Keys |->
                IF k \in tick[t].rows
                THEN Flush(table[k], tick[t].copy[k], Enriched(tick[t].copy[k], outcome[k]))
                ELSE table[k]]
        BY <4>1 DEF TickEnrich
      <4>3. ASSUME NEW k \in Keys, k \in ToBackfill
            PROVE  table'[k].abstract \notin Imports
        <5> DEFINE c == tick[t].copy[k]
                   new == Enriched(c, outcome[k])
        <5>1. table[k].abstract \notin Imports /\ table[k] \in Row
          BY <2>1, <4>3 DEF ImportSees, IInv, TypeOK
        <5>2. CASE k \in tick[t].rows
          <6>1. c \in Row /\ c.abstract = None /\ c.hash = None
            BY <4>1, <5>2 DEF TickEnrich, IInv, TypeOK, Tick, TickSees
          <6>2. new \in Row /\ new.abstract \in ProviderTexts \cup {None}
            BY <5>2, <6>1, EnrichedFacts
          <6>3. table'[k] = Flush(table[k], c, new)
            BY <4>2, <5>2
          <6> HIDE DEF new
          <6>4. table'[k].abstract = IF new.abstract = None THEN table[k].abstract ELSE new.abstract
            BY <5>1, <6>1, <6>2, <6>3, FlushType
          <6>5. QED
            BY <5>1, <6>2, <6>4, ProviderAssumption
        <5>3. CASE k \notin tick[t].rows
          BY <4>2, <5>1, <5>3
        <5>4. QED
          BY <5>2, <5>3
      <4>4. QED
        BY <2>1, <4>3 DEF ToBackfill, Import
    <3>2. CASE \E t \in Ticks : TickWrite(t)
      <4>1. PICK t \in Ticks : TickWrite(t)
        BY <3>2
      <4>3. ASSUME NEW k \in Keys, k \in ToBackfill
            PROVE  table'[k].abstract \notin Imports
        <5> DEFINE c == tick[t].copy[k]
                   new == [c EXCEPT !.hash = c.abstract]
        <5>1. table[k].abstract \notin Imports /\ table[k] \in Row /\ c \in Row
          BY <2>1, <4>1, <4>3 DEF ImportSees, IInv, TypeOK, Tick
        <5>2. new \in Row /\ new.abstract = c.abstract
          BY <5>1 DEF Row
        <5>3. table'[k] = IF k \in tick[t].rows THEN Flush(table[k], c, new) ELSE table[k]
          BY <4>1 DEF TickWrite
        <5> HIDE DEF new
        <5>4. table'[k].abstract = table[k].abstract
          BY <5>1, <5>2, <5>3, FlushType
        <5>5. QED
          BY <5>1, <5>4
      <4>4. QED
        BY <2>1, <4>3 DEF ToBackfill, Import
    <3>3. CASE table' = table
      BY <3>3, <2>1 DEF ImportSees
    <3>4. ~ ImportCommit
      BY <1>3, <2>1 DEF ImportCommit, NoImport
    <3>5. QED
      BY <3>1, <3>2, <3>3, <3>4
         DEF Next, vars, ImportBegin, ImportGet, ImportFails, TickSelect, TickChoose,
             TickGet, TickDies
  <2>4. import.got \subseteq Keys
    BY <2>1 DEF Import
  <2>5. \A k \in import.got : import.copy[k].abstract # None => table'[k].abstract # None
    BY <1>r, <2>1, <2>4 DEF ImportSees, RowStep
  <2>6. QED
    BY <1>3, <2>1, <2>2, <2>3, <2>5 DEF ImportSees
<1>4. ~ ImportCommit /\ ~ ImportFails
  BY DEF ImportCommit, ImportFails, NoImport
<1>5. QED
  BY <1>1, <1>2, <1>3, <1>4
     DEF Next, vars, TickSelect, TickEnrich, TickChoose, TickGet, TickWrite, TickDies

LEMMA TicksStillSee ==
  ASSUME IInv, [Next]_vars, NEW t \in Ticks
  PROVE  TickSees(t)'
<1>r. \A k \in Keys : RowStep(k)
  BY AnyRowStep
<1>0. tick[t] \in Tick /\ tick \in [Ticks -> Tick]
  BY DEF IInv, TypeOK
<1>1. CASE tick'[t] = tick[t]
  <2>1. TickSees(t) /\ tick[t].rows \subseteq Keys
    BY <1>0 DEF IInv, Tick
  <2>2. \A k \in tick[t].rows :
          /\ Exists(k) => Exists(k)'
          /\ table[k].abstract # None => table'[k].abstract # None
    BY <1>r, <2>1 DEF RowStep, Exists
  <2>3. QED
    BY <1>1, <2>1, <2>2 DEF TickSees
<1>2. CASE TickSelect(t)
  <2>1. /\ tick'[t].pc \in {"enrich", "choose"}
        /\ tick'[t].rows = {k \in Keys : table[k].status = "PENDING"}
        /\ tick'[t].copy = table /\ table' = table
    BY <1>0, <1>2 DEF TickSelect
  <2>2. \A k \in Keys : table[k].status = "PENDING" =>
          Exists(k)' /\ table[k].abstract = None /\ table[k].hash = None
    BY <2>1 DEF IInv, RowOK, Exists
  <2>3. QED
    BY <2>1, <2>2 DEF TickSees
<1>3. CASE TickEnrich(t)
  <2>1. tick'[t].pc = "choose"
    BY <1>0, <1>3 DEF TickEnrich, Tick
  <2>2. QED
    BY <2>1 DEF TickSees
<1>4. CASE TickChoose(t)
  <2>1. CASE Embeddable = {}
    BY <1>0, <1>4, <2>1 DEF TickChoose, TickSees, IdleTick
  <2>2. CASE Embeddable # {}
    <3>1. tick'[t] = [pc |-> "encode", rows |-> Embeddable, copy |-> table] /\ table' = table
      BY <1>0, <1>4, <2>2 DEF TickChoose
    <3>2. QED
      BY <3>1 DEF TickSees, Embeddable
  <2>3. QED
    BY <2>1, <2>2
<1>5. CASE TickGet(t)
  <2>1. /\ tick'[t].pc = "write" /\ tick'[t].rows = tick[t].rows
        /\ tick'[t].copy = [k \in Keys |->
             IF k \in tick[t].rows THEN [tick[t].copy[k] EXCEPT !.hash = table[k].hash]
             ELSE tick[t].copy[k]]
        /\ tick[t].pc = "encode" /\ table' = table
    BY <1>0, <1>5 DEF TickGet, Tick
  <2>2. /\ \A k \in Keys : tick[t].copy[k] \in Row
        /\ tick[t].rows \subseteq Keys
    BY <1>0 DEF Tick
  <2>3. \A k \in tick[t].rows : tick'[t].copy[k].abstract = tick[t].copy[k].abstract
    BY <2>1, <2>2 DEF Row
  <2>4. QED
    BY <2>1, <2>3 DEF TickSees, IInv
<1>6. CASE TickWrite(t) \/ TickDies(t)
  <2>1. tick'[t].pc = "idle"
    BY <1>0, <1>6 DEF TickWrite, TickDies, IdleTick
  <2>2. QED
    BY <2>1 DEF TickSees
<1>7. ASSUME NEW u \in Ticks, u # t,
             \/ TickSelect(u) \/ TickEnrich(u) \/ TickChoose(u)
             \/ TickGet(u) \/ TickWrite(u) \/ TickDies(u)
      PROVE  tick'[t] = tick[t]
  BY <1>0, <1>7 DEF TickSelect, TickEnrich, TickChoose, TickGet, TickWrite, TickDies
<1>8. CASE ImportBegin \/ ImportCommit \/ ImportFails \/ \E k \in Keys : ImportGet(k)
  BY <1>1, <1>8 DEF ImportBegin, ImportCommit, ImportFails, ImportGet
<1>9. CASE UNCHANGED vars
  BY <1>1, <1>9 DEF vars
<1>10. QED
  BY <1>1, <1>2, <1>3, <1>4, <1>5, <1>6, <1>7, <1>8, <1>9 DEF Next

-----------------------------------------------------------------------------
(* The type invariant is kept.                                              *)

LEMMA TypeKept ==
  ASSUME IInv, [Next]_vars
  PROVE  TypeOK'
<1>0. TypeOK
  BY DEF IInv
<1>r. \A k \in Keys : table'[k] \in Row
  BY AnyRowStep DEF RowStep
<1>1. table' \in [Keys -> Row]
  <2>1. table' = [k \in Keys |-> table'[k]]
    BY <1>0 DEF TypeOK, Next, vars, ImportBegin, ImportGet, ImportCommit, ImportFails,
         TickSelect, TickEnrich, TickChoose, TickGet, TickWrite, TickDies
  <2>2. QED
    BY <1>r, <2>1
<1>2. staleWrite' \in [Keys -> BOOLEAN]
  BY <1>0 DEF TypeOK, Next, vars, ImportBegin, ImportGet, ImportCommit, ImportFails,
       TickSelect, TickEnrich, TickChoose, TickGet, TickWrite, TickDies
<1>3. imported' \in 0 .. MaxImports /\ import' \in Import
  <2>1. CASE ImportBegin
    <3>1. imported' \in 0 .. MaxImports
      BY <1>0, <2>1, BoundAssumption DEF ImportBegin, TypeOK
    <3>2. PICK file \in [Keys -> FileEntry] :
            import' = [open |-> TRUE, file |-> file, existing |-> {k \in Keys : Exists(k)},
                       hasAbstract |-> {k \in Keys : table[k].abstract # None},
                       got |-> {}, copy |-> [k \in Keys |-> AbsentRow]]
      BY <2>1 DEF ImportBegin
    <3>3. import' \in Import
      BY <3>2, AbsentRowFacts DEF Import
    <3>4. QED
      BY <3>1, <3>3
  <2>2. CASE \E k \in Keys : ImportGet(k)
    <3>1. PICK j \in Keys : ImportGet(j)
      BY <2>2
    <3>2. import' = [import EXCEPT !.got = @ \cup {j}, !.copy[j] = table[j]]
      BY <3>1 DEF ImportGet
    <3>3. import' \in Import
      BY <1>0, <3>2 DEF TypeOK, Import
    <3>4. QED
      BY <1>0, <3>1, <3>3 DEF TypeOK, ImportGet
  <2>3. CASE ImportCommit \/ ImportFails
    BY <1>0, <2>3, NoImportType DEF TypeOK, ImportCommit, ImportFails
  <2>4. CASE UNCHANGED <<import, imported>>
    BY <1>0, <2>4 DEF TypeOK
  <2>5. QED
    BY <2>1, <2>2, <2>3, <2>4
       DEF Next, vars, TickSelect, TickEnrich, TickChoose, TickGet, TickWrite, TickDies
<1>4. tick' \in [Ticks -> Tick]
  <2>1. ASSUME NEW t \in Ticks, TickSelect(t) PROVE tick' \in [Ticks -> Tick]
    BY <1>0, <2>1 DEF TypeOK, TickSelect, Tick
  <2>2. ASSUME NEW t \in Ticks, TickEnrich(t) PROVE tick' \in [Ticks -> Tick]
    BY <1>0, <2>2 DEF TypeOK, TickEnrich, Tick
  <2>3. ASSUME NEW t \in Ticks, TickChoose(t) PROVE tick' \in [Ticks -> Tick]
    BY <1>0, <2>3, IdleTickType DEF TypeOK, TickChoose, Tick, Embeddable
  <2>4. ASSUME NEW t \in Ticks, TickGet(t) PROVE tick' \in [Ticks -> Tick]
    <3>1. tick' = [tick EXCEPT ![t] = [tick[t] EXCEPT !.pc = "write",
            !.copy = [k \in Keys |->
              IF k \in tick[t].rows THEN [tick[t].copy[k] EXCEPT !.hash = table[k].hash]
              ELSE tick[t].copy[k]]]]
      BY <1>0, <2>4 DEF TickGet, TypeOK, Tick
    <3>2. [k \in Keys |->
             IF k \in tick[t].rows THEN [tick[t].copy[k] EXCEPT !.hash = table[k].hash]
             ELSE tick[t].copy[k]] \in [Keys -> Row]
      BY <1>0, <2>4 DEF TypeOK, Tick, Row
    <3>3. QED
      BY <1>0, <3>1, <3>2 DEF TypeOK, Tick
  <2>5. ASSUME NEW t \in Ticks, TickWrite(t) \/ TickDies(t) PROVE tick' \in [Ticks -> Tick]
    BY <1>0, <2>5, IdleTickType DEF TypeOK, TickWrite, TickDies
  <2>6. CASE UNCHANGED tick
    BY <1>0, <2>6 DEF TypeOK
  <2>7. QED
    BY <2>1, <2>2, <2>3, <2>4, <2>5, <2>6
       DEF Next, vars, ImportBegin, ImportGet, ImportCommit, ImportFails
<1>5. QED
  BY <1>1, <1>2, <1>3, <1>4 DEF TypeOK

-----------------------------------------------------------------------------
(* The theorems.                                                            *)

LEMMA StepHolds ==
  ASSUME IInv, [Next]_vars
  PROVE  IInv'
<1>1. \A k \in Keys : RowStep(k)
  BY AnyRowStep
<1>2. \A k \in Keys : RowOK(table[k])'
  BY <1>1 DEF RowStep, RowOK
<1>3. HashIsCurrentUnlessStaleWrite'
  BY <1>1 DEF RowStep, HashIsCurrentUnlessStaleWrite
<1>4. QED
  BY <1>2, <1>3, TypeKept, ImportStillSees, TicksStillSee DEF IInv

LEMMA InductiveInvariant == Spec => []IInv
  BY InitHolds, StepHolds, PTL DEF Spec

(* The table and every session keep their types (the columns of             *)
(* reference_paper.py, the sessions of the three writers).                  *)
THEOREM TypeCorrect == Spec => []TypeOK
<1>1. IInv => TypeOK
  BY DEF IInv
<1>2. QED
  BY <1>1, InductiveInvariant, PTL

(* For any papers, overlapping ticks and imports, a row's status, abstract  *)
(* and content_hash never contradict each other.                            *)
THEOREM StatusAgrees == Spec => []StatusTellsAbstract
<1>1. IInv => StatusTellsAbstract
  BY DEF IInv, RowOK, StatusTellsAbstract
<1>2. QED
  BY <1>1, InductiveInvariant, PTL

(* The embedding of a row that no commit wrote from out-of-date data is of  *)
(* the abstract the row has: mark_embedding_stale misses no writer.         *)
THEOREM HashStaysCurrent == Spec => []HashIsCurrentUnlessStaleWrite
<1>1. IInv => HashIsCurrentUnlessStaleWrite
  BY DEF IInv
<1>2. QED
  BY <1>1, InductiveInvariant, PTL

(* An abstract that came from a dataset file is only ever replaced by a     *)
(* commit that wrote the row from out-of-date data.                         *)
THEOREM DatasetWins == Spec => DatasetAbstractKept
<1>1. IInv /\ [Next]_vars =>
        [\A k \in Keys :
          table[k].abstract \in Imports /\ ~ staleWrite'[k] =>
            table'[k].abstract = table[k].abstract]_vars
  BY AnyRowStep DEF RowStep
<1>2. QED
  BY <1>1, InductiveInvariant, PTL DEF Spec, DatasetAbstractKept
===============================================================================
