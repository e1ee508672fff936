----------------------------- MODULE LibraryRows -----------------------------
(***************************************************************************)
(* The rows of reference_papers under their three writers: import_dataset  *)
(* (in the API process, one at a time: the route calls it on the event     *)
(* loop), enrich_pending_references and embed_pending_references (in the   *)
(* ticks of library.refresh, which may overlap imports and, once a lock    *)
(* has expired, each other).  A session loads rows, works for seconds or   *)
(* minutes, and at commit writes back only the attributes that differ from *)
(* the values it loaded (SQLAlchemy's unit of work, READ COMMITTED).       *)
(*                                                                         *)
(* A row keeps its abstract (by the source it came from), its enrichment   *)
(* status and its content_hash (by the abstract that was hashed).  A row   *)
(* and its identity, DOI or EID or normalised title, are one key.          *)
(***************************************************************************)
EXTENDS Naturals

CONSTANTS
  Keys,            \* papers a dataset file may list
  Ticks,           \* invocations of library.refresh that may overlap
  ProviderTexts,   \* abstracts the enrichment providers may return
  None,
  MaxImports       \* bound: dataset files imported

Imports == 1 .. MaxImports
Texts == Imports \cup ProviderTexts

ASSUME NoneAssumption == None \notin Texts
ASSUME ProviderAssumption == ProviderTexts \cap Imports = {}
ASSUME BoundAssumption == MaxImports \in Nat

VARIABLES
  table,      \* reference_papers: key -> row
  import,     \* the import in progress
  imported,   \* imports started
  tick,       \* tick -> its session
  staleWrite  \* history: key -> a commit wrote it from out-of-date data

vars == <<table, import, imported, tick, staleWrite>>

-----------------------------------------------------------------------------
Statuses == {"ABSENT", "PENDING", "ENRICHED", "INCOMPLETE", "FAILED"}
Row == [abstract : Texts \cup {None}, status : Statuses, hash : Texts \cup {None}]
AbsentRow == [abstract |-> None, status |-> "ABSENT", hash |-> None]

Exists(k) == table[k].status # "ABSENT"

(* What a dataset file says of a paper: nothing, a row, a row with abstract, *)
(* a row and further down one with abstract ("late").                       *)
FileEntry == {"unlisted", "bare", "abstract", "late"}
WithAbstract == {"abstract", "late"}

NoImport == [open |-> FALSE, file |-> [k \in Keys |-> "unlisted"], existing |-> {},
             hasAbstract |-> {}, got |-> {}, copy |-> [k \in Keys |-> AbsentRow]]
Import == [open : BOOLEAN, file : [Keys -> FileEntry], existing : SUBSET Keys,
           hasAbstract : SUBSET Keys, got : SUBSET Keys, copy : [Keys -> Row]]

IdleTick == [pc |-> "idle", rows |-> {}, copy |-> [k \in Keys |-> AbsentRow]]
Tick == [pc : {"idle", "enrich", "choose", "encode", "write"},
         rows : SUBSET Keys, copy : [Keys -> Row]]

Init ==
  /\ table = [k \in Keys |-> AbsentRow]
  /\ import = NoImport
  /\ imported = 0
  /\ tick = [t \in Ticks |-> IdleTick]
  /\ staleWrite = [k \in Keys |-> FALSE]

-----------------------------------------------------------------------------
(* What a flush writes: `new` where it differs from `copy`, else the        *)
(* database's current value.                                                *)
Flush(current, copy, new) ==
  [abstract |-> IF new.abstract = copy.abstract THEN current.abstract ELSE new.abstract,
   status   |-> IF new.status = copy.status THEN current.status ELSE new.status,
   hash     |-> IF new.hash = copy.hash THEN current.hash ELSE new.hash]

-----------------------------------------------------------------------------
(* Plausible bugs of the definitions below: mutants.                        *)

(* The backfill forgets mark_embedding_stale.                               *)
BackfilledNotStale(row, n) == [row EXCEPT !.abstract = n, !.status = "ENRICHED"]

(* The backfill forgets the enrichment status.                              *)
BackfilledKeepsStatus(row, n) == [row EXCEPT !.abstract = n, !.hash = None]

(* The provider's answer is stored where its status belongs.                *)
EnrichedAsOutcome(row, outcome) == [row EXCEPT !.status = outcome]

(* The file's abstract replaces one the library already has.                *)
BackfillAny == {k \in import.existing : import.file[k] \in WithAbstract}

-----------------------------------------------------------------------------
(* Rows of the file that import n would backfill: known before it started,  *)
(* without an abstract then, and listed with one now.                       *)
ToBackfill ==
  {k \in import.existing \ import.hasAbstract : import.file[k] \in WithAbstract}

ToInsert == {k \in Keys \ import.existing : import.file[k] # "unlisted"}

(* mark_embedding_stale: content_hash = None.                               *)
Backfilled(row, n) == [row EXCEPT !.abstract = n, !.status = "ENRICHED", !.hash = None]

(* The first of two rows is inserted; the second is then a duplicate whose  *)
(* id no map of the import has, and its abstract is not taken.              *)
NewRow(n, entry) ==
  [abstract |-> IF entry = "abstract" THEN n ELSE None,
   status |-> IF entry = "abstract" THEN "ENRICHED" ELSE "PENDING", hash |-> None]

(* apply_result and enrich_reference on a row loaded PENDING: an abstract   *)
(* fills a blank and makes the hash stale; none leaves INCOMPLETE; an       *)
(* exception leaves FAILED.                                                 *)
Outcomes == ProviderTexts \cup {"INCOMPLETE", "FAILED"}
Enriched(row, outcome) ==
  IF outcome = "FAILED" THEN [row EXCEPT !.status = "FAILED"]
  ELSE LET filled == IF outcome \in ProviderTexts /\ row.abstract = None
                     THEN [row EXCEPT !.abstract = outcome, !.hash = None] ELSE row
       IN [filled EXCEPT !.status =
             IF outcome \in ProviderTexts THEN "ENRICHED" ELSE "INCOMPLETE"]

(* SELECT ... WHERE abstract IS NOT NULL AND content_hash IS NULL.          *)
Embeddable == {k \in Keys : table[k].abstract # None /\ table[k].hash = None}

-----------------------------------------------------------------------------
(* POST /library/import.                                                    *)

(* Choose a file; SELECT id, doi, eid, title, abstract of every row.        *)
ImportBegin ==
  /\ ~ import.open /\ imported < MaxImports
  /\ imported' = imported + 1
  /\ \E file \in [Keys -> FileEntry] :
       import' = [open |-> TRUE, file |-> file, existing |-> {k \in Keys : Exists(k)},
                  hasAbstract |-> {k \in Keys : table[k].abstract # None},
                  got |-> {}, copy |-> [k \in Keys |-> AbsentRow]]
  /\ UNCHANGED <<table, tick, staleWrite>>

(* session.get of a row to backfill, as the file reaches it.                *)
ImportGet(k) ==
  /\ import.open /\ k \in ToBackfill \ import.got
  /\ import' = [import EXCEPT !.got = @ \cup {k}, !.copy[k] = table[k]]
  /\ UNCHANGED <<table, imported, tick, staleWrite>>

(* The one commit at the end of the file.                                   *)
ImportCommit ==
  /\ import.open /\ import.got = ToBackfill
  /\ table' = [k \in Keys |->
       IF k \in ToBackfill
       THEN Flush(table[k], import.copy[k], Backfilled(import.copy[k], imported))
       ELSE IF k \in ToInsert THEN NewRow(imported, import.file[k]) ELSE table[k]]
  /\ staleWrite' = [k \in Keys |->
       staleWrite[k] \/ (k \in ToBackfill /\ import.copy[k] # table[k])]
  /\ import' = NoImport
  /\ UNCHANGED <<imported, tick>>

(* An exception before the commit: nothing of the file is kept.             *)
ImportFails ==
  /\ import.open
  /\ import' = NoImport
  /\ UNCHANGED <<table, imported, tick, staleWrite>>

-----------------------------------------------------------------------------
(* One tick: enrich, then embed.                                            *)

(* SELECT the PENDING rows.                                                 *)
TickSelect(t) ==
  LET rows == {k \in Keys : table[k].status = "PENDING"} IN
  /\ tick[t].pc = "idle"
  /\ tick' = [tick EXCEPT ![t] =
       [pc |-> IF rows = {} THEN "choose" ELSE "enrich", rows |-> rows, copy |-> table]]
  /\ UNCHANGED <<table, import, imported, staleWrite>>

(* Fill each row from the providers and commit.                             *)
TickEnrich(t) ==
  LET mine == tick[t].rows
      copy == tick[t].copy
  IN
  /\ tick[t].pc = "enrich"
  /\ \E outcome \in [mine -> Outcomes] :
       table' = [k \in Keys |->
         IF k \in mine THEN Flush(table[k], copy[k], Enriched(copy[k], outcome[k]))
         ELSE table[k]]
  /\ staleWrite' = [k \in Keys |->
       staleWrite[k] \/ (k \in mine /\ copy[k] # table[k])]
  /\ tick' = [tick EXCEPT ![t].pc = "choose"]
  /\ UNCHANGED <<import, imported>>

(* SELECT the rows to embed, with the text to encode.                       *)
TickChoose(t) ==
  /\ tick[t].pc = "choose"
  /\ tick' = [tick EXCEPT ![t] =
       IF Embeddable = {} THEN IdleTick
       ELSE [pc |-> "encode", rows |-> Embeddable, copy |-> table]]
  /\ UNCHANGED <<table, import, imported, staleWrite>>

(* After encoding, session.get of each row: the text stays the one that was *)
(* encoded, the loaded content_hash is the current one.                     *)
TickGet(t) ==
  /\ tick[t].pc = "encode"
  /\ tick' = [tick EXCEPT ![t].pc = "write",
       ![t].copy = [k \in Keys |->
         IF k \in tick[t].rows THEN [tick[t].copy[k] EXCEPT !.hash = table[k].hash]
         ELSE tick[t].copy[k]]]
  /\ UNCHANGED <<table, import, imported, staleWrite>>

(* content_hash = the digest of the encoded text; commit.                   *)
TickWrite(t) ==
  LET mine == tick[t].rows
      copy == tick[t].copy
  IN
  /\ tick[t].pc = "write"
  /\ table' = [k \in Keys |->
       IF k \in mine
       THEN Flush(table[k], copy[k], [copy[k] EXCEPT !.hash = copy[k].abstract])
       ELSE table[k]]
  /\ staleWrite' = [k \in Keys |->
       staleWrite[k] \/ (k \in mine /\ copy[k] # table[k])]
  /\ tick' = [tick EXCEPT ![t] = IdleTick]
  /\ UNCHANGED <<import, imported>>

(* An exception or a crash: the session's uncommitted work is gone.         *)
TickDies(t) ==
  /\ tick[t].pc # "idle"
  /\ tick' = [tick EXCEPT ![t] = IdleTick]
  /\ UNCHANGED <<table, import, imported, staleWrite>>

-----------------------------------------------------------------------------
Next ==
  \/ ImportBegin \/ ImportCommit \/ ImportFails
  \/ \E k \in Keys : ImportGet(k)
  \/ \E t \in Ticks :
       \/ TickSelect(t) \/ TickEnrich(t) \/ TickChoose(t)
       \/ TickGet(t) \/ TickWrite(t) \/ TickDies(t)

Spec == Init /\ [][Next]_vars

-----------------------------------------------------------------------------
(* Properties.                                                              *)

(* Type correctness of the table and the sessions.                          *)
TypeOK ==
  /\ table \in [Keys -> Row]
  /\ import \in Import
  /\ imported \in 0 .. MaxImports
  /\ tick \in [Ticks -> Tick]
  /\ staleWrite \in [Keys -> BOOLEAN]

(* However import, enrichment and embedding interleave, a row called        *)
(* ENRICHED has an abstract, a row with an abstract is not fetched again    *)
(* (is not PENDING), and only a row with an abstract is called embedded.    *)
StatusTellsAbstract ==
  \A k \in Keys :
    /\ table[k].status = "ENRICHED" => table[k].abstract # None
    /\ table[k].abstract # None => table[k].status \notin {"ABSENT", "PENDING"}
    /\ table[k].hash # None => table[k].abstract # None

(* content_hash is "the authoritative needs-embedding signal"               *)
(* (embedding_service.py:193): when it is set, the vector is of the         *)
(* abstract the row has now.  A lost update breaks it.                      *)
HashIsCurrent ==
  \A k \in Keys : table[k].hash # None => table[k].hash = table[k].abstract

(* It does hold of every row that no commit wrote from out-of-date data:    *)
(* mark_embedding_stale covers every writer of the abstract.                *)
HashIsCurrentUnlessStaleWrite ==
  \A k \in Keys :
    table[k].hash # None /\ ~ staleWrite[k] => table[k].hash = table[k].abstract

(* "Never overwrite dataset values" (enrichment.py:75), and no dataset row  *)
(* overwrites another's abstract (import_dataset's docstring): an abstract  *)
(* that came from a file changes only by a write from out-of-date data.     *)
DatasetAbstractKept ==
  [][\A k \in Keys :
      table[k].abstract \in Imports /\ ~ staleWrite'[k] =>
        table'[k].abstract = table[k].abstract]_vars
=============================================================================
