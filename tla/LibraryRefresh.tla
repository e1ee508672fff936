---------------------------- MODULE LibraryRefresh ----------------------------
(***************************************************************************)
(* The library.refresh task: Celery Beat, POST /library/refresh and the    *)
(* task itself put messages in the broker; a slot that starts one takes    *)
(* the Redis lock or gives up, backs off while an analysis is in flight,   *)
(* enriches then embeds one chunk of rows, deletes the lock, and publishes *)
(* a successor if work remains.  The lock has a TTL and no owner token.    *)
(*                                                                         *)
(* A row keeps only what the two queues of work are selected by.  Rows are *)
(* numbered in creation order, the order both queries sort by.             *)
(***************************************************************************)
EXTENDS Naturals, FiniteSets

CONSTANTS
  Slots,          \* threads of the worker
  None,           \* the lock is free
  NumRows,        \* bound: rows the library may come to hold
  Chunk,          \* settings.library_chunk_size
  EmbedBatch,     \* rows embedded per commit (16)
  Poison,         \* rows whose provider result collides with a unique index
  MaxMessages,    \* bound: messages waiting when Beat or a user adds one
  MaxAnalyses,    \* bound: analyses started
  MaxExpiries,    \* bound: times the TTL ends while a tick still works
  MaxFaults       \* bound: worker crashes and exceptions inside a tick

Row == 1 .. NumRows

ASSUME NoneAssumption == None \notin Slots
ASSUME SizeAssumption ==
  /\ NumRows \in Nat /\ Chunk \in Nat \ {0} /\ EmbedBatch \in Nat \ {0}
  /\ Poison \subseteq Row
ASSUME BoundsAssumption ==
  /\ MaxMessages \in Nat /\ MaxAnalyses \in Nat
  /\ MaxExpiries \in Nat /\ MaxFaults \in Nat

VARIABLES
  row,        \* reference_papers: status, has an abstract, content_hash is set
  messages,   \* library.refresh messages waiting, countdown or not
  tick,       \* slot -> the library.refresh invocation it executes
  lock,       \* library_refresh_lock: None, or the slot that set it
  inFlight,   \* an AnalysisRun is PENDING or RUNNING
  fetched,    \* history: row -> times the providers were asked for it (to 2)
  analyses, expiries, faults

vars == <<row, messages, tick, lock, inFlight, fetched, analyses, expiries, faults>>
counters == <<analyses, expiries, faults>>

-----------------------------------------------------------------------------
Statuses == {"ABSENT", "PENDING", "ENRICHED", "INCOMPLETE", "FAILED"}
RowRecord == [status : Statuses, abstract : BOOLEAN, hashed : BOOLEAN]
AbsentRow == [status |-> "ABSENT", abstract |-> FALSE, hashed |-> FALSE]

Exists(r) == row[r].status # "ABSENT"
ToEnrich == {r \in Row : row[r].status = "PENDING"}
ToEmbed == {r \in Row : row[r].abstract /\ ~ row[r].hashed}

(* ORDER BY created_at LIMIT n.                                             *)
Oldest(S, n) == {r \in S : Cardinality({t \in S : t < r}) < n}

PCs == {"idle", "check", "select", "enrich", "choose", "embed", "unlock", "decide"}
Tick == [pc : PCs, rows : SUBSET Row, again : BOOLEAN]
IdleTick == [pc |-> "idle", rows |-> {}, again |-> FALSE]

(* Between the SET NX that succeeded and the DELETE in `finally`.           *)
Working(w) == tick[w].pc \in {"check", "select", "enrich", "choose", "embed", "unlock"}

Init ==
  /\ row = [r \in Row |-> AbsentRow]
  /\ messages = 0
  /\ tick = [w \in Slots |-> IdleTick]
  /\ lock = None
  /\ inFlight = FALSE
  /\ fetched = [r \in Row |-> 0]
  /\ analyses = 0 /\ expiries = 0 /\ faults = 0

-----------------------------------------------------------------------------
(* Plausible bugs of the actions below: mutants.                            *)

(* The livelock a test of the repository remembers: rows already embedded   *)
(* are selected again and skipped after LIMIT.                              *)
ChooseWithoutHashFilter(w) ==
  /\ tick[w].pc = "choose"
  /\ tick' = [tick EXCEPT ![w].pc = "embed",
                          ![w].rows = Oldest({r \in Row : row[r].abstract}, Chunk)]
  /\ UNCHANGED <<row, messages, lock, inFlight, fetched, counters>>

(* SET without NX.                                                          *)
StartWithoutNX(w) ==
  /\ tick[w].pc = "idle" /\ messages > 0
  /\ messages' = messages - 1
  /\ tick' = [tick EXCEPT ![w].pc = "check"]
  /\ lock' = w
  /\ UNCHANGED <<row, inFlight, fetched, counters>>

(* The lock is deleted before the chunk instead of after it.                *)
SelectAfterUnlock(w) ==
  /\ tick[w].pc = "select"
  /\ tick' = [tick EXCEPT ![w].pc = IF ToEnrich = {} THEN "choose" ELSE "enrich",
                          ![w].rows = Oldest(ToEnrich, Chunk)]
  /\ fetched' = [r \in Row |-> IF r \in tick'[w].rows /\ fetched[r] < 2 THEN fetched[r] + 1
                               ELSE fetched[r]]
  /\ lock' = None
  /\ UNCHANGED <<row, messages, inFlight, counters>>

(* Redis without the EX option: a lock whose holder died stays.             *)
ExpireNothing == FALSE /\ UNCHANGED vars

(* The task counts itself out of the queue twice.                           *)
DecideWithdraws(w) ==
  /\ tick[w].pc = "decide"
  /\ messages' = IF tick[w].again THEN messages + 1 ELSE messages - 1
  /\ tick' = [tick EXCEPT ![w] = IdleTick]
  /\ UNCHANGED <<row, lock, inFlight, fetched, counters>>

-----------------------------------------------------------------------------
(* Writers of rows and messages outside the task.                           *)

(* import_dataset inserts a row, ENRICHED if the file has its abstract.     *)
ImportRow(r) ==
  /\ ~ Exists(r) /\ \A s \in Row : s < r => Exists(s)
  /\ \E abstract \in BOOLEAN :
       row' = [row EXCEPT ![r] =
         [status |-> IF abstract THEN "ENRICHED" ELSE "PENDING",
          abstract |-> abstract, hashed |-> FALSE]]
  /\ UNCHANGED <<messages, tick, lock, inFlight, fetched, counters>>

(* import_dataset backfills the abstract of a row that has none.            *)
BackfillAbstract(r) ==
  /\ Exists(r) /\ ~ row[r].abstract
  /\ row' = [row EXCEPT ![r] = [status |-> "ENRICHED", abstract |-> TRUE, hashed |-> FALSE]]
  /\ UNCHANGED <<messages, tick, lock, inFlight, fetched, counters>>

(* Celery Beat's interval, or POST /library/refresh.                        *)
BeatTick ==
  /\ messages < MaxMessages
  /\ messages' = messages + 1
  /\ UNCHANGED <<row, tick, lock, inFlight, fetched, counters>>

(* Some AnalysisRun becomes the first to be active, or the last to end.     *)
AnalysisStarts ==
  /\ ~ inFlight /\ analyses < MaxAnalyses
  /\ inFlight' = TRUE /\ analyses' = analyses + 1
  /\ UNCHANGED <<row, messages, tick, lock, fetched, expiries, faults>>

AnalysisEnds ==
  /\ inFlight
  /\ inFlight' = FALSE
  /\ UNCHANGED <<row, messages, tick, lock, fetched, counters>>

-----------------------------------------------------------------------------
(* One invocation of library.refresh.                                       *)

(* SET library_refresh_lock NX EX 300, or return `already_running`.         *)
Start(w) ==
  /\ tick[w].pc = "idle" /\ messages > 0
  /\ messages' = messages - 1
  /\ IF lock = None
     THEN lock' = w /\ tick' = [tick EXCEPT ![w].pc = "check"]
     ELSE UNCHANGED <<lock, tick>>
  /\ UNCHANGED <<row, inFlight, fetched, counters>>

(* An analysis in flight: publish a retry with a countdown and do nothing.  *)
Check(w) ==
  /\ tick[w].pc = "check"
  /\ messages' = IF inFlight THEN messages + 1 ELSE messages
  /\ tick' = [tick EXCEPT ![w].pc = IF inFlight THEN "unlock" ELSE "select"]
  /\ UNCHANGED <<row, lock, inFlight, fetched, counters>>

(* SELECT the oldest PENDING rows; ask the providers about each of them.    *)
Select(w) ==
  LET rows == Oldest(ToEnrich, Chunk) IN
  /\ tick[w].pc = "select"
  /\ tick' = [tick EXCEPT ![w].pc = IF rows = {} THEN "choose" ELSE "enrich",
                          ![w].rows = rows]
  /\ fetched' = [r \in Row |-> IF r \in rows /\ fetched[r] < 2 THEN fetched[r] + 1
                               ELSE fetched[r]]
  /\ UNCHANGED <<row, messages, lock, inFlight, counters>>

(* One commit for the chunk.  The sessions's rows were loaded PENDING and   *)
(* without an abstract; a result adds one, anything else leaves the column. *)
Enrich(w) ==
  /\ tick[w].pc = "enrich" /\ tick[w].rows \cap Poison = {}
  /\ \E outcome \in [tick[w].rows -> {"ENRICHED", "INCOMPLETE", "FAILED"}] :
       row' = [r \in Row |->
         IF r \in tick[w].rows
         THEN [row[r] EXCEPT !.status = outcome[r],
                             !.abstract = @ \/ outcome[r] = "ENRICHED"]
         ELSE row[r]]
  /\ tick' = [tick EXCEPT ![w].pc = "choose", ![w].rows = {},
                          ![w].again = Cardinality(tick[w].rows) >= Chunk]
  /\ UNCHANGED <<messages, lock, inFlight, fetched, counters>>

(* The commit violates a unique index: the chunk is rolled back and the     *)
(* exception leaves the task, which publishes no successor.                 *)
EnrichCollides(w) ==
  /\ tick[w].pc = "enrich" /\ tick[w].rows \cap Poison # {}
  /\ tick' = [tick EXCEPT ![w] = [IdleTick EXCEPT !.pc = "unlock"]]
  /\ UNCHANGED <<row, messages, lock, inFlight, fetched, counters>>

(* SELECT the oldest rows with an abstract and no content_hash.             *)
Choose(w) ==
  /\ tick[w].pc = "choose"
  /\ tick' = [tick EXCEPT ![w].pc = "embed", ![w].rows = Oldest(ToEmbed, Chunk)]
  /\ UNCHANGED <<row, messages, lock, inFlight, fetched, counters>>

(* Encode and commit the next batch of the selected rows.                   *)
EmbedNext(w) ==
  LET batch == Oldest(tick[w].rows, EmbedBatch) IN
  /\ tick[w].pc = "embed" /\ tick[w].rows # {}
  /\ row' = [r \in Row |-> IF r \in batch THEN [row[r] EXCEPT !.hashed = TRUE] ELSE row[r]]
  /\ tick' = [tick EXCEPT ![w].rows = @ \ batch]
  /\ UNCHANGED <<messages, lock, inFlight, fetched, counters>>

(* Count what remains to embed.                                             *)
EmbedDone(w) ==
  /\ tick[w].pc = "embed" /\ tick[w].rows = {}
  /\ tick' = [tick EXCEPT ![w].pc = "unlock", ![w].again = @ \/ ToEmbed # {}]
  /\ UNCHANGED <<row, messages, lock, inFlight, fetched, counters>>

(* DEL library_refresh_lock, whoever holds it.                              *)
Unlock(w) ==
  /\ tick[w].pc = "unlock"
  /\ lock' = None
  /\ tick' = [tick EXCEPT ![w].pc = "decide"]
  /\ UNCHANGED <<row, messages, inFlight, fetched, counters>>

(* Publish a successor if the chunk was full or rows remain to embed.       *)
Decide(w) ==
  /\ tick[w].pc = "decide"
  /\ messages' = IF tick[w].again THEN messages + 1 ELSE messages
  /\ tick' = [tick EXCEPT ![w] = IdleTick]
  /\ UNCHANGED <<row, lock, inFlight, fetched, counters>>

-----------------------------------------------------------------------------
(* Faults.                                                                  *)

(* A query, a model load or an encode raises: `finally`, then no successor. *)
TickRaises(w) ==
  /\ tick[w].pc \in {"check", "select", "enrich", "choose", "embed"}
  /\ faults < MaxFaults
  /\ faults' = faults + 1
  /\ tick' = [tick EXCEPT ![w] = [IdleTick EXCEPT !.pc = "unlock"]]
  /\ UNCHANGED <<row, messages, lock, inFlight, fetched, analyses, expiries>>

(* The worker process dies: its ticks are gone, the lock and messages stay. *)
Crash ==
  /\ faults < MaxFaults /\ \E w \in Slots : tick[w].pc # "idle"
  /\ faults' = faults + 1
  /\ tick' = [w \in Slots |-> IdleTick]
  /\ UNCHANGED <<row, messages, lock, inFlight, fetched, analyses, expiries>>

(* The TTL ends: of a lock whose holder died, or of one still at work.      *)
ExpireAbandoned ==
  /\ lock # None /\ ~ Working(lock)
  /\ lock' = None
  /\ UNCHANGED <<row, messages, tick, inFlight, fetched, counters>>

ExpireHeld ==
  /\ lock # None /\ Working(lock) /\ expiries < MaxExpiries
  /\ lock' = None /\ expiries' = expiries + 1
  /\ UNCHANGED <<row, messages, tick, inFlight, fetched, analyses, faults>>

-----------------------------------------------------------------------------
TickStep(w) ==
  \/ Check(w) \/ Select(w) \/ Enrich(w) \/ EnrichCollides(w)
  \/ Choose(w) \/ EmbedNext(w) \/ EmbedDone(w) \/ Unlock(w) \/ Decide(w)

StartSome == \E w \in Slots : Start(w)

Next ==
  \/ \E r \in Row : ImportRow(r) \/ BackfillAbstract(r)
  \/ BeatTick \/ AnalysisStarts \/ AnalysisEnds
  \/ StartSome
  \/ \E w \in Slots : TickStep(w) \/ TickRaises(w)
  \/ Crash \/ ExpireAbandoned \/ ExpireHeld

Spec == Init /\ [][Next]_vars

(* Beat keeps ticking, free slots start messages, a started tick goes on,   *)
(* an abandoned lock reaches its TTL, and an analysis settles (which        *)
(* AnalysisRuns establishes where no worker crashes).                       *)
Fairness ==
  /\ WF_vars(BeatTick) /\ WF_vars(StartSome) /\ \A w \in Slots : WF_vars(TickStep(w))
  /\ WF_vars(ExpireAbandoned) /\ WF_vars(AnalysisEnds)

FairSpec == Spec /\ Fairness

-----------------------------------------------------------------------------
(* Properties.                                                              *)

(* Type correctness of the rows, messages, ticks and lock.                  *)
TypeOK ==
  /\ row \in [Row -> RowRecord]
  /\ messages \in Nat
  /\ tick \in [Slots -> Tick]
  /\ lock \in Slots \cup {None}
  /\ inFlight \in BOOLEAN
  /\ fetched \in [Row -> 0 .. 2]
  /\ analyses \in Nat /\ expiries \in Nat /\ faults \in Nat

(* README.md:191 says the lock guards against two ticks overlapping; it has *)
(* a TTL that a slow chunk outlives, and no owner.                          *)
TicksNeverOverlap == \A v, w \in Slots : Working(v) /\ Working(w) => v = w

(* While no chunk outlives the TTL the lock does keep ticks apart, through  *)
(* crashes, exceptions and abandoned locks (refresh_library.py:65-87).      *)
TicksAloneWithinTTL == expiries = 0 => TicksNeverOverlap

(* "Paid once per paper" (reference_paper.py:17-20): the providers are asked *)
(* once about a row, unless a fault or an expiry intervenes or a colliding  *)
(* row was in a chunk.                                                      *)
FetchedOnce ==
  expiries = 0 /\ faults = 0 /\ (\A p \in Poison : fetched[p] = 0) =>
    \A r \in Row : fetched[r] <= 1

(* Maintenance is never shut out for good: the lock is free again and again, *)
(* even when its holder died.                                               *)
LockIsReleased == []<>(lock = None)

(* Once imports end, every row has been enriched or given up, and every row *)
(* with an abstract embedded, chunk by chunk, unless from some time on      *)
(* there is always a row waiting whose commit collides.                     *)
BacklogDrains ==
  \/ <>[](ToEnrich = {} /\ ToEmbed = {})
  \/ <>[](ToEnrich \cap Poison # {})

(* README.md:189-190 without that exception: a large backlog is drained in  *)
(* short bursts.  One colliding row stops the whole maintenance.            *)
BacklogAlwaysDrains == <>[](ToEnrich = {} /\ ToEmbed = {})
===============================================================================
