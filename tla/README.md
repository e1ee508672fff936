# E-INTI: a TLA+ development of the analysis pipeline

E-INTI takes a manuscript and a shared library of papers, finds the sentences
that need a citation, and recommends papers for them. This directory models the
parts of it where several processes share state and the algorithms of its stages and
exports, checks them with TLC on small instances, and proves the central
properties with TLAPS for every instance.
Paths below are relative to the repository.

## 1. The system

| Component | Where | State it keeps | Operations | Hard behaviour |
|---|---|---|---|---|
| Analysis submission | `app/api/routes/analysis.py` | rows of `analysis_runs` | count references, check for an active run, insert, publish the chain, store its id | check and insert are separate awaits; publish follows commit |
| Pipeline tasks, worker | `app/workers/tasks/base.py`, `celery_app.py` | run status and stage; slots; broker messages | load, begin, run the stage, complete or fail, publish the next task | early acknowledgement, crash, second delivery, status written through an object loaded before the stage |
| Library refresh | `app/workers/tasks/refresh_library.py` | Redis lock with TTL; messages | lock, defer, enrich, embed, unlock, reschedule | TTL shorter than a chunk, unconditional delete, crash with the lock held |
| Import | `app/services/dataset_import_service.py` | `reference_papers` | snapshot, match, backfill, insert, commit | long transaction beside the worker's |
| Enrichment | `app/services/enrichment.py` | rows' abstract and status | select PENDING, ask providers, fill blanks, commit | rows read minutes before they are written; unique-index collision |
| Embedding | `app/services/embedding_service.py` | `content_hash`, vector | select unhashed, encode, write digest | digest of a text that may have changed |
| Providers | `app/services/{scopus,semantic_scholar,openalex,crossref}_service.py` | caches, disabled flag | fetch, prefetch | quotas |
| Draft upload, parsing | `app/services/draft_parser_service.py` | parsed blocks, sentences | segment, offsets | character offsets |
| SDG classification | `app/services/sdg_classification_service.py` | draft's SDG | score, LLM | thresholds |
| Claim detection | `app/services/claim_detection_service.py` | `claims`, Tier-1 cache | delete and rebuild, batch calls | rebuild deletes user decisions; partial failure |
| Recommendation | `app/services/recommendation_pipeline.py` and retrieval, reranking | `citation_recommendations` | retrieve, rerank, verify, persist | limits, one commit at the end |
| Verification, scoring | `app/services/{verification_service,scoring}.py` | verdict cache | look up, ask, apply, score | stale verdicts, renormalised weights |
| LLM client | `app/services/llm_client.py` | pacing schedule | pace, call, retry, repair, fall back | shared schedule, nested retries |
| Decisions, results | `app/api/routes/recommendations.py` | decisions, accepted citations | accept, reject, shortlist, rewrite | concurrent decisions, decisions during a rebuild |
| Export | `app/services/export/` | `exports`, the docx | bundle, insert, audit | offsets, non-snapshot reads |
| Admin session, uploads | `app/core/{security,uploads}.py` | Redis session and failure keys | log in, lock out, cap | INCR then EXPIRE |
| Web client | `frontend/lib/api` | none that matters | poll, call | - |

How they interact: the API process inserts a run and publishes a Celery chain to
Redis. One worker process (`docker-compose.yml:111`, `--pool=threads
--concurrency=2 --beat`) executes the chain's tasks and the `library.refresh` ticks in two
threads. All meet in Postgres at READ COMMITTED, with sessions that do not
expire on commit (`app/db/session.py:38-40`). Imports run in the API process,
one at a time, since the route calls the synchronous importer on the event loop
(`app/api/routes/references.py:45-47`).

`PROJECT.json` lists, per component, what is modelled, and the hazards of this
code at their lines with the properties that cover them.

## 2. Modules

| Module | Models | Kind |
|---|---|---|
| `RunLifecycle` | what a run's row promises to the status endpoint | abstract specification |
| `AnalysisRuns` | `run_analysis`, the broker, `PipelineTask.run`, the worker | detailed |
| `LibraryRefresh` | the `library.refresh` task, its lock, messages and two queues of work | detailed |
| `LibraryRows` | one row's abstract, status and hash under import, enrichment and embedding | detailed |
| `DraftReview` | decisions and accepted citations of a draft beside the stages that rebuild it | detailed |
| `LLMClient` | `DeepSeekGeminiClient`: pacing, retry, repair, fallback | state machine of a call |
| `ClaimDetection`, `Scoring`, `Recommendation`, `SdgClassification` | what the three stages compute | operators |
| `AnalysisStages` | the stages with their pool of calls, composed of the five modules above | detailed |
| `DraftParsing`, `CitationFormatting` | offsets of a parsed draft; citations and reference list | operators |
| `DraftExport` | one export, composed of these two, beside acceptances, edits and re-analyses | detailed |
| `Ordering` | Python's stable sorts, slices, filters and running sums of sequences | operators |
| `AnalysisRunsProofs`, `LibraryRefreshProofs`, `LibraryRowsProofs`, `DraftReviewProofs`, `AnalysisStagesProofs`, `DraftExportProofs` | theorems about the module each is named for | proofs |
| `OrderingProofs`, `DraftFunctionsProofs` | lemmas the others cite: sorts, slices and sums; texts, what the parser makes of a file, and what citations and entries show of a paper | proofs |
| `MC...` | model values, drafts, papers and symmetry for TLC | instances |

`LibraryRefresh` and `LibraryRows` split one subject by what the properties need: the first
keeps the lock, the messages and the progress of the work and gives a row three bits; the
second keeps the values in the row and what each session remembers of them, lets ticks start
and overlap freely, and has no lock. What `LibraryRows` shows therefore holds whether or not
the lock does its work.

`DraftReview` and `AnalysisStages` split the analysis of a draft in the same way: the first
keeps the long transactions of the stages, their locks and cascades, and nothing of what
they compute; the second executes the stages one at a time and keeps what they read, ask and
write. `AnalysisRuns` knows of a stage only whether it succeeds.

### AnalysisRuns

- `handler[q]` is the progress of request `q` through `run_analysis`; one action per await:
  `CountReferences` (42-48), `CheckActive` (50-65), `InsertRun` (67-70), `Publish` (72),
  `StoreRootId` (73-77). `PublishFails` is a broker error, or the API's death, between
  commit and publish. A run is identified with the request that inserted it. `libraryEmpty`
  starts true and the first import ends it; nothing deletes papers.
- `queue[q][s]` counts messages for stage `s` of run `q` that no slot has started. A slot
  starts a message with `Take`, which acknowledges it (Celery's default). `Redeliver` is the
  Redis transport restoring a message that was reserved behind a busy slot longer than the
  visibility timeout.
- `slot[w]` goes through `PipelineTask.run`: `Load` (57-62), `Begin` (64-68), the stage body
  (`Succeed`, or `Raise` with the rollback and reload of 73-75), `RecordFailure` (76-81),
  `Complete` (85-89), and `Dispatch`, which is Celery publishing the next task when one
  returns. `seen` is the row as the session loaded it: a commit writes back only attributes
  that differ from it.
- A FAILED run makes a task return at once, which Celery takes for success, so the chain
  goes on to its end without doing anything.
- `Crash` frees every slot; started tasks are lost, messages are not.
- `ran` is a history variable: the stages whose body has succeeded.

What a stage computes is not in this module.

### LibraryRefresh

- `lock` is the Redis key with, as history, the slot that set it; the code stores no owner.
  `Unlock` deletes it whoever set it.
- `tick[w]` is one invocation: `Start` (SET NX or give up), `Check` (the look for an active
  run, with the retry message), `Select` and `Enrich` (one commit for the chunk:
  `COMMIT_EVERY` is 50, the chunk 25), `EnrichCollides`, `Choose`, `EmbedNext` (a commit for
  each 16 rows), `EmbedDone`, `Unlock`, `Decide`.
- `TickRaises` is an exception of a query, a model load or an encode: `finally` deletes the
  lock and nothing is rescheduled. `Crash` kills all ticks and leaves lock and messages.
  `ExpireAbandoned` and `ExpireHeld` end the TTL.
- A row in `Poison` is one whose provider result carries another row's DOI or EID.
- `inFlight` abstracts `AnalysisRuns`: some run is PENDING or RUNNING.

### LibraryRows

- A file lists a paper not at all, without or with an abstract, or (`late`) first without
  and further down with one. The second of two rows is then a duplicate whose id none of the
  importer's maps has, so a new paper is inserted without the abstract.
- Abstracts are identified with their source: the import that wrote them or a provider text.
  `hash` is the abstract that was hashed.
- `Flush` is SQLAlchemy's unit of work: an attribute is written when it differs from the
  value loaded. This is what loses updates: setting `content_hash` to None on a row loaded
  with None writes nothing.
- `import` is the open import (snapshot of existing rows, rows got by `session.get`);
  `tick[t]` a tick with the rows it loaded. `TickEnrich` chooses any outcome for each row;
  the provider chain's order does not matter for the properties.
- `staleWrite` is a history variable: some commit wrote this row although it had changed
  since it was loaded.

### DraftReview

- `rec` is `citation_recommendations`, `accepted` is `accepted_citations`, of one draft; row
  ids tell a row from the one that replaced it. Only what is committed is in the tables;
  what a transaction has written is in `tx[q]`, and is locked.
- A decision is a handler `q` with one action per statement: `Load` (`_get_recommendation`),
  `FlushDecision` (the UPDATE that the next query flushes, only if the decision differs from
  the one loaded), `FindCitation`, `ChangeCitation` (INSERT or DELETE), `Recompute`
  (`_recompute_accepted_citation_texts`), `WriteText` (one UPDATE each, in the order of
  their keys), `Commit`. `Refuse` is a 404, or a 500 with its rollback.
- `WaitsFor` says whose lock the next statement needs; `Deadlocked` finds the circles, of
  which PostgreSQL aborts a member (`AbortDeadlocked`, `StageFails`). Row locks, unique
  index, foreign keys and cascades are PostgreSQL's and marked external.
- `DetectDelete`, `DetectCascade` and `DetectCommit` are the deletion and the commit of
  `detect_and_store_claims`, minutes apart; `RecommendDelete` and `RecommendCommit` those of
  `recommend_for_draft`, which may run twice when its message is delivered twice.
- `RecommendDelete` takes all its row locks in one step, where PostgreSQL takes them row by
  row. The circles that a half-done DELETE can close with a decision are left out; whichever
  member is aborted there has committed nothing.
- `stale` and `textsStale` are history variables, the exceptions of section 3. `textsStale`
  is set by `Missed`, not by overlap: two decisions may run statement by statement beside
  each other, and the later one still owes the right texts if it computed them after the
  other's commit.

### AnalysisStages with LLMClient, ClaimDetection, Recommendation, Scoring, SdgClassification

- A call of a stage is a job. `job[j].pc` follows `complete_structured`: `ready`, `paced`
  (`_reserve_slot` gave it a start; it sleeps outside the lock), `sent`, `backoff`,
  `gemini`, and `ok` or `failed`. `nextIn` is how far `_next_request_at` lies ahead; `Tick`
  lets time pass, and a thread may be slower than its sleep. `MaxFaults` bounds answers that
  are not valid and low-quota warnings.
- `stage.calls` are the calls of the stage at work: batches of sentences, plans of claims,
  the goal and the keyword. `BeginCall` takes them in order of submission while a thread of
  the pool is free; `Cancel` is the first failure in that order, after which what has not
  begun never does; `Fail` follows once the pool is left.
- What an answer says is chosen when the stage reads it, from `Answers` and `Judgements`:
  complete, out of order, missing, repeated and foreign indices. A decision and a verdict
  carry, as history, the sentence and the reference the model was shown.
- The operators translate the services function by function and keep their names
  (`ClassifyBatch`, `ApplyVerification`, `LabelFor`, `Match`). Similarities, BM25 and
  cross-encoder scores, keyword tokens and found patterns are constants of the instance, in
  integers; the percentage is in tenths and rounded as the code rounds it, halves up.
  `Indexed` are the papers embedded when the process built its BM25 index; one embedded
  since counts as the lowest of the candidates.
- `AbstractArrives` is enrichment, beside every stage.

### DraftExport with DraftParsing and CitationFormatting

- A file is paragraphs of runs of characters. `tracked` says where a run stands: in the
  paragraph or a link, in a tracked insertion or deletion, or `nested`, which is a content
  control, a simple field, a smart tag, a text box or moved text. `Elements` are characters
  of their own in a run: tab, break, end of a page, no-break hyphen, positioned tab. A merged
  cell occurs once per column.
- The code reads a paragraph in two ways, and so does the model. The parser stores
  python-docx's `paragraph.text` (`ParagraphText`): no insertions, nothing nested, elements
  where they stand, hyphens as dashes, ends of pages as nothing. The export reads `.//w:r`
  (`ParaText`): everything but deletions, and of each run the text, then the tabs, then the
  breaks (`RunText`), hyphens and positioned tabs as nothing. A run that holds a text box has
  no text of its own in the model, and a text box is read once.
- `ParseFile` gives what `parse_file` and `segment` give: blocks, sentences and their
  offsets into `raw`. A sentence is stripped and found again from where spaCy says it begins
  (`Anchor`).
- `parsed`, `claims` and `accepted` are the tables the bundle is read from, in three queries
  (`StartExport`, `ReadClaims`, `ReadAccepted`) with `Accept`, `Edit`, `Reparse` and
  `Redetect` between.
- `OpenDocx`, `ResolveParagraph` (all points of a paragraph before any insertion in it),
  `InsertNext`, `NextParagraph` and `FinishDocx` are `write_docx`; `WriteMarkdown` and
  `WriteTable` the other formats. An inserted citation is a run of its own with the claim's
  number, tracked, direct or a placeholder as the mode says.
- Papers and files are constants; `PaperAssumption`, `FilesAssumption` and
  `NamesAssumption` say of what shape the parser and the importer deliver them (a name
  has at least one token, a chunk of text at least one line), and TLC evaluates them on the
  instance.
- `CitationFormatting` keeps of a citation the parts that tell two of them apart: authors as
  shown, year, letter, number. A token of a name carries the initials that the code's
  `[A-Za-z]` finds in it, which are not always its first letter, and is a group of initials
  only where the code's unaccented pattern says so. Names without a blank between two tokens
  ("J.Smith") and a comma at either end are left out.

## 3. Runs

| Run | Instance | Shows |
|---|---|---|
| `runs_faults` | 2 requests, 1 draft, 2 slots, one each of crash, failed publish, redelivery | `TypeOK`, `ActiveRunHasExecutor`, `CompletedRanAllStages`, `OneExecutorPerRun`, `EveryRunSettles` |
| `runs_lifecycle` | 3 requests, 2 drafts, crash and failed publish, no redelivery | `ImplementsRunLifecycle` |
| `runs_race` | 2 requests, no fault | violates `OneActiveRunPerDraft` |
| `runs_stuck` | 2 requests, one crash | violates `RefusedOnlyWhileAlive` |
| `library_refresh` | 2 slots, 2 rows (one colliding), chunk 1, a fault and an expiry | `TypeOK`, `TicksAloneWithinTTL`, `FetchedOnce`, `LockIsReleased`, `BacklogDrains` |
| `library_refresh_overlap` | 2 slots, an expiry | violates `TicksNeverOverlap` |
| `library_refresh_poison` | the older row collides | violates `BacklogAlwaysDrains` |
| `library_rows` | 2 papers, 2 ticks, 2 provider texts, 2 imports | `TypeOK`, `StatusTellsAbstract`, `HashIsCurrentUnlessStaleWrite`, `DatasetAbstractKept` |
| `library_rows_stale` | 1 paper, 1 tick, 2 imports | violates `HashIsCurrent` |
| `review` | 2 decisions, 3 recommendations of 2 papers, 1 further detection, 1 further recommendation stage | `TypeOK`, `CitedIffAccepted`, `TextsAgree` |
| `stages` | a draft of 5 sentences, 3 references, 3 goals, 2 threads, 2 calls, 2 attempts, 2 faults; chains of up to 3 stages | `TypeOK` and the eleven properties of `AnalysisStages` |
| `document` | 8 drafts of three formats, two of them edited, 2 papers, 2 acceptances, all styles and modes | `TypeOK` and the eight properties of `DraftExport` |

Why these bounds are enough. The properties of runs speak of one run or of two runs of one
draft, so two requests give every interleaving of a check with an insert, and two slots are
what the deployment has; a third request and a second draft appear in `runs_lifecycle`. One
fault of each kind suffices to reach every recovery path, and what depends on the absence of
faults is guarded by their counters. In `LibraryRefresh` two rows with chunk 1 make a
backlog longer than a chunk and put the colliding row in front of or behind another; two
slots are the most that can contend. In `LibraryRows` two imports suffice for a backfill
after an insert, and two ticks for two sessions holding copies of different age. In `review`
two decisions meet in every pair of statements; two of the three recommendations are of one
paper, and both papers have one author and year, so that accepting one changes the text of
others; one detection and one recommendation stage begin after any statement. In `stages`
the draft has a sentence twice, one with a citation, one of the abstract, one before the
body and strong and weak ones, so that with batches of two every kind of index error falls
on a neighbour; three references with a retrieval limit of three and a verification limit of
two leave one candidate out; two faults and two attempts reach every way through repair,
back-off and fallback. In `document` the drafts hold what offsets can go wrong about:
two sentences in one run, a run that spans two, one sentence twice, leading and hard blanks,
tabs, line breaks, tracked insertions and deletions, a content control, a hyphen and the end
of a page, a merged cell, an empty paragraph, blank chunks, an edited word and a removed
paragraph. Two papers have only two orders of acceptance, and `CitationsIdentify` speaks of
every order: `CitationsStayIdentified` proves it for any number of papers. The invariants
that are proved do not depend on these bounds.

Runs about analyses and reviews do not check for deadlock: requests, stages and exports are
bounded, and when all are answered the system has nothing left to do.

Findings (details and quotes in `PROJECT.json`):

1. two requests for a draft can both be accepted (`runs_race`);
2. a run whose worker died blocks its draft for good (`runs_stuck`);
3. the refresh lock does not keep two ticks apart once a chunk outlives its TTL
   (`library_refresh_overlap`);
4. one row that violates a unique index stops enrichment for the whole library
   (`library_refresh_poison`);
5. an import during a tick can leave a `content_hash` that is not of the row's abstract
   (`library_rows_stale`).

Known exceptions, which the properties name instead of hiding; each was met as a
counterexample to a stronger property:

- `CitedIffAccepted` leaves out `stale` pairs. An accept that loaded ACCEPTED before a
  concurrent reject writes no decision, yet inserts a citation when it no longer finds one:
  the decision is REJECTED and the citation is there (`recommendations.py:343-344` wants the
  acceptance not to survive a change of mind). And a recommendation stage that runs a second
  time replaces the rows of recommendations and leaves their citations.
- `TextsAgree` is about decisions that overlap, with one order of statements excepted: when
  another decision changes the citations after this one has computed the texts, or has loaded
  the citation it decides, and before it commits. Under READ COMMITTED its year letters then
  leave out the other's citation (`recommendations.py:36-40` is about such texts). The next
  decision repairs them.
- `RerunRepeats` is about stages that succeeded. `claim_detection_service.py:286-290` says
  that a rerun after a failed batch is "warm-cached for every sentence that already
  succeeded"; but 455-461 store nothing before every batch of the pool has succeeded, so one
  failing batch loses the paid answers of all the others. In the model too, `DetectCommit`
  alone stores them, and `Fail` leaves the cache as it was. The property also says what the
  cache cannot: of two equal sentences judged differently in one run the first judgement is
  kept, so a rerun shows it for both.
- `SdgIsGrounded` allows a goal's own name as keyword where it heads the goal's group (goals
  5 and 13): the fallback takes the group's first entry, against the comment at
  `sdg_classification_service.py:290-302`.
- `NoFalseSupport` is about the label. `is_recommended` of the shortlist looks at the
  percentage alone (`recommendations.py:214`), so an unverified reference capped to
  "Possible reference" can be marked recommended there.
- `ClaimsAreComplete` does not ask for sentences the model was not heard about; a sentence
  whose index is missing in an answer is not cached either, so a re-run over an unmodified
  draft may call the model again (`claim_detection_service.py:423-428` says it costs
  nothing).
- `PlainParagraphsGetTheirs` is about paragraphs without tracked insertions, nested runs,
  elements in runs, or merged cells. `_para_text` says that it gives the text "exactly as
  `paragraph.text` would report it" but for tracked insertions
  (`draft_parser_service.py:226-229`). It differs also by what stands in content controls,
  simple fields, smart tags and text boxes, by no-break hyphens and positioned tabs, by ends
  of pages, and by the place of tabs and breaks. Such a paragraph is refused with
  POSITION_MISMATCH although nobody has changed it, while the audit table, which compares
  with the stored text, may say INSERTED (`audit.py:1-11` says they never disagree). The
  second look at a merged cell finds the first one's citation.
- `CitationsInPlace` compares blanks and elements only where no run has an element:
  splitting such a run keeps it in both halves.
- `MarkdownAgrees` takes the brackets of placeholder mode, which Markdown has not, for the
  citation in them.
- The verification cache takes whatever verdict the schema admits, SKIPPED among them, which
  `enums.py:66` says is no LLM verdict; `VerdictsOnTheirPair` says only that the model gave
  it for this pair.
- `ListedAsCited` allows an entry nobody cites when an analysis replaces the claims between
  two queries of the bundle. `OneOutcomeEach` says that Markdown gives no outcome where the
  block is gone.
- `CitationsIdentify` claims independence of the order only for papers whose title no other
  has. Members of an author-year group are sorted by title alone, with a stable sort, so a
  preprint and its printed version (both are kept, for their DOIs differ) get "a" and "b" in
  the order they were accepted, although `citation_formatting_service.py:361-362` says that
  the letters do not depend on it. The proof of the unrestricted property failed there.
- `SpellingsAgree` is about an author with a one-word family name whose given name stands
  before or behind it, in full or as initials. The patterns of
  `citation_formatting_service.py:28, 36, 98` know unaccented letters only. Initials behind
  the family name that are accented or hyphenated ("Müller Ö.", "Smith J.-P.") are taken for
  the family name, and those spellings are left out of the property. Where the pattern finds
  other letters in the full given name than in its initials ("Özgür" gives "Z. R.", "Ö." gives
  none; "Jean-Pierre" gives "J. P.", "J." one), the property promises the family name and the
  year letter, not the initials.
- A paper listed twice in one file keeps the abstract of its first row only, if it is new.

## 4. Fairness

`AnalysisRuns!FairSpec` assumes weak fairness of a handler once its request was counted, of
the slots taking some waiting message, and of each slot's task. The code justifies it:
handlers have no unbounded wait, Celery's pool polls, and a stage body ends because every
remote call in it has a timeout (60 s for the LLM, 30-120 s for providers) and a bounded
number of attempts. It says nothing of whether a body succeeds, of users, or of faults. Weak
fairness of `Take` is of "some slot takes some message": the broker keeps no order between
queues that the model could rely on, and with finitely many requests each message is
eventually taken. `EveryRunSettles` is guarded by the absence of crashes and failed
publishes, after which it fails (finding 2).

`LibraryRefresh!FairSpec` assumes Beat's ticks, slots that start messages, ticks that go on,
the TTL of an abandoned lock, and that an analysis in flight ends. The last is what
`EveryRunSettles` shows where no worker crashes.

`AnalysisStages!FairSpec` is weak fairness of `Pool`, the steps of the client and the pool
as one action: something in the pool goes on while anything can, since threads run, sleeps
end, and a request ends by its timeout. It does not say which call. `PoolDrains` then shows
that no order of sleeps, back-offs, repairs and fallbacks keeps the pool of a stage busy for
ever, which is what the fairness of a stage body in `AnalysisRuns` rests on.

## 5. Proofs

All theorems hold for any values of the constants that satisfy the modules' `ASSUME`s, and
for any bounds. What is assumed is what the code relies on too: the null value is not an
element, bounds are naturals, a batch and a number of attempts are positive. Requests, slots,
drafts and papers may be infinitely many where nothing is computed from all of them; the
requests of `DraftReview` are finite, since they number the rows they insert, as are the
references of `Recommendation` (`ReferencesAssumption`), which retrieval sorts, and the goals
of `SdgClassification` (`GoalsAssumption`: goals have keywords, and names that are not
generic words). `AnalysisStages` assumes that every sentence has a text the models score, and
of the models' answers only what the schema enforces: sequences of an integer index and a
Boolean, or a verdict; nothing says that the index is one that was asked for. Scores are any
integers. `DraftExport` assumes the shapes in which parser and importer deliver files and
papers. TLC evaluates each assumption on the instances of section 3.

- `AnalysisRunsProofs`. `TypeCorrect`: `TypeOK` is inductive but for facts on which fields
  are in use. `ActiveRunIsNeverAbandoned` needs `NotAbandoned`: not only has an active run
  an executor, but each executor's program counter promises that it will finish the run or
  hand it on (`WillSettle`); a slot in `begin` that will set RUNNING counts even when
  another execution has meanwhile failed the run. `ChainIsLinear` rests on `Linear`: the
  handler, the messages and the slots hold together at most one token for a run.
  `RunsFollowLifecycle` adds `Agrees`, which ties the row's status and stage to where that
  token is, and maps every step to a step of `RunLifecycle` or a stutter.
  `CompletedMeansAllStages` admits one redelivery, after which a run has up to two tokens
  (`PairAfterRedelivery`), and neither need be where the row says. A token is honest while
  every stage before its own has succeeded. One that loads a run already FAILED returns
  without an error, so Celery goes on to the next task: it is honest no longer. But the
  failure it has seen ended the other token, so it is the last, and as long as it meets
  FAILED it writes no status. Each run is therefore honest or spent (`HonestOrSpent`), and
  only an honest token completes one.
- `LibraryRefreshProofs`. `TicksApart`: until a TTL ends under its holder, the lock names
  the tick at work (`LockNamesWorker`); the property itself is not inductive, since an idle
  lock beside a working tick must be excluded. `PaidOncePerPaper` adds `FetchesAccounted`: a
  row that was fetched and is still PENDING is in the hands of a tick, so the next one,
  which can select only after that tick has left, cannot see it.
- `LibraryRowsProofs`. `StatusAgrees`, `HashStaysCurrent` and the action property
  `DatasetWins` rest on what sessions remember: `ImportSees` (only imports insert rows and
  write file abstracts, so the snapshot of the open import stays right about them) and
  `TickSees` (a row copied with an abstract keeps one). `RowStep` states once what any step
  may do to a row.
- `DraftReviewProofs`. `DecisionsDecideCitations` needs to know what a transaction may rely
  on between its statements: `WroteWhatItSaw` (rows it has written are still the ones it
  loaded, for it holds their locks) and `Undisturbed` (while its decision is written and not
  committed, nobody else changes the pair's citation, except a repeat of a decision it
  overtakes, which `stale` records). The property alone is not inductive: a commit changes
  decision and citation together only because of what the transaction has found before.
  `TextsAreOfTheWholeSet` says the same of the texts: as long as a transaction has missed no
  change of the citations (`Missed`), whoever else has decided meanwhile, what it has read
  is still in the table or was deleted by a detection (`ReadsAgree`), and what it will write
  are the texts of the set after its commit (`WritesAgree`, `CitedAfter`).
  What the texts are plays no part in it, so the theorem holds for any citation style.
- `OrderingProofs`. What sorting, filtering, reversing, slicing and summing a sequence
  return: `OrderedBy` enumerates a finite set under a strict total order, a filter keeps the
  elements and their order, a concatenation has the elements of its parts, the slices of a
  sequence together are the sequence. Recursive functions are reasoned about with
  `SetInduction`, which takes the set of the numbers that satisfy the claim; the library's
  theorems take the claim as an operator, which the provers cannot instantiate.
- `AnalysisStagesProofs` begins with the stages' functions: a batch is of the draft's sentences,
  an answer is stored for the sentence, or the pair, that its index names or for nothing, the
  slices of the reranker's scores go back to the pairs they are of, a label follows from
  verdict and abstract, the shortlist is the best of what was ranked, and a goal's keyword is
  of its own group. `ClientInv` adds to the client's type an account of what each
  program counter has paid for (`Paid`), from which `CallsAreBounded` follows, and that every
  start booked leaves its spacing before the next free one (`Booked`), from which
  `StartsAreApart` follows when a thread books another. Both survive warnings, which only
  move the schedule on, and time, which moves all of it at once. The other eight theorems
  come from one invariant, `DataInv`: `TablesInv` says of each table that its rows are made of
  what they are about (a decision of an answer to that sentence, a row's verdict of the cache
  for that pair, its scores of that claim), and `StageInv` that what a stage has read and
  planned is still so when the answers come back, in whatever order. `RerunsRepeat` needs
  that no two plans are of one claim and that nothing cached is asked for again: then the
  verdict a plan stores for a text is the one its rows show, unless another claim has that
  text. The eight properties are
  not inductive: a commit is right only if the plan was. `StagesTyped` puts the client's type
  and that of the tables together; `JobsAssumption` says that there is a job for each call a
  stage can make.
- `DraftExportProofs`. `ExportIsKept` is the invariant `ExportKept`: accepted rows are of the
  claims of the present detection (`TablesKept`), a request holds rows and claims that were
  in the tables together or whose detection has been replaced (`RequestKept`), and the list
  of a finished document is the bibliography of the bundle's rows (`DocumentKept`).
  - `CitationsStayIdentified`: members of a group get different letters, since their titles,
    and among equal titles their positions, order them strictly. Another order of acceptance
    permutes the members; the ones before a member whose title no other has are those of the
    smaller titles, in any order, so it keeps its letter.
  - `SpellingsStayOneAuthor`: each of the spellings of a name parses to one family name, and
    to the letters of the token that stands for the given name.
  - `ListsStayAsCited`: the list has each accepted reference once, and a citation matches
    the entry of its own reference and no other (`FindsItsOwn`).
  - `ClaimsHaveOneOutcome` needs `PlacementKept`: while a docx is written, every cited claim
    has its outcome, is resolved or is pending (`Everywhere`), and is so only once (`Once`).
    For Markdown and tables the outcomes come from one function; no two blocks share a
    paragraph number, so none is told twice.
  - `OffsetsStayExact`: what the parser stores of any file. `IsFile` is what python-docx can
    deliver, `FilesAssumption` says that the files of the instance are such, and `IsDraft`
    states for one file what the property states for the tables: each block's slice of `raw`
    is its text (`BlocksExact`), sentences lie in the block of their paragraph, in order and
    apart (`SentencesExact`). Normalising, joining and splitting are recursive functions, so
    each lemma about them is an induction over numbers or sequences.
  - `CitationsStayInPlace` and `ExportStaysTyped` rest on one inductive invariant,
    `ExportKept /\ PlacementKept /\ PlacesKept`. The property alone says nothing while
    points wait to be inserted at. `PlacesKept` says in addition: a claim has a citation in
    the document exactly when it is reported as inserted, once, in the paragraph of its
    sentence and behind it (`ClaimsPlaced`); every point that waits is behind its sentence
    in the words that are in the paragraph now, and the points of a paragraph are in order,
    the last first (`PointsPlaced`); the paragraph's own words are those of the file
    (`ParasKept`). The argument has three parts. (a) `NormalizedWords`: an offset of the
    normalised text and the place `NormalizeWithMap` gives for it divide the same words, so
    what `ResolveIn` finds is behind the sentence (`ResolvingLocates`, `ResolvedAt`), and of
    two sentences the earlier gets no later point (`ResolvedOrder`). (b) An insertion adds
    one run to what a paragraph tells and divides at most one (`PutsTells`); a point no later
    than its own lies where it lay (`AtStays`), which is why the writer goes backwards, and
    a claim cited before stays cited behind the same words, wherever the new run is put
    (`StaysCited`). (c) What a paragraph tells determines the run of the citation and the
    words before it (`CitedStands`), which is what the property reads. What a paragraph tells
    (`Told`) is its characters, each with the claim of its run: no difference is made of how
    runs are split.
  - `ExportsAgree` follows two writers through one paragraph: the docx one, which inserts
    runs at points resolved before it starts, and the Markdown one, which inserts characters
    at offsets of the block. Its invariant `AgreementKept`, beside the one above, says how
    far both are: while a docx is written, a paragraph whose outcomes so far are all
    insertions reads as its block after as many steps of `InsertAll` (`AgreesSoFar`,
    `Upto`); the points that wait are those of the last items of their paragraph, in that
    order (`PointsNext`); and no paragraph that is still pending has an outcome
    (`GroupsNext`). Both sides insert the last sentence first, so what the Markdown writer
    has yet to read is the block's own text (`RestLies`), and each step adds the same mark
    behind the same words (`UptoTells`). That both writers have the same items in the same
    order, although one leaves out claims without a block first, needs that a falling
    sequence is determined by its members (`SameFall`, `SameGroup`).
- `DraftFunctionsProofs` has the lemmas on the functions an export is made of, those of
  `DraftParsing` and of `CitationFormatting`. On texts: `SequenceInduction`, what mapping
  each character to a sequence makes of a text (`Mapped`), normalisation with its map, and
  how a sequence is divided in two; `Joined` is concatenation kept folded, since the provers
  otherwise take `\o` apart. On citations: the order of words and of keys, year letters, and
  when a citation matches an entry (`MatchesTheSame`).

Model-checked only:

- liveness (`EveryRunSettles`, `LockIsReleased`, `BacklogDrains`, `PoolDrains`) and
  `ENABLED`, which the prover does not handle;
- `PlainParagraphsGetTheirs`: it says that resolution succeeds, while the invariants above
  say what is so when it does. It would need that normalising the live text of an untouched
  paragraph again gives the block, character by character, and not its words alone.

`PlacesKept` and `AgreementKept` quantify over all sequences, so TLC cannot evaluate them;
TLC checks the properties that follow from them on the instance of section 3.

The library's induction theorems cannot be used, as said above; the inductions here are over
numbers, and over sequences through them. No module declares a RECURSIVE operator.

## 6. Not modelled

Postgres and Redis outages other than the ones named (a commit of `RecordFailure` that fails
leaves the same state as a crash); the ETA of delayed messages; metadata of papers other
than the abstract; the components marked `not_modelled` in `PROJECT.json`. Beat's messages
are capped by `MaxMessages`, the deferred retries are not. Third-party code (spaCy,
python-docx, pandas, the embedding and reranking models, PostgreSQL, Celery) is modelled as
far as `app/` relies on it, or by its results as constants. Regular expressions are
abstracted to what they find; the wording of prompts, warnings and tables is left out. The
enrichment providers are HTTP clients whose outcome per paper is nondeterministic in
`LibraryRows`; their caches and the switch that disables Scopus decide only how often they
are asked. Progress reporting, paragraph rewriting and the other read endpoints change
nothing. The admin session keeps keys in Redis that no other component reads.

## 7. Plan

Left, in this order:

1. Proof of `PlainParagraphsGetTheirs` of `DraftExport`, from the lemmas on texts that are
   there.
2. Composition of `AnalysisRuns` with `LibraryRefresh` through `inFlight`.
3. Provider state (Scopus switch and prefetch).
4. Identity of a paper by DOI, EID and title in the importer, row by row.
