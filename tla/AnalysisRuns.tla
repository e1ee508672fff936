---------------------------- MODULE AnalysisRuns ----------------------------
(***************************************************************************)
(* One draft's analysis, from POST /analysis/run to the end of the chain   *)
(* parse -> classify -> detect -> recommend:                               *)
(*   - the HTTP handler, one action per database or broker call, since     *)
(*     other handlers and the worker run between its awaits;               *)
(*   - the Redis broker, which hands a message to a slot and acknowledges  *)
(*     it as the slot starts on it, and may deliver again one it reserved  *)
(*     but has not started;                                                *)
(*   - the worker's slots (threads of one process) executing                *)
(*     PipelineTask.run, one action per transaction or broker call;        *)
(*   - a crash of the worker process, which takes every started task.      *)
(* What a stage computes is left out: its body ends, or raises.  A run has *)
(* the identity of the request that inserted it.                           *)
(***************************************************************************)
EXTENDS Naturals

CONSTANTS
  Requests,            \* POST /analysis/run calls, and the runs they insert
  Drafts,
  Slots,               \* threads of the worker (--concurrency=2)
  None,                \* no draft, no request
  MaxCrashes,          \* bound: worker crashes
  MaxPublishFailures,  \* bound: handlers that die or fail before publishing
  MaxRedeliveries      \* bound: messages the broker delivers a second time

ASSUME NoneAssumption == None \notin Requests /\ None \notin Drafts
ASSUME BoundsAssumption ==
  MaxCrashes \in Nat /\ MaxPublishFailures \in Nat /\ MaxRedeliveries \in Nat

VARIABLES
  libraryEmpty,   \* no reference_papers row exists
  handler,        \* request -> progress of its handler, and the draft it is for
  run,            \* the analysis_runs table: request -> row
  queue,          \* broker: request -> stage -> messages not yet started
  slot,           \* worker: slot -> the task it executes
  ran,            \* history: request -> stages whose body has succeeded for it
  crashes, publishFailures, redeliveries

vars == <<libraryEmpty, handler, run, queue, slot, ran,
          crashes, publishFailures, redeliveries>>

faults == <<crashes, publishFailures, redeliveries>>

-----------------------------------------------------------------------------
LastStage == 4
Stage == 1 .. LastStage   \* PARSING, CLASSIFYING, DETECTING, RECOMMENDING

Status == {"NONE", "PENDING", "RUNNING", "COMPLETED", "FAILED"}

NoRow == [status |-> "NONE", stage |-> 0, error |-> 0]

(* The row a task holds in its SQLAlchemy session; only attributes that     *)
(* differ from it are written back by a commit.                             *)
Row == [status : Status, stage : 0 .. LastStage, error : 0 .. LastStage]

HandlerPC == {"idle", "counted", "clear", "inserted", "published",
              "202", "400", "409", "500"}

Handler == [pc : HandlerPC, draft : Drafts \cup {None}]

SlotPC == {"idle", "load", "begin", "body", "finish", "failing", "done"}

Task == [pc : SlotPC, run : Requests \cup {None}, stage : 0 .. LastStage, seen : Row]

Idle == [pc |-> "idle", run |-> None, stage |-> 0, seen |-> NoRow]

Active(r) == run[r].status \in {"PENDING", "RUNNING"}

ActiveRunsOf(d) == {r \in Requests : handler[r].draft = d /\ Active(r)}

Init ==
  /\ libraryEmpty = TRUE
  /\ handler = [q \in Requests |-> [pc |-> "idle", draft |-> None]]
  /\ run = [q \in Requests |-> NoRow]
  /\ queue = [q \in Requests |-> [s \in Stage |-> 0]]
  /\ slot = [w \in Slots |-> Idle]
  /\ ran = [q \in Requests |-> {}]
  /\ crashes = 0 /\ publishFailures = 0 /\ redeliveries = 0

-----------------------------------------------------------------------------
(* Plausible bugs of the actions below, one body away from the code: the    *)
(* mutants that show the properties can fail.                               *)

(* The chain is built without classify_sdg.                                 *)
DispatchSkipsAStage(w) ==
  /\ slot[w].pc = "done"
  /\ LET next == IF slot[w].stage = 1 THEN 3 ELSE slot[w].stage + 1 IN
       queue' = IF next > LastStage THEN queue
                ELSE [queue EXCEPT ![slot[w].run][next] = @ + 1]
  /\ slot' = [slot EXCEPT ![w] = Idle]
  /\ UNCHANGED <<libraryEmpty, handler, run, ran, faults>>

(* The stage is advanced twice.                                             *)
BeginNextStage(w) ==
  LET q == slot[w].run IN
  /\ slot[w].pc = "begin"
  /\ run' = [run EXCEPT ![q].status = "RUNNING", ![q].stage = slot[w].stage + 1]
  /\ slot' = [slot EXCEPT ![w].pc = "body", ![w].seen = NoRow]
  /\ UNCHANGED <<libraryEmpty, handler, queue, ran, faults>>

(* The failure is logged and re-raised but its status is not committed.     *)
FailureNotCommitted(w) ==
  /\ slot[w].pc = "failing"
  /\ slot' = [slot EXCEPT ![w] = Idle]
  /\ UNCHANGED <<libraryEmpty, handler, run, queue, ran, faults>>

(* The `if stage == RECOMMENDING` around COMPLETED is lost.                 *)
SucceedAlwaysFinishes(w) ==
  /\ slot[w].pc = "body"
  /\ ran' = [ran EXCEPT ![slot[w].run] = @ \cup {slot[w].stage}]
  /\ slot' = [slot EXCEPT ![w].pc = "finish"]
  /\ UNCHANGED <<libraryEmpty, handler, run, queue, faults>>

(* The handler publishes every stage itself instead of a chain.             *)
PublishAllStages(q) ==
  /\ handler[q].pc = "inserted"
  /\ handler' = [handler EXCEPT ![q].pc = "published"]
  /\ queue' = [queue EXCEPT ![q] = [s \in Stage |-> 1]]
  /\ UNCHANGED <<libraryEmpty, run, slot, ran, faults>>

-----------------------------------------------------------------------------
(* The handler of POST /drafts/{draft_id}/analysis/run.                     *)

ImportDataset ==
  /\ libraryEmpty
  /\ libraryEmpty' = FALSE
  /\ UNCHANGED <<handler, run, queue, slot, ran, faults>>

(* Count the rows of reference_papers; 400 when the library is empty.       *)
CountReferences(q) ==
  /\ handler[q].pc = "idle"
  /\ \E d \in Drafts :
       handler' = [handler EXCEPT ![q] =
         [pc |-> IF libraryEmpty THEN "400" ELSE "counted", draft |-> d]]
  /\ UNCHANGED <<libraryEmpty, run, queue, slot, ran, faults>>

(* SELECT the PENDING or RUNNING runs of the draft; 409 when there is one.  *)
CheckActive(q) ==
  /\ handler[q].pc = "counted"
  /\ handler' = [handler EXCEPT ![q].pc =
       IF ActiveRunsOf(handler[q].draft) # {} THEN "409" ELSE "clear"]
  /\ UNCHANGED <<libraryEmpty, run, queue, slot, ran, faults>>

InsertRun(q) ==
  /\ handler[q].pc = "clear"
  /\ handler' = [handler EXCEPT ![q].pc = "inserted"]
  /\ run' = [run EXCEPT ![q] = [status |-> "PENDING", stage |-> 0, error |-> 0]]
  /\ UNCHANGED <<libraryEmpty, queue, slot, ran, faults>>

Publish(q) ==
  /\ handler[q].pc = "inserted"
  /\ handler' = [handler EXCEPT ![q].pc = "published"]
  /\ queue' = [queue EXCEPT ![q][1] = @ + 1]
  /\ UNCHANGED <<libraryEmpty, run, slot, ran, faults>>

(* apply_async raises, or the API process dies, after the row is committed. *)
PublishFails(q) ==
  /\ handler[q].pc = "inserted"
  /\ publishFailures < MaxPublishFailures
  /\ publishFailures' = publishFailures + 1
  /\ handler' = [handler EXCEPT ![q].pc = "500"]
  /\ UNCHANGED <<libraryEmpty, run, queue, slot, ran, crashes, redeliveries>>

(* Commit celery_root_id and answer 202.                                    *)
StoreRootId(q) ==
  /\ handler[q].pc = "published"
  /\ handler' = [handler EXCEPT ![q].pc = "202"]
  /\ UNCHANGED <<libraryEmpty, run, queue, slot, ran, faults>>

-----------------------------------------------------------------------------
(* The broker and the worker's slots.                                       *)

(* A free slot starts a message; it is acknowledged at that moment.         *)
Take(w, q, s) ==
  /\ slot[w].pc = "idle"
  /\ queue[q][s] > 0
  /\ queue' = [queue EXCEPT ![q][s] = @ - 1]
  /\ slot' = [slot EXCEPT ![w] =
       [pc |-> "load", run |-> q, stage |-> s, seen |-> NoRow]]
  /\ UNCHANGED <<libraryEmpty, handler, run, ran, faults>>

(* A message reserved behind a busy slot outlives the visibility timeout:   *)
(* the broker restores it while the reserved copy is still to be executed.  *)
Redeliver(q, s) ==
  /\ queue[q][s] > 0
  /\ redeliveries < MaxRedeliveries
  /\ redeliveries' = redeliveries + 1
  /\ queue' = [queue EXCEPT ![q][s] = @ + 1]
  /\ UNCHANGED <<libraryEmpty, handler, run, slot, ran, crashes, publishFailures>>

(* session.get(AnalysisRun); a FAILED run makes the task return at once,    *)
(* which the chain takes for success.                                       *)
Load(w) ==
  /\ slot[w].pc = "load"
  /\ slot' = [slot EXCEPT
       ![w].pc = IF run[slot[w].run].status = "FAILED" THEN "done" ELSE "begin",
       ![w].seen = run[slot[w].run]]
  /\ UNCHANGED <<libraryEmpty, handler, run, queue, ran, faults>>

(* Set RUNNING and the stage, commit.                                       *)
Begin(w) ==
  LET q == slot[w].run
      seen == slot[w].seen
  IN
  /\ slot[w].pc = "begin"
  /\ run' = [run EXCEPT
       ![q].status = IF seen.status = "RUNNING" THEN @ ELSE "RUNNING",
       ![q].stage = IF seen.stage = slot[w].stage THEN @ ELSE slot[w].stage]
  /\ slot' = [slot EXCEPT ![w].pc = "body", ![w].seen = NoRow]
  /\ UNCHANGED <<libraryEmpty, handler, queue, ran, faults>>

(* run_stage returns, its own transaction committed.                        *)
Succeed(w) ==
  /\ slot[w].pc = "body"
  /\ ran' = [ran EXCEPT ![slot[w].run] = @ \cup {slot[w].stage}]
  /\ slot' = [slot EXCEPT ![w].pc =
       IF slot[w].stage = LastStage THEN "finish" ELSE "done"]
  /\ UNCHANGED <<libraryEmpty, handler, run, queue, faults>>

(* The last stage's task sets COMPLETED on the object it loaded in Load and *)
(* made RUNNING in Begin (expire_on_commit=False: no re-read), and commits. *)
Complete(w) ==
  /\ slot[w].pc = "finish"
  /\ run' = [run EXCEPT ![slot[w].run].status = "COMPLETED"]
  /\ slot' = [slot EXCEPT ![w].pc = "done"]
  /\ UNCHANGED <<libraryEmpty, handler, queue, ran, faults>>

(* run_stage raises: roll back and reload the row.                          *)
Raise(w) ==
  /\ slot[w].pc = "body"
  /\ slot' = [slot EXCEPT ![w].pc = "failing", ![w].seen = run[slot[w].run]]
  /\ UNCHANGED <<libraryEmpty, handler, run, queue, ran, faults>>

(* Record the failure, commit and re-raise: Celery drops the chain's rest.  *)
RecordFailure(w) ==
  LET q == slot[w].run IN
  /\ slot[w].pc = "failing"
  /\ run' = [run EXCEPT
       ![q].status = IF slot[w].seen.status = "FAILED" THEN @ ELSE "FAILED",
       ![q].error = slot[w].stage]
  /\ slot' = [slot EXCEPT ![w] = Idle]
  /\ UNCHANGED <<libraryEmpty, handler, queue, ran, faults>>

(* The task returned: Celery publishes the next task of the chain.          *)
Dispatch(w) ==
  /\ slot[w].pc = "done"
  /\ queue' = IF slot[w].stage = LastStage THEN queue
              ELSE [queue EXCEPT ![slot[w].run][slot[w].stage + 1] = @ + 1]
  /\ slot' = [slot EXCEPT ![w] = Idle]
  /\ UNCHANGED <<libraryEmpty, handler, run, ran, faults>>

(* The worker process dies; started tasks are acknowledged, hence lost,     *)
(* while messages only queued or reserved come back when it restarts.       *)
Crash ==
  /\ crashes < MaxCrashes
  /\ \E w \in Slots : slot[w].pc # "idle"
  /\ crashes' = crashes + 1
  /\ slot' = [w \in Slots |-> Idle]
  /\ UNCHANGED <<libraryEmpty, handler, run, queue, ran, publishFailures, redeliveries>>

-----------------------------------------------------------------------------
HandlerStep(q) ==
  CheckActive(q) \/ InsertRun(q) \/ Publish(q) \/ StoreRootId(q)

TaskStep(w) ==
  \/ Load(w) \/ Begin(w) \/ Succeed(w) \/ Complete(w)
  \/ Raise(w) \/ RecordFailure(w) \/ Dispatch(w)

StartTask == \E w \in Slots, q \in Requests, s \in Stage : Take(w, q, s)

Next ==
  \/ ImportDataset
  \/ \E q \in Requests : CountReferences(q) \/ HandlerStep(q) \/ PublishFails(q)
  \/ StartTask
  \/ \E q \in Requests, s \in Stage : Redeliver(q, s)
  \/ \E w \in Slots : TaskStep(w)
  \/ Crash

Spec == Init /\ [][Next]_vars

(* A request once received is served to its end, a free slot takes waiting  *)
(* messages, and a stage body ends: every remote call in it has a timeout   *)
(* and a bounded number of retries.  Nothing is assumed of users, of the    *)
(* faults, or of whether a body succeeds.                                   *)
Fairness ==
  /\ \A q \in Requests : WF_vars(HandlerStep(q))
  /\ WF_vars(StartTask)
  /\ \A w \in Slots : WF_vars(TaskStep(w))

FairSpec == Spec /\ Fairness

-----------------------------------------------------------------------------
(* Properties.                                                              *)

(* Type correctness of the tables, the broker and the worker.               *)
TypeOK ==
  /\ libraryEmpty \in BOOLEAN
  /\ handler \in [Requests -> Handler]
  /\ run \in [Requests -> Row]
  /\ queue \in [Requests -> [Stage -> Nat]]
  /\ slot \in [Slots -> Task]
  /\ \A w \in Slots :
       slot[w].pc # "idle" => slot[w].run \in Requests /\ slot[w].stage \in Stage
  /\ ran \in [Requests -> SUBSET Stage]
  /\ crashes \in Nat /\ publishFailures \in Nat /\ redeliveries \in Nat

(* Something will still move run q: its handler is about to publish it, a   *)
(* message for it waits, or a slot executes a task of it.                   *)
HasExecutor(q) ==
  \/ handler[q].pc = "inserted"
  \/ \E s \in Stage : queue[q][s] > 0
  \/ \E w \in Slots : slot[w].run = q

(* Unless a worker crashed or a handler failed to publish, a run shown as   *)
(* PENDING or RUNNING is never abandoned, whatever the broker delivers      *)
(* twice: PipelineTask.run's exits (base.py:60-91) all leave either a       *)
(* finished row or a successor.                                             *)
ActiveRunHasExecutor ==
  crashes = 0 /\ publishFailures = 0 =>
    \A q \in Requests : Active(q) => HasExecutor(q)

(* A run is reported COMPLETED only after each of the four stage bodies has *)
(* succeeded for it, even when one message is executed twice and one of the *)
(* two executions fails (the FAILED guard of base.py:60-62 lets the other   *)
(* pass through the chain without doing any stage).                         *)
CompletedRanAllStages ==
  redeliveries <= 1 =>
    \A q \in Requests : run[q].status = "COMPLETED" => ran[q] = Stage

(* Without a second delivery no two tasks of one run ever execute at the    *)
(* same time, and none executes while another waits: the chain is linear.   *)
OneExecutorPerRun ==
  redeliveries = 0 =>
    \A q \in Requests :
      /\ \A v, w \in Slots : slot[v].run = q /\ slot[w].run = q => v = w
      /\ \A w \in Slots, s \in Stage : slot[w].run = q => queue[q][s] = 0

(* Every run a handler inserted is at last COMPLETED or FAILED, and stays   *)
(* finished, in a behaviour in which no worker crashes and no publish fails *)
(* (second deliveries and failing stages are allowed): the draft does not   *)
(* answer 409 for ever.                                                     *)
EveryRunSettles ==
  [](crashes = 0 /\ publishFailures = 0) => \A q \in Requests : <>[](~ Active(q))

(* Implementation of the abstract run: with one delivery per message the    *)
(* rows go through the stages in order and end as RunLifecycle says.        *)
Lifecycle == INSTANCE RunLifecycle WITH Runs <- Requests
ImplementsRunLifecycle == Lifecycle!Spec

(* The 409 of analysis.py:62-65 promises one active run for a draft; the    *)
(* check and the insert are separate statements with no constraint behind   *)
(* them, so this does not hold.                                             *)
OneActiveRunPerDraft ==
  \A d \in Drafts : \A q, r \in ActiveRunsOf(d) : q = r

(* base.py:5-6 says a run is resumable by simply starting a new one: a new  *)
(* run may be refused only while the run in its way is still being moved.   *)
RefusedOnlyWhileAlive ==
  [][\A q \in Requests :
      handler[q].pc # "409" /\ handler'[q].pc = "409" =>
        \E r \in ActiveRunsOf(handler[q].draft) : HasExecutor(r)]_vars

=============================================================================
