-------------------------- MODULE AnalysisRunsProofs --------------------------
(***************************************************************************)
(* What holds of AnalysisRuns for any number of requests, drafts, slots    *)
(* and faults: type correctness, that no active run is abandoned without a *)
(* fault, that one delivery per message means one executor per run and     *)
(* that the run table then implements RunLifecycle, and that a run shown   *)
(* as COMPLETED ran all its stages although one message came twice.        *)
(***************************************************************************)
EXTENDS AnalysisRuns, TLAPS

(***************************************************************************)
(* ActiveRunHasExecutor is not inductive: a task that saw FAILED in Raise  *)
(* will not write a status, and must not count as the one that keeps an    *)
(* active run alive.  WillSettle leaves it out.                            *)
(***************************************************************************)
Settling(w, q) ==
  /\ slot[w].run = q
  /\ slot[w].pc # "idle"
  /\ slot[w].pc = "failing" => slot[w].seen.status # "FAILED"
  /\ slot[w].pc = "done" => slot[w].stage < LastStage

WillSettle(q) ==
  \/ handler[q].pc = "inserted"
  \/ \E s \in Stage : queue[q][s] > 0
  \/ \E w \in Slots : Settling(w, q)

NotAbandoned ==
  crashes = 0 /\ publishFailures = 0 =>
    \A q \in Requests : Active(q) => WillSettle(q)

(***************************************************************************)
(* With one delivery per message, run q's handler, its waiting message and *)
(* its executing task exclude each other, and the row is the one that the  *)
(* holder expects to find.                                                 *)
(***************************************************************************)
Before(s) == [status |-> IF s = 1 THEN "PENDING" ELSE "RUNNING",
              stage |-> s - 1, error |-> 0]
During(s) == [status |-> "RUNNING", stage |-> s, error |-> 0]

Unpublished(q) ==
  (\A s \in Stage : queue[q][s] = 0) /\ (\A w \in Slots : slot[w].run # q)

HandlerAgrees(q) ==
  /\ handler[q].pc \in {"idle", "counted", "clear", "400", "409"}
       => run[q] = NoRow /\ Unpublished(q)
  /\ handler[q].pc \in {"inserted", "500"} => run[q] = Before(1) /\ Unpublished(q)

MessageAgrees(q) ==
  \A s \in Stage : queue[q][s] > 0 =>
    /\ queue[q][s] = 1
    /\ \A t \in Stage : queue[q][t] > 0 => t = s
    /\ \A w \in Slots : slot[w].run # q
    /\ run[q] = Before(s)

TaskAgrees(w, q) ==
  LET s == slot[w].stage IN
  /\ \A v \in Slots : slot[v].run = q => v = w
  /\ slot[w].pc = "load" => run[q] = Before(s)
  /\ slot[w].pc = "begin" => run[q] = Before(s) /\ slot[w].seen = Before(s)
  /\ slot[w].pc = "body" => run[q] = During(s)
  /\ slot[w].pc = "finish" => run[q] = During(s) /\ s = LastStage
  /\ slot[w].pc = "failing" => run[q] = During(s) /\ slot[w].seen = During(s)
  /\ slot[w].pc = "done" /\ s < LastStage => run[q] = During(s)

Agrees(q) ==
  /\ HandlerAgrees(q)
  /\ MessageAgrees(q)
  /\ \A w \in Slots : slot[w].run = q => TaskAgrees(w, q)

IdleSlotsHoldNothing == \A w \in Slots : slot[w].pc = "idle" => slot[w].run = None

Linear == redeliveries = 0 => \A q \in Requests : Agrees(q)

-----------------------------------------------------------------------------
(* Type correctness: TypeOK of AnalysisRuns for every value of the          *)
(* constants.                                                               *)

LEMMA HandlerUpdate ==
  ASSUME NEW h \in Handler, NEW pc \in HandlerPC
  PROVE  [h EXCEPT !.pc = pc] \in Handler
  BY DEF Handler

LEMMA RowUpdate ==
  ASSUME NEW r \in Row, NEW st \in Status, NEW n \in 0 .. LastStage
  PROVE  /\ [r EXCEPT !.status = st] \in Row
         /\ [r EXCEPT !.status = st, !.stage = n] \in Row
         /\ [r EXCEPT !.status = st, !.error = n] \in Row
  BY DEF Row

LEMMA TaskUpdate ==
  ASSUME NEW t \in Task, NEW pc \in SlotPC, NEW row \in Row
  PROVE  /\ [t EXCEPT !.pc = pc] \in Task
         /\ [t EXCEPT !.pc = pc, !.seen = row] \in Task
  BY DEF Task

LEMMA IdleTask == Idle \in Task /\ Idle.pc = "idle" /\ Idle.run = None /\ NoRow \in Row
  BY DEF Idle, NoRow, Task, Row, Status, SlotPC, LastStage

LEMMA InitTypeOK == Init => TypeOK
  BY DEF Init, TypeOK, Row, Status, NoRow, Idle, Handler, Task, HandlerPC, SlotPC,
     Stage, LastStage

LEMMA NextTypeOK == TypeOK /\ [Next]_vars => TypeOK'
<1> SUFFICES ASSUME TypeOK, [Next]_vars PROVE TypeOK'
  OBVIOUS
<1> USE DEF TypeOK, faults
<1>1. CASE ImportDataset
  BY <1>1 DEF ImportDataset
<1>2. ASSUME NEW q \in Requests, CountReferences(q) PROVE TypeOK'
  BY <1>2 DEF CountReferences, Handler, HandlerPC
<1>3. ASSUME NEW q \in Requests, CheckActive(q) PROVE TypeOK'
  <2>1. [handler[q] EXCEPT !.pc = "409"] \in Handler
        /\ [handler[q] EXCEPT !.pc = "clear"] \in Handler
    BY HandlerUpdate DEF HandlerPC
  <2>2. handler' \in [Requests -> Handler]
    BY <1>3, <2>1 DEF CheckActive
  <2>3. QED
    BY <1>3, <2>2 DEF CheckActive
<1>4. ASSUME NEW q \in Requests, InsertRun(q) PROVE TypeOK'
  <2>1. [handler[q] EXCEPT !.pc = "inserted"] \in Handler
    BY HandlerUpdate DEF HandlerPC
  <2>2. [status |-> "PENDING", stage |-> 0, error |-> 0] \in Row
    BY DEF Row, Status, LastStage
  <2>3. QED
    BY <1>4, <2>1, <2>2 DEF InsertRun
<1>5. ASSUME NEW q \in Requests, Publish(q) PROVE TypeOK'
  <2>1. [handler[q] EXCEPT !.pc = "published"] \in Handler
    BY HandlerUpdate DEF HandlerPC
  <2>2. handler' \in [Requests -> Handler]
    BY <1>5, <2>1 DEF Publish
  <2>3. queue' \in [Requests -> [Stage -> Nat]]
    BY <1>5 DEF Publish, Stage, LastStage
  <2>4. QED
    BY <1>5, <2>2, <2>3 DEF Publish
<1>6. ASSUME NEW q \in Requests, PublishFails(q) PROVE TypeOK'
  <2>1. [handler[q] EXCEPT !.pc = "500"] \in Handler
    BY HandlerUpdate DEF HandlerPC
  <2>2. QED
    BY <1>6, <2>1 DEF PublishFails
<1>7. ASSUME NEW q \in Requests, StoreRootId(q) PROVE TypeOK'
  <2>1. [handler[q] EXCEPT !.pc = "202"] \in Handler
    BY HandlerUpdate DEF HandlerPC
  <2>2. QED
    BY <1>7, <2>1 DEF StoreRootId
<1>8. ASSUME NEW w \in Slots, NEW q \in Requests, NEW s \in Stage, Take(w, q, s)
      PROVE TypeOK'
  <2>1. [pc |-> "load", run |-> q, stage |-> s, seen |-> NoRow] \in Task
    BY IdleTask DEF Task, SlotPC, Stage, LastStage
  <2>2. queue' \in [Requests -> [Stage -> Nat]]
    BY <1>8 DEF Take, Stage, LastStage
  <2>3. slot' \in [Slots -> Task]
    BY <1>8, <2>1 DEF Take
  <2>4. QED
    BY <1>8, <2>2, <2>3 DEF Take
<1>9. ASSUME NEW q \in Requests, NEW s \in Stage, Redeliver(q, s) PROVE TypeOK'
  BY <1>9 DEF Redeliver
<1>10. ASSUME NEW w \in Slots, Load(w) PROVE TypeOK'
  <2>1. slot[w].run \in Requests /\ slot[w].pc = "load"
    BY <1>10 DEF Load
  <2>2. /\ [slot[w] EXCEPT !.pc = "done", !.seen = run[slot[w].run]] \in Task
        /\ [slot[w] EXCEPT !.pc = "begin", !.seen = run[slot[w].run]] \in Task
    BY <2>1, TaskUpdate DEF SlotPC
  <2>3. slot' \in [Slots -> Task]
    BY <1>10, <2>2 DEF Load
  <2>4. QED
    BY <1>10, <2>1, <2>3 DEF Load, Task
<1>11. ASSUME NEW w \in Slots, Begin(w) PROVE TypeOK'
  <2>1. slot[w].run \in Requests /\ slot[w].stage \in Stage /\ slot[w].pc = "begin"
    BY <1>11 DEF Begin
  <2>2. run' \in [Requests -> Row]
    <3> DEFINE q == slot[w].run
               st == IF slot[w].seen.status = "RUNNING" THEN run[q].status ELSE "RUNNING"
               n == IF slot[w].seen.stage = slot[w].stage THEN run[q].stage
                    ELSE slot[w].stage
    <3>1. st \in Status /\ n \in 0 .. LastStage
      BY <2>1 DEF Row, Status, Stage, LastStage
    <3>2. [run[q] EXCEPT !.status = st, !.stage = n] \in Row
      BY <2>1, <3>1, RowUpdate
    <3>3. run' = [run EXCEPT ![q] = [run[q] EXCEPT !.status = st, !.stage = n]]
      BY <1>11, <2>1 DEF Begin
    <3>4. QED
      BY <2>1, <3>2, <3>3
  <2>3. [slot[w] EXCEPT !.pc = "body", !.seen = NoRow] \in Task
    BY TaskUpdate, IdleTask DEF SlotPC
  <2>4. slot' \in [Slots -> Task]
    BY <1>11, <2>3 DEF Begin
  <2>5. QED
    BY <1>11, <2>1, <2>2, <2>4 DEF Begin, Task
<1>12. ASSUME NEW w \in Slots, Succeed(w) PROVE TypeOK'
  <2>1. slot[w].run \in Requests /\ slot[w].stage \in Stage /\ slot[w].pc = "body"
    BY <1>12 DEF Succeed
  <2>2. /\ [slot[w] EXCEPT !.pc = "finish"] \in Task
        /\ [slot[w] EXCEPT !.pc = "done"] \in Task
    BY TaskUpdate, IdleTask DEF SlotPC
  <2>3. slot' \in [Slots -> Task]
    BY <1>12, <2>2 DEF Succeed
  <2>4. QED
    BY <1>12, <2>1, <2>3 DEF Succeed, Task
<1>13. ASSUME NEW w \in Slots, Complete(w) PROVE TypeOK'
  <2>1. slot[w].run \in Requests /\ slot[w].pc = "finish"
    BY <1>13 DEF Complete
  <2>2. run' \in [Requests -> Row]
    BY <1>13, <2>1 DEF Complete, Row, Status
  <2>3. [slot[w] EXCEPT !.pc = "done"] \in Task
    BY TaskUpdate, IdleTask DEF SlotPC
  <2>4. slot' \in [Slots -> Task]
    BY <1>13, <2>3 DEF Complete
  <2>5. QED
    BY <1>13, <2>1, <2>2, <2>4 DEF Complete, Task
<1>14. ASSUME NEW w \in Slots, Raise(w) PROVE TypeOK'
  <2>1. slot[w].run \in Requests /\ slot[w].pc = "body"
    BY <1>14 DEF Raise
  <2>2. [slot[w] EXCEPT !.pc = "failing", !.seen = run[slot[w].run]] \in Task
    BY <2>1, TaskUpdate DEF SlotPC
  <2>3. slot' \in [Slots -> Task]
    BY <1>14, <2>2 DEF Raise
  <2>4. QED
    BY <1>14, <2>1, <2>3 DEF Raise, Task
<1>15. ASSUME NEW w \in Slots, RecordFailure(w) PROVE TypeOK'
  <2>1. slot[w].run \in Requests /\ slot[w].stage \in Stage /\ slot[w].pc = "failing"
    BY <1>15 DEF RecordFailure
  <2>2. run' \in [Requests -> Row]
    <3> DEFINE q == slot[w].run
               st == IF slot[w].seen.status = "FAILED" THEN run[q].status ELSE "FAILED"
    <3>1. st \in Status /\ slot[w].stage \in 0 .. LastStage
      BY <2>1 DEF Row, Status, Stage, LastStage
    <3>2. [run[q] EXCEPT !.status = st, !.error = slot[w].stage] \in Row
      BY <2>1, <3>1, RowUpdate
    <3>3. run' = [run EXCEPT ![q] =
                    [run[q] EXCEPT !.status = st, !.error = slot[w].stage]]
      BY <1>15, <2>1 DEF RecordFailure
    <3>4. QED
      BY <2>1, <3>2, <3>3
  <2>3. QED
    BY <1>15, <2>1, <2>2, IdleTask DEF RecordFailure
<1>16. ASSUME NEW w \in Slots, Dispatch(w) PROVE TypeOK'
  <2>1. slot[w].run \in Requests /\ slot[w].stage \in Stage /\ slot[w].pc = "done"
    BY <1>16 DEF Dispatch
  <2>2. queue' \in [Requests -> [Stage -> Nat]]
    BY <1>16, <2>1 DEF Dispatch, Stage, LastStage
  <2>3. QED
    BY <1>16, <2>2, IdleTask DEF Dispatch
<1>17. CASE Crash
  BY <1>17, IdleTask DEF Crash
<1>18. CASE UNCHANGED vars
  BY <1>18 DEF vars
<1>19. QED
  BY <1>1, <1>2, <1>3, <1>4, <1>5, <1>6, <1>7, <1>8, <1>9, <1>10, <1>11, <1>12,
     <1>13, <1>14, <1>15, <1>16, <1>17, <1>18
     DEF Next, HandlerStep, StartTask, TaskStep

THEOREM TypeCorrect == Spec => []TypeOK
  BY InitTypeOK, NextTypeOK, PTL DEF Spec

-----------------------------------------------------------------------------
(* No active run is abandoned without a fault.                              *)

(* No step lowers a fault counter, and none delivers twice beyond the bound. *)
LEMMA FaultsAreCounted ==
  ASSUME TypeOK, [Next]_vars
  PROVE  /\ crashes' = 0 => crashes = 0
         /\ publishFailures' = 0 => publishFailures = 0
         /\ redeliveries' = 0 => redeliveries = 0
         /\ MaxRedeliveries = 0 /\ redeliveries = 0 => redeliveries' = 0
<1> DEFINE Counted == /\ crashes' = 0 => crashes = 0
                      /\ publishFailures' = 0 => publishFailures = 0
                      /\ redeliveries' = 0 => redeliveries = 0
                      /\ MaxRedeliveries = 0 /\ redeliveries = 0 => redeliveries' = 0
<1> USE DEF TypeOK, faults
<1>1. CASE ImportDataset
  BY <1>1 DEF ImportDataset
<1>2. ASSUME NEW q \in Requests, CountReferences(q) PROVE Counted
  BY <1>2 DEF CountReferences
<1>3. ASSUME NEW q \in Requests, CheckActive(q) PROVE Counted
  BY <1>3 DEF CheckActive
<1>4. ASSUME NEW q \in Requests, InsertRun(q) PROVE Counted
  BY <1>4 DEF InsertRun
<1>5. ASSUME NEW q \in Requests, Publish(q) PROVE Counted
  BY <1>5 DEF Publish
<1>6. ASSUME NEW q \in Requests, PublishFails(q) PROVE Counted
  BY <1>6 DEF PublishFails
<1>7. ASSUME NEW q \in Requests, StoreRootId(q) PROVE Counted
  BY <1>7 DEF StoreRootId
<1>8. ASSUME NEW w \in Slots, NEW q \in Requests, NEW s \in Stage, Take(w, q, s) PROVE Counted
  BY <1>8 DEF Take
<1>9. ASSUME NEW q \in Requests, NEW s \in Stage, Redeliver(q, s) PROVE Counted
  BY <1>9 DEF Redeliver
<1>10. ASSUME NEW w \in Slots, Load(w) PROVE Counted
  BY <1>10 DEF Load
<1>11. ASSUME NEW w \in Slots, Begin(w) PROVE Counted
  BY <1>11 DEF Begin
<1>12. ASSUME NEW w \in Slots, Succeed(w) PROVE Counted
  BY <1>12 DEF Succeed
<1>13. ASSUME NEW w \in Slots, Complete(w) PROVE Counted
  BY <1>13 DEF Complete
<1>14. ASSUME NEW w \in Slots, Raise(w) PROVE Counted
  BY <1>14 DEF Raise
<1>15. ASSUME NEW w \in Slots, RecordFailure(w) PROVE Counted
  BY <1>15 DEF RecordFailure
<1>16. ASSUME NEW w \in Slots, Dispatch(w) PROVE Counted
  BY <1>16 DEF Dispatch
<1>17. CASE Crash
  BY <1>17 DEF Crash
<1>18. CASE UNCHANGED vars
  BY <1>18 DEF vars
<1>19. QED
  BY <1>1, <1>2, <1>3, <1>4, <1>5, <1>6, <1>7, <1>8, <1>9, <1>10, <1>11, <1>12,
     <1>13, <1>14, <1>15, <1>16, <1>17, <1>18
     DEF Next, HandlerStep, StartTask, TaskStep

LEMMA NotAbandonedStep == TypeOK /\ NotAbandoned /\ [Next]_vars => NotAbandoned'
<1> SUFFICES ASSUME TypeOK, NotAbandoned, [Next]_vars,
                    crashes' = 0, publishFailures' = 0,
                    NEW q \in Requests, Active(q)'
             PROVE  WillSettle(q)'
  BY DEF NotAbandoned
<1> USE DEF TypeOK, faults
<1>0. crashes = 0 /\ publishFailures = 0
  BY FaultsAreCounted
<1>a. Active(q) => WillSettle(q)
  BY <1>0 DEF NotAbandoned
(* A step that touches neither q's row nor its handler, messages and tasks. *)
<1>b. ASSUME run'[q] = run[q], handler'[q].pc = handler[q].pc,
             UNCHANGED <<queue, slot>>
      PROVE  WillSettle(q)'
  BY <1>a, <1>b DEF Active, WillSettle, Settling
<1>1. CASE ImportDataset
  BY <1>1, <1>b DEF ImportDataset
<1>2. ASSUME NEW r \in Requests, CountReferences(r) PROVE WillSettle(q)'
  BY <1>2, <1>a DEF CountReferences, Active, WillSettle, Settling, Handler
<1>3. ASSUME NEW r \in Requests, CheckActive(r) PROVE WillSettle(q)'
  BY <1>3, <1>a DEF CheckActive, Active, WillSettle, Settling, Handler
<1>4. ASSUME NEW r \in Requests, InsertRun(r) PROVE WillSettle(q)'
  BY <1>4, <1>a DEF InsertRun, Active, WillSettle, Settling, Handler
<1>5. ASSUME NEW r \in Requests, Publish(r) PROVE WillSettle(q)'
  <2>1. CASE r = q
    <3>1. queue'[q][1] > 0
      BY <1>5, <2>1 DEF Publish, Stage, LastStage
    <3>2. QED
      BY <3>1 DEF WillSettle, Stage, LastStage
  <2>2. CASE r # q
    BY <1>5, <2>2, <1>a DEF Publish, Active, WillSettle, Settling
  <2>3. QED
    BY <2>1, <2>2
<1>6. ASSUME NEW r \in Requests, PublishFails(r) PROVE WillSettle(q)'
  BY <1>6, <1>0 DEF PublishFails
<1>7. ASSUME NEW r \in Requests, StoreRootId(r) PROVE WillSettle(q)'
  BY <1>7, <1>a DEF StoreRootId, Active, WillSettle, Settling, Handler
<1>8. ASSUME NEW w \in Slots, NEW r \in Requests, NEW s \in Stage, Take(w, r, s)
      PROVE WillSettle(q)'
  <2>1. CASE r = q
    <3>1. Settling(w, q)'
      BY <1>8, <2>1 DEF Take, Settling
    <3>2. QED
      BY <3>1 DEF WillSettle
  <2>2. CASE r # q
    <3>1. queue'[q] = queue[q] /\ handler' = handler /\ Active(q)
      BY <1>8, <2>2 DEF Take, Active
    <3>2. \A v \in Slots : Settling(v, q) => Settling(v, q)'
      BY <1>8, <2>2 DEF Take, Settling
    <3>3. QED
      BY <3>1, <3>2, <1>a DEF WillSettle
  <2>3. QED
    BY <2>1, <2>2
<1>9. ASSUME NEW r \in Requests, NEW s \in Stage, Redeliver(r, s) PROVE WillSettle(q)'
  <2>1. \A t \in Stage : queue[q][t] > 0 => queue'[q][t] > 0
    BY <1>9 DEF Redeliver
  <2>2. QED
    BY <1>9, <1>a, <2>1 DEF Redeliver, Active, WillSettle, Settling
<1>10. ASSUME NEW w \in Slots, Load(w) PROVE WillSettle(q)'
  <2>1. CASE slot[w].run = q
    <3>1. run[q].status # "FAILED"
      BY <1>10 DEF Load, Active
    <3>2. Settling(w, q)'
      BY <1>10, <2>1, <3>1 DEF Load, Settling, Task
    <3>3. QED
      BY <3>2 DEF WillSettle
  <2>2. CASE slot[w].run # q
    <3>1. run'[q] = run[q] /\ queue'[q] = queue[q] /\ handler' = handler
      BY <1>10, <2>2 DEF Load
    <3>2. \A v \in Slots : Settling(v, q) => Settling(v, q)'
      BY <1>10, <2>2 DEF Load, Settling
    <3>3. QED
      BY <3>1, <3>2, <1>a DEF WillSettle, Active
  <2>3. QED
    BY <2>1, <2>2
<1>11. ASSUME NEW w \in Slots, Begin(w) PROVE WillSettle(q)'
  <2>1. CASE slot[w].run = q
    <3>1. Settling(w, q)'
      BY <1>11, <2>1 DEF Begin, Settling, Stage, LastStage, Active, Task
    <3>2. QED
      BY <3>1 DEF WillSettle
  <2>2. CASE slot[w].run # q
    <3>1. run'[q] = run[q] /\ queue'[q] = queue[q] /\ handler' = handler
      BY <1>11, <2>2 DEF Begin
    <3>2. \A v \in Slots : Settling(v, q) => Settling(v, q)'
      BY <1>11, <2>2 DEF Begin, Settling
    <3>3. QED
      BY <3>1, <3>2, <1>a DEF WillSettle, Active
  <2>3. QED
    BY <2>1, <2>2
<1>12. ASSUME NEW w \in Slots, Succeed(w) PROVE WillSettle(q)'
  <2>1. CASE slot[w].run = q
    <3>1. Settling(w, q)'
      BY <1>12, <2>1 DEF Succeed, Settling, Stage, LastStage, Active, Task
    <3>2. QED
      BY <3>1 DEF WillSettle
  <2>2. CASE slot[w].run # q
    <3>1. run'[q] = run[q] /\ queue'[q] = queue[q] /\ handler' = handler
      BY <1>12, <2>2 DEF Succeed
    <3>2. \A v \in Slots : Settling(v, q) => Settling(v, q)'
      BY <1>12, <2>2 DEF Succeed, Settling
    <3>3. QED
      BY <3>1, <3>2, <1>a DEF WillSettle, Active
  <2>3. QED
    BY <2>1, <2>2
<1>13. ASSUME NEW w \in Slots, Complete(w) PROVE WillSettle(q)'
  <2>1. CASE slot[w].run = q
    BY <1>13, <2>1 DEF Complete, Active, Row
  <2>2. CASE slot[w].run # q
    <3>1. run'[q] = run[q] /\ queue'[q] = queue[q] /\ handler' = handler
      BY <1>13, <2>2 DEF Complete
    <3>2. \A v \in Slots : Settling(v, q) => Settling(v, q)'
      BY <1>13, <2>2 DEF Complete, Settling
    <3>3. QED
      BY <3>1, <3>2, <1>a DEF WillSettle, Active
  <2>3. QED
    BY <2>1, <2>2
<1>14. ASSUME NEW w \in Slots, Raise(w) PROVE WillSettle(q)'
  <2>1. CASE slot[w].run = q
    <3>1. run[q].status # "FAILED"
      BY <1>14 DEF Raise, Active
    <3>2. Settling(w, q)'
      BY <1>14, <2>1, <3>1 DEF Raise, Settling, Task
    <3>3. QED
      BY <3>2 DEF WillSettle
  <2>2. CASE slot[w].run # q
    <3>1. run'[q] = run[q] /\ queue'[q] = queue[q] /\ handler' = handler
      BY <1>14, <2>2 DEF Raise
    <3>2. \A v \in Slots : Settling(v, q) => Settling(v, q)'
      BY <1>14, <2>2 DEF Raise, Settling
    <3>3. QED
      BY <3>1, <3>2, <1>a DEF WillSettle, Active
  <2>3. QED
    BY <2>1, <2>2
<1>15. ASSUME NEW w \in Slots, RecordFailure(w) PROVE WillSettle(q)'
  <2>1. CASE slot[w].run = q
    (* q stays active only if w had seen FAILED, so another task keeps it.  *)
    <3>1. slot[w].seen.status = "FAILED" /\ run'[q].status = run[q].status
      BY <1>15, <2>1 DEF RecordFailure, Active, Row
    <3>2. ~ Settling(w, q) /\ Active(q)
      BY <1>15, <3>1 DEF RecordFailure, Settling, Active
    <3>3. \A v \in Slots : Settling(v, q) => Settling(v, q)'
      BY <1>15, <3>2 DEF RecordFailure, Settling
    <3>4. QED
      BY <1>15, <1>a, <3>2, <3>3 DEF RecordFailure, WillSettle
  <2>2. CASE slot[w].run # q
    <3>1. run'[q] = run[q] /\ queue'[q] = queue[q] /\ handler' = handler
      BY <1>15, <2>2 DEF RecordFailure
    <3>2. \A v \in Slots : Settling(v, q) => Settling(v, q)'
      BY <1>15, <2>2 DEF RecordFailure, Settling
    <3>3. QED
      BY <3>1, <3>2, <1>a DEF WillSettle, Active
  <2>3. QED
    BY <2>1, <2>2
<1>16. ASSUME NEW w \in Slots, Dispatch(w) PROVE WillSettle(q)'
  <2>1. CASE slot[w].run = q
    <3>1. CASE slot[w].stage = LastStage
      <4>1. ~ Settling(w, q) /\ Active(q)
        BY <1>16, <3>1 DEF Dispatch, Settling, Active, LastStage
      <4>2. \A v \in Slots : Settling(v, q) => Settling(v, q)'
        BY <1>16, <4>1 DEF Dispatch, Settling
      <4>3. QED
        BY <1>16, <1>a, <3>1, <4>1, <4>2 DEF Dispatch, WillSettle
    <3>2. CASE slot[w].stage # LastStage
      <4>1. slot[w].stage + 1 \in Stage /\ slot[w].stage \in Stage
        BY <1>16, <3>2 DEF Dispatch, Stage, LastStage
      <4>2. queue'[q][slot[w].stage + 1] > 0
        BY <1>16, <2>1, <3>2, <4>1 DEF Dispatch
      <4>3. QED
        BY <4>1, <4>2 DEF WillSettle
    <3>3. QED
      BY <3>1, <3>2
  <2>2. CASE slot[w].run # q
    <3>1. run'[q] = run[q] /\ queue'[q] = queue[q] /\ handler' = handler
      BY <1>16, <2>2 DEF Dispatch
    <3>2. \A v \in Slots : Settling(v, q) => Settling(v, q)'
      BY <1>16, <2>2 DEF Dispatch, Settling
    <3>3. QED
      BY <3>1, <3>2, <1>a DEF WillSettle, Active
  <2>3. QED
    BY <2>1, <2>2
<1>17. CASE Crash
  BY <1>17, <1>0 DEF Crash
<1>18. CASE UNCHANGED vars
  BY <1>18, <1>b DEF vars
<1>19. QED
  BY <1>1, <1>2, <1>3, <1>4, <1>5, <1>6, <1>7, <1>8, <1>9, <1>10, <1>11, <1>12,
     <1>13, <1>14, <1>15, <1>16, <1>17, <1>18
     DEF Next, HandlerStep, StartTask, TaskStep

(* ActiveRunHasExecutor: only a crash or a failed publication abandons an   *)
(* active run; no interleaving of handlers, duplicates and slots does.      *)
THEOREM ActiveRunIsNeverAbandoned == Spec => []ActiveRunHasExecutor
<1>1. Init => NotAbandoned
  BY DEF Init, NotAbandoned, Active, NoRow
<1>2. TypeOK /\ NotAbandoned => ActiveRunHasExecutor
  BY DEF NotAbandoned, ActiveRunHasExecutor, WillSettle, Settling, HasExecutor
<1>3. QED
  BY <1>1, <1>2, NotAbandonedStep, TypeCorrect, PTL DEF Spec

-----------------------------------------------------------------------------
(* One delivery per message makes the chain linear.                         *)

(* A step that leaves a request's row, handler, messages and tasks alone.   *)
LEMMA AgreesFrame ==
  ASSUME NEW q \in Requests, Agrees(q),
         run'[q] = run[q], queue'[q] = queue[q], handler'[q].pc = handler[q].pc,
         \A w \in Slots : slot'[w] = slot[w] \/ (slot[w].run # q /\ slot'[w].run # q)
  PROVE  Agrees(q)'
<1>1. \A w \in Slots : slot'[w].run = q <=> slot[w].run = q
  OBVIOUS
<1>2. \A w \in Slots : slot[w].run = q => slot'[w] = slot[w]
  OBVIOUS
<1>3. HandlerAgrees(q)'
  BY <1>1 DEF Agrees, HandlerAgrees, Unpublished
<1>4. MessageAgrees(q)'
  BY <1>1 DEF Agrees, MessageAgrees
<1>5. ASSUME NEW w \in Slots, slot'[w].run = q PROVE TaskAgrees(w, q)'
  BY <1>1, <1>2, <1>5 DEF Agrees, TaskAgrees
<1>6. QED
  BY <1>3, <1>4, <1>5 DEF Agrees

(* While a task executes run q, nothing else holds q.                       *)
LEMMA TaskHoldsAlone ==
  ASSUME TypeOK, NEW w \in Slots, slot[w].pc # "idle", Agrees(slot[w].run)
  PROVE  /\ slot[w].run \in Requests /\ slot[w].stage \in Stage
         /\ TaskAgrees(w, slot[w].run)
         /\ \A s \in Stage : queue[slot[w].run][s] = 0
         /\ handler[slot[w].run].pc \in {"published", "202"}
         /\ \A v \in Slots : slot[v].run = slot[w].run => v = w
<1> DEFINE q == slot[w].run
<1>1. q \in Requests /\ slot[w].stage \in Stage
  BY DEF TypeOK
<1>2. TaskAgrees(w, q)
  BY DEF Agrees
<1>3. \A s \in Stage : queue[q][s] = 0
  <2>1. \A s \in Stage : queue[q][s] \in Nat
    BY <1>1 DEF TypeOK
  <2>2. \A s \in Stage : ~ (queue[q][s] > 0)
    BY DEF Agrees, MessageAgrees
  <2>3. QED
    BY <2>1, <2>2
<1>4. handler[q].pc \in {"published", "202"}
  <2>1. handler[q].pc \in HandlerPC
    BY <1>1 DEF TypeOK, Handler
  <2>2. ~ Unpublished(q)
    BY DEF Unpublished
  <2>3. QED
    BY <2>1, <2>2 DEF Agrees, HandlerAgrees, HandlerPC
<1>5. QED
  BY <1>1, <1>2, <1>3, <1>4 DEF TaskAgrees

(* A step of the task in slot w that keeps the slot: only the task's own    *)
(* agreement has to be shown again.                                         *)
LEMMA TaskStepAgrees ==
  ASSUME TypeOK, NEW w \in Slots, slot[w].pc # "idle", Agrees(slot[w].run),
         UNCHANGED <<queue, handler>>,
         slot'[w].run = slot[w].run, \A v \in Slots : v # w => slot'[v] = slot[v],
         TaskAgrees(w, slot[w].run)'
  PROVE  Agrees(slot[w].run)'
<1> DEFINE q == slot[w].run
<1>1. HandlerAgrees(q)'
  BY TaskHoldsAlone DEF HandlerAgrees
<1>2. MessageAgrees(q)'
  BY TaskHoldsAlone DEF MessageAgrees
<1>3. \A v \in Slots : slot'[v].run = q => v = w
  BY TaskHoldsAlone
<1>4. QED
  BY <1>1, <1>2, <1>3 DEF Agrees

LEMMA IdleStep ==
  TypeOK /\ IdleSlotsHoldNothing /\ [Next]_vars => IdleSlotsHoldNothing'
<1> SUFFICES ASSUME TypeOK, IdleSlotsHoldNothing, [Next]_vars
             PROVE  IdleSlotsHoldNothing'
  OBVIOUS
<1> USE IdleTask DEF IdleSlotsHoldNothing, faults
<1>1. CASE ImportDataset
  BY <1>1 DEF ImportDataset
<1>2. ASSUME NEW q \in Requests, CountReferences(q)
      PROVE IdleSlotsHoldNothing'
  BY <1>2 DEF CountReferences
<1>3. ASSUME NEW q \in Requests, CheckActive(q)
      PROVE IdleSlotsHoldNothing'
  BY <1>3 DEF CheckActive
<1>4. ASSUME NEW q \in Requests, InsertRun(q)
      PROVE IdleSlotsHoldNothing'
  BY <1>4 DEF InsertRun
<1>5. ASSUME NEW q \in Requests, Publish(q)
      PROVE IdleSlotsHoldNothing'
  BY <1>5 DEF Publish
<1>6. ASSUME NEW q \in Requests, PublishFails(q)
      PROVE IdleSlotsHoldNothing'
  BY <1>6 DEF PublishFails
<1>7. ASSUME NEW q \in Requests, StoreRootId(q)
      PROVE IdleSlotsHoldNothing'
  BY <1>7 DEF StoreRootId
<1>8. ASSUME NEW w \in Slots, NEW q \in Requests, NEW s \in Stage, Take(w, q, s)
      PROVE IdleSlotsHoldNothing'
  BY <1>8 DEF Take, TypeOK, Task
<1>9. ASSUME NEW q \in Requests, NEW s \in Stage, Redeliver(q, s)
      PROVE IdleSlotsHoldNothing'
  BY <1>9 DEF Redeliver
<1>10. ASSUME NEW w \in Slots, Load(w)
      PROVE IdleSlotsHoldNothing'
  BY <1>10 DEF Load, TypeOK, Task
<1>11. ASSUME NEW w \in Slots, Begin(w)
      PROVE IdleSlotsHoldNothing'
  BY <1>11 DEF Begin, TypeOK, Task
<1>12. ASSUME NEW w \in Slots, Succeed(w)
      PROVE IdleSlotsHoldNothing'
  BY <1>12 DEF Succeed, TypeOK, Task
<1>13. ASSUME NEW w \in Slots, Complete(w)
      PROVE IdleSlotsHoldNothing'
  BY <1>13 DEF Complete, TypeOK, Task
<1>14. ASSUME NEW w \in Slots, Raise(w)
      PROVE IdleSlotsHoldNothing'
  BY <1>14 DEF Raise, TypeOK, Task
<1>15. ASSUME NEW w \in Slots, RecordFailure(w)
      PROVE IdleSlotsHoldNothing'
  BY <1>15 DEF RecordFailure, TypeOK, Task
<1>16. ASSUME NEW w \in Slots, Dispatch(w)
      PROVE IdleSlotsHoldNothing'
  BY <1>16 DEF Dispatch, TypeOK, Task
<1>17. CASE Crash
  BY <1>17 DEF Crash
<1>18. CASE UNCHANGED vars
  BY <1>18 DEF vars
<1>19. QED
  BY <1>1, <1>2, <1>3, <1>4, <1>5, <1>6, <1>7, <1>8, <1>9, <1>10, <1>11, <1>12,
     <1>13, <1>14, <1>15, <1>16, <1>17, <1>18
     DEF Next, HandlerStep, StartTask, TaskStep

LEMMA LinearStep ==
  TypeOK /\ IdleSlotsHoldNothing /\ Linear /\ [Next]_vars => Linear'
<1> SUFFICES ASSUME TypeOK, IdleSlotsHoldNothing, Linear, [Next]_vars,
                    redeliveries' = 0, NEW r \in Requests
             PROVE  Agrees(r)'
  BY DEF Linear
<1>a. redeliveries = 0 /\ \A q \in Requests : Agrees(q)
  BY FaultsAreCounted DEF Linear
<1> USE DEF faults
<1>1. CASE ImportDataset
  BY <1>1, <1>a, AgreesFrame DEF ImportDataset
<1>2. ASSUME NEW q \in Requests, CountReferences(q) PROVE Agrees(r)'
  <2>1. CASE q = r
    <3>1. HandlerAgrees(r)'
      BY <1>2, <2>1, <1>a DEF CountReferences, Agrees, HandlerAgrees, Unpublished, TypeOK, Handler
    <3>2. MessageAgrees(r)'
      BY <1>2, <2>1, <1>a DEF CountReferences, Agrees, MessageAgrees
    <3>3. ASSUME NEW w \in Slots, slot'[w].run = r PROVE TaskAgrees(w, r)'
      BY <1>2, <2>1, <3>3, <1>a DEF CountReferences, Agrees, TaskAgrees
    <3>4. QED
      BY <3>1, <3>2, <3>3 DEF Agrees
  <2>2. CASE q # r
    BY <1>2, <2>2, <1>a, AgreesFrame DEF CountReferences, TypeOK
  <2>3. QED
    BY <2>1, <2>2
<1>3. ASSUME NEW q \in Requests, CheckActive(q) PROVE Agrees(r)'
  <2>1. CASE q = r
    <3>1. HandlerAgrees(r)'
      BY <1>3, <2>1, <1>a DEF CheckActive, Agrees, HandlerAgrees, Unpublished, TypeOK, Handler
    <3>2. MessageAgrees(r)'
      BY <1>3, <2>1, <1>a DEF CheckActive, Agrees, MessageAgrees
    <3>3. ASSUME NEW w \in Slots, slot'[w].run = r PROVE TaskAgrees(w, r)'
      BY <1>3, <2>1, <3>3, <1>a DEF CheckActive, Agrees, TaskAgrees
    <3>4. QED
      BY <3>1, <3>2, <3>3 DEF Agrees
  <2>2. CASE q # r
    BY <1>3, <2>2, <1>a, AgreesFrame DEF CheckActive, TypeOK
  <2>3. QED
    BY <2>1, <2>2
<1>4. ASSUME NEW q \in Requests, InsertRun(q) PROVE Agrees(r)'
  <2>1. CASE q = r
    <3>1. handler[r].pc = "clear" /\ Unpublished(r)
      BY <1>4, <2>1, <1>a DEF InsertRun, Agrees, HandlerAgrees
    <3>2. handler'[r].pc = "inserted" /\ run'[r] = Before(1) /\ Unpublished(r)'
      BY <1>4, <2>1, <3>1 DEF InsertRun, Unpublished, Before, TypeOK, Handler
    <3>3. QED
      BY <3>2 DEF Agrees, HandlerAgrees, MessageAgrees, Unpublished
  <2>2. CASE q # r
    BY <1>4, <2>2, <1>a, AgreesFrame DEF InsertRun, TypeOK
  <2>3. QED
    BY <2>1, <2>2
<1>5. ASSUME NEW q \in Requests, Publish(q) PROVE Agrees(r)'
  <2>1. CASE q = r
    <3>1. run[r] = Before(1) /\ Unpublished(r)
      BY <1>5, <2>1, <1>a DEF Publish, Agrees, HandlerAgrees
    <3>2. handler'[r].pc = "published" /\ run'[r] = Before(1) /\ slot' = slot
      BY <1>5, <2>1, <3>1 DEF Publish, TypeOK, Handler
    <3>3. queue'[r][1] = 1 /\ \A s \in Stage : s # 1 => queue'[r][s] = 0
      BY <1>5, <2>1, <3>1 DEF Publish, Unpublished, TypeOK, Stage, LastStage
    <3>4. QED
      BY <3>1, <3>2, <3>3 DEF Agrees, HandlerAgrees, MessageAgrees, Unpublished
  <2>2. CASE q # r
    BY <1>5, <2>2, <1>a, AgreesFrame DEF Publish, TypeOK
  <2>3. QED
    BY <2>1, <2>2
<1>6. ASSUME NEW q \in Requests, PublishFails(q) PROVE Agrees(r)'
  <2>1. CASE q = r
    <3>1. HandlerAgrees(r)'
      BY <1>6, <2>1, <1>a DEF PublishFails, Agrees, HandlerAgrees, Unpublished, TypeOK, Handler
    <3>2. MessageAgrees(r)'
      BY <1>6, <2>1, <1>a DEF PublishFails, Agrees, MessageAgrees
    <3>3. ASSUME NEW w \in Slots, slot'[w].run = r PROVE TaskAgrees(w, r)'
      BY <1>6, <2>1, <3>3, <1>a DEF PublishFails, Agrees, TaskAgrees
    <3>4. QED
      BY <3>1, <3>2, <3>3 DEF Agrees
  <2>2. CASE q # r
    BY <1>6, <2>2, <1>a, AgreesFrame DEF PublishFails, TypeOK
  <2>3. QED
    BY <2>1, <2>2
<1>7. ASSUME NEW q \in Requests, StoreRootId(q) PROVE Agrees(r)'
  <2>1. CASE q = r
    <3>1. HandlerAgrees(r)'
      BY <1>7, <2>1, <1>a DEF StoreRootId, Agrees, HandlerAgrees, Unpublished, TypeOK, Handler
    <3>2. MessageAgrees(r)'
      BY <1>7, <2>1, <1>a DEF StoreRootId, Agrees, MessageAgrees
    <3>3. ASSUME NEW w \in Slots, slot'[w].run = r PROVE TaskAgrees(w, r)'
      BY <1>7, <2>1, <3>3, <1>a DEF StoreRootId, Agrees, TaskAgrees
    <3>4. QED
      BY <3>1, <3>2, <3>3 DEF Agrees
  <2>2. CASE q # r
    BY <1>7, <2>2, <1>a, AgreesFrame DEF StoreRootId, TypeOK
  <2>3. QED
    BY <2>1, <2>2
<1>8. ASSUME NEW w \in Slots, NEW q \in Requests, NEW s \in Stage, Take(w, q, s)
      PROVE Agrees(r)'
  <2>0. slot[w].run = None /\ None \notin Requests
    BY <1>8, NoneAssumption DEF Take, IdleSlotsHoldNothing
  <2>1. CASE q = r
    <3>1. /\ queue[r][s] = 1 /\ run[r] = Before(s)
          /\ \A t \in Stage : queue[r][t] > 0 => t = s
          /\ \A v \in Slots : slot[v].run # r
      BY <1>8, <2>1, <1>a DEF Take, Agrees, MessageAgrees
    <3>2. \A t \in Stage : queue'[r][t] = 0
      <4>1. \A t \in Stage : queue[r][t] \in Nat
        BY DEF TypeOK
      <4>2. queue'[r] = [queue[r] EXCEPT ![s] = 0]
        BY <1>8, <2>1, <3>1 DEF Take, TypeOK
      <4>3. QED
        BY <4>1, <4>2, <3>1 DEF TypeOK
    <3>3. handler[r].pc \in {"published", "202"}
      BY <3>1, <1>a DEF Agrees, HandlerAgrees, Unpublished, TypeOK, Handler, HandlerPC
    <3>4. /\ slot'[w] = [pc |-> "load", run |-> r, stage |-> s, seen |-> NoRow]
          /\ \A v \in Slots : v # w => slot'[v] = slot[v]
      BY <1>8, <2>1 DEF Take, TypeOK
    <3>5. TaskAgrees(w, r)'
      BY <1>8, <3>1, <3>4 DEF Take, TaskAgrees
    <3>6. \A v \in Slots : slot'[v].run = r => v = w
      BY <3>1, <3>4
    <3>7. QED
      BY <1>8, <3>2, <3>3, <3>5, <3>6 DEF Take, Agrees, HandlerAgrees, MessageAgrees
  <2>2. CASE q # r
    BY <1>8, <2>0, <2>2, <1>a, AgreesFrame DEF Take, TypeOK
  <2>3. QED
    BY <2>1, <2>2
<1>9. ASSUME NEW q \in Requests, NEW s \in Stage, Redeliver(q, s) PROVE Agrees(r)'
  BY <1>9, <1>a DEF Redeliver
<1>10. ASSUME NEW w \in Slots, Load(w) PROVE Agrees(r)'
  <2>1. CASE slot[w].run = r
    <3>1. /\ slot[w].pc # "idle" /\ TaskAgrees(w, r)
          /\ slot'[w].run = r /\ \A v \in Slots : v # w => slot'[v] = slot[v]
      BY <1>10, <2>1, <1>a, TaskHoldsAlone DEF Load, TypeOK, Task
    <3>2. TaskAgrees(w, r)'
      BY <1>10, <2>1, <3>1, TaskHoldsAlone, <1>a DEF Load, TaskAgrees, Before, During, TypeOK, Task, Row, Stage, LastStage
    <3>3. QED
      BY <1>10, <2>1, <3>1, <3>2, <1>a, TaskStepAgrees DEF Load
  <2>2. CASE slot[w].run # r
    <3>1. /\ run' = run /\ queue' = queue /\ handler' = handler
          /\ slot'[w].run = slot[w].run
          /\ \A v \in Slots : v # w => slot'[v] = slot[v]
      BY <1>10 DEF Load, TypeOK, Task
    <3>2. \A v \in Slots : slot'[v] = slot[v] \/ (slot[v].run # r /\ slot'[v].run # r)
      BY <2>2, <3>1
    <3>3. QED
      BY <3>1, <3>2, <1>a, AgreesFrame
  <2>3. QED
    BY <2>1, <2>2
<1>11. ASSUME NEW w \in Slots, Begin(w) PROVE Agrees(r)'
  <2>1. CASE slot[w].run = r
    <3>1. /\ slot[w].pc # "idle" /\ TaskAgrees(w, r)
          /\ slot'[w].run = r /\ \A v \in Slots : v # w => slot'[v] = slot[v]
      <4>1. slot[w].pc = "begin"
            /\ slot' = [slot EXCEPT ![w].pc = "body", ![w].seen = NoRow]
        BY <1>11 DEF Begin
      <4>2. TaskAgrees(w, r)
        BY <2>1, <4>1, <1>a, TaskHoldsAlone
      <4>3. QED
        BY <2>1, <4>1, <4>2 DEF TypeOK, Task
    <3>2. TaskAgrees(w, r)'
      BY <1>11, <2>1, <3>1, TaskHoldsAlone, <1>a DEF Begin, TaskAgrees, Before, During, TypeOK, Task, Row, Stage, LastStage
    <3>3. QED
      BY <1>11, <2>1, <3>1, <3>2, <1>a, TaskStepAgrees DEF Begin
  <2>2. CASE slot[w].run # r
    BY <1>11, <2>2, <1>a, AgreesFrame DEF Begin, TypeOK, Task
  <2>3. QED
    BY <2>1, <2>2
<1>12. ASSUME NEW w \in Slots, Succeed(w) PROVE Agrees(r)'
  <2>1. CASE slot[w].run = r
    <3>1. /\ slot[w].pc # "idle" /\ TaskAgrees(w, r)
          /\ slot'[w].run = r /\ \A v \in Slots : v # w => slot'[v] = slot[v]
      BY <1>12, <2>1, <1>a, TaskHoldsAlone DEF Succeed, TypeOK, Task
    <3>2. TaskAgrees(w, r)'
      BY <1>12, <2>1, <3>1, TaskHoldsAlone, <1>a DEF Succeed, TaskAgrees, Before, During, TypeOK, Task, Row, Stage, LastStage
    <3>3. QED
      BY <1>12, <2>1, <3>1, <3>2, <1>a, TaskStepAgrees DEF Succeed
  <2>2. CASE slot[w].run # r
    BY <1>12, <2>2, <1>a, AgreesFrame DEF Succeed, TypeOK, Task
  <2>3. QED
    BY <2>1, <2>2
<1>13. ASSUME NEW w \in Slots, Complete(w) PROVE Agrees(r)'
  <2>1. CASE slot[w].run = r
    <3>1. /\ slot[w].pc # "idle" /\ TaskAgrees(w, r)
          /\ slot'[w].run = r /\ \A v \in Slots : v # w => slot'[v] = slot[v]
      BY <1>13, <2>1, <1>a, TaskHoldsAlone DEF Complete, TypeOK, Task
    <3>2. TaskAgrees(w, r)'
      BY <1>13, <2>1, <3>1, TaskHoldsAlone, <1>a DEF Complete, TaskAgrees, Before, During, TypeOK, Task, Row, Stage, LastStage
    <3>3. QED
      BY <1>13, <2>1, <3>1, <3>2, <1>a, TaskStepAgrees DEF Complete
  <2>2. CASE slot[w].run # r
    BY <1>13, <2>2, <1>a, AgreesFrame DEF Complete, TypeOK, Task
  <2>3. QED
    BY <2>1, <2>2
<1>14. ASSUME NEW w \in Slots, Raise(w) PROVE Agrees(r)'
  <2>1. CASE slot[w].run = r
    <3>1. /\ slot[w].pc # "idle" /\ TaskAgrees(w, r)
          /\ slot'[w].run = r /\ \A v \in Slots : v # w => slot'[v] = slot[v]
      BY <1>14, <2>1, <1>a, TaskHoldsAlone DEF Raise, TypeOK, Task
    <3>2. TaskAgrees(w, r)'
      BY <1>14, <2>1, <3>1, TaskHoldsAlone, <1>a DEF Raise, TaskAgrees, Before, During, TypeOK, Task, Row, Stage, LastStage
    <3>3. QED
      BY <1>14, <2>1, <3>1, <3>2, <1>a, TaskStepAgrees DEF Raise
  <2>2. CASE slot[w].run # r
    BY <1>14, <2>2, <1>a, AgreesFrame DEF Raise, TypeOK, Task
  <2>3. QED
    BY <2>1, <2>2
<1>15. ASSUME NEW w \in Slots, RecordFailure(w) PROVE Agrees(r)'
  <2>1. CASE slot[w].run = r
    <3>1. /\ \A s \in Stage : queue[r][s] = 0
          /\ handler[r].pc \in {"published", "202"}
          /\ \A v \in Slots : slot[v].run = r => v = w
      BY <1>15, <2>1, <1>a, TaskHoldsAlone DEF RecordFailure
    <3>2. \A v \in Slots : slot'[v].run # r
      BY <1>15, <3>1, IdleTask, NoneAssumption DEF RecordFailure, TypeOK
    <3>3. QED
      BY <1>15, <3>1, <3>2 DEF RecordFailure, Agrees, HandlerAgrees, MessageAgrees
  <2>2. CASE slot[w].run # r
    BY <1>15, <2>2, <1>a, AgreesFrame, IdleTask, NoneAssumption DEF RecordFailure, TypeOK
  <2>3. QED
    BY <2>1, <2>2
<1>16. ASSUME NEW w \in Slots, Dispatch(w) PROVE Agrees(r)'
  <2>1. CASE slot[w].run = r
    <3>1. /\ \A s \in Stage : queue[r][s] = 0
          /\ handler[r].pc \in {"published", "202"}
          /\ \A v \in Slots : slot[v].run = r => v = w
          /\ slot[w].stage \in Stage /\ TaskAgrees(w, r)
      BY <1>16, <2>1, <1>a, TaskHoldsAlone DEF Dispatch
    <3>2. \A v \in Slots : slot'[v].run # r
      BY <1>16, <3>1, IdleTask, NoneAssumption DEF Dispatch, TypeOK
    <3>3. CASE slot[w].stage = LastStage
      BY <1>16, <3>1, <3>2, <3>3 DEF Dispatch, Agrees, HandlerAgrees, MessageAgrees
    <3>4. CASE slot[w].stage # LastStage
      <4> DEFINE next == slot[w].stage + 1
      <4>1. next \in Stage /\ slot[w].stage < LastStage
        BY <3>1, <3>4 DEF Stage, LastStage
      <4>2. queue'[r][next] = 1 /\ \A s \in Stage : s # next => queue'[r][s] = 0
        BY <1>16, <2>1, <3>1, <3>4, <4>1 DEF Dispatch, TypeOK
      <4>3. run'[r] = Before(next)
        BY <1>16, <3>1, <4>1 DEF Dispatch, TaskAgrees, Before, During, Stage, LastStage
      <4>4. handler'[r] = handler[r]
        BY <1>16 DEF Dispatch
      <4>5. QED
        BY <3>1, <3>2, <4>2, <4>3, <4>4 DEF Agrees, HandlerAgrees, MessageAgrees
    <3>5. QED
      BY <3>3, <3>4
  <2>2. CASE slot[w].run # r
    <3>1. queue'[r] = queue[r]
      BY <1>16, <2>2 DEF Dispatch, TypeOK
    <3>2. QED
      BY <1>16, <2>2, <3>1, <1>a, AgreesFrame, IdleTask, NoneAssumption DEF Dispatch, TypeOK
  <2>3. QED
    BY <2>1, <2>2
<1>17. CASE Crash
  <2>1. \A v \in Slots : slot'[v].run # r
    BY <1>17, IdleTask, NoneAssumption DEF Crash
  <2>2. QED
    BY <1>17, <2>1, <1>a DEF Crash, Agrees, HandlerAgrees, MessageAgrees, Unpublished
<1>18. CASE UNCHANGED vars
  BY <1>18, <1>a, AgreesFrame DEF vars
<1>19. QED
  BY <1>1, <1>2, <1>3, <1>4, <1>5, <1>6, <1>7, <1>8, <1>9, <1>10, <1>11, <1>12,
     <1>13, <1>14, <1>15, <1>16, <1>17, <1>18
     DEF Next, HandlerStep, StartTask, TaskStep

LEMMA InitLinear == Init => IdleSlotsHoldNothing /\ Linear
<1> SUFFICES ASSUME Init PROVE IdleSlotsHoldNothing /\ Linear
  OBVIOUS
<1>1. \A w \in Slots : slot[w] = Idle
  BY DEF Init
<1>2. \A q \in Requests : Unpublished(q) /\ run[q] = NoRow /\ handler[q].pc = "idle"
  BY <1>1, IdleTask, NoneAssumption DEF Init, Unpublished
<1>3. QED
  BY <1>1, <1>2, IdleTask
     DEF IdleSlotsHoldNothing, Linear, Agrees, HandlerAgrees, MessageAgrees, Unpublished

(* OneExecutorPerRun: with one delivery per message a run's tasks never     *)
(* overlap, however many slots, handlers and crashes there are.             *)
THEOREM ChainIsLinear == Spec => []OneExecutorPerRun
<1>2. TypeOK /\ IdleSlotsHoldNothing /\ Linear => OneExecutorPerRun
  <2> SUFFICES ASSUME TypeOK, IdleSlotsHoldNothing, Linear, redeliveries = 0,
                      NEW q \in Requests, NEW w \in Slots, slot[w].run = q
               PROVE  /\ \A v \in Slots : slot[v].run = q => v = w
                      /\ \A s \in Stage : queue[q][s] = 0
    BY DEF OneExecutorPerRun
  <2>1. slot[w].pc # "idle" /\ Agrees(slot[w].run)
    BY NoneAssumption DEF IdleSlotsHoldNothing, Linear
  <2>2. QED
    BY <2>1, TaskHoldsAlone
<1>3. QED
  BY InitLinear, <1>2, IdleStep, LinearStep, TypeCorrect, PTL DEF Spec

-----------------------------------------------------------------------------
(* The run table implements RunLifecycle.                                   *)

LEMMA LifecycleStep ==
  ASSUME TypeOK, IdleSlotsHoldNothing, Linear, redeliveries = 0, [Next]_vars
  PROVE  [Lifecycle!Next]_run
<1>a. \A q \in Requests : Agrees(q)
  BY DEF Linear
<1> USE DEF faults
<1>1. CASE ImportDataset
  BY <1>1 DEF ImportDataset
<1>2. ASSUME NEW q \in Requests, CountReferences(q) PROVE run' = run
  BY <1>2 DEF CountReferences
<1>3. ASSUME NEW q \in Requests, CheckActive(q) PROVE run' = run
  BY <1>3 DEF CheckActive
<1>4. ASSUME NEW q \in Requests, InsertRun(q) PROVE Lifecycle!Submit(q)
  <2>1. run[q] = NoRow
    BY <1>4, <1>a DEF InsertRun, Agrees, HandlerAgrees
  <2>2. QED
    BY <1>4, <2>1 DEF InsertRun, NoRow, Lifecycle!Submit, Lifecycle!NoRow
<1>5. ASSUME NEW q \in Requests, Publish(q) PROVE run' = run
  BY <1>5 DEF Publish
<1>6. ASSUME NEW q \in Requests, PublishFails(q) PROVE run' = run
  BY <1>6 DEF PublishFails
<1>7. ASSUME NEW q \in Requests, StoreRootId(q) PROVE run' = run
  BY <1>7 DEF StoreRootId
<1>8. ASSUME NEW w \in Slots, NEW q \in Requests, NEW s \in Stage, Take(w, q, s)
      PROVE run' = run
  BY <1>8 DEF Take
<1>9. ASSUME NEW q \in Requests, NEW s \in Stage, Redeliver(q, s) PROVE run' = run
  BY <1>9 DEF Redeliver
<1>10. ASSUME NEW w \in Slots, Load(w) PROVE run' = run
  BY <1>10 DEF Load
<1>11. ASSUME NEW w \in Slots, Begin(w) PROVE Lifecycle!Advance(slot[w].run)
  <2> DEFINE q == slot[w].run
             s == slot[w].stage
  <2>1. slot[w].pc = "begin"
    BY <1>11 DEF Begin
  <2>2. q \in Requests /\ s \in Stage /\ run[q] = Before(s) /\ slot[w].seen = Before(s)
    BY <2>1, <1>a, TaskHoldsAlone DEF TypeOK, TaskAgrees
  <2>3. run[q].stage = s - 1 /\ run[q].status = IF s = 1 THEN "PENDING" ELSE "RUNNING"
    BY <2>2 DEF Before
  <2>4. run' = [run EXCEPT ![q].status = "RUNNING", ![q].stage = run[q].stage + 1]
    <3>1. slot[w].seen.stage # s /\ run[q].stage + 1 = s
      BY <2>2, <2>3 DEF Before, Stage, LastStage
    <3>2. slot[w].seen.status = "RUNNING" => run[q].status = "RUNNING"
      BY <2>2
    <3>3. QED
      BY <1>11, <3>1, <3>2 DEF Begin
  <2>5. QED
    BY <2>2, <2>3, <2>4 DEF Lifecycle!Advance, Lifecycle!LastStage, Stage, LastStage
<1>12. ASSUME NEW w \in Slots, Succeed(w) PROVE run' = run
  BY <1>12 DEF Succeed
<1>13. ASSUME NEW w \in Slots, Complete(w) PROVE Lifecycle!Complete(slot[w].run)
  <2>1. slot[w].pc = "finish"
    BY <1>13 DEF Complete
  <2>2. run[slot[w].run] = During(LastStage)
    BY <2>1, <1>a, TaskHoldsAlone DEF TypeOK, TaskAgrees
  <2>3. QED
    BY <1>13, <2>2 DEF Complete, During, LastStage, Lifecycle!Complete, Lifecycle!LastStage
<1>14. ASSUME NEW w \in Slots, Raise(w) PROVE run' = run
  BY <1>14 DEF Raise
<1>15. ASSUME NEW w \in Slots, RecordFailure(w) PROVE Lifecycle!Fail(slot[w].run)
  <2>1. slot[w].pc = "failing"
    BY <1>15 DEF RecordFailure
  <2>2. run[slot[w].run] = During(slot[w].stage) /\ slot[w].seen = During(slot[w].stage)
    BY <2>1, <1>a, TaskHoldsAlone DEF TypeOK, TaskAgrees
  <2>3. QED
    BY <1>15, <2>2 DEF RecordFailure, During, Lifecycle!Fail
<1>16. ASSUME NEW w \in Slots, Dispatch(w) PROVE run' = run
  BY <1>16 DEF Dispatch
<1>17. CASE Crash
  BY <1>17 DEF Crash
<1>18. CASE UNCHANGED vars
  BY <1>18 DEF vars
<1>19. \A w \in Slots : Begin(w) \/ Complete(w) \/ RecordFailure(w) => slot[w].run \in Requests
  BY DEF Begin, Complete, RecordFailure, TypeOK
<1>20. QED
  BY <1>1, <1>2, <1>3, <1>4, <1>5, <1>6, <1>7, <1>8, <1>9, <1>10, <1>11, <1>12,
     <1>13, <1>14, <1>15, <1>16, <1>17, <1>18, <1>19
     DEF Next, HandlerStep, StartTask, TaskStep, Lifecycle!Next

(* ImplementsRunLifecycle: without redelivery, every behaviour of the       *)
(* handlers, the broker and the worker, crashes included, shows the status  *)
(* endpoint a run that goes through its stages in order and ends once.      *)
THEOREM RunsFollowLifecycle == MaxRedeliveries = 0 => (Spec => ImplementsRunLifecycle)
<1> SUFFICES ASSUME MaxRedeliveries = 0 PROVE Spec => ImplementsRunLifecycle
  OBVIOUS
<1> DEFINE IInv == TypeOK /\ IdleSlotsHoldNothing /\ Linear /\ redeliveries = 0
<1>1. Init => IInv /\ Lifecycle!Init
  BY InitTypeOK, InitLinear DEF Init, Lifecycle!Init, NoRow, Lifecycle!NoRow
<1>2. IInv /\ [Next]_vars => IInv'
  BY NextTypeOK, IdleStep, LinearStep, FaultsAreCounted
<1>3. IInv /\ [Next]_vars => [Lifecycle!Next]_run
  BY LifecycleStep
<1>4. QED
  <2> HIDE DEF IInv
  <2>1. QED
    BY <1>1, <1>2, <1>3, PTL DEF Spec, ImplementsRunLifecycle, Lifecycle!Spec

-----------------------------------------------------------------------------
(* A run reported COMPLETED has run all its stages, even when one message   *)
(* was delivered twice.                                                     *)
(*                                                                          *)
(* A second delivery gives a run two tokens, each a waiting message or a    *)
(* task in a slot.  A token is honest when the stages before it have all    *)
(* succeeded; one that loads a FAILED row goes on without its body and is   *)
(* honest no longer.  But the failure it saw ended the other token, so it   *)
(* is the last, and as long as it meets FAILED it writes no status: the run *)
(* is spent.                                                                *)

AtMostOne(S) == \E a : S \subseteq {a}
AtMostTwo(S) == \E a, b : S \subseteq {a, b}

Message(s, n) == <<"message", s, n>>
Execution(w) == <<"task", w, 0>>

TokensOf(waiting, executing) ==
  {t \in {Message(s, n) : s \in Stage, n \in Nat} : 1 <= t[3] /\ t[3] <= waiting[t[2]]}
    \cup {Execution(w) : w \in executing}

Executing(q) == {w \in Slots : slot[w].run = q}

Tokens(q) == TokensOf(queue[q], Executing(q))

TwoTokens(q) ==
  /\ AtMostTwo(Tokens(q))
  /\ run[q].status = "FAILED" => AtMostOne(Tokens(q))

HonestTask(w, q) ==
  /\ \A s \in Stage : s < slot[w].stage => s \in ran[q]
  /\ slot[w].pc \in {"finish", "done"} => slot[w].stage \in ran[q]
  /\ slot[w].pc = "finish" => slot[w].stage = LastStage

Honest(q) ==
  /\ \A t \in Stage : queue[q][t] > 0 => \A s \in Stage : s < t => s \in ran[q]
  /\ \A w \in Slots : slot[w].run = q => HonestTask(w, q)

Spent(q) ==
  /\ run[q].status = "FAILED"
  /\ \A w \in Slots : slot[w].run = q => slot[w].pc \in {"load", "done"}

HandlersFirst == \A q \in Requests : HandlerAgrees(q)

PairAfterRedelivery == redeliveries = 1 => \A q \in Requests : TwoTokens(q)

HonestOrSpent ==
  redeliveries <= 1 =>
    \A q \in Requests :
      /\ run[q].status = "COMPLETED" => ran[q] = Stage
      /\ Honest(q) \/ Spent(q)

LEMMA TokenReplaced ==
  ASSUME NEW S, NEW T, NEW x, NEW y, x \in S, T \subseteq (S \ {x}) \cup {y}
  PROVE  /\ AtMostOne(S) => AtMostOne(T)
         /\ AtMostTwo(S) => AtMostTwo(T)
<1>1. ASSUME AtMostOne(S) PROVE AtMostOne(T)
  <2>1. PICK a : S \subseteq {a}
    BY <1>1 DEF AtMostOne
  <2>2. T \subseteq {y}
    BY <2>1
  <2>3. QED
    BY <2>2 DEF AtMostOne
<1>2. ASSUME AtMostTwo(S) PROVE AtMostTwo(T)
  <2>1. PICK a, b : S \subseteq {a, b}
    BY <1>2 DEF AtMostTwo
  <2>2. T \subseteq {b, y} \/ T \subseteq {a, y}
    BY <2>1
  <2>3. QED
    BY <2>2 DEF AtMostTwo
<1>3. QED
  BY <1>1, <1>2

LEMMA TokenRemoved ==
  ASSUME NEW S, NEW T, NEW x, x \in S, T \subseteq S \ {x}, AtMostTwo(S)
  PROVE  AtMostOne(T)
<1>1. PICK a, b : S \subseteq {a, b}
  BY DEF AtMostTwo
<1>2. T \subseteq {b} \/ T \subseteq {a}
  BY <1>1
<1>3. QED
  BY <1>2 DEF AtMostOne

LEMMA FewerTokens ==
  ASSUME NEW S, NEW T, T \subseteq S
  PROVE  /\ AtMostOne(S) => AtMostOne(T) /\ AtMostTwo(T)
         /\ AtMostTwo(S) => AtMostTwo(T)
<1>1. ASSUME AtMostOne(S) PROVE AtMostOne(T) /\ AtMostTwo(T)
  <2>1. PICK a : S \subseteq {a}
    BY <1>1 DEF AtMostOne
  <2>2. T \subseteq {a} /\ T \subseteq {a, a}
    BY <2>1
  <2>3. QED
    BY <2>2 DEF AtMostOne, AtMostTwo
<1>2. ASSUME AtMostTwo(S) PROVE AtMostTwo(T)
  <2>1. PICK a, b : S \subseteq {a, b}
    BY <1>2 DEF AtMostTwo
  <2>2. T \subseteq {a, b}
    BY <2>1
  <2>3. QED
    BY <2>2 DEF AtMostTwo
<1>3. QED
  BY <1>1, <1>2

(* A token is a message that waits or a slot that executes.                 *)
LEMMA TokenKinds ==
  ASSUME NEW m, NEW W
  PROVE  /\ \A t : t \in TokensOf(m, W) <=>
                \/ \E s \in Stage, n \in Nat : t = Message(s, n) /\ 1 <= n /\ n <= m[s]
                \/ \E w \in W : t = Execution(w)
         /\ \A s, n, w : Message(s, n) # Execution(w)
         /\ \A s, n, t, k : Message(s, n) = Message(t, k) => s = t /\ n = k
         /\ \A v, w : Execution(v) = Execution(w) => v = w
<1>1. \A s, n : Message(s, n)[2] = s /\ Message(s, n)[3] = n /\ Message(s, n)[1] = "message"
  BY DEF Message
<1>2. \A w : Execution(w)[1] = "task" /\ Execution(w)[2] = w
  BY DEF Execution
<1>3. ASSUME NEW t
      PROVE  t \in TokensOf(m, W) <=>
                \/ \E s \in Stage, n \in Nat : t = Message(s, n) /\ 1 <= n /\ n <= m[s]
                \/ \E w \in W : t = Execution(w)
  <2> DEFINE waiting == {u \in {Message(s, n) : s \in Stage, n \in Nat} :
                          1 <= u[3] /\ u[3] <= m[u[2]]}
             executing == {Execution(w) : w \in W}
  <2>1. t \in waiting <=> \E s \in Stage, n \in Nat :
                            t = Message(s, n) /\ 1 <= n /\ n <= m[s]
    BY <1>1
  <2>2. t \in executing <=> \E w \in W : t = Execution(w)
    OBVIOUS
  <2>3. TokensOf(m, W) = waiting \cup executing
    BY DEF TokensOf
  <2>4. QED
    BY <2>1, <2>2, <2>3
<1>4. QED
  BY <1>1, <1>2, <1>3

(* What a step leaves of run r, by what it is to run r.                     *)
Elsewhere(r) ==
  /\ run'[r] = run[r] /\ queue'[r] = queue[r] /\ ran'[r] = ran[r]
  /\ \A v \in Slots : slot'[v] = slot[v] \/ (slot[v].run # r /\ slot'[v].run # r)

StepOf(r) ==
  \/ Elsewhere(r)
  \/ InsertRun(r)
  \/ Publish(r)
  \/ \E w \in Slots, s \in Stage : Take(w, r, s)
  \/ \E s \in Stage : Redeliver(r, s)
  \/ \E w \in Slots : slot[w].run = r /\ TaskStep(w)
  \/ Crash

LEMMA EveryStep ==
  ASSUME TypeOK, IdleSlotsHoldNothing, [Next]_vars, NEW r \in Requests
  PROVE  StepOf(r)
<1> USE DEF faults
<1>1. CASE ImportDataset
  BY <1>1 DEF ImportDataset, StepOf, Elsewhere
<1>2. ASSUME NEW q \in Requests, CountReferences(q) PROVE StepOf(r)
  BY <1>2 DEF CountReferences, StepOf, Elsewhere
<1>3. ASSUME NEW q \in Requests, CheckActive(q) PROVE StepOf(r)
  BY <1>3 DEF CheckActive, StepOf, Elsewhere
<1>4. ASSUME NEW q \in Requests, InsertRun(q) PROVE StepOf(r)
  BY <1>4 DEF InsertRun, StepOf, Elsewhere, TypeOK
<1>5. ASSUME NEW q \in Requests, Publish(q) PROVE StepOf(r)
  BY <1>5 DEF Publish, StepOf, Elsewhere, TypeOK
<1>6. ASSUME NEW q \in Requests, PublishFails(q) PROVE StepOf(r)
  BY <1>6 DEF PublishFails, StepOf, Elsewhere
<1>7. ASSUME NEW q \in Requests, StoreRootId(q) PROVE StepOf(r)
  BY <1>7 DEF StoreRootId, StepOf, Elsewhere
<1>8. ASSUME NEW w \in Slots, NEW q \in Requests, NEW s \in Stage, Take(w, q, s)
      PROVE StepOf(r)
  <2>1. CASE q = r
    BY <1>8, <2>1 DEF StepOf
  <2>2. CASE q # r
    <3>1. slot[w].run # r /\ slot'[w].run = q /\ \A v \in Slots : v # w => slot'[v] = slot[v]
      BY <1>8, NoneAssumption DEF Take, TypeOK, IdleSlotsHoldNothing
    <3>2. Elsewhere(r)
      BY <1>8, <2>2, <3>1 DEF Take, Elsewhere, TypeOK
    <3>3. QED
      BY <3>2 DEF StepOf
  <2>3. QED
    BY <2>1, <2>2
<1>9. ASSUME NEW q \in Requests, NEW s \in Stage, Redeliver(q, s) PROVE StepOf(r)
  BY <1>9 DEF Redeliver, StepOf, Elsewhere, TypeOK
<1>10. ASSUME NEW w \in Slots, TaskStep(w) PROVE StepOf(r)
  <2>1. CASE slot[w].run = r
    BY <1>10, <2>1 DEF StepOf
  <2>2. CASE slot[w].run # r
    <3>1. /\ slot' \in [Slots -> Task] /\ \A v \in Slots : v # w => slot'[v] = slot[v]
          /\ slot'[w].run \in {slot[w].run, None}
      <4>1. slot' \in [Slots -> Task]
        BY <1>10, NextTypeOK DEF Next, TypeOK
      <4>2. \A v \in Slots : v # w => slot'[v] = slot[v]
        BY <1>10 DEF TaskStep, Load, Begin, Succeed, Complete, Raise, RecordFailure,
                     Dispatch, TypeOK
      <4>3. slot'[w].run \in {slot[w].run, None}
        BY <1>10, IdleTask
           DEF TaskStep, Load, Begin, Succeed, Complete, Raise, RecordFailure, Dispatch,
               TypeOK, Task
      <4>4. QED
        BY <4>1, <4>2, <4>3
    <3>2. run'[r] = run[r]
      BY <1>10, <2>2
         DEF TaskStep, Load, Begin, Succeed, Complete, Raise, RecordFailure, Dispatch, TypeOK
    <3>3. queue'[r] = queue[r]
      BY <1>10, <2>2
         DEF TaskStep, Load, Begin, Succeed, Complete, Raise, RecordFailure, Dispatch, TypeOK
    <3>4. ran'[r] = ran[r]
      BY <1>10, <2>2
         DEF TaskStep, Load, Begin, Succeed, Complete, Raise, RecordFailure, Dispatch, TypeOK
    <3>5. QED
      BY <2>2, <3>1, <3>2, <3>3, <3>4, NoneAssumption DEF StepOf, Elsewhere
  <2>3. QED
    BY <2>1, <2>2
<1>11. CASE Crash
  BY <1>11 DEF StepOf
<1>12. CASE UNCHANGED vars
  BY <1>12 DEF vars, StepOf, Elsewhere
<1>13. QED
  BY <1>1, <1>2, <1>3, <1>4, <1>5, <1>6, <1>7, <1>8, <1>9, <1>10, <1>11, <1>12
     DEF Next, HandlerStep, StartTask

(* A run has no message and no task until its handler publishes it, and     *)
(* after that never an unpublished handler.                                 *)
LEMMA HandlersFirstStep ==
  TypeOK /\ IdleSlotsHoldNothing /\ HandlersFirst /\ [Next]_vars => HandlersFirst'
<1> SUFFICES ASSUME TypeOK, IdleSlotsHoldNothing, HandlersFirst, [Next]_vars,
                    NEW r \in Requests
             PROVE  HandlerAgrees(r)'
  BY DEF HandlersFirst
<1>a. HandlerAgrees(r)
  BY DEF HandlersFirst
<1> DEFINE Moved ==
      \/ handler'[r].pc = handler[r].pc
      \/ handler[r].pc \in {"idle", "counted"} /\ handler'[r].pc \in {"400", "counted", "409", "clear"}
      \/ handler[r].pc = "inserted" /\ handler'[r].pc = "500"
      \/ handler'[r].pc = "202"
      \/ InsertRun(r) \/ Publish(r)
<1>b. Moved
  <2>1. CASE ImportDataset \/ StartTask \/ (\E q \in Requests, s \in Stage : Redeliver(q, s))
             \/ (\E w \in Slots : TaskStep(w)) \/ Crash \/ UNCHANGED vars
    BY <2>1 DEF ImportDataset, StartTask, Take, Redeliver, TaskStep, Load, Begin, Succeed,
                Complete, Raise, RecordFailure, Dispatch, Crash, vars, faults
  <2>2. ASSUME NEW q \in Requests,
               CountReferences(q) \/ HandlerStep(q) \/ PublishFails(q)
        PROVE  Moved
    BY <2>2 DEF CountReferences, HandlerStep, CheckActive, InsertRun, Publish, StoreRootId,
                PublishFails, TypeOK, Handler
  <2>3. QED
    BY <2>1, <2>2 DEF Next
<1>c. StepOf(r)
  BY EveryStep
<1>1. CASE Elsewhere(r) /\ ~ InsertRun(r) /\ ~ Publish(r)
  <2>1. Unpublished(r) => Unpublished(r)'
    BY <1>1 DEF Elsewhere, Unpublished
  <2>2. QED
    BY <1>1, <1>a, <1>b, <2>1 DEF Elsewhere, HandlerAgrees
<1>2. CASE InsertRun(r)
  BY <1>2, <1>a DEF InsertRun, HandlerAgrees, Unpublished, Before, TypeOK, Handler
<1>3. CASE Publish(r)
  BY <1>3 DEF Publish, HandlerAgrees, TypeOK, Handler
<1>4. ASSUME NEW w \in Slots, NEW s \in Stage, Take(w, r, s) PROVE HandlerAgrees(r)'
  BY <1>4, <1>a DEF Take, HandlerAgrees, Unpublished
<1>5. ASSUME NEW s \in Stage, Redeliver(r, s) PROVE HandlerAgrees(r)'
  BY <1>5, <1>a DEF Redeliver, HandlerAgrees, Unpublished
<1>6. ASSUME NEW w \in Slots, slot[w].run = r, TaskStep(w) PROVE HandlerAgrees(r)'
  <2>1. ~ Unpublished(r) /\ handler' = handler
    BY <1>6 DEF Unpublished, TaskStep, Load, Begin, Succeed, Complete, Raise, RecordFailure,
                Dispatch
  <2>2. QED
    BY <1>a, <2>1 DEF HandlerAgrees
<1>7. CASE Crash
  BY <1>7, <1>a, IdleTask, NoneAssumption DEF Crash, HandlerAgrees, Unpublished
<1>8. QED
  BY <1>c, <1>1, <1>2, <1>3, <1>4, <1>5, <1>6, <1>7 DEF StepOf

LEMMA OneToken ==
  ASSUME TypeOK, IdleSlotsHoldNothing, NEW r \in Requests, Agrees(r)
  PROVE  AtMostOne(Tokens(r))
<1>1. ASSUME NEW w \in Slots, slot[w].run = r PROVE AtMostOne(Tokens(r))
  <2>1. slot[w].pc # "idle"
    BY <1>1, NoneAssumption DEF IdleSlotsHoldNothing
  <2>2. /\ \A s \in Stage : queue[r][s] = 0
        /\ \A v \in Slots : slot[v].run = r => v = w
    BY <1>1, <2>1, TaskHoldsAlone
  <2>3. Tokens(r) \subseteq {Execution(w)}
    BY <2>2, TokenKinds DEF Tokens, Executing
  <2>4. QED
    BY <2>3 DEF AtMostOne
<1>2. ASSUME NEW s \in Stage, queue[r][s] > 0 PROVE AtMostOne(Tokens(r))
  <2>1. /\ queue[r][s] = 1
        /\ \A t \in Stage : queue[r][t] > 0 => t = s
        /\ \A w \in Slots : slot[w].run # r
    BY <1>2 DEF Agrees, MessageAgrees
  <2>2. \A t \in Stage : queue[r][t] \in Nat
    BY DEF TypeOK
  <2>3. Tokens(r) \subseteq {Message(s, 1)}
    <3>1. ASSUME NEW t \in Stage, NEW n \in Nat, 1 <= n, n <= queue[r][t] PROVE t = s /\ n = 1
      BY <2>1, <2>2, <3>1
    <3>2. QED
      BY <2>1, <3>1, TokenKinds DEF Tokens, Executing
  <2>4. QED
    BY <2>3 DEF AtMostOne
<1>3. CASE (\A w \in Slots : slot[w].run # r) /\ (\A s \in Stage : ~ (queue[r][s] > 0))
  <2>1. \A t \in Stage : queue[r][t] \in Nat
    BY DEF TypeOK
  <2>2. \A t \in Stage, n \in Nat : ~ (1 <= n /\ n <= queue[r][t])
    BY <2>1, <1>3
  <2>3. Tokens(r) \subseteq {r}
    BY <1>3, <2>2, TokenKinds DEF Tokens, Executing
  <2>4. QED
    BY <2>3 DEF AtMostOne
<1>4. QED
  BY <1>1, <1>2, <1>3

(* What a step of the task in slot w does to the tokens of its run.         *)
LEMMA TaskTokens ==
  ASSUME TypeOK, NEW w \in Slots, TaskStep(w), NEW r \in Requests, slot[w].run = r
  PROVE  /\ Execution(w) \in Tokens(r)
         /\ \/ /\ slot'[w].run = r
               /\ Tokens(r)' = Tokens(r)
               /\ run'[r].status = "FAILED" => run[r].status = "FAILED"
            \/ RecordFailure(w) /\ Tokens(r)' \subseteq Tokens(r) \ {Execution(w)}
            \/ /\ Dispatch(w)
               /\ \E s, n : Tokens(r)' \subseteq (Tokens(r) \ {Execution(w)})
                                                 \cup {Message(s, n)}
               /\ run'[r] = run[r]
<1>0. Execution(w) \in Tokens(r)
  BY TokenKinds DEF Tokens, Executing
<1>1. CASE Load(w) \/ Begin(w) \/ Succeed(w) \/ Complete(w) \/ Raise(w)
  <2> DEFINE Same == queue' = queue /\ \A v \in Slots : slot'[v].run = slot[v].run
  <2>1. Same
    <3>1. CASE Load(w)
      BY <3>1 DEF Load, TypeOK, Task
    <3>2. CASE Begin(w)
      <4>1. slot' = [slot EXCEPT ![w].pc = "body", ![w].seen = NoRow] /\ queue' = queue
        BY <3>2 DEF Begin
      <4>2. QED
        BY <4>1 DEF TypeOK, Task
    <3>3. CASE Succeed(w) \/ Complete(w)
      BY <3>3 DEF Succeed, Complete, TypeOK, Task
    <3>4. CASE Raise(w)
      BY <3>4 DEF Raise, TypeOK, Task
    <3>5. QED
      BY <1>1, <3>1, <3>2, <3>3, <3>4
  <2>2. Executing(r)' = Executing(r)
    BY <2>1 DEF Executing
  <2>3. Tokens(r)' = Tokens(r)
    BY <2>1, <2>2 DEF Tokens
  <2>4. run'[r].status = "FAILED" => run[r].status = "FAILED"
    BY <1>1 DEF Load, Begin, Succeed, Complete, Raise, TypeOK, Row
  <2>5. QED
    BY <1>0, <2>1, <2>3, <2>4
<1>2. ASSUME slot' = [slot EXCEPT ![w] = Idle]
      PROVE  Executing(r)' = Executing(r) \ {w}
  BY <1>2, IdleTask, NoneAssumption DEF Executing, TypeOK
<1>3. CASE RecordFailure(w)
  <2>1. Executing(r)' = Executing(r) \ {w} /\ queue' = queue
    BY <1>2, <1>3 DEF RecordFailure
  <2>2. Tokens(r)' \subseteq Tokens(r) \ {Execution(w)}
    BY <2>1, TokenKinds DEF Tokens
  <2>3. QED
    BY <1>0, <1>3, <2>2
<1>4. CASE Dispatch(w)
  <2>1. Executing(r)' = Executing(r) \ {w} /\ run' = run
    BY <1>2, <1>4 DEF Dispatch
  <2>2. \A s \in Stage : queue[r][s] \in Nat
    BY DEF TypeOK
  <2>3. PICK s, k : \A t \in Stage, n \in Nat :
            n <= queue'[r][t] => n <= queue[r][t] \/ (t = s /\ n = k)
    <3>1. CASE slot[w].stage = LastStage
      BY <1>4, <3>1 DEF Dispatch
    <3>2. CASE slot[w].stage # LastStage
      <4> DEFINE next == slot[w].stage + 1
      <4>1. /\ queue'[r][next] = queue[r][next] + 1
            /\ \A t \in Stage : t # next => queue'[r][t] = queue[r][t]
            /\ next \in Stage
        BY <1>4, <3>2 DEF Dispatch, TypeOK, Stage, LastStage
      <4>2. \A t \in Stage, n \in Nat :
            n <= queue'[r][t] => n <= queue[r][t] \/ (t = next /\ n = queue[r][next] + 1)
        BY <4>1, <2>2
      <4>3. QED
        BY <4>2
    <3>3. QED
      BY <3>1, <3>2
  <2>4. Tokens(r)' \subseteq (Tokens(r) \ {Execution(w)}) \cup {Message(s, k)}
    BY <2>1, <2>3, TokenKinds DEF Tokens
  <2>5. QED
    BY <1>0, <1>4, <2>1, <2>4
<1>5. QED
  BY <1>1, <1>3, <1>4 DEF TaskStep

LEMMA PairStep ==
  TypeOK /\ IdleSlotsHoldNothing /\ Linear /\ HandlersFirst /\ PairAfterRedelivery
    /\ [Next]_vars => PairAfterRedelivery'
<1> SUFFICES ASSUME TypeOK, IdleSlotsHoldNothing, Linear, HandlersFirst,
                    PairAfterRedelivery, [Next]_vars, redeliveries' = 1, NEW r \in Requests
             PROVE  TwoTokens(r)'
  BY DEF PairAfterRedelivery
<1>1. ASSUME NEW q \in Requests, NEW s \in Stage, Redeliver(q, s) PROVE TwoTokens(r)'
  <2>1. redeliveries = 0 /\ run' = run /\ slot' = slot
    BY <1>1 DEF Redeliver, TypeOK
  <2>2. Agrees(q) /\ Agrees(r)
    BY <2>1 DEF Linear
  <2>3. Executing(r)' = Executing(r)
    BY <2>1 DEF Executing
  <2>4. CASE q = r
    <3>1. /\ queue[r][s] = 1
          /\ \A t \in Stage : queue[r][t] > 0 => t = s
          /\ \A w \in Slots : slot[w].run # r
          /\ run[r] = Before(s)
      BY <1>1, <2>2, <2>4 DEF Redeliver, Agrees, MessageAgrees
    <3>2. \A t \in Stage : queue[r][t] \in Nat
      BY DEF TypeOK
    <3>3. queue'[r][s] = 2 /\ \A t \in Stage : t # s => queue'[r][t] = queue[r][t]
      BY <1>1, <2>4, <3>1 DEF Redeliver, TypeOK
    <3>4. \A t \in Stage, n \in Nat : 1 <= n /\ n <= queue'[r][t] => t = s /\ n \in {1, 2}
      BY <3>1, <3>2, <3>3
    <3>5. Executing(r)' = {}
      BY <2>3, <3>1 DEF Executing
    <3>6. Tokens(r)' \subseteq {Message(s, 1), Message(s, 2)}
      BY <3>4, <3>5, TokenKinds DEF Tokens
    <3>7. run'[r].status # "FAILED"
      BY <2>1, <3>1 DEF Before
    <3>8. QED
      BY <3>6, <3>7 DEF TwoTokens, AtMostTwo
  <2>5. CASE q # r
    <3>1. queue'[r] = queue[r]
      BY <1>1, <2>5 DEF Redeliver, TypeOK
    <3>2. Tokens(r)' = Tokens(r)
      BY <2>3, <3>1 DEF Tokens
    <3>3. QED
      BY <2>2, <3>2, OneToken, FewerTokens DEF TwoTokens
  <2>6. QED
    BY <2>4, <2>5
<1>2. CASE ~ (\E q \in Requests, s \in Stage : Redeliver(q, s))
  <2>1. redeliveries = 1
    BY <1>2 DEF Next, ImportDataset, CountReferences, HandlerStep, CheckActive, InsertRun,
       Publish, StoreRootId, PublishFails, StartTask, Take, TaskStep, Load, Begin, Succeed,
       Complete, Raise, RecordFailure, Dispatch, Crash, vars, faults
  <2>2. TwoTokens(r)
    BY <2>1 DEF PairAfterRedelivery
  <2>3. StepOf(r)
    BY EveryStep
  <2>4. CASE Elsewhere(r)
    <3>1. Executing(r)' = Executing(r)
      BY <2>4 DEF Elsewhere, Executing
    <3>2. Tokens(r)' = Tokens(r) /\ run'[r] = run[r]
      BY <2>4, <3>1 DEF Elsewhere, Tokens
    <3>3. QED
      BY <2>2, <3>2 DEF TwoTokens
  <2>5. CASE InsertRun(r)
    <3>1. Tokens(r)' = Tokens(r)
      BY <2>5 DEF InsertRun, faults, Tokens, Executing
    <3>2. run'[r].status # "FAILED"
      BY <2>5 DEF InsertRun, TypeOK
    <3>3. QED
      BY <2>2, <3>1, <3>2 DEF TwoTokens
  <2>6. CASE Publish(r)
    <3>1. Unpublished(r) /\ run[r] = Before(1)
      BY <2>6 DEF Publish, HandlersFirst, HandlerAgrees
    <3>2. /\ queue'[r][1] = 1 /\ \A t \in Stage : t # 1 => queue'[r][t] = 0
          /\ run' = run /\ slot' = slot
      BY <2>6, <3>1 DEF Publish, Unpublished, TypeOK, Stage, LastStage
    <3>3. \A t \in Stage, n \in Nat : 1 <= n /\ n <= queue'[r][t] => t = 1 /\ n = 1
      BY <3>2
    <3>4. Executing(r)' = {}
      BY <3>1, <3>2 DEF Executing, Unpublished
    <3>5. Tokens(r)' \subseteq {Message(1, 1), Message(1, 1)}
      BY <3>3, <3>4, TokenKinds DEF Tokens
    <3>6. run'[r].status # "FAILED"
      BY <3>1, <3>2 DEF Before
    <3>7. QED
      BY <3>5, <3>6 DEF TwoTokens, AtMostTwo
  <2>7. ASSUME NEW w \in Slots, NEW s \in Stage, Take(w, r, s) PROVE TwoTokens(r)'
    <3>1. \A t \in Stage : queue[r][t] \in Nat
      BY DEF TypeOK
    <3>2. /\ queue'[r][s] = queue[r][s] - 1 /\ queue[r][s] \in Nat \ {0}
          /\ \A t \in Stage : t # s => queue'[r][t] = queue[r][t]
          /\ run' = run
      BY <2>7, <3>1 DEF Take, TypeOK
    <3>3. Executing(r)' \subseteq Executing(r) \cup {w}
      BY <2>7 DEF Take, Executing, TypeOK
    <3>4. Message(s, queue[r][s]) \in Tokens(r)
      BY <3>2, TokenKinds DEF Tokens
    <3>5. \A t \in Stage, n \in Nat : n <= queue'[r][t] =>
             n <= queue[r][t] /\ ~ (t = s /\ n = queue[r][s])
      BY <3>1, <3>2
    <3>6. Tokens(r)' \subseteq (Tokens(r) \ {Message(s, queue[r][s])}) \cup {Execution(w)}
      BY <3>3, <3>5, TokenKinds DEF Tokens
    <3>7. QED
      <4> DEFINE S == Tokens(r)
                 T == Tokens(r)'
                 x == Message(s, queue[r][s])
                 y == Execution(w)
      <4>1. /\ AtMostOne(S) => AtMostOne(T)
            /\ AtMostTwo(S) => AtMostTwo(T)
        <5>1. x \in S /\ T \subseteq (S \ {x}) \cup {y}
          BY <3>4, <3>6
        <5> HIDE DEF S, T, x, y
        <5>2. QED
          BY <5>1, TokenReplaced
      <4>2. QED
        BY <2>2, <3>2, <4>1 DEF TwoTokens
  <2>8. ASSUME NEW w \in Slots, slot[w].run = r, TaskStep(w) PROVE TwoTokens(r)'
    <3> DEFINE S == Tokens(r)
               T == Tokens(r)'
    <3>1. /\ AtMostTwo(S) /\ (run[r].status = "FAILED" => AtMostOne(S))
          /\ Execution(w) \in S
      BY <2>2, <2>8, TaskTokens DEF TwoTokens
    <3>2. \/ T = S /\ (run'[r].status = "FAILED" => run[r].status = "FAILED")
          \/ T \subseteq S \ {Execution(w)}
          \/ /\ \E s, n : T \subseteq (S \ {Execution(w)}) \cup {Message(s, n)}
             /\ run'[r] = run[r]
      BY <2>8, TaskTokens
    <3> HIDE DEF S, T
    <3>3. AtMostTwo(T) /\ (run'[r].status = "FAILED" => AtMostOne(T))
      <4>1. CASE T = S /\ (run'[r].status = "FAILED" => run[r].status = "FAILED")
        BY <3>1, <4>1
      <4>2. CASE T \subseteq S \ {Execution(w)}
        <5>1. AtMostOne(T)
          BY <3>1, <4>2, TokenRemoved
        <5>2. AtMostTwo(T)
          BY <5>1, FewerTokens
        <5>3. QED
          BY <5>1, <5>2
      <4>3. ASSUME NEW s, NEW n, run'[r] = run[r],
                   T \subseteq (S \ {Execution(w)}) \cup {Message(s, n)}
            PROVE  AtMostTwo(T) /\ (run'[r].status = "FAILED" => AtMostOne(T))
        BY <3>1, <4>3, TokenReplaced
      <4>4. QED
        BY <3>2, <4>1, <4>2, <4>3
    <3>4. QED
      BY <3>3 DEF TwoTokens, S, T
  <2>9. CASE Crash
    <3>1. Executing(r)' = {} /\ queue' = queue /\ run' = run
      BY <2>9, IdleTask, NoneAssumption DEF Crash, Executing
    <3>2. Tokens(r)' \subseteq Tokens(r)
      BY <3>1, TokenKinds DEF Tokens
    <3>3. QED
      BY <2>2, <3>1, <3>2, FewerTokens DEF TwoTokens
  <2>10. QED
    BY <1>2, <2>3, <2>4, <2>5, <2>6, <2>7, <2>8, <2>9 DEF StepOf
<1>3. QED
  BY <1>1, <1>2

(* A task that loads a FAILED row is the last token of its run.             *)
LEMMA LastToken ==
  ASSUME TypeOK, IdleSlotsHoldNothing, Linear, PairAfterRedelivery, redeliveries <= 1,
         NEW w \in Slots, slot[w].pc = "load", NEW r \in Requests, slot[w].run = r,
         run[r].status = "FAILED"
  PROVE  \A v \in Slots : slot[v].run = r => v = w
<1>1. CASE redeliveries = 0
  BY <1>1, TaskHoldsAlone DEF Linear
<1>2. CASE redeliveries = 1
  <2>1. PICK a : Tokens(r) \subseteq {a}
    BY <1>2 DEF PairAfterRedelivery, TwoTokens, AtMostOne
  <2>2. \A v \in Slots : slot[v].run = r => Execution(v) = a
    BY <2>1, TokenKinds DEF Tokens, Executing
  <2>3. QED
    BY <2>2, TokenKinds
<1>3. QED
  BY <1>1, <1>2 DEF TypeOK

LEMMA HonestOrSpentStep ==
  TypeOK /\ IdleSlotsHoldNothing /\ Linear /\ HandlersFirst /\ PairAfterRedelivery
    /\ HonestOrSpent /\ [Next]_vars => HonestOrSpent'
<1> SUFFICES ASSUME TypeOK, IdleSlotsHoldNothing, Linear, HandlersFirst,
                    PairAfterRedelivery, HonestOrSpent, [Next]_vars, redeliveries' <= 1,
                    NEW r \in Requests
             PROVE  /\ run'[r].status = "COMPLETED" => ran'[r] = Stage
                    /\ Honest(r)' \/ Spent(r)'
  BY DEF HonestOrSpent
<1> DEFINE Goal == /\ run'[r].status = "COMPLETED" => ran'[r] = Stage
                   /\ Honest(r)' \/ Spent(r)'
<1>a. redeliveries <= 1
  <2>1. CASE \E q \in Requests, s \in Stage : Redeliver(q, s)
    BY <2>1 DEF Redeliver, TypeOK
  <2>2. CASE ~ (\E q \in Requests, s \in Stage : Redeliver(q, s))
    BY <2>2 DEF Next, ImportDataset, CountReferences, HandlerStep, CheckActive, InsertRun,
       Publish, StoreRootId, PublishFails, StartTask, Take, TaskStep, Load, Begin, Succeed,
       Complete, Raise, RecordFailure, Dispatch, Crash, vars, faults
  <2>3. QED
    BY <2>1, <2>2
<1>b. /\ run[r].status = "COMPLETED" => ran[r] = Stage
      /\ Honest(r) \/ Spent(r)
  BY <1>a DEF HonestOrSpent
<1>c. StepOf(r)
  BY EveryStep
<1>d. \A s \in Stage : queue[r][s] \in Nat
  BY DEF TypeOK
<1> USE DEF faults
<1>1. CASE Elsewhere(r)
  <2>1. Honest(r) => Honest(r)'
    BY <1>1 DEF Elsewhere, Honest, HonestTask
  <2>2. Spent(r) => Spent(r)'
    BY <1>1 DEF Elsewhere, Spent
  <2>3. QED
    BY <1>1, <1>b, <2>1, <2>2 DEF Elsewhere
<1>2. CASE InsertRun(r)
  <2>1. Unpublished(r) /\ queue' = queue /\ slot' = slot
    BY <1>2 DEF InsertRun, HandlersFirst, HandlerAgrees
  <2>2. Honest(r)'
    BY <2>1 DEF Unpublished, Honest
  <2>3. run'[r].status # "COMPLETED"
    BY <1>2 DEF InsertRun, TypeOK
  <2>4. QED
    BY <2>2, <2>3
<1>3. CASE Publish(r)
  <2>1. Unpublished(r) /\ slot' = slot /\ run' = run /\ ran' = ran
    BY <1>3 DEF Publish, HandlersFirst, HandlerAgrees
  <2>2. \A t \in Stage : queue'[r][t] > 0 => t = 1
    BY <1>3, <2>1 DEF Publish, Unpublished, TypeOK
  <2>3. \A s \in Stage : ~ (s < 1)
    BY DEF Stage, LastStage
  <2>4. Honest(r)'
    BY <2>1, <2>2, <2>3 DEF Unpublished, Honest
  <2>5. QED
    BY <1>b, <2>1, <2>4
<1>4. ASSUME NEW w \in Slots, NEW t \in Stage, Take(w, r, t) PROVE Goal
  <2>1. /\ run' = run /\ ran' = ran /\ queue[r][t] > 0
        /\ slot'[w] = [pc |-> "load", run |-> r, stage |-> t, seen |-> NoRow]
        /\ \A v \in Slots : v # w => slot'[v] = slot[v]
        /\ \A s \in Stage : queue'[r][s] > 0 => queue[r][s] > 0
    BY <1>4, <1>d DEF Take, TypeOK
  <2>2. Honest(r) => Honest(r)'
    BY <2>1 DEF Honest, HonestTask
  <2>3. Spent(r) => Spent(r)'
    BY <2>1 DEF Spent
  <2>4. QED
    BY <1>b, <2>1, <2>2, <2>3
<1>5. ASSUME NEW t \in Stage, Redeliver(r, t) PROVE Goal
  <2>1. /\ run' = run /\ ran' = ran /\ slot' = slot
        /\ \A s \in Stage : queue'[r][s] > 0 => queue[r][s] > 0
    BY <1>5, <1>d DEF Redeliver, TypeOK
  <2>2. Honest(r) => Honest(r)'
    BY <2>1 DEF Honest, HonestTask
  <2>3. Spent(r) => Spent(r)'
    BY <2>1 DEF Spent
  <2>4. QED
    BY <1>b, <2>1, <2>2, <2>3
<1>6. ASSUME NEW w \in Slots, slot[w].run = r, TaskStep(w) PROVE Goal
  <2> DEFINE Rest == \A v \in Slots : v # w => slot'[v] = slot[v]
  <2>a. Honest(r) => HonestTask(w, r)
    BY <1>6 DEF Honest
  <2>b. Spent(r) => slot[w].pc \in {"load", "done"} /\ run[r].status = "FAILED"
    BY <1>6 DEF Spent
  <2>c. slot[w].pc # "idle" => slot[w].stage \in Stage
    BY DEF TypeOK
  <2>1. CASE Load(w)
    <3>1. /\ run' = run /\ ran' = ran /\ queue' = queue /\ Rest
          /\ slot[w].pc = "load" /\ slot'[w].run = r /\ slot'[w].stage = slot[w].stage
          /\ slot'[w].pc = IF run[r].status = "FAILED" THEN "done" ELSE "begin"
      BY <1>6, <2>1 DEF Load, TypeOK, Task
    <3>2. CASE run[r].status = "FAILED"
      <4>1. \A v \in Slots : slot[v].run = r => v = w
        BY <1>6, <1>a, <3>1, <3>2, LastToken
      <4>2. Spent(r)'
        BY <3>1, <3>2, <4>1 DEF Spent
      <4>3. QED
        BY <1>b, <3>1, <4>2
    <3>3. CASE run[r].status # "FAILED"
      <4>1. Honest(r)
        BY <1>b, <3>3 DEF Spent
      <4>2. HonestTask(w, r)'
        BY <2>a, <3>1, <3>3, <4>1 DEF HonestTask
      <4>3. Honest(r)'
        BY <3>1, <4>1, <4>2 DEF Honest, HonestTask
      <4>4. QED
        BY <1>b, <3>1, <4>3
    <3>4. QED
      BY <3>2, <3>3
  <2>2. CASE Begin(w)
    <3>1. slot' = [slot EXCEPT ![w].pc = "body", ![w].seen = NoRow]
      BY <2>2 DEF Begin
    <3>2. /\ ran' = ran /\ queue' = queue /\ Rest /\ slot[w].pc = "begin"
          /\ slot'[w].run = r /\ slot'[w].stage = slot[w].stage /\ slot'[w].pc = "body"
      BY <1>6, <2>2, <3>1 DEF Begin, TypeOK, Task
    <3>3. run'[r].status \in {run[r].status, "RUNNING"}
      BY <1>6, <2>2 DEF Begin, TypeOK, Row
    <3>4. Honest(r)
      BY <1>b, <2>b, <3>2
    <3>5. HonestTask(w, r)'
      BY <2>a, <3>2, <3>4 DEF HonestTask
    <3>6. Honest(r)'
      BY <3>2, <3>4, <3>5 DEF Honest, HonestTask
    <3>7. QED
      BY <1>b, <3>2, <3>3, <3>6
  <2>3. CASE Succeed(w)
    <3>1. /\ run' = run /\ queue' = queue /\ Rest /\ slot[w].pc = "body"
          /\ slot'[w].run = r /\ slot'[w].stage = slot[w].stage
          /\ slot'[w].pc = IF slot[w].stage = LastStage THEN "finish" ELSE "done"
          /\ ran'[r] = ran[r] \cup {slot[w].stage}
      BY <1>6, <2>3 DEF Succeed, TypeOK, Task
    <3>2. Honest(r)
      BY <1>b, <2>b, <3>1
    <3>3. HonestTask(w, r)'
      BY <2>a, <3>1, <3>2 DEF HonestTask
    <3>4. Honest(r)'
      BY <3>1, <3>2, <3>3 DEF Honest, HonestTask
    <3>5. ran[r] = Stage => ran'[r] = Stage
      BY <2>c, <3>1
    <3>6. QED
      BY <1>b, <3>1, <3>4, <3>5
  <2>4. CASE Complete(w)
    <3>1. /\ ran' = ran /\ queue' = queue /\ Rest /\ slot[w].pc = "finish"
          /\ slot'[w].run = r /\ slot'[w].stage = slot[w].stage /\ slot'[w].pc = "done"
      BY <1>6, <2>4 DEF Complete, TypeOK, Task
    <3>2. Honest(r)
      BY <1>b, <2>b, <3>1
    <3>3. HonestTask(w, r)'
      BY <2>a, <3>1, <3>2 DEF HonestTask
    <3>4. Honest(r)'
      BY <3>1, <3>2, <3>3 DEF Honest, HonestTask
    <3>5. ran[r] = Stage
      <4>1. ran[r] \subseteq Stage
        BY DEF TypeOK
      <4>2. \A s \in Stage : s < LastStage \/ s = LastStage
        BY DEF Stage, LastStage
      <4>3. QED
        BY <2>a, <3>1, <3>2, <4>1, <4>2 DEF HonestTask
    <3>6. QED
      BY <3>1, <3>4, <3>5
  <2>5. CASE Raise(w)
    <3>1. slot' = [slot EXCEPT ![w].pc = "failing", ![w].seen = run[slot[w].run]]
      BY <2>5 DEF Raise
    <3>2. /\ run' = run /\ ran' = ran /\ queue' = queue /\ Rest /\ slot[w].pc = "body"
          /\ slot'[w].run = r /\ slot'[w].stage = slot[w].stage /\ slot'[w].pc = "failing"
      BY <1>6, <2>5, <3>1 DEF Raise, TypeOK, Task
    <3>3. Honest(r)
      BY <1>b, <2>b, <3>2
    <3>4. HonestTask(w, r)'
      BY <2>a, <3>2, <3>3 DEF HonestTask
    <3>5. Honest(r)'
      BY <3>2, <3>3, <3>4 DEF Honest, HonestTask
    <3>6. QED
      BY <1>b, <3>2, <3>5
  <2>6. CASE RecordFailure(w)
    <3>1. /\ ran' = ran /\ queue' = queue /\ Rest /\ slot[w].pc = "failing"
          /\ slot'[w].run # r
      BY <2>6, IdleTask, NoneAssumption DEF RecordFailure, TypeOK
    <3>2. run'[r].status \in {run[r].status, "FAILED"}
      BY <1>6, <2>6 DEF RecordFailure, TypeOK, Row
    <3>3. Honest(r)
      BY <1>b, <2>b, <3>1
    <3>4. Honest(r)'
      BY <3>1, <3>3 DEF Honest, HonestTask
    <3>5. QED
      BY <1>b, <3>1, <3>2, <3>4
  <2>7. CASE Dispatch(w)
    <3>1. /\ run' = run /\ ran' = ran /\ Rest /\ slot[w].pc = "done"
          /\ slot'[w].run # r
      BY <2>7, IdleTask, NoneAssumption DEF Dispatch, TypeOK
    <3>2. Spent(r) => Spent(r)'
      BY <3>1 DEF Spent
    <3>3. \A t \in Stage : queue'[r][t] > 0 => queue[r][t] > 0 \/ t = slot[w].stage + 1
      BY <1>6, <1>d, <2>7 DEF Dispatch, TypeOK
    <3>4. \A s, t \in Stage : t = slot[w].stage + 1 /\ s < t => s < slot[w].stage \/ s = slot[w].stage
      BY <2>c, <3>1 DEF Stage, LastStage
    <3>5. ASSUME Honest(r) PROVE Honest(r)'
      <4>1. \A t \in Stage : queue'[r][t] > 0 => \A s \in Stage : s < t => s \in ran[r]
        BY <2>a, <3>1, <3>3, <3>4, <3>5 DEF Honest, HonestTask
      <4>2. QED
        BY <3>1, <3>5, <4>1 DEF Honest, HonestTask
    <3>6. QED
      BY <1>b, <3>1, <3>2, <3>5
  <2>8. QED
    BY <1>6, <2>1, <2>2, <2>3, <2>4, <2>5, <2>6, <2>7 DEF TaskStep
<1>7. CASE Crash
  <2>1. \A v \in Slots : slot'[v].run # r
    BY <1>7, IdleTask, NoneAssumption DEF Crash
  <2>2. Honest(r) => Honest(r)'
    BY <1>7, <2>1 DEF Crash, Honest
  <2>3. Spent(r) => Spent(r)'
    BY <1>7, <2>1 DEF Crash, Spent
  <2>4. QED
    BY <1>7, <1>b, <2>2, <2>3 DEF Crash
<1>8. QED
  BY <1>c, <1>1, <1>2, <1>3, <1>4, <1>5, <1>6, <1>7 DEF StepOf

(* CompletedRanAllStages: the status endpoint never says COMPLETED of a run *)
(* one of whose stages did not succeed, for any number of slots, handlers   *)
(* and crashes and with one message delivered twice.                        *)
THEOREM CompletedMeansAllStages == Spec => []CompletedRanAllStages
<1>1. Init => HandlersFirst /\ PairAfterRedelivery /\ HonestOrSpent
  <2> SUFFICES ASSUME Init PROVE HandlersFirst /\ PairAfterRedelivery /\ HonestOrSpent
    OBVIOUS
  <2>1. Linear /\ redeliveries = 0
    BY InitLinear DEF Init
  <2>2. HandlersFirst
    BY <2>1 DEF Linear, Agrees, HandlersFirst
  <2>3. \A q \in Requests : run[q].status = "NONE" /\ Honest(q)
    <3> TAKE q \in Requests
    <3>1. run[q] = NoRow /\ (\A s \in Stage : queue[q][s] = 0) /\ \A w \in Slots : slot[w] = Idle
      BY DEF Init
    <3>2. \A w \in Slots : slot[w].run # q
      BY <3>1, IdleTask, NoneAssumption
    <3>3. Honest(q)
      BY <3>1, <3>2 DEF Honest
    <3>4. QED
      BY <3>1, <3>3 DEF NoRow
  <2>4. QED
    BY <2>1, <2>2, <2>3 DEF PairAfterRedelivery, HonestOrSpent
<1>2. HonestOrSpent => CompletedRanAllStages
  BY DEF HonestOrSpent, CompletedRanAllStages
<1>3. QED
  BY <1>1, <1>2, InitLinear, IdleStep, LinearStep, HandlersFirstStep, PairStep,
     HonestOrSpentStep, TypeCorrect, PTL DEF Spec
===============================================================================
