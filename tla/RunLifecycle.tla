----------------------------- MODULE RunLifecycle -----------------------------
(***************************************************************************)
(* What the status endpoint promises about an analysis run, with the       *)
(* broker, the worker slots and the HTTP handlers hidden: a row appears    *)
(* PENDING, goes through the four stages in order, and ends COMPLETED after *)
(* the last one or FAILED with the stage that raised.  AnalysisRuns        *)
(* implements this specification as long as the broker delivers a message  *)
(* at most once.                                                           *)
(***************************************************************************)
EXTENDS Naturals

CONSTANT Runs

VARIABLE run

LastStage == 4

NoRow == [status |-> "NONE", stage |-> 0, error |-> 0]

Init == run = [r \in Runs |-> NoRow]

Submit(r) ==
  /\ run[r] = NoRow
  /\ run' = [run EXCEPT ![r] = [status |-> "PENDING", stage |-> 0, error |-> 0]]

(* PENDING -> RUNNING at the first stage, then RUNNING at the next stage.   *)
Advance(r) ==
  /\ run[r].status \in {"PENDING", "RUNNING"}
  /\ run[r].status = "PENDING" <=> run[r].stage = 0
  /\ run[r].stage < LastStage
  /\ run' = [run EXCEPT ![r].status = "RUNNING", ![r].stage = run[r].stage + 1]

Complete(r) ==
  /\ run[r].status = "RUNNING"
  /\ run[r].stage = LastStage
  /\ run' = [run EXCEPT ![r].status = "COMPLETED"]

Fail(r) ==
  /\ run[r].status = "RUNNING"
  /\ run' = [run EXCEPT ![r].status = "FAILED", ![r].error = run[r].stage]

Next == \E r \in Runs : Submit(r) \/ Advance(r) \/ Complete(r) \/ Fail(r)

Spec == Init /\ [][Next]_run
===============================================================================
