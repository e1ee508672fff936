---------------------------- MODULE MCAnalysisRuns ----------------------------
(***************************************************************************)
(* AnalysisRuns on a small instance: two slots as in docker-compose.yml,   *)
(* requests for one or two drafts.                                         *)
(***************************************************************************)
EXTENDS AnalysisRuns, TLC

CONSTANTS q1, q2, q3, d1, d2, w1, w2

(* Requests, and slots, are interchangeable: no definition tells them apart *)
(* by name.  Used only in runs without a liveness property.                 *)
Symmetry == Permutations(Requests) \cup Permutations(Slots)
===============================================================================
