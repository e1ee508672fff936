------------------------------- MODULE Scoring -------------------------------
(***************************************************************************)
(* scoring.py: the percentage and the label of a recommendation.           *)
(* Similarities and support are in hundredths, percentages in tenths,      *)
(* rounded; NoScore is a support of None.                                  *)
(***************************************************************************)
EXTENDS Naturals

Verdicts == {"SUPPORTED", "PARTIALLY_SUPPORTED", "TOPICALLY_RELATED_BUT_NOT_EVIDENCE",
             "INSUFFICIENT_EVIDENCE", "CONTRADICTED", "SKIPPED"}

SupportScore == [SUPPORTED |-> 100, PARTIALLY_SUPPORTED |-> 65,
  TOPICALLY_RELATED_BUT_NOT_EVIDENCE |-> 35, INSUFFICIENT_EVIDENCE |-> 15,
  CONTRADICTED |-> 0, SKIPPED |-> 0]

ContradictedCap == 200
MissingAbstractCap == 450

(* The weighted blend; the weight of a support that is not known goes to    *)
(* the other terms.                                                         *)
Blend(sim, verdict) ==
  LET weighted == 30 * sim.semantic + 15 * sim.lexical + 10 * sim.keyword + 30 * sim.reranker
  IN IF verdict = "SKIPPED" THEN (20 * weighted + 85) \div 170
     ELSE (weighted + 15 * SupportScore[verdict] + 5) \div 10

Clamped(percentage) ==
  IF percentage < 0 THEN 0 ELSE IF percentage > 1000 THEN 1000 ELSE percentage

Capped(percentage, cap, applies) ==
  IF applies /\ percentage > cap THEN cap ELSE percentage

(* compute_score                                                            *)
Percentage(sim, verdict, hasAbstract) ==
  Capped(Capped(Clamped(Blend(sim, verdict)), ContradictedCap, verdict = "CONTRADICTED"),
         MissingAbstractCap, ~ hasAbstract)

Band(percentage) ==
  CASE percentage >= 850 -> "Strong recommendation"
    [] percentage >= 700 /\ percentage < 850 -> "Recommended"
    [] percentage >= 500 /\ percentage < 700 -> "Possible reference"
    [] percentage >= 300 /\ percentage < 500 -> "Weak match"
    [] OTHER -> "Do not recommend"

(* Mutant: only the percentage counts.                                      *)
LabelByBand(percentage, verdict, hasAbstract) == Band(percentage)

(* label_for                                                                *)
LabelFor(percentage, verdict, hasAbstract) ==
  CASE ~ hasAbstract -> "Cannot verify"
    [] hasAbstract /\ verdict = "TOPICALLY_RELATED_BUT_NOT_EVIDENCE"
         /\ Band(percentage) = "Strong recommendation" -> "Recommended"
    [] hasAbstract /\ verdict \in {"INSUFFICIENT_EVIDENCE", "SKIPPED"}
         /\ Band(percentage) \in {"Strong recommendation", "Recommended"} -> "Possible reference"
    [] OTHER -> Band(percentage)
=============================================================================
