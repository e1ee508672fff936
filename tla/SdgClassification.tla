-------------------------- MODULE SdgClassification --------------------------
(***************************************************************************)
(* sdg_keyword_matcher.py and sdg_classification_service.py: which goal    *)
(* and keyword a draft gets, from the keywords its text contains and the   *)
(* answers of the model.                                                   *)
(*                                                                         *)
(* Goals and keywords are naturals, a goal named by its number; a goal's   *)
(* name may be one of its keywords (NameOf).  0 stands for None.           *)
(***************************************************************************)
EXTENDS Recommendation

CONSTANTS
  GoalKeywords,  \* goal -> its keywords, in the order of sdg_goals.json
  NameOf,        \* goal -> the keyword that equals its name, or 0
  Length,        \* keyword -> length of its phrase
  Generic,       \* keywords in _GENERIC_KEYWORDS
  MaxKeywords    \* max_keywords_per_goal

Goals == DOMAIN GoalKeywords
AllKeywords == UNION {Range(GoalKeywords[g]) : g \in Goals}

(* Every goal of sdg_goals.json has keywords; none is named by a generic    *)
(* word.                                                                    *)
ASSUME GoalsAssumption ==
  /\ Goals \subseteq Nat \ {0} /\ IsFiniteSet(Goals) /\ Goals # {}
  /\ \A g \in Goals : /\ GoalKeywords[g] \in Seq(Nat \ {0}) /\ GoalKeywords[g] # <<>>
                      /\ NameOf[g] \in Nat \ Generic
  /\ 0 \notin Generic /\ Length \in [AllKeywords -> Nat] /\ MaxKeywords \in Nat \ {0}

-----------------------------------------------------------------------------
(* The goals with matches, most first, each with its longest matches.       *)
SdgPrefilter(found) ==
  LET hits(g) == Kept(GoalKeywords[g], {n \in DOMAIN GoalKeywords[g] : GoalKeywords[g][n] \in found})
      length(g) == [n \in DOMAIN hits(g) |-> Length[hits(g)[n]]]
      hit == Ascending({g \in Goals : hits(g) # <<>>})
      all == [n \in DOMAIN hit |->
                [goal |-> hit[n], count |-> Len(hits(hit[n])),
                 matched |-> Take(Descending(hits(hit[n]), length(hit[n])), MaxKeywords)]]
  IN Descending(all, [n \in DOMAIN all |-> all[n].count])

(* The other goals follow by name only; all of them if nothing matched.     *)
Candidates(found) ==
  LET hit == SdgPrefilter(found)
      rest == Ascending(Goals \ {hit[n].goal : n \in DOMAIN hit})
  IN hit \o [n \in DOMAIN rest |-> [goal |-> rest[n], count |-> 0, matched |-> <<>>]]

(* The candidate that the model picked, or the first one.                   *)
Match(candidates, pick) ==
  LET named == {n \in DOMAIN candidates : candidates[n].goal = pick.goal}
  IN candidates[IF named = {} THEN 1 ELSE Min(named)]

(* Mutant: the keyword is taken from the model.                             *)
KeywordAsPicked(match, pick) == pick.keyword

(* Its keyword: as picked, else the first matched one; never its name.      *)
Keyword(match, pick) ==
  LET chosen == IF pick.keyword \in Range(match.matched) THEN pick.keyword
                ELSE IF match.matched = <<>> THEN 0 ELSE match.matched[1]
  IN IF chosen = NameOf[match.goal] THEN 0 ELSE chosen

(* A goal that only generic words support is declined.                      *)
Fits(match, pick) ==
  pick.fits /\ (Keyword(match, pick) \in Generic => Range(match.matched) \ Generic # {})

NoSdg == [goal |-> 0, keyword |-> 0, closest |-> 0]
Declined(match) == [goal |-> 0, keyword |-> 0, closest |-> match.goal]
Confirmed(match, keyword) == [goal |-> match.goal, keyword |-> keyword, closest |-> 0]

(* _pick_keyword_from_full_group: a keyword of the goal, its first one if   *)
(* the model names another or the goal itself.                              *)
FromFullGroup(goal, keyword) ==
  IF keyword \in Range(GoalKeywords[goal]) /\ keyword # NameOf[goal] THEN keyword
  ELSE GoalKeywords[goal][1]
=============================================================================
