---------------------------- MODULE MCLibraryRows ----------------------------
(***************************************************************************)
(* LibraryRows with ticks that overlap imports and each other, and         *)
(* providers that do not always answer with the same abstract.             *)
(***************************************************************************)
EXTENDS LibraryRows, TLC

CONSTANTS k1, k2, t1, t2, pA, pB

(* Ticks, papers and provider texts are interchangeable.                    *)
Symmetry ==
  Permutations(Keys) \cup Permutations(Ticks) \cup Permutations(ProviderTexts)
==============================================================================
