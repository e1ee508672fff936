---------------------------- MODULE MCDraftReview ----------------------------
(* Three recommendations for two papers of one author and year, so that a   *)
(* citation's text depends on what else is accepted.                        *)
EXTENDS DraftReview

MCRequests == 1 .. 2
MCPairs == 1 .. 3
Smith == [family |-> <<31>>, initials |-> <<2>>]
Written(title) == [authors |-> <<Smith>>, title |-> <<title>>, year |-> 2020,
                   source |-> 1, link |-> 1]
MCPaper == [first |-> Written(10), second |-> Written(20)]
MCRefOf == <<"first", "second", "first">>
=============================================================================
