--------------------------- MODULE MCLibraryRefresh ---------------------------
(***************************************************************************)
(* LibraryRefresh on two slots and a backlog longer than one chunk.        *)
(***************************************************************************)
EXTENDS LibraryRefresh

CONSTANTS w1, w2
===============================================================================
