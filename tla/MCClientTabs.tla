--------------------------- MODULE MCClientTabs ---------------------------
(* ClientTabs with two tabs and room for a third, and two requests at a time. *)
EXTENDS ClientTabs, TLC

CONSTANTS a, b, c3

TwoTabs == <<a, b>>

Alike == Permutations(TabRequests)
=============================================================================
