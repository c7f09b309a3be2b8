--------------------------- MODULE MCHeadRefresh ---------------------------
(* A clone of main; another branch may be anywhere.                        *)
EXTENDS HeadRefresh

CONSTANTS main, first

MCInit == Init /\ at = main /\ tip[main] = first /\ tip[HEAD] = first

MCSpec == MCInit /\ [][Next]_vars /\ Fairness
=============================================================================
