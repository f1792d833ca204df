--------------------------- MODULE MCIterativeSearch ---------------------------
(***************************************************************************)
(* Scores from -3 to 3 and windows of half-width one, so that a window is  *)
(* widened up to three times, in one direction or in both; depth limits    *)
(* below and beyond the number of plies, and none.                         *)
(***************************************************************************)
EXTENDS IterativeSearch

MCLimits == [max_depth : {0, 2, 5}, infinite : {FALSE}] \cup {[max_depth |-> 0, infinite |-> TRUE]}
=============================================================================
