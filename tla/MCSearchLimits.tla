---------------------------- MODULE MCSearchLimits ----------------------------
(***************************************************************************)
(* No budget, a budget of one node and one beyond two readings of the      *)
(* clock, each with and without a deadline.                                *)
(***************************************************************************)
EXTENDS SearchLimits

MCLimits == [max_nodes : {0, 1, 9}, has_deadline : BOOLEAN]
=============================================================================
