------------------------- MODULE MCTranspositionTable -------------------------
(***************************************************************************)
(* Three keys share a bucket of two slots: it fills, entries of the same   *)
(* and of other keys are replaced, and the generation counter runs out     *)
(* after MaxGeneration roots.  k1 is looked up with two kinds, with        *)
(* every kind of bound, tighter and looser, and best moves come and go.    *)
(* selective is set only by ProbCut, which stores a lower bound and no     *)
(* best move.                                                              *)
(***************************************************************************)
EXTENDS TranspositionTable

CONSTANTS k1, k2, k3, m1, m2

MCIndexFor == [key \in Key |-> 1]

Request(key, depth, score, bound, best_move) ==
  [key |-> key, depth |-> depth, score |-> score, bound |-> bound,
   best_move |-> best_move, kind |-> "midgame", selective |-> FALSE]

MCStoreRequests ==
  {Request(k1, d, 0, "exact", m) : d \in {1, 2}, m \in {m1, NoMove}}
  \cup {Request(k1, 2, s, "lower", NoMove) : s \in {0, 1}}
  \cup {Request(k1, 2, s, "upper", m2) : s \in {0, 1}}
  \cup {[Request(k1, 1, 1, "lower", NoMove) EXCEPT !.selective = TRUE],
        [Request(k1, 1, 0, "exact", NoMove) EXCEPT !.kind = "exact_endgame_score"]}
  \cup {Request(k2, 1, 0, "exact", NoMove), Request(k2, 2, 0, "upper", m1),
        Request(k3, 1, 0, "upper", m1)}
=============================================================================
