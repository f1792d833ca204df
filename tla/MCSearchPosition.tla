--------------------------- MODULE MCSearchPosition ---------------------------
(***************************************************************************)
(* SearchPosition on a 4 x 4 board: the opening position, walked to the    *)
(* depth MaxPly, and every position that has discs in the first rank only, *)
(* where passes, double passes and runs of two flips are found at once.    *)
(***************************************************************************)
EXTENDS SearchPosition

FirstRank == Coordinate \X {0}

MCRootPositions ==
  {initial_position} \cup
  {p \in [player : SUBSET FirstRank, opponent : SUBSET FirstRank, side_to_move : Color] :
     is_valid(p)}
=============================================================================
