--------------------------- MODULE MCGameTreeSearch ---------------------------
(***************************************************************************)
(* Five games.  In the diamond two move orders lead to the same position   *)
(* c, a ply above leaves with every combination of evaluations; b is never *)
(* worse than a and has the higher square, in the second game the lower.   *)
(* In the third, the root has three moves; one leads to a pass and one to  *)
(* the end of the game.  In the fourth the root itself passes.  The fifth  *)
(* goes a ply further below c, so that iterative deepening at b finds the  *)
(* deeper entry that the search of a left for c.                           *)
(***************************************************************************)
EXTENDS GameTreeSearch, TLC

MCNode == {"r", "a", "b", "c", "d", "e", "f", "g"}
no_moves == << >>

Successors(tree) == [n \in MCNode |-> IF n \in DOMAIN tree THEN tree[n] ELSE no_moves]

Diamond(root_moves, evaluation) ==
  [successors |-> Successors(
     [r |-> root_moves, a |-> (2 :> "c" @@ 3 :> "d"), b |-> (1 :> "c"),
      c |-> (4 :> "e" @@ 5 :> "f"), d |-> (4 :> "g")]),
   passes |-> << >>, evaluation |-> evaluation]

Passing(evaluation) ==
  [successors |-> Successors(
     [r |-> (1 :> "a" @@ 2 :> "b" @@ 3 :> "c"), b |-> (1 :> "d"), e |-> (3 :> "f" @@ 4 :> "g")]),
   passes |-> [a |-> "e"], evaluation |-> evaluation]

RootPassing(evaluation) ==
  [successors |-> Successors([a |-> (2 :> "c" @@ 3 :> "d"), c |-> (4 :> "e" @@ 5 :> "f")]),
   passes |-> [r |-> "a"], evaluation |-> evaluation]

Deep(evaluation) ==
  [successors |-> Successors(
     [r |-> (1 :> "a" @@ 2 :> "b"), a |-> (3 :> "c"), b |-> (3 :> "c"),
      c |-> (4 :> "d" @@ 5 :> "e"), d |-> (6 :> "f"), e |-> (7 :> "g")]),
   passes |-> << >>, evaluation |-> evaluation]

\* Leaves take every value, inner nodes (the leaves of shallower searches) one.
Evaluations(leaves) ==
  {[n \in MCNode |-> IF n \in leaves THEN v[n] ELSE IF n = "b" THEN 1 ELSE 0] :
     v \in [leaves -> {-1, 0, 1}]}

MCGames ==
  {Diamond(1 :> "a" @@ 2 :> "b", v) : v \in Evaluations({"e", "f", "g"})}
  \cup {Diamond(1 :> "b" @@ 2 :> "a", v) : v \in Evaluations({"e", "f", "g"})}
  \cup {Passing(v) : v \in Evaluations({"c", "d", "f", "g"})}
  \cup {RootPassing(v) : v \in Evaluations({"d", "e"})}

\* Fewer games for the setups with several searches on one table.
FewGames ==
  {g \in MCGames : {g.evaluation["c"], g.evaluation["d"], g.evaluation["e"]} \subseteq {0, 1}
                      /\ g.evaluation["f"] # 0 /\ g.evaluation["g"] # 0}

DeepGames == {Deep(v) : v \in Evaluations({"e", "f", "g"})}

\* Moves, and passes where they consume depth, on the way to each position.
Stages(g, consumes) ==
  LET before(n) == {b \in MCNode : \/ \E m \in moves_of(g, b) : play(g, b, m) = n
                                   \/ must_pass(g, b) /\ play(g, b, pass_move) = n}
      stage[n \in MCNode] ==
        IF before(n) = {} THEN 0
        ELSE LET b == CHOOSE b \in before(n) : TRUE
             IN  stage[b] + (IF must_pass(g, b) /\ ~consumes THEN 0 ELSE 1)
  IN  [n \in MCNode |-> stage[n]]

Setup(g, pvs, lines, consumes, depths, windows, max_searches, stop) ==
  [game |-> g, stage |-> Stages(g, consumes), use_pvs |-> pvs, multi_pv |-> lines,
   pass_consumes_depth |-> consumes, depths |-> depths, windows |-> windows,
   max_searches |-> max_searches, may_stop |-> stop]

all_scores == <<kScoreLoss, kScoreWin>>

\* pvs, and exact reports for the two best moves, stopped anywhere.
PvsReports == {Setup(g, TRUE, 2, FALSE, 1 .. 3, {all_scores}, 1, TRUE) : g \in MCGames}

\* alphabeta, stopped anywhere.
AlphaBeta == {Setup(g, FALSE, 1, FALSE, 1 .. 3, {all_scores}, 1, TRUE) : g \in MCGames}

\* Two pvs searches on one table, as iterative deepening makes them.
IterativeWindows ==
  {Setup(g, TRUE, 1, TRUE, 1 .. 3, {all_scores, <<-1, 1>>, <<-1, 0>>, <<0, 1>>}, 2, FALSE) :
     g \in FewGames}

\* alphabeta to the full depth of the deep game.
DeepSearches == {Setup(g, FALSE, 1, TRUE, {4}, {all_scores}, 1, FALSE) : g \in DeepGames}

MCSetups == PvsReports \cup AlphaBeta \cup IterativeWindows \cup DeepSearches
=============================================================================
