---------------------------- MODULE GameTreeSearch ----------------------------
(***************************************************************************)
(* The midgame search: the root loop of search_fixed_depth_with_hint       *)
(* (engine/src/search/root_search.cc) and the recursive searches below it, *)
(* pvs and alphabeta, with their window re-searches, internal iterative    *)
(* deepening, the transposition table and the stop checks.                 *)
(*                                                                         *)
(* The C++ call stack is the sequence frames; a call pushes a frame and a  *)
(* return pops it and leaves its result in returned.  The game is a small  *)
(* graph: positions are nodes and a move is the index of its square.  The  *)
(* table is the set of all claims stored so far, of which a probe returns  *)
(* any or none, so every replacement policy is covered (SearchCache).      *)
(* Moves are tried in any order, so every ordering heuristic is covered.   *)
(*                                                                         *)
(* Selective search (ProbCut), the exact endgame solver and shadow         *)
(* calibration are off, as they are by default.                            *)
(***************************************************************************)
EXTENDS Integers, Sequences

CONSTANTS
  Node,
  RootNode,
  Setups,                \* the games and the searches of them
  kScoreWin,
  MaxDepth,
  IidMinDepth, IidDepthReduction

kScoreLoss == -kScoreWin
Score == kScoreLoss .. kScoreWin
Depth == 0 .. MaxDepth
Ply == 0 .. 2 * MaxDepth + 2   \* between two passes there is a move
pass_move == 0           \* make_pass; squares are positive here
no_move == -1            \* nullopt

ASSUME SearchAssumption ==
  /\ kScoreWin \in Nat \ {0}
  /\ MaxDepth \in Nat \ {0}
  /\ IidDepthReduction \in 1 .. IidMinDepth /\ IidMinDepth \in Nat
  /\ RootNode \in Node

VARIABLES
  setup,                 \* the game searched, the options and the limits
  truth,                 \* history variable: the minimax value for each node and depth
  table,                 \* claims in the transposition table
  frames,                \* active calls, the root's first
  pv,                    \* StackFrame::pv, by ply
  returned,              \* result of the call that just returned
  stopped,               \* SearchLimitState::stopped
  result,                \* SearchResult
  searches               \* root searches started

vars == <<setup, truth, table, frames, pv, returned, stopped, result, searches>>

\* What a setup holds.
game == setup.game                  \* successors, passes and evaluation of each node
use_pvs == setup.use_pvs            \* SearchOptions
multi_pv == setup.multi_pv
Depths == setup.depths              \* depths of the root searches
Windows == setup.windows            \* and their windows <<alpha, beta>>
MaxSearches == setup.max_searches   \* bound on the root searches that share the table
MayStop == setup.may_stop           \* whether the limits may stop the search

-----------------------------------------------------------------------------
(***************************************************************************)
(* The game.                                                               *)
(***************************************************************************)
moves_of(g, n) == DOMAIN g.successors[n]
must_pass(g, n) == moves_of(g, n) = {} /\ n \in DOMAIN g.passes
is_terminal(g, n) == moves_of(g, n) = {} /\ n \notin DOMAIN g.passes
play(g, n, m) == IF m = pass_move THEN g.passes[n] ELSE g.successors[n][m]
child_depth(s, depth, m) == IF m = pass_move /\ ~s.pass_consumes_depth THEN depth ELSE depth - 1

largest(scores) == CHOOSE s \in scores : \A t \in scores : s >= t

\* The reference: plain negamax to the depth, without windows, table or stops.
Minimax(s) ==
  LET g == s.game
      v[p \in Node \X Depth] ==
        LET n == p[1]
            depth == p[2]
        IN  IF is_terminal(g, n) \/ depth = 0 THEN g.evaluation[n]
            ELSE IF must_pass(g, n) THEN -v[<<g.passes[n], child_depth(s, depth, pass_move)>>]
            ELSE largest({-v[<<g.successors[n][m], depth - 1>>] : m \in moves_of(g, n)})
  IN  v

\* What a search is set up with.  An evaluation lies strictly between a lost
\* and a won game (clamp_evaluation).  After a pass there is a move: otherwise
\* the game was over.  A search spends its depth on moves, and on passes where
\* they consume depth; stage counts those that lead to a position, which the
\* discs on the board do for the moves.
ASSUME SetupAssumption ==
  \A s \in Setups :
    /\ s.use_pvs \in BOOLEAN /\ s.pass_consumes_depth \in BOOLEAN /\ s.may_stop \in BOOLEAN
    /\ s.multi_pv \in Nat /\ s.max_searches \in Nat /\ s.depths \subseteq 1 .. MaxDepth
    /\ \A w \in s.windows : w[1] \in Score /\ w[2] \in Score /\ w[1] < w[2]
    /\ \A n \in Node :
         /\ s.game.evaluation[n] \in kScoreLoss + 1 .. kScoreWin - 1
         /\ s.stage[n] \in Nat
         /\ \A m \in moves_of(s.game, n) :
              /\ m \in Nat \ {0}
              /\ s.game.successors[n][m] \in Node
              /\ s.stage[s.game.successors[n][m]] = s.stage[n] + 1
         /\ must_pass(s.game, n) =>
              /\ s.game.passes[n] \in Node
              /\ moves_of(s.game, s.game.passes[n]) # {}
              /\ s.stage[s.game.passes[n]] =
                   s.stage[n] + (IF s.pass_consumes_depth THEN 1 ELSE 0)

-----------------------------------------------------------------------------
(***************************************************************************)
(* Frames, results and claims.                                             *)
(***************************************************************************)
frame == frames[Len(frames)]

Call(proc, n, depth, alpha, beta, ply, in_iid) ==
  [proc |-> proc, node |-> n, depth |-> depth, ply |-> ply, in_iid |-> in_iid,
   alpha |-> alpha, beta |-> beta, original_alpha |-> alpha,
   best_score |-> kScoreLoss, best_move |-> no_move,
   todo |-> moves_of(game, n), move |-> no_move, low |-> alpha, high |-> beta,
   step |-> "enter", reports |-> << >>, best_line |-> << >>]

full_window_search == IF use_pvs THEN "pvs" ELSE "alphabeta"

no_return == [kind |-> "none", score |-> 0]
stopped_return == [kind |-> "stopped", score |-> 0]
completed(score) == [kind |-> "complete", score |-> score]

\* Mutant: a score that meets alpha is taken for exact.
classify_bound_off_by_one(score, alpha, beta) ==
  IF score < alpha THEN "upper" ELSE IF score >= beta THEN "lower" ELSE "exact"

classify_bound(score, alpha, beta) ==
  IF score <= alpha THEN "upper" ELSE IF score >= beta THEN "lower" ELSE "exact"

\* A higher score, or the same score on a lower square.
is_better(score, m, best_score, best_move) ==
  \/ best_move = no_move
  \/ score > best_score
  \/ score = best_score /\ m < best_move

claim(n, depth, score, bound, best_move) ==
  [node |-> n, depth |-> depth, score |-> score, bound |-> bound, best_move |-> best_move]

\* Mutant: a shallower entry answers too.
midgame_tt_cutoff_at_any_depth(c, depth, alpha, beta) ==
  \/ c.bound = "exact"
  \/ c.bound = "lower" /\ c.score >= beta
  \/ c.bound = "upper" /\ c.score <= alpha

\* Mutant: an entry answers whatever the window.
midgame_tt_cutoff_for_any_window(c, depth, alpha, beta) == c.depth >= depth

midgame_tt_cutoff(c, depth, alpha, beta) ==
  /\ c.depth >= depth
  /\ \/ c.bound = "exact"
     \/ c.bound = "lower" /\ c.score >= beta
     \/ c.bound = "upper" /\ c.score <= alpha

\* The two stop checks.  Both may find that the search is to stop; visiting a
\* node may also spend the last of the budget, which the next check finds.
should_stop(told) ==
  /\ told \in (IF stopped THEN {TRUE} ELSE {FALSE, MayStop})
  /\ stopped' = told

note_node_visited(told) ==
  /\ told \in (IF stopped THEN {TRUE} ELSE {FALSE, MayStop})
  /\ stopped' \in (IF told THEN {TRUE} ELSE {FALSE, MayStop})

Replace(f) == [frames EXCEPT ![Len(frames)] = f]
Push(f, call) == Append(Replace(f), call)
Pop == SubSeq(frames, 1, Len(frames) - 1)

Return(value) ==
  /\ frames' = Pop
  /\ returned' = value

-----------------------------------------------------------------------------
(***************************************************************************)
(* A node: prepare_search_node.                                            *)
(***************************************************************************)
InNode == frames # << >> /\ frame.proc \in {"pvs", "alphabeta"}

\* Mutant: the line of the last visit to this ply stays.
keep_pv == UNCHANGED pv

\* frame.pv.size = 0
clear_pv == pv' = [pv EXCEPT ![frame.ply] = << >>]

\* Terminal positions and leaves are visited and evaluated; a position whose
\* table entry answers the window is visited and answered.
EvaluateNode ==
  /\ InNode /\ frame.step = "enter"
  /\ clear_pv
  /\ \E told \in BOOLEAN :
       /\ note_node_visited(told)
       /\ \/ told /\ Return(stopped_return)
          \/ /\ ~told
             /\ is_terminal(game, frame.node) \/ frame.depth = 0
             /\ Return(completed(game.evaluation[frame.node]))
          \/ /\ ~told
             /\ ~is_terminal(game, frame.node) /\ frame.depth # 0
             /\ \E c \in table :
                  /\ c.node = frame.node
                  /\ midgame_tt_cutoff(c, frame.depth, frame.alpha, frame.beta)
                  /\ Return(completed(c.score))
  /\ UNCHANGED <<setup, truth, table, result, searches>>

\* No answer in the table: the second stop check, then on to the moves.
EnterNode ==
  /\ InNode /\ frame.step = "enter"
  /\ ~is_terminal(game, frame.node) /\ frame.depth # 0
  /\ clear_pv
  /\ ~stopped
  /\ \E told \in BOOLEAN :
       /\ should_stop(told)
       /\ \/ told /\ Return(stopped_return)
          \/ /\ ~told
             /\ frames' = Replace([frame EXCEPT !.step = "order"])
             /\ UNCHANGED returned
  /\ UNCHANGED <<setup, truth, table, result, searches>>

\* maybe_find_iid_best_move: a shallower search of the same node at the same
\* ply, for its best move only, where the table had none.
SearchIid ==
  /\ InNode /\ frame.step = "order"
  /\ ~frame.in_iid /\ frame.depth >= IidMinDepth
  /\ frame.alpha + 1 < frame.beta
  /\ moves_of(game, frame.node) # {}
  /\ \E told \in BOOLEAN :
       /\ should_stop(told)
       /\ \/ told /\ Return(stopped_return)
          \/ /\ ~told
             /\ frames' = Push([frame EXCEPT !.step = "iid"],
                               Call(full_window_search, frame.node,
                                    frame.depth - IidDepthReduction,
                                    frame.alpha, frame.beta, frame.ply, TRUE))
             /\ UNCHANGED returned
  /\ UNCHANGED <<setup, truth, table, pv, result, searches>>

IidReturned ==
  /\ InNode /\ frame.step = "iid" /\ returned # no_return
  /\ clear_pv
  /\ \/ returned = stopped_return /\ Return(stopped_return)
     \/ /\ returned # stopped_return
        /\ frames' = Replace([frame EXCEPT !.step = "loop"])
        /\ returned' = no_return
  /\ UNCHANGED <<setup, truth, table, stopped, result, searches>>

-----------------------------------------------------------------------------
(***************************************************************************)
(* A node: the loop over its moves.                                        *)
(***************************************************************************)
in_loop == frame.step \in {"order", "loop"}

\* The call for move m with the window (low, high) seen from this node, which
\* waits for it in the given step.
SearchMove(step, proc, m, low, high) ==
  frames' = Push([frame EXCEPT !.step = step, !.move = m, !.todo = @ \ {m},
                               !.low = low, !.high = high],
                 Call(proc, play(game, frame.node, m), child_depth(setup, frame.depth, m),
                      -high, -low, frame.ply + 1, frame.in_iid))

\* null_window_search is always alphabeta.
SearchNullWindow(m, low) == SearchMove("null", "alphabeta", m, low, low + 1)

SearchPassChild ==
  /\ InNode /\ in_loop
  /\ must_pass(game, frame.node)
  /\ SearchMove("full", frame.proc, pass_move, frame.alpha, frame.beta)
  /\ UNCHANGED <<setup, truth, table, pv, returned, stopped, result, searches>>

\* The first move, and in alphabeta every move, gets the full window; the
\* other moves of pvs only have to prove they are not better than alpha.
SearchChild(m) ==
  /\ InNode /\ in_loop
  /\ m \in frame.todo
  /\ IF frame.best_move = no_move \/ frame.proc = "alphabeta"
     THEN SearchMove("full", frame.proc, m, frame.alpha, frame.beta)
     ELSE SearchNullWindow(m, frame.alpha)
  /\ UNCHANGED <<setup, truth, table, pv, returned, stopped, result, searches>>

waiting_for_child == frame.step \in {"full", "null"} /\ returned # no_return

child_score == -returned.score

\* Mutant: the moves searched before the stop are taken for all of them.
ChildStoppedKeepingScore ==
  /\ InNode /\ waiting_for_child
  /\ returned = stopped_return
  /\ Return(completed(frame.best_score))
  /\ UNCHANGED <<setup, truth, table, pv, stopped, result, searches>>

ChildStopped ==
  /\ InNode /\ waiting_for_child
  /\ returned = stopped_return
  /\ Return(stopped_return)
  /\ UNCHANGED <<setup, truth, table, pv, stopped, result, searches>>

\* A pass is not stored: its node has the value of its child.
PassChildReturned ==
  /\ InNode /\ waiting_for_child
  /\ returned # stopped_return
  /\ frame.move = pass_move
  /\ pv' = [pv EXCEPT ![frame.ply] = <<pass_move>> \o pv[frame.ply + 1]]
  /\ Return(completed(child_score))
  /\ UNCHANGED <<setup, truth, table, stopped, result, searches>>

\* pvs: the null window showed that the move is better than alpha.
ResearchChild ==
  /\ InNode /\ waiting_for_child
  /\ returned # stopped_return
  /\ frame.step = "null"
  /\ child_score > frame.alpha /\ child_score < frame.beta
  /\ SearchMove("full", "pvs", frame.move, frame.alpha, frame.beta)
  /\ returned' = no_return
  /\ UNCHANGED <<setup, truth, table, pv, stopped, result, searches>>

\* The node with the returned child taken into account.
updated_frame ==
  LET better == is_better(child_score, frame.move, frame.best_score, frame.best_move)
  IN  [frame EXCEPT
         !.best_score = IF better THEN child_score ELSE @,
         !.best_move = IF better THEN frame.move ELSE @,
         !.alpha = IF child_score > @ THEN child_score ELSE @,
         !.step = "loop"]

ChildReturned ==
  LET f == updated_frame
      finished == f.alpha >= f.beta \/ f.todo = {}
      line == <<frame.move>> \o pv[frame.ply + 1]
  IN  /\ InNode /\ waiting_for_child
      /\ returned # stopped_return
      /\ frame.move # pass_move
      /\ frame.step = "null" => ~(child_score > frame.alpha /\ child_score < frame.beta)
      /\ pv' = IF is_better(child_score, frame.move, frame.best_score, frame.best_move)
               THEN [pv EXCEPT ![frame.ply] = line]
               ELSE pv
      /\ \/ /\ ~finished
            /\ frames' = Replace(f)
            /\ returned' = no_return
            /\ UNCHANGED table
         \/ /\ finished
            /\ table' = table \cup
                 {claim(f.node, f.depth, f.best_score,
                        classify_bound(f.best_score, f.original_alpha, f.beta), f.best_move)}
            /\ Return(completed(f.best_score))
      /\ UNCHANGED <<setup, truth, stopped, result, searches>>

-----------------------------------------------------------------------------
(***************************************************************************)
(* The root: search_fixed_depth_with_hint.                                 *)
(***************************************************************************)
AtRoot == frames # << >> /\ frame.proc = "root"

no_result ==
  [running |-> FALSE, depth |-> 0, alpha |-> kScoreLoss, beta |-> kScoreWin,
   score |-> kScoreLoss, bound |-> "exact", best_move |-> no_move, line |-> << >>,
   stopped |-> FALSE, reports |-> << >>]

\* A search of the given depth and window; the iterative driver starts them
\* with growing depths on one table and one set of limits.
StartSearch(depth, window) ==
  /\ frames = << >>
  /\ searches < MaxSearches
  /\ ~stopped
  /\ depth >= result.depth
  /\ searches' = searches + 1
  /\ frames' = <<Call("root", RootNode, depth, window[1], window[2], 0, FALSE)>>
  /\ returned' = no_return
  /\ result' = [no_result EXCEPT !.running = TRUE, !.depth = depth,
                                 !.alpha = window[1], !.beta = window[2]]
  /\ pv' = [pv EXCEPT ![0] = << >>]
  /\ UNCHANGED <<setup, truth, table, stopped>>

Finish(f, score, bound, line, was_stopped) ==
  /\ frames' = << >>
  /\ returned' = no_return
  /\ result' = [result EXCEPT !.running = FALSE, !.score = score, !.bound = bound,
                              !.best_move = f.best_move, !.line = line,
                              !.stopped = was_stopped, !.reports = f.reports]

\* publish_stopped_result with what the loop has found.
PublishStopped(f) == Finish(f, f.best_score, "lower", f.best_line, TRUE)

EnterRoot ==
  /\ AtRoot /\ frame.step = "enter"
  /\ \E told \in BOOLEAN :
       /\ note_node_visited(told)
       /\ \/ told /\ PublishStopped(frame)
          \/ /\ ~told
             /\ frames' = Replace([frame EXCEPT !.step = "loop"])
             /\ UNCHANGED <<returned, result>>
  /\ UNCHANGED <<setup, truth, table, pv, searches>>

\* Mutant: every move has to beat alpha.
root_low_at_alpha(m) == frame.alpha

\* A move to the left of the best one has to beat only best_score - 1: a tie
\* prefers the lower square, so it must be decided exactly.
root_low(m) ==
  IF frame.best_move # no_move /\ m < frame.best_move /\ frame.best_score > kScoreLoss
  THEN frame.best_score - 1
  ELSE frame.alpha

RootPass ==
  /\ AtRoot /\ frame.step = "loop"
  /\ must_pass(game, frame.node)
  /\ \E told \in BOOLEAN :
       /\ should_stop(told)
       /\ \/ told /\ PublishStopped(frame)
          \/ /\ ~told
             /\ SearchMove("full", full_window_search, pass_move, frame.alpha, frame.beta)
             /\ UNCHANGED <<returned, result>>
  /\ UNCHANGED <<setup, truth, table, pv, searches>>

SearchRootMove(m) ==
  /\ AtRoot /\ frame.step = "loop"
  /\ m \in frame.todo
  /\ \E told \in BOOLEAN :
       /\ should_stop(told)
       /\ \/ told /\ PublishStopped(frame)
          \/ /\ ~told
             /\ IF frame.best_move = no_move \/ ~use_pvs
                THEN SearchMove("full", full_window_search, m, frame.alpha, frame.beta)
                ELSE SearchNullWindow(m, root_low(m))
             /\ UNCHANGED <<returned, result>>
  /\ UNCHANGED <<setup, truth, table, pv, searches>>

RootChildStopped ==
  /\ AtRoot /\ frame.step \in {"full", "null", "report"}
  /\ returned = stopped_return
  /\ PublishStopped(frame)
  /\ UNCHANGED <<setup, truth, table, pv, stopped, searches>>

RootPassReturned ==
  /\ AtRoot /\ frame.step = "full" /\ frame.move = pass_move
  /\ returned.kind = "complete"
  /\ LET line == <<pass_move>> \o pv[1]
         f == [frame EXCEPT !.best_move = pass_move]
     IN  /\ pv' = [pv EXCEPT ![0] = line]
         /\ Finish(f, child_score, classify_bound(child_score, result.alpha, result.beta),
                   line, FALSE)
  /\ UNCHANGED <<setup, truth, table, stopped, searches>>

\* pvs: the null window showed that the move matters.
needs_research ==
  frame.step = "null" /\ child_score > frame.low /\ child_score < frame.beta

\* alphabeta: an upper bound that ties with the best score of a move to the
\* right (research_preferred_upper_bound_tie).
needs_tie_research ==
  /\ ~use_pvs /\ frame.step = "full" /\ frame.low = frame.alpha
  /\ frame.best_score > kScoreLoss
  /\ frame.best_move # no_move /\ frame.move < frame.best_move
  /\ child_score = frame.best_score /\ child_score <= frame.alpha

RootResearch ==
  LET low == IF needs_research THEN frame.low ELSE frame.best_score - 1
  IN  /\ AtRoot /\ frame.step \in {"full", "null"} /\ frame.move # pass_move
      /\ returned.kind = "complete"
      /\ needs_research \/ needs_tie_research
      /\ SearchMove("full", full_window_search, frame.move, low, frame.beta)
      /\ returned' = no_return
      /\ UNCHANGED <<setup, truth, table, pv, stopped, result, searches>>

\* publish_root_move: the report of the move that was searched, and the root
\* with it taken into account.
root_report ==
  [move |-> frame.move, score |-> child_score, line |-> <<frame.move>> \o pv[1],
   bound |-> classify_bound(child_score, frame.low, frame.high)]

RootChildReturned ==
  LET better == is_better(child_score, frame.move, frame.best_score, frame.best_move)
      f == [updated_frame EXCEPT !.reports = Append(@, root_report),
                                 !.best_line = IF better THEN root_report.line ELSE @]
      finished == f.alpha >= f.beta \/ f.todo = {}
  IN  /\ AtRoot /\ frame.step \in {"full", "null"} /\ frame.move # pass_move
      /\ returned.kind = "complete"
      /\ ~needs_research /\ ~needs_tie_research
      /\ frames' = Replace([f EXCEPT !.step = IF finished THEN "complete" ELSE "loop"])
      /\ pv' = [pv EXCEPT ![0] = root_report.line]
      /\ returned' = no_return
      /\ UNCHANGED <<setup, truth, table, stopped, result, searches>>

\* Mutant: moves that failed low are not searched again.
reports_that_failed_high(f) ==
  IF multi_pv = 1 THEN {} ELSE {i \in 1 .. Len(f.reports) : f.reports[i].bound = "lower"}

\* complete_exact_root_move_reports: with several reported lines every move
\* that has only a bound is searched again with the full range of scores.
inexact_reports(f) ==
  IF multi_pv = 1 THEN {} ELSE {i \in 1 .. Len(f.reports) : f.reports[i].bound # "exact"}

lowest(S) == CHOOSE i \in S : \A j \in S : i <= j

SearchRootReport ==
  /\ AtRoot /\ frame.step = "complete" /\ inexact_reports(frame) # {}
  /\ LET m == frame.reports[lowest(inexact_reports(frame))].move
     IN  SearchMove("report", full_window_search, m, kScoreLoss, kScoreWin)
  /\ UNCHANGED <<setup, truth, table, pv, returned, stopped, result, searches>>

\* recompute_best_root_move, once every report is exact.
best_report(f) ==
  CHOOSE r \in {f.reports[i] : i \in 1 .. Len(f.reports)} :
    \A i \in 1 .. Len(f.reports) :
      \/ f.reports[i].move = r.move
      \/ ~is_better(f.reports[i].score, f.reports[i].move, r.score, r.move)

RootReportReturned ==
  LET i == lowest(inexact_reports(frame))
      exact == [move |-> frame.move, score |-> child_score, line |-> <<frame.move>> \o pv[1],
                bound |-> "exact"]
      f == [frame EXCEPT !.reports[i] = exact, !.step = "complete"]
  IN  /\ AtRoot /\ frame.step = "report" /\ returned.kind = "complete"
      /\ frames' = Replace(IF inexact_reports(f) # {} THEN f
                           ELSE [f EXCEPT !.best_score = best_report(f).score,
                                          !.best_move = best_report(f).move,
                                          !.best_line = best_report(f).line])
      /\ pv' = [pv EXCEPT ![0] = exact.line]
      /\ returned' = no_return
      /\ UNCHANGED <<setup, truth, table, stopped, result, searches>>

FinishRoot ==
  LET bound == classify_bound(frame.best_score, result.alpha, result.beta)
  IN  /\ AtRoot /\ frame.step = "complete" /\ inexact_reports(frame) = {}
      /\ table' = table \cup
           {claim(frame.node, frame.depth, frame.best_score, bound, frame.best_move)}
      /\ Finish(frame, frame.best_score, bound, frame.best_line, FALSE)
      /\ UNCHANGED <<setup, truth, pv, stopped, searches>>

-----------------------------------------------------------------------------
Init ==
  /\ setup \in Setups
  /\ truth = Minimax(setup)
  /\ table = {}
  /\ frames = << >>
  /\ pv = [ply \in Ply |-> << >>]
  /\ returned = no_return
  /\ stopped = FALSE
  /\ result = no_result
  /\ searches = 0

Next ==
  \/ \E depth \in Depths, window \in Windows : StartSearch(depth, window)
  \/ EnterRoot \/ RootPass \/ RootPassReturned
  \/ frames # << >> /\ \E m \in frame.todo : SearchRootMove(m) \/ SearchChild(m)
  \/ RootChildStopped \/ RootResearch \/ RootChildReturned
  \/ SearchRootReport \/ RootReportReturned \/ FinishRoot
  \/ EvaluateNode \/ EnterNode \/ SearchIid \/ IidReturned
  \/ SearchPassChild \/ PassChildReturned
  \/ ChildStopped \/ ResearchChild \/ ChildReturned

Spec == Init /\ [][Next]_vars

-----------------------------------------------------------------------------
(***************************************************************************)
(* Properties.                                                             *)
(***************************************************************************)
Move == {pass_move, no_move} \cup UNION {moves_of(game, n) : n \in Node}

Bounds(score, bound, value) ==
  CASE bound = "exact" -> score = value
    [] bound = "lower" -> score <= value
    [] bound = "upper" -> score >= value

TypeOK ==
  /\ table \subseteq [node : Node, depth : Depth, score : Score,
                      bound : {"exact", "lower", "upper"}, best_move : Move]
  /\ stopped \in BOOLEAN
  /\ returned.kind \in {"none", "stopped", "complete"} /\ returned.score \in Score
  /\ searches \in 0 .. MaxSearches
  /\ \A i \in 1 .. Len(frames) :
       /\ frames[i].alpha \in Score /\ frames[i].original_alpha < frames[i].beta
       /\ frames[i].ply + 1 \in DOMAIN pv
       /\ frames[i].best_move \in Move

\* The depth that the search leaves at a position is this less its stage.
horizon == result.depth + setup.stage[RootNode]

\* The claims of the table that can answer the running search are true of the
\* position's minimax value at their depth, whatever windows they were searched
\* with, however often they were searched again and wherever the searches that
\* stored them were stopped.  (Internal iterative deepening looks less far and
\* may be answered by deeper entries: what it stores is no minimax value of
\* its depth, and never answers the search itself.)
TableIsTrue ==
  \A c \in table :
    c.depth + setup.stage[c.node] >= horizon =>
      Bounds(c.score, c.bound, truth[<<c.node, c.depth>>])

\* What a call returns is a fail-soft answer to the window it was given: with
\* it, the caller may cut off, search again or take the score as exact.
AnswersAreBounds ==
  (InNode \/ AtRoot) /\ returned.kind = "complete" /\ ~frame.in_iid /\ frame.step # "iid" =>
    LET n == play(game, frame.node, frame.move)
        depth == child_depth(setup, frame.depth, frame.move)
    IN  Bounds(child_score, classify_bound(child_score, frame.low, frame.high),
               -truth[<<n, depth>>])

\* A root search that was not stopped answers its window; with the full range
\* it finds the minimax value.
RootAnswerIsTrue ==
  frames = << >> /\ searches # 0 /\ ~result.stopped =>
    Bounds(result.score, result.bound, truth[<<RootNode, result.depth>>])

\* With the full range of scores the best move has the best value and the
\* lowest square of all moves that have it: "the selected tie is exact rather
\* than merely bounded" (docs/architecture/search.md).
BestMoveIsLowestOptimal ==
  frames = << >> /\ searches # 0 /\ ~result.stopped
    /\ result.bound = "exact" /\ result.best_move # pass_move =>
      LET value(m) == -truth[<<play(game, RootNode, m), result.depth - 1>>]
      IN  /\ value(result.best_move) = truth[<<RootNode, result.depth>>]
          /\ \A m \in moves_of(game, RootNode) :
               m < result.best_move => value(m) < truth[<<RootNode, result.depth>>]

\* A stopped full-range search that has found a move has found a lower bound.
StoppedAnswerIsLowerBound ==
  frames = << >> /\ result.stopped /\ result.best_move # no_move
    /\ result.alpha = kScoreLoss =>
      result.score <= truth[<<RootNode, result.depth>>]

\* The principal variation can be replayed from the root, also when nodes were
\* answered by the table, searched again or left by a stop ("PV is legal when
\* replayed from the root", docs/architecture/search.md).
PvIsLegal ==
  LET replay[i \in 0 .. Len(result.line)] ==
        IF i = 0 THEN {RootNode}
        ELSE UNION {LET m == result.line[i]
                    IN  IF m \in moves_of(game, n) \/ (m = pass_move /\ must_pass(game, n))
                        THEN {play(game, n, m)} ELSE {} : n \in replay[i - 1]}
  IN  frames = << >> =>
        /\ replay[Len(result.line)] # {}
        /\ result.best_move # no_move =>
             result.line # << >> /\ result.line[1] = result.best_move

\* With several lines asked for, every root move that was tried is reported
\* with its own exact value.
ReportsAreExact ==
  frames = << >> /\ ~result.stopped /\ multi_pv # 1 =>
    \A i \in 1 .. Len(result.reports) :
      result.reports[i].score =
        -truth[<<play(game, RootNode, result.reports[i].move), result.depth - 1>>]
=============================================================================
