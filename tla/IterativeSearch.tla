---------------------------- MODULE IterativeSearch ----------------------------
(***************************************************************************)
(* Iterative deepening with aspiration windows: search_iterative and       *)
(* search_depth_with_aspiration (engine/src/search/root_search.cc).        *)
(*                                                                         *)
(* A fixed-depth search is one step with the promise GameTreeSearch gives: *)
(* it is stopped, or it answers its window.  The value a depth has is      *)
(* chosen when the search starts and unknown to it.  A best move stands    *)
(* for the depth it was found at, because what matters here is that score, *)
(* bound and move come from the same depth.                                *)
(***************************************************************************)
EXTENDS Integers

CONSTANTS
  kScoreWin,
  kAspirationInitialWindow,
  kMaxPly,
  Limits                 \* max_depth and infinite of the searches

ASSUME IterativeAssumption ==
  /\ kScoreWin \in Nat \ {0}
  /\ kAspirationInitialWindow \in Nat \ {0}
  /\ kMaxPly \in Nat \ {0}
  /\ Limits \subseteq [max_depth : Nat, infinite : BOOLEAN]

kScoreLoss == -kScoreWin
kFullScoreRange == kScoreWin - kScoreLoss
Score == kScoreLoss .. kScoreWin
SearchScore == kScoreLoss + 1 .. kScoreWin - 1

NoMove == 0
NoScore == kScoreWin + 1   \* previous_score without a value

full_range == [alpha |-> kScoreLoss, beta |-> kScoreWin]

VARIABLES
  limits,                \* SearchLimits
  terminal,              \* the root position is terminal
  truth,                 \* history variable: the value of the root at each depth
  depth,                 \* the loop's depth
  pc,                    \* "check", "search" or "done"
  window,                \* RootSearchWindow of the running search
  low_margin, high_margin,
  previous_score,
  best_completed,        \* the SearchResult to return
  limit_stopped,         \* limit_state.stopped
  odd_searches           \* history variable: parity of the searches run, so that
                         \* searching the same window again is a step

vars == <<limits, terminal, truth, depth, pc, window, low_margin, high_margin, previous_score,
          best_completed, limit_stopped, odd_searches>>

Result(kind, completed_depth, score, bound, best_move, exact, stopped) ==
  [score_kind |-> kind, completed_depth |-> completed_depth, score |-> score, bound |-> bound,
   best_move |-> best_move, exact |-> exact, stopped |-> stopped]

TypeOK ==
  /\ limits \in Limits
  /\ depth \in 0 .. kMaxPly
  /\ pc \in {"check", "search", "done"}
  /\ window.alpha \in Score /\ window.beta \in Score /\ window.alpha < window.beta
  /\ low_margin \in 1 .. kFullScoreRange /\ high_margin \in 1 .. kFullScoreRange
  /\ previous_score \in SearchScore \cup {NoScore}
  /\ best_completed.completed_depth \in 0 .. kMaxPly - 1

-----------------------------------------------------------------------------
(***************************************************************************)
(* Aspiration windows.                                                     *)
(***************************************************************************)
clamp_score(score) ==
  IF score < kScoreLoss THEN kScoreLoss ELSE IF score > kScoreWin THEN kScoreWin ELSE score

\* Mutant: the margin stays.
same_aspiration_margin(margin) == margin

next_aspiration_margin(margin) ==
  IF margin >= kFullScoreRange \div 2 THEN kFullScoreRange ELSE margin * 2

aspiration_window(score, low, high) ==
  LET alpha == clamp_score(score - low)
      beta == clamp_score(score + high)
  IN  IF alpha >= beta THEN full_range ELSE [alpha |-> alpha, beta |-> beta]

classify_bound(score) ==
  IF score <= window.alpha THEN "upper" ELSE IF score >= window.beta THEN "lower" ELSE "exact"

\* What a fixed-depth search may answer (GameTreeSearch!RootAnswerIsTrue).
answers ==
  {score \in SearchScore :
     CASE classify_bound(score) = "upper" -> score >= truth[depth]
       [] classify_bound(score) = "lower" -> score <= truth[depth]
       [] OTHER -> score = truth[depth]}

-----------------------------------------------------------------------------
(***************************************************************************)
(* The loop over the depths.                                               *)
(***************************************************************************)
nothing_completed ==
  Result(IF terminal THEN "exact_disc_diff" ELSE "unavailable", 0,
         IF terminal THEN truth[0] ELSE 0, "exact", NoMove, terminal, FALSE)

Init ==
  /\ limits \in Limits
  /\ terminal \in BOOLEAN
  /\ \E value \in SearchScore, values \in [0 .. kMaxPly - 1 -> SearchScore] :
       truth = IF terminal THEN [d \in 0 .. kMaxPly - 1 |-> value] ELSE values
  /\ depth = IF ~limits.infinite /\ limits.max_depth = 0 THEN 0 ELSE 1
  /\ pc = "check"
  /\ window = full_range
  /\ low_margin = kAspirationInitialWindow
  /\ high_margin = kAspirationInitialWindow
  /\ previous_score = NoScore
  /\ best_completed = nothing_completed
  /\ limit_stopped = FALSE
  /\ odd_searches = FALSE

Done == pc' = "done"

\* A limit of depth zero is one visit to the root without a table.
SearchDepthZero ==
  /\ pc = "check" /\ depth = 0
  /\ \E stop \in BOOLEAN :
       /\ limit_stopped' \in (IF stop THEN {TRUE} ELSE BOOLEAN)
       /\ best_completed' =
            IF stop
            THEN IF terminal THEN [nothing_completed EXCEPT !.stopped = TRUE]
                 ELSE Result("unavailable", 0, kScoreLoss, "lower", NoMove, FALSE, TRUE)
            ELSE Result(IF terminal THEN "exact_disc_diff" ELSE "heuristic", 0, truth[0], "exact",
                        NoMove, terminal, FALSE)
  /\ Done
  /\ UNCHANGED <<limits, terminal, truth, depth, window, low_margin, high_margin, previous_score,
                 odd_searches>>

depths_left == (limits.infinite \/ depth <= limits.max_depth) /\ depth < kMaxPly

FinishLoop ==
  /\ pc = "check" /\ depth # 0
  /\ ~depths_left
  /\ Done
  /\ UNCHANGED <<limits, terminal, truth, depth, window, low_margin, high_margin,
                 previous_score, best_completed, limit_stopped, odd_searches>>

StopBeforeDepth ==
  /\ pc = "check" /\ depth # 0
  /\ depths_left
  /\ limit_stopped' = TRUE
  /\ best_completed' = [best_completed EXCEPT !.stopped = TRUE]
  /\ Done
  /\ UNCHANGED <<limits, terminal, truth, depth, window, low_margin, high_margin,
                 previous_score, odd_searches>>

\* From depth 2 on the window may be put around the previous score; without
\* use_aspiration, or near an exact endgame, it is the full range.
StartDepth(use_aspiration) ==
  /\ pc = "check" /\ depth # 0
  /\ depths_left
  /\ ~limit_stopped
  /\ use_aspiration => depth >= 2 /\ previous_score # NoScore
  /\ low_margin' = kAspirationInitialWindow
  /\ high_margin' = kAspirationInitialWindow
  /\ window' = IF use_aspiration
               THEN aspiration_window(previous_score, low_margin', high_margin')
               ELSE full_range
  /\ pc' = "search"
  /\ UNCHANGED <<limits, terminal, truth, depth, previous_score, best_completed, limit_stopped,
                 odd_searches>>

\* Mutant: the stopped depth replaces the completed one.
SearchIsStoppedLosingDepth ==
  /\ pc = "search"
  /\ limit_stopped' = TRUE
  /\ best_completed' = [nothing_completed EXCEPT !.stopped = TRUE]
  /\ Done
  /\ UNCHANGED <<limits, terminal, truth, depth, window, low_margin, high_margin,
                 previous_score, odd_searches>>

\* A stopped depth is thrown away, whatever it had found.
SearchIsStopped ==
  /\ pc = "search"
  /\ limit_stopped' = TRUE
  /\ best_completed' =
       IF best_completed.completed_depth = 0 /\ ~best_completed.exact
       THEN [nothing_completed EXCEPT !.stopped = TRUE]
       ELSE [best_completed EXCEPT !.stopped = TRUE]
  /\ Done
  /\ UNCHANGED <<limits, terminal, truth, depth, window, low_margin, high_margin,
                 previous_score, odd_searches>>

fails_low(score) == score <= window.alpha /\ window # full_range

\* Mutant: a score that meets beta is taken.
fails_high_beyond_beta(score) == score > window.beta /\ window # full_range

fails_high(score) == score >= window.beta /\ window # full_range

\* One search more, which spent its last node or did not.
LimitsAfterSearch ==
  /\ limit_stopped' \in BOOLEAN
  /\ odd_searches' = ~odd_searches

WidenDown(score) ==
  /\ pc = "search" /\ ~limit_stopped
  /\ score \in answers
  /\ fails_low(score)
  /\ LimitsAfterSearch
  /\ low_margin' = next_aspiration_margin(low_margin)
  /\ high_margin' = IF window.alpha = kScoreLoss THEN kFullScoreRange ELSE high_margin
  /\ window' = aspiration_window(previous_score, low_margin', high_margin')
  /\ UNCHANGED <<limits, terminal, truth, depth, pc, previous_score, best_completed>>

WidenUp(score) ==
  /\ pc = "search" /\ ~limit_stopped
  /\ score \in answers
  /\ ~fails_low(score) /\ fails_high(score)
  /\ LimitsAfterSearch
  /\ high_margin' = next_aspiration_margin(high_margin)
  /\ low_margin' = IF window.beta = kScoreWin THEN kFullScoreRange ELSE low_margin
  /\ window' = aspiration_window(previous_score, low_margin', high_margin')
  /\ UNCHANGED <<limits, terminal, truth, depth, pc, previous_score, best_completed>>

CompleteDepth(score) ==
  /\ pc = "search" /\ ~limit_stopped
  /\ score \in answers
  /\ ~fails_low(score) /\ ~fails_high(score)
  /\ LimitsAfterSearch
  /\ best_completed' =
       Result(IF terminal THEN "exact_disc_diff" ELSE "heuristic", depth, score,
              classify_bound(score), IF terminal THEN NoMove ELSE depth, terminal, FALSE)
  /\ previous_score' = score
  /\ depth' = depth + 1
  /\ pc' = "check"
  /\ UNCHANGED <<limits, terminal, truth, window, low_margin, high_margin>>

Next ==
  \/ SearchDepthZero \/ FinishLoop \/ StopBeforeDepth
  \/ \E use_aspiration \in BOOLEAN : StartDepth(use_aspiration)
  \/ SearchIsStopped
  \/ \E score \in SearchScore : WidenDown(score) \/ WidenUp(score) \/ CompleteDepth(score)

\* The search runs on; nothing else has to happen for it to return.
Spec == Init /\ [][Next]_vars /\ WF_vars(Next)

-----------------------------------------------------------------------------
(***************************************************************************)
(* Properties.                                                             *)
(***************************************************************************)

\* What is returned is the value of the root at the depth it names, and score,
\* bound and best move come from that depth, wherever the search was stopped
\* and however often its window was widened.
CompletedDepthIsExact ==
  best_completed.completed_depth # 0 =>
    /\ best_completed.score = truth[best_completed.completed_depth]
    /\ best_completed.bound = "exact"
    /\ ~terminal => best_completed.best_move = best_completed.completed_depth

\* A search that is stopped gives the last depth it completed, and only one
\* that is stopped gives less than it was asked for.
StopLosesOneDepth ==
  pc = "done" /\ depth # 0 =>
    /\ best_completed.completed_depth = depth - 1
    /\ best_completed.stopped
         \/ best_completed.completed_depth = kMaxPly - 1
         \/ (~limits.infinite /\ best_completed.completed_depth = limits.max_depth)

\* Every window of one depth contains the one that failed before it, strictly:
\* no window is searched twice.
WindowsOnlyWiden ==
  [][pc = "search" /\ pc' = "search" =>
       /\ window'.alpha <= window.alpha /\ window'.beta >= window.beta
       /\ window' # window]_vars

\* The search returns, also with an infinite limit and without any stop.
SearchReturns == <>(pc = "done")
=============================================================================
