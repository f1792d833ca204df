------------------------- MODULE IterativeSearchProofs -------------------------
(***************************************************************************)
(* What an iterative search returns is the value of the depth it names,    *)
(* for every limit, score range, window width and number of plies.         *)
(***************************************************************************)
EXTENDS IterativeSearch, TLAPS

\* While the loop runs, the result at hand is that of the depth before.
Progress ==
  /\ depth \in Nat
  /\ best_completed.completed_depth \in Nat
  /\ depth # 0 => best_completed.completed_depth = depth - 1
  /\ pc = "search" => depth # 0 /\ depths_left
  /\ depth <= kMaxPly
  /\ limits \in Limits
  /\ depth # 0 /\ ~limits.infinite => depth <= limits.max_depth + 1

IInv == CompletedDepthIsExact /\ StopLosesOneDepth /\ Progress

LEMMA InitIInv == Init => IInv
<1>. SUFFICES ASSUME Init PROVE IInv
  OBVIOUS
<1>1. best_completed.completed_depth = 0
  BY DEF Init, nothing_completed, Result
<1>2. limits.max_depth \in Nat
  BY IterativeAssumption DEF Init
<1>3. Progress
  BY <1>1, <1>2, IterativeAssumption DEF Init, Progress
<1>. QED BY <1>1, <1>3 DEF Init, IInv, CompletedDepthIsExact, StopLosesOneDepth

\* A score inside its window is the value of the depth, and the full range
\* has every score a search can answer inside it.
LEMMA AcceptedScoreIsExact ==
  ASSUME NEW score \in SearchScore, score \in answers, ~fails_low(score), ~fails_high(score)
  PROVE  classify_bound(score) = "exact" /\ score = truth[depth]
<1>1. classify_bound(score) = "exact"
  BY IterativeAssumption DEF SearchScore, fails_low, fails_high, full_range, classify_bound,
                             kScoreLoss
<1>. QED BY <1>1 DEF answers

LEMMA CompleteDepthIInv ==
  ASSUME IInv, NEW score \in SearchScore, CompleteDepth(score)
  PROVE  IInv'
<1>1. /\ best_completed'.completed_depth = depth
      /\ best_completed'.score = score
      /\ best_completed'.bound = classify_bound(score)
      /\ ~terminal => best_completed'.best_move = depth
  BY DEF CompleteDepth, Result
<1>2. truth' = truth /\ terminal' = terminal /\ depth' = depth + 1 /\ pc' = "check"
  BY DEF CompleteDepth
<1>3. classify_bound(score) = "exact" /\ score = truth[depth]
  BY AcceptedScoreIsExact DEF CompleteDepth
<1>4. CompletedDepthIsExact'
  BY <1>1, <1>2, <1>3 DEF CompletedDepthIsExact
<1>5. Progress'
  <2>1. limits' = limits /\ limits.max_depth \in Nat /\ depths_left
    BY IterativeAssumption DEF CompleteDepth, IInv, Progress
  <2>. QED BY <1>1, <1>2, <2>1, IterativeAssumption DEF IInv, Progress, depths_left
<1>. QED BY <1>2, <1>4, <1>5 DEF IInv, StopLosesOneDepth

LEMMA NextIInv == IInv /\ [Next]_vars => IInv'
<1>. SUFFICES ASSUME IInv, [Next]_vars PROVE IInv'
  OBVIOUS
<1>1. CASE SearchDepthZero
  <2>1. best_completed'.completed_depth = 0
    BY <1>1 DEF SearchDepthZero, nothing_completed, Result
  <2>. QED BY <1>1, <2>1 DEF SearchDepthZero, IInv, Progress, CompletedDepthIsExact,
                             StopLosesOneDepth, Done
<1>2. CASE FinishLoop
  <2>1. limits.max_depth \in Nat
    BY IterativeAssumption DEF IInv, Progress
  <2>2. depth = kMaxPly \/ (~limits.infinite /\ depth = limits.max_depth + 1)
    BY <1>2, <2>1, IterativeAssumption DEF FinishLoop, depths_left, IInv, Progress
  <2>3. UNCHANGED <<limits, terminal, truth, depth, best_completed>> /\ pc' = "done"
    BY <1>2 DEF FinishLoop, Done
  <2>4. StopLosesOneDepth'
    BY <2>1, <2>2, <2>3, IterativeAssumption DEF IInv, Progress, StopLosesOneDepth
  <2>. QED BY <2>3, <2>4 DEF IInv, Progress, CompletedDepthIsExact
<1>3. CASE StopBeforeDepth \/ (SearchIsStopped
                                 /\ ~(best_completed.completed_depth = 0 /\ ~best_completed.exact))
  <2>1. best_completed' = [best_completed EXCEPT !.stopped = TRUE]
    BY <1>3 DEF StopBeforeDepth, SearchIsStopped
  <2>2. /\ UNCHANGED <<limits, terminal, truth, depth>>
        /\ pc' = "done" /\ depth # 0
    BY <1>3 DEF StopBeforeDepth, SearchIsStopped, Done, IInv, Progress
  <2>. QED BY <2>1, <2>2 DEF IInv, Progress, CompletedDepthIsExact, StopLosesOneDepth
<1>4. CASE SearchIsStopped /\ best_completed.completed_depth = 0 /\ ~best_completed.exact
  <2>1. best_completed'.completed_depth = 0 /\ best_completed'.stopped
    BY <1>4 DEF SearchIsStopped, nothing_completed, Result
  <2>2. UNCHANGED <<limits, depth>> /\ pc' = "done" /\ depth # 0
    BY <1>4 DEF SearchIsStopped, Done, IInv, Progress
  <2>. QED BY <1>4, <2>1, <2>2 DEF IInv, Progress, CompletedDepthIsExact, StopLosesOneDepth
<1>5. ASSUME NEW use_aspiration \in BOOLEAN, StartDepth(use_aspiration)
      PROVE  IInv'
  BY <1>5 DEF StartDepth, depths_left, IInv, Progress, CompletedDepthIsExact, StopLosesOneDepth
<1>6. ASSUME NEW score \in SearchScore, WidenDown(score) \/ WidenUp(score)
      PROVE  IInv'
  BY <1>6 DEF WidenDown, WidenUp, depths_left, IInv, Progress, CompletedDepthIsExact, StopLosesOneDepth
<1>7. ASSUME NEW score \in SearchScore, CompleteDepth(score)
      PROVE  IInv'
  BY <1>7, CompleteDepthIInv
<1>8. CASE UNCHANGED vars
  BY <1>8 DEF vars, depths_left, IInv, Progress, CompletedDepthIsExact, StopLosesOneDepth
<1>. QED BY <1>1, <1>2, <1>3, <1>4, <1>5, <1>6, <1>7, <1>8 DEF Next

\* Score, bound and best move are those of the completed depth, whatever was
\* stopped and whichever windows failed.
THEOREM CompletedDepthCorrect == Spec => []CompletedDepthIsExact
<1>1. IInv => CompletedDepthIsExact
  BY DEF IInv
<1>. QED BY <1>1, InitIInv, NextIInv, PTL DEF Spec

\* A stop costs the depth it interrupts and no other.
THEOREM StopCorrect == Spec => []StopLosesOneDepth
<1>1. IInv => StopLosesOneDepth
  BY DEF IInv
<1>. QED BY <1>1, InitIInv, NextIInv, PTL DEF Spec

-----------------------------------------------------------------------------
\* While a depth is searched, its window is the full range or lies around the
\* score of the depth before, at margins that have not come to an end.
WindowFitsMargins ==
  /\ previous_score \in SearchScore \cup {NoScore}
  /\ low_margin \in Nat \ {0} /\ high_margin \in Nat \ {0}
  /\ pc = "search" =>
       \/ window = full_range
       \/ /\ previous_score \in SearchScore
          /\ window = aspiration_window(previous_score, low_margin, high_margin)

\* Both ends of an aspiration window, for every margin there may be.
LEMMA AspirationWindow ==
  ASSUME NEW score \in SearchScore, NEW low \in Nat \ {0}, NEW high \in Nat \ {0}
  PROVE  LET w == aspiration_window(score, low, high)
         IN  /\ w.alpha = IF score - low < kScoreLoss THEN kScoreLoss ELSE score - low
             /\ w.beta = IF score + high > kScoreWin THEN kScoreWin ELSE score + high
             /\ w = [alpha |-> w.alpha, beta |-> w.beta]
<1>. DEFINE alpha == IF score - low < kScoreLoss THEN kScoreLoss ELSE score - low
            beta == IF score + high > kScoreWin THEN kScoreWin ELSE score + high
<1>1. score \in Int /\ kScoreLoss < score /\ score < kScoreWin
      /\ kScoreLoss \in Int /\ kScoreWin \in Int /\ kScoreLoss < kScoreWin
  BY IterativeAssumption DEF SearchScore, kScoreLoss
<1>2. clamp_score(score - low) = alpha /\ clamp_score(score + high) = beta
  BY <1>1 DEF clamp_score
<1>3. alpha < beta /\ alpha \in Int /\ beta \in Int
  BY <1>1
<1>4. ~(alpha >= beta)
  BY <1>3
<1>. QED BY <1>2, <1>4 DEF aspiration_window

LEMMA NextMargin ==
  ASSUME NEW margin \in Nat \ {0}
  PROVE  /\ next_aspiration_margin(margin) \in Nat \ {0}
         /\ margin < next_aspiration_margin(margin)
              \/ next_aspiration_margin(margin) = kFullScoreRange
BY IterativeAssumption DEF next_aspiration_margin, kFullScoreRange, kScoreLoss

\* An end that has not reached the limit moves outwards with its margin, and
\* the margin next_aspiration_margin ends at takes it to the limit.
LEMMA EndMoves ==
  ASSUME NEW distance \in Nat \ {0}, NEW margin \in Nat \ {0}, NEW wider \in Nat \ {0},
         NEW range \in Nat, distance < range, margin < wider \/ wider = range,
         NEW end \in Int, NEW moved \in Int,
         end = (IF distance < margin THEN distance ELSE margin), end < distance,
         moved = (IF distance < wider THEN distance ELSE wider)
  PROVE  end < moved
OBVIOUS

\* How far the ends of a window lie from the score it was put around.
LEMMA LowerEnd ==
  ASSUME NEW score \in Int, NEW margin \in Nat, NEW limit \in Int, NEW end,
         end = (IF score - margin < limit THEN limit ELSE score - margin)
  PROVE  /\ end \in Int
         /\ score - end = (IF score - limit < margin THEN score - limit ELSE margin)
<1>1. CASE score - margin < limit
  BY <1>1
<1>2. CASE ~(score - margin < limit)
  BY <1>2
<1>. QED BY <1>1, <1>2

LEMMA UpperEnd ==
  ASSUME NEW score \in Int, NEW margin \in Nat, NEW limit \in Int, NEW end,
         end = (IF score + margin > limit THEN limit ELSE score + margin)
  PROVE  /\ end \in Int
         /\ end - score = (IF limit - score < margin THEN limit - score ELSE margin)
<1>1. CASE score + margin > limit
  BY <1>1
<1>2. CASE ~(score + margin > limit)
  BY <1>2
<1>. QED BY <1>1, <1>2

LEMMA NextWindowFits == WindowFitsMargins /\ [Next]_vars => WindowFitsMargins'
<1>. SUFFICES ASSUME WindowFitsMargins, [Next]_vars PROVE WindowFitsMargins'
  OBVIOUS
<1>1. CASE SearchDepthZero \/ FinishLoop \/ StopBeforeDepth \/ SearchIsStopped
  BY <1>1 DEF SearchDepthZero, FinishLoop, StopBeforeDepth, SearchIsStopped, Done,
              WindowFitsMargins
<1>2. ASSUME NEW use_aspiration \in BOOLEAN, StartDepth(use_aspiration)
      PROVE  WindowFitsMargins'
  BY <1>2, IterativeAssumption DEF StartDepth, WindowFitsMargins
<1>3. ASSUME NEW score \in SearchScore, WidenDown(score) \/ WidenUp(score)
      PROVE  WindowFitsMargins'
  <2>1. kFullScoreRange \in Nat \ {0}
    BY IterativeAssumption DEF kFullScoreRange, kScoreLoss
  <2>2. previous_score \in SearchScore
    BY <1>3 DEF WidenDown, WidenUp, fails_low, fails_high, WindowFitsMargins
  <2>. QED BY <1>3, <2>1, <2>2, NextMargin DEF WidenDown, WidenUp, WindowFitsMargins
<1>4. ASSUME NEW score \in SearchScore, CompleteDepth(score)
      PROVE  WindowFitsMargins'
  BY <1>4 DEF CompleteDepth, WindowFitsMargins
<1>5. CASE UNCHANGED vars
  BY <1>5 DEF vars, WindowFitsMargins
<1>. QED BY <1>1, <1>2, <1>3, <1>4, <1>5 DEF Next

\* A margin that grows, on a side that can still give way, widens the window.
LEMMA WidenedWindow ==
  ASSUME WindowFitsMargins, pc = "search", NEW score \in SearchScore,
         WidenDown(score) \/ WidenUp(score)
  PROVE  /\ window'.alpha <= window.alpha /\ window'.beta >= window.beta
         /\ window' # window
<1>1. /\ window # full_range
      /\ previous_score \in SearchScore
      /\ window = aspiration_window(previous_score, low_margin, high_margin)
  BY DEF WidenDown, WidenUp, fails_low, fails_high, WindowFitsMargins
<1>2. /\ previous_score \in Int /\ score \in Int
      /\ kScoreLoss < previous_score /\ previous_score < kScoreWin
      /\ kScoreLoss < score /\ score < kScoreWin
      /\ kScoreLoss \in Int /\ kScoreWin \in Int
      /\ kFullScoreRange = kScoreWin - kScoreLoss
      /\ kFullScoreRange \in Nat \ {0}
  BY <1>1, IterativeAssumption DEF SearchScore, kScoreLoss, kFullScoreRange
<1>3. /\ low_margin \in Nat \ {0} /\ high_margin \in Nat \ {0}
      /\ window.alpha = IF previous_score - low_margin < kScoreLoss
                        THEN kScoreLoss ELSE previous_score - low_margin
      /\ window.beta = IF previous_score + high_margin > kScoreWin
                       THEN kScoreWin ELSE previous_score + high_margin
  BY <1>1, AspirationWindow DEF WindowFitsMargins
<1>4. CASE WidenDown(score)
  <2>1. /\ low_margin' = next_aspiration_margin(low_margin)
        /\ high_margin' = IF window.alpha = kScoreLoss THEN kFullScoreRange ELSE high_margin
        /\ window' = aspiration_window(previous_score, low_margin', high_margin')
        /\ score <= window.alpha
    BY <1>4 DEF WidenDown, fails_low
  <2>2. kScoreLoss < window.alpha
    BY <1>2, <1>3, <2>1
  <2>3. high_margin' = high_margin
    BY <1>2, <1>3, <2>1, <2>2
  <2>4. /\ low_margin' \in Nat \ {0}
        /\ low_margin < low_margin' \/ low_margin' = kFullScoreRange
    BY <1>3, <2>1, NextMargin
  <2>5. /\ window'.alpha = IF previous_score - low_margin' < kScoreLoss
                           THEN kScoreLoss ELSE previous_score - low_margin'
        /\ window'.beta = window.beta
    BY <1>1, <1>3, <2>1, <2>3, <2>4, AspirationWindow
  <2>6. window.alpha \in Int /\ window'.alpha \in Int /\ window.beta \in Int
    <3>1. window.alpha \in Int /\ window.beta \in Int
      BY <1>2, <1>3
    <3>2. window'.alpha \in Int
      BY <1>2, <2>4, <2>5, LowerEnd
    <3>. QED BY <3>1, <3>2
  <2>7. previous_score - window.alpha < previous_score - window'.alpha
    <3>. DEFINE distance == previous_score - kScoreLoss
    <3>1. /\ distance \in Nat \ {0} /\ distance < kFullScoreRange
          /\ previous_score - window.alpha \in Int /\ previous_score - window'.alpha \in Int
      BY <1>2, <2>6
    <3>2. previous_score - window.alpha
            = (IF distance < low_margin THEN distance ELSE low_margin)
      BY <1>2, <1>3
    <3>3. previous_score - window.alpha < distance
      BY <1>2, <2>2, <2>6
    <3>4. previous_score - window'.alpha
            = (IF distance < low_margin' THEN distance ELSE low_margin')
      <4>1. PICK wider \in Nat : wider = low_margin'
        BY <2>4
      <4>2. PICK end : end = window'.alpha
        OBVIOUS
      <4>3. previous_score \in Int /\ kScoreLoss \in Int
        BY <1>2
      <4>4. end = IF previous_score - wider < kScoreLoss
                  THEN kScoreLoss ELSE previous_score - wider
        BY <2>5, <4>1, <4>2
      <4>5. previous_score - end = (IF distance < wider THEN distance ELSE wider)
        BY <4>3, <4>4, LowerEnd
      <4>. QED BY <4>1, <4>2, <4>5
    <3>. HIDE DEF distance
    <3>. QED BY <1>2, <1>3, <2>4, <3>1, <3>2, <3>3, <3>4, EndMoves
  <2>8. window'.alpha < window.alpha
    BY <1>2, <2>6, <2>7
  <2>. QED BY <2>5, <2>6, <2>8
<1>5. CASE WidenUp(score)
  <2>1. /\ high_margin' = next_aspiration_margin(high_margin)
        /\ low_margin' = IF window.beta = kScoreWin THEN kFullScoreRange ELSE low_margin
        /\ window' = aspiration_window(previous_score, low_margin', high_margin')
        /\ score >= window.beta
    BY <1>5 DEF WidenUp, fails_high
  <2>2. window.beta < kScoreWin
    BY <1>2, <1>3, <2>1
  <2>3. low_margin' = low_margin
    BY <1>2, <1>3, <2>1, <2>2
  <2>4. /\ high_margin' \in Nat \ {0}
        /\ high_margin < high_margin' \/ high_margin' = kFullScoreRange
    BY <1>3, <2>1, NextMargin
  <2>5. /\ window'.beta = IF previous_score + high_margin' > kScoreWin
                          THEN kScoreWin ELSE previous_score + high_margin'
        /\ window'.alpha = window.alpha
    BY <1>1, <1>3, <2>1, <2>3, <2>4, AspirationWindow
  <2>6. window.alpha \in Int /\ window'.beta \in Int /\ window.beta \in Int
    <3>1. window.alpha \in Int /\ window.beta \in Int
      BY <1>2, <1>3
    <3>2. window'.beta \in Int
      BY <1>2, <2>4, <2>5, UpperEnd
    <3>. QED BY <3>1, <3>2
  <2>7. window.beta - previous_score < window'.beta - previous_score
    <3>. DEFINE distance == kScoreWin - previous_score
    <3>1. /\ distance \in Nat \ {0} /\ distance < kFullScoreRange
          /\ window.beta - previous_score \in Int /\ window'.beta - previous_score \in Int
      BY <1>2, <2>6
    <3>2. window.beta - previous_score
            = (IF distance < high_margin THEN distance ELSE high_margin)
      BY <1>2, <1>3
    <3>3. window.beta - previous_score < distance
      BY <1>2, <2>2, <2>6
    <3>4. window'.beta - previous_score
            = (IF distance < high_margin' THEN distance ELSE high_margin')
      <4>1. /\ previous_score \in Int /\ kScoreWin \in Int /\ high_margin' \in Nat
            /\ window'.beta = IF previous_score + high_margin' > kScoreWin
                              THEN kScoreWin ELSE previous_score + high_margin'
        BY <1>2, <2>4, <2>5
      <4>. QED BY <4>1, UpperEnd
    <3>. HIDE DEF distance
    <3>. QED BY <1>2, <1>3, <2>4, <3>1, <3>2, <3>3, <3>4, EndMoves
  <2>8. window.beta < window'.beta
    BY <1>2, <2>6, <2>7
  <2>. QED BY <2>5, <2>6, <2>8
<1>. QED BY <1>4, <1>5

\* A window that failed is followed by one that contains it strictly, whatever
\* the scores and margins, so no window of a depth is searched twice.
THEOREM WindowsWiden == Spec => []WindowsOnlyWiden
<1>1. Init => WindowFitsMargins
  BY IterativeAssumption DEF Init, WindowFitsMargins
<1>2. WindowFitsMargins /\ [Next]_vars
        => ((pc = "search" /\ pc' = "search" =>
              /\ window'.alpha <= window.alpha /\ window'.beta >= window.beta
              /\ window' # window)
            \/ UNCHANGED vars)
  <2>. SUFFICES ASSUME WindowFitsMargins, Next, pc = "search", pc' = "search"
                PROVE  /\ window'.alpha <= window.alpha /\ window'.beta >= window.beta
                       /\ window' # window
    OBVIOUS
  <2>1. \E score \in SearchScore : WidenDown(score) \/ WidenUp(score)
    BY DEF Next, SearchDepthZero, FinishLoop, StopBeforeDepth, StartDepth, SearchIsStopped,
           CompleteDepth, Done
  <2>. QED BY <2>1, WidenedWindow
<1>. QED BY <1>1, <1>2, NextWindowFits, PTL DEF Spec, WindowsOnlyWiden
=============================================================================
