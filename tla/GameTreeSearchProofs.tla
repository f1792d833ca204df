------------------------- MODULE GameTreeSearchProofs -------------------------
(***************************************************************************)
(* Theorems about the midgame search (GameTreeSearch), for every game, every*)
(* depth and every window: what the table claims, what a call returns and   *)
(* what the root publishes, against plain minimax.                          *)
(*                                                                          *)
(* The invariant says of each active call what its loop knows about the     *)
(* moves it has finished, and of each pair of calls that the upper one is   *)
(* the call the lower one waits for.  It is a conjunction of operators that *)
(* take the setup s, the running search r and a frame or a stack as         *)
(* arguments, so that the lemmas about them need no primes.                 *)
(***************************************************************************)
EXTENDS GameTreeSearch, SequenceTheorems, NaturalsInduction, WellFoundedInduction, TLAPS

Square == Nat \ {0}
Inside == kScoreLoss + 1 .. kScoreWin - 1
Bound == {"exact", "lower", "upper"}

-----------------------------------------------------------------------------
(***************************************************************************)
(* Values and lines.                                                       *)
(***************************************************************************)

\* What plain minimax satisfies.
IsMinimax(s, v) ==
  \A n \in Node, d \in Depth :
    /\ v[<<n, d>>] \in Inside
    /\ is_terminal(s.game, n) \/ d = 0 => v[<<n, d>>] = s.game.evaluation[n]
    /\ must_pass(s.game, n) /\ d # 0 =>
         v[<<n, d>>] = -v[<<s.game.passes[n], child_depth(s, d, pass_move)>>]
    /\ moves_of(s.game, n) # {} /\ d # 0 =>
         /\ \A m \in moves_of(s.game, n) : -v[<<s.game.successors[n][m], d - 1>>] <= v[<<n, d>>]
         /\ \E m \in moves_of(s.game, n) : -v[<<s.game.successors[n][m], d - 1>>] = v[<<n, d>>]

\* The value of move m for the side to move at node n, searched to the depth.
ValueOf(s, n, depth, m) == -Minimax(s)[<<play(s.game, n, m), child_depth(s, depth, m)>>]

Horizon(s, r) == r.depth + s.stage[RootNode]

LegalStep(s, n, m) == m \in moves_of(s.game, n) \/ (m = pass_move /\ must_pass(s.game, n))

\* A line that can be replayed from node n.
LegalLine(s, n, line) ==
  /\ line \in Seq(Int)
  /\ \E path \in [0 .. Len(line) -> Node] :
       /\ path[0] = n
       /\ \A i \in 1 .. Len(line) :
            LegalStep(s, path[i - 1], line[i]) /\ path[i] = play(s.game, path[i - 1], line[i])

-----------------------------------------------------------------------------
(***************************************************************************)
(* Frames.                                                                 *)
(***************************************************************************)
Report == [move : Square, score : Inside, line : Seq(Int), bound : Bound]

Frame ==
  [proc : {"root", "pvs", "alphabeta"}, node : Node, depth : Depth, ply : Ply, in_iid : BOOLEAN,
   alpha : Score, beta : Score, original_alpha : Score, best_score : Score, best_move : Int,
   todo : SUBSET Square, move : Int, low : Score, high : Score,
   step : {"enter", "order", "iid", "loop", "full", "null", "report", "complete"},
   reports : Seq(Report), best_line : Seq(Int)]

Waiting(f) == f.step \in {"iid", "full", "null", "report"}

\* Moves whose result the loop has taken into account.
Finished(s, f) ==
  (moves_of(s.game, f.node) \ f.todo) \ (IF f.step \in {"full", "null"} THEN {f.move} ELSE {})

FrameValue(s, f, m) == ValueOf(s, f.node, f.depth, m)

WindowOK(f) ==
  /\ f.original_alpha <= f.alpha /\ f.original_alpha < f.beta
  /\ f.step # "complete" /\ f.step # "report" => f.alpha < f.beta

BestOK(s, f) ==
  \/ f.best_move = no_move /\ f.best_score = kScoreLoss /\ f.alpha = f.original_alpha
  \/ /\ f.best_move \in Finished(s, f) /\ f.best_score \in Inside
     /\ f.step \notin {"report", "complete"} =>
          f.best_score <= f.alpha /\ f.alpha \in {f.original_alpha, f.best_score}

\* A position's depth and stage add up to the horizon; iterative deepening
\* stays below it.  Two plies with a pass spend at least one of depth.
DepthOK(s, r, f) ==
  /\ IF f.in_iid THEN f.depth + s.stage[f.node] < Horizon(s, r)
                 ELSE f.depth + s.stage[f.node] = Horizon(s, r)
  /\ f.ply + 2 * f.depth <= 2 * r.depth + (IF must_pass(s.game, f.node) THEN 0 ELSE 1)
  /\ f.step # "enter" => f.depth # 0

\* The call that the frame waits for, or has not made yet.
StepOK(s, f) ==
  /\ f.todo \subseteq moves_of(s.game, f.node)
  /\ f.step \in {"enter", "order", "iid"} =>
       f.best_move = no_move /\ f.todo = moves_of(s.game, f.node)
  /\ f.step \in {"full", "null"} =>
       /\ f.low < f.high
       /\ IF f.step = "full" THEN f.high = f.beta ELSE f.high = f.low + 1
       /\ \/ /\ f.move = pass_move /\ must_pass(s.game, f.node) /\ f.step = "full"
             /\ f.low = f.alpha /\ f.best_move = no_move
          \/ f.move \in moves_of(s.game, f.node) /\ f.move \notin f.todo
  /\ must_pass(s.game, f.node) => f.best_move = no_move

\* What the loop of pvs or alphabeta knows.
NodeOK(s, f) ==
  f.proc # "root" =>
    /\ f.step \notin {"report", "complete"}
    /\ f.step \in {"full", "null"} => f.low = f.alpha
    /\ ~f.in_iid =>
         /\ \A m \in Finished(s, f) : FrameValue(s, f, m) <= f.best_score
         /\ f.best_score > f.original_alpha =>
              \E m \in Finished(s, f) : FrameValue(s, f, m) >= f.best_score

Inexact(s, f) ==
  IF s.multi_pv = 1 THEN {} ELSE {i \in 1 .. Len(f.reports) : f.reports[i].bound # "exact"}

RootBestOK(s, f) ==
  /\ f.best_score > f.original_alpha => FrameValue(s, f, f.best_move) >= f.best_score
  /\ f.best_score < f.beta =>
       /\ \A m \in Finished(s, f) : FrameValue(s, f, m) <= f.best_score
       /\ f.best_score > f.original_alpha =>
            /\ FrameValue(s, f, f.best_move) = f.best_score
            /\ \A m \in Finished(s, f) :
                 m < f.best_move => FrameValue(s, f, m) < f.best_score
       /\ f.step \in {"report", "complete"} => f.todo = {}

\* The lower end of the window of a root move: a move on a lower square than
\* the best one may have to beat only the score below the best.
RootLowOK(s, f) ==
  f.step \in {"full", "null"} /\ f.move # pass_move =>
    \/ /\ f.low = f.alpha
       /\ f.best_move = no_move \/ f.move > f.best_move \/ (~s.use_pvs /\ f.step = "full")
    \/ f.best_move # no_move /\ f.move < f.best_move /\ f.low = f.best_score - 1

RootReportsOK(s, f) ==
  /\ \A i \in 1 .. Len(f.reports) :
       LET p == f.reports[i]
       IN  /\ p.move \in Finished(s, f)
           /\ Bounds(p.score, p.bound, FrameValue(s, f, p.move))
           /\ LegalLine(s, RootNode, p.line) /\ p.line # << >> /\ p.line[1] = p.move
  /\ \A m \in Finished(s, f) : \E i \in 1 .. Len(f.reports) : f.reports[i].move = m
  /\ f.step = "report" =>
       /\ Inexact(s, f) # {} /\ f.move = f.reports[lowest(Inexact(s, f))].move
       /\ f.low = kScoreLoss /\ f.high = kScoreWin

RootLineOK(s, f) ==
  /\ LegalLine(s, RootNode, f.best_line)
  /\ f.best_move # no_move => f.best_line # << >> /\ f.best_line[1] = f.best_move

\* What the root loop knows.
RootOK(s, r, f) ==
  f.proc = "root" =>
    /\ f.node = RootNode /\ f.depth = r.depth /\ f.ply = 0 /\ ~f.in_iid
    /\ f.original_alpha = r.alpha /\ f.beta = r.beta
    /\ f.step \notin {"order", "iid"}
    /\ f.step \in {"report", "complete"} => f.best_move # no_move
    /\ RootBestOK(s, f) /\ RootLowOK(s, f) /\ RootReportsOK(s, f) /\ RootLineOK(s, f)

FrameOK(s, r, f) ==
  /\ f \in Frame
  /\ WindowOK(f) /\ BestOK(s, f) /\ DepthOK(s, r, f) /\ StepOK(s, f)
  /\ NodeOK(s, f) /\ RootOK(s, r, f)

-----------------------------------------------------------------------------
(***************************************************************************)
(* The stack, the lines by ply and the value returned.                     *)
(***************************************************************************)

\* Frame c is the call that frame f waits for.
LinkOK(s, f, c) ==
  \/ /\ f.step = "iid"
     /\ c.node = f.node /\ c.ply = f.ply /\ c.in_iid
  \/ /\ f.step \in {"full", "null", "report"}
     /\ c.node = play(s.game, f.node, f.move) /\ c.depth = child_depth(s, f.depth, f.move)
     /\ c.ply = f.ply + 1 /\ c.in_iid = f.in_iid
     /\ c.original_alpha = -f.high /\ c.beta = -f.low

StackOK(s, r, fs) ==
  /\ fs \in Seq(Frame)
  /\ \A i \in 1 .. Len(fs) : FrameOK(s, r, fs[i]) /\ (fs[i].proc = "root" <=> i = 1)
  /\ \A i \in 1 .. Len(fs) - 1 : LinkOK(s, fs[i], fs[i + 1])
  /\ \A i, j \in 1 .. Len(fs) :
       i < j => fs[i].ply < fs[j].ply \/ (fs[i].ply = fs[j].ply /\ fs[i].node = fs[j].node)

\* A node has a line once it is past its entry, the root from the start.
LineStarted(f) == f.step # "enter" \/ f.proc = "root"

\* A line that has been started is legal; a call of iterative deepening shares
\* its caller's ply and its node.
LinesOK(s, fs, lines) ==
  /\ lines \in [Ply -> Seq(Int)]
  /\ \A i \in 1 .. Len(fs) :
       LineStarted(fs[i]) => LegalLine(s, fs[i].node, lines[fs[i].ply])

\* What the top frame may conclude from the value returned to it.
AnswerOK(s, f, lines, value) ==
  f.step # "iid" =>
    /\ LegalLine(s, play(s.game, f.node, f.move), lines[f.ply + 1])
    /\ ~f.in_iid => Bounds(-value, classify_bound(-value, f.low, f.high), FrameValue(s, f, f.move))

ReturnOK(s, fs, lines, value) ==
  /\ value \in {no_return, stopped_return} \cup {completed(x) : x \in Inside}
  /\ fs = << >> => value = no_return
  /\ fs # << >> =>
       /\ value # no_return <=> Waiting(fs[Len(fs)])
       /\ value.kind = "complete" => AnswerOK(s, fs[Len(fs)], lines, value.score)

CallsOK(s, r, fs, lines, value) ==
  StackOK(s, r, fs) /\ LinesOK(s, fs, lines) /\ ReturnOK(s, fs, lines, value)

TableOK(s, r, claims) ==
  \A c \in claims :
    /\ c \in [node : Node, depth : Depth, score : Inside, bound : Bound, best_move : Square]
    /\ c.best_move \in moves_of(s.game, c.node)
    /\ c.depth + s.stage[c.node] <= Horizon(s, r)
    /\ c.depth + s.stage[c.node] = Horizon(s, r) =>
         Bounds(c.score, c.bound, Minimax(s)[<<c.node, c.depth>>])

ResultType ==
  [running : BOOLEAN, depth : Depth, alpha : Score, beta : Score, score : Score, bound : Bound,
   best_move : Int, line : Seq(Int), stopped : BOOLEAN, reports : Seq(Report)]

\* What a finished search has published.
ResultOK(s, r) ==
  /\ ~r.stopped =>
       /\ Bounds(r.score, r.bound, Minimax(s)[<<RootNode, r.depth>>])
       /\ r.bound = "exact" /\ r.best_move # pass_move =>
            /\ ValueOf(s, RootNode, r.depth, r.best_move) = r.score
            /\ \A m \in moves_of(s.game, RootNode) :
                 m < r.best_move => ValueOf(s, RootNode, r.depth, m) < r.score
       /\ s.multi_pv # 1 =>
            \A i \in 1 .. Len(r.reports) :
              r.reports[i].score = ValueOf(s, RootNode, r.depth, r.reports[i].move)
  /\ r.stopped /\ r.best_move # no_move /\ r.alpha = kScoreLoss =>
       r.score <= Minimax(s)[<<RootNode, r.depth>>]
  /\ LegalLine(s, RootNode, r.line)
  /\ r.best_move # no_move => r.line # << >> /\ r.line[1] = r.best_move

IInv ==
  /\ setup \in Setups /\ truth = Minimax(setup)
  /\ stopped \in BOOLEAN /\ searches \in 0 .. MaxSearches
  /\ result \in ResultType
  /\ TableOK(setup, result, table)
  /\ CallsOK(setup, result, frames, pv, returned)
  /\ IF searches = 0 THEN frames = << >> /\ result = no_result ELSE result.depth # 0
  /\ frames = << >> /\ searches # 0 => ResultOK(setup, result)

-----------------------------------------------------------------------------
(***************************************************************************)
(* Plain minimax is defined: the function that Minimax chooses exists, and *)
(* it satisfies its equations.                                             *)
(***************************************************************************)
less == OpToRel(<, Nat)

\* A set of natural numbers has a least element.
LEMMA LeastNumber ==
  ASSUME NEW T \in SUBSET Nat, T # {}
  PROVE  \E x \in T : \A y \in T : x <= y
<1>1. PICK x \in T : \A y \in T : ~ (<<y, x>> \in less)
  <2>1. IsWellFoundedOn(less, Nat)
    BY NatLessThanWellFounded DEF less
  <2> QED BY <2>1, WFMin
<1>2. ASSUME NEW y \in T PROVE ~ (y < x)
  <2>1. y \in Nat /\ x \in Nat /\ (y < x => <<y, x>> \in less)
    BY DEF less, OpToRel
  <2> QED BY <1>1, <2>1, Zenon
<1> QED BY <1>2

\* A set of scores has a largest one, which is the score that largest chooses.
LEMMA LargestScore ==
  ASSUME NEW T \in SUBSET Inside, T # {}
  PROVE  largest(T) \in T /\ \A t \in T : largest(T) >= t
<1> DEFINE gaps == {kScoreWin - t : t \in T}
<1>1. \A t \in T : t \in Int /\ kScoreWin - t \in Nat
  BY SearchAssumption DEF Inside, kScoreLoss
<1>2. gaps \in SUBSET Nat /\ gaps # {}
  BY <1>1
<1>3. PICK g \in gaps : \A h \in gaps : g <= h
  <2> HIDE DEF gaps
  <2> QED BY <1>2, LeastNumber
<1>4. PICK t \in T : g = kScoreWin - t
  OBVIOUS
<1>5. \A u \in T : t >= u
  <2> TAKE u \in T
  <2>1. kScoreWin - t <= kScoreWin - u
    BY <1>3, <1>4
  <2> QED BY <2>1, <1>1, SearchAssumption
<1> QED BY <1>5 DEF largest

\* The right-hand side of Minimax.
Body(s, v, n, depth) ==
  IF is_terminal(s.game, n) \/ depth = 0 THEN s.game.evaluation[n]
  ELSE IF must_pass(s.game, n) THEN -v[<<s.game.passes[n], child_depth(s, depth, pass_move)>>]
  ELSE largest({-v[<<s.game.successors[n][m], depth - 1>>] : m \in moves_of(s.game, n)})

\* The value of a node other than a pass, from the values a ply less deep.
LEMMA BodyOfMoves ==
  ASSUME NEW s \in Setups, NEW v, NEW n \in Node, NEW d \in Depth, ~must_pass(s.game, n),
         d # 0 => \A k \in Node : v[<<k, d - 1>>] \in Inside
  PROVE  /\ Body(s, v, n, d) \in Inside
         /\ moves_of(s.game, n) # {} /\ d # 0 =>
              /\ \A m \in moves_of(s.game, n) :
                   -v[<<s.game.successors[n][m], d - 1>>] <= Body(s, v, n, d)
              /\ \E m \in moves_of(s.game, n) :
                   -v[<<s.game.successors[n][m], d - 1>>] = Body(s, v, n, d)
<1> DEFINE scores == {-v[<<s.game.successors[n][m], d - 1>>] : m \in moves_of(s.game, n)}
<1>1. \A m \in moves_of(s.game, n) : s.game.successors[n][m] \in Node
  BY SetupAssumption
<1>2. s.game.evaluation[n] \in Inside
  BY SetupAssumption DEF Inside
<1>3. \A x \in Inside : -x \in Inside
  BY SearchAssumption DEF Inside, kScoreLoss
<1>4. CASE moves_of(s.game, n) # {} /\ d # 0
  <2>1. scores \in SUBSET Inside /\ scores # {}
    BY <1>1, <1>3, <1>4
  <2>2. Body(s, v, n, d) = largest(scores)
    BY <1>4 DEF Body, is_terminal
  <2>3. largest(scores) \in scores /\ \A t \in scores : largest(scores) >= t
    <3> HIDE DEF scores
    <3> QED BY <2>1, LargestScore
  <2>4. \A m \in moves_of(s.game, n) : -v[<<s.game.successors[n][m], d - 1>>] \in scores
    OBVIOUS
  <2>5. \A m \in moves_of(s.game, n) : -v[<<s.game.successors[n][m], d - 1>>] <= largest(scores)
    <3> TAKE m \in moves_of(s.game, n)
    <3> DEFINE x == -v[<<s.game.successors[n][m], d - 1>>]
               y == largest(scores)
    <3>1. x \in Inside /\ y \in Inside /\ y >= x
      BY <2>1, <2>3, <2>4
    <3> HIDE DEF x, y
    <3>2. x <= y
      BY <3>1, SearchAssumption DEF Inside, kScoreLoss
    <3> QED BY <3>2 DEF x, y
  <2>6. \E m \in moves_of(s.game, n) : -v[<<s.game.successors[n][m], d - 1>>] = largest(scores)
    BY <2>3
  <2> HIDE DEF scores
  <2> QED BY <1>4, <2>1, <2>2, <2>3, <2>5, <2>6
<1>5. CASE ~(moves_of(s.game, n) # {} /\ d # 0)
  BY <1>2, <1>5 DEF Body, is_terminal, must_pass
<1> QED BY <1>4, <1>5

\* The body reads no deeper than its own depth.
LEMMA BodyAgrees ==
  ASSUME NEW s \in Setups, NEW v, NEW u, NEW n \in Node, NEW d \in Depth,
         \A k \in Node, e \in 0 .. d : e < d => u[<<k, e>>] = v[<<k, e>>],
         must_pass(s.game, n) /\ d # 0 =>
           u[<<s.game.passes[n], child_depth(s, d, pass_move)>>]
             = v[<<s.game.passes[n], child_depth(s, d, pass_move)>>]
  PROVE  Body(s, u, n, d) = Body(s, v, n, d)
<1>1. CASE is_terminal(s.game, n) \/ d = 0 \/ must_pass(s.game, n)
  BY <1>1 DEF Body
<1>2. CASE ~(is_terminal(s.game, n) \/ d = 0 \/ must_pass(s.game, n))
  <2>1. \A m \in moves_of(s.game, n) :
          u[<<s.game.successors[n][m], d - 1>>] = v[<<s.game.successors[n][m], d - 1>>]
    BY <1>2, SetupAssumption, SearchAssumption DEF Depth
  <2>2. {-u[<<s.game.successors[n][m], d - 1>>] : m \in moves_of(s.game, n)}
          = {-v[<<s.game.successors[n][m], d - 1>>] : m \in moves_of(s.game, n)}
    BY <2>1
  <2> QED BY <1>2, <2>2 DEF Body
<1> QED BY <1>1, <1>2

\* The function v satisfies the equations of Minimax at depths up to k.
SolvedUpTo(s, v, k) ==
  /\ v \in [Node \X Depth -> Inside]
  /\ \A n \in Node, d \in 0 .. k : v[<<n, d>>] = Body(s, v, n, d)

LEMMA NegatedInside ==
  ASSUME NEW x \in Inside
  PROVE  -x \in Inside /\ x \in Score /\ -x \in Score /\ x \in Int
BY SearchAssumption DEF Inside, kScoreLoss, Score

\* One more depth: first the nodes with moves, then those that pass to them.
LEMMA SolveNextDepth ==
  ASSUME NEW s \in Setups, NEW k \in Depth, NEW v,
         v \in [Node \X Depth -> Inside], k # 0 => SolvedUpTo(s, v, k - 1)
  PROVE  \E u : SolvedUpTo(s, u, k)
<1> DEFINE w == [p \in Node \X Depth |->
                   IF p[2] = k /\ ~must_pass(s.game, p[1]) THEN Body(s, v, p[1], k) ELSE v[p]]
           u == [p \in Node \X Depth |->
                   IF p[2] = k /\ must_pass(s.game, p[1]) THEN Body(s, w, p[1], k) ELSE w[p]]
<1>1. \A n \in Node, d \in Depth :
        w[<<n, d>>] = IF d = k /\ ~must_pass(s.game, n) THEN Body(s, v, n, k) ELSE v[<<n, d>>]
  OBVIOUS
<1>2. w \in [Node \X Depth -> Inside]
  <2>1. ASSUME NEW n \in Node, NEW d \in Depth PROVE w[<<n, d>>] \in Inside
    <3>1. v[<<n, d>>] \in Inside
      OBVIOUS
    <3>2. ~must_pass(s.game, n) => Body(s, v, n, k) \in Inside
      <4>1. k # 0 => \A m \in Node : v[<<m, k - 1>>] \in Inside
        BY SearchAssumption DEF Depth
      <4> QED BY <4>1, BodyOfMoves
    <3> QED BY <1>1, <3>1, <3>2
  <2>2. \A p \in Node \X Depth : \E n \in Node, d \in Depth : p = <<n, d>>
    OBVIOUS
  <2>3. \A p \in Node \X Depth : w[p] \in Inside
    BY <2>1, <2>2
  <2>4. w = [p \in Node \X Depth |-> w[p]]
    OBVIOUS
  <2> HIDE DEF w
  <2> QED BY <2>3, <2>4
<1> HIDE DEF w
<1>3. \A n \in Node, d \in Depth :
        u[<<n, d>>] = IF d = k /\ must_pass(s.game, n) THEN Body(s, w, n, k) ELSE w[<<n, d>>]
  OBVIOUS
<1>4. \A n \in Node : must_pass(s.game, n) =>
        /\ s.game.passes[n] \in Node /\ ~must_pass(s.game, s.game.passes[n])
        /\ \A d \in Depth : d # 0 => child_depth(s, d, pass_move) \in Depth
  BY SetupAssumption, SearchAssumption DEF must_pass, child_depth, Depth
<1>5. \A n \in Node : must_pass(s.game, n) => Body(s, w, n, k) \in Inside
  <2> TAKE n \in Node
  <2> HAVE must_pass(s.game, n)
  <2>1. CASE k = 0
    BY <2>1, SetupAssumption DEF Body, Inside
  <2>2. CASE k # 0
    <3>1. Body(s, w, n, k) = -w[<<s.game.passes[n], child_depth(s, k, pass_move)>>]
      BY <2>2 DEF Body, must_pass, is_terminal
    <3>2. w[<<s.game.passes[n], child_depth(s, k, pass_move)>>] \in Inside
      BY <1>2, <1>4, <2>2
    <3> QED BY <3>1, <3>2, NegatedInside
  <2> QED BY <2>1, <2>2
<1>6. u \in [Node \X Depth -> Inside]
  <2>1. ASSUME NEW n \in Node, NEW d \in Depth PROVE u[<<n, d>>] \in Inside
    <3>1. w[<<n, d>>] \in Inside
      BY <1>2
    <3> QED BY <1>3, <1>5, <3>1
  <2>2. \A p \in Node \X Depth : \E n \in Node, d \in Depth : p = <<n, d>>
    OBVIOUS
  <2>3. \A p \in Node \X Depth : u[p] \in Inside
    BY <2>1, <2>2
  <2>4. u = [p \in Node \X Depth |-> u[p]]
    OBVIOUS
  <2> HIDE DEF u
  <2> QED BY <2>3, <2>4
<1> HIDE DEF u
<1>7. \A n \in Node, d \in Depth : d # k => u[<<n, d>>] = v[<<n, d>>]
  BY <1>1, <1>3
<1>8. ASSUME NEW n \in Node, NEW d \in 0 .. k PROVE u[<<n, d>>] = Body(s, u, n, d)
  <2>1. /\ d \in Depth /\ k \in Nat /\ d \in Nat
        /\ \A e \in 0 .. d : e \in Depth /\ e <= d
    BY SearchAssumption DEF Depth
  <2>2. CASE d = k /\ must_pass(s.game, n)
    <3>1. u[<<n, d>>] = Body(s, w, n, d)
      BY <1>3, <2>1, <2>2
    <3>2. \A m \in Node, e \in 0 .. d : e < d => u[<<m, e>>] = w[<<m, e>>]
      BY <1>3, <2>1, <2>2
    <3>3. d # 0 => u[<<s.game.passes[n], child_depth(s, d, pass_move)>>]
                     = w[<<s.game.passes[n], child_depth(s, d, pass_move)>>]
      BY <1>3, <1>4, <2>1, <2>2
    <3> QED BY <2>1, <3>1, <3>2, <3>3, BodyAgrees
  <2>3. CASE d = k /\ ~must_pass(s.game, n)
    <3>1. u[<<n, d>>] = Body(s, v, n, d)
      BY <1>1, <1>3, <2>1, <2>3
    <3>2. \A m \in Node, e \in 0 .. d : e < d => u[<<m, e>>] = v[<<m, e>>]
      BY <1>7, <2>1, <2>3
    <3> QED BY <2>1, <2>3, <3>1, <3>2, BodyAgrees
  <2>4. CASE d # k
    <3>1. u[<<n, d>>] = v[<<n, d>>] /\ k # 0 /\ d \in 0 .. k - 1
      BY <1>7, <2>1, <2>4
    <3>2. v[<<n, d>>] = Body(s, v, n, d)
      BY <3>1 DEF SolvedUpTo
    <3>3. \A m \in Node, e \in 0 .. d : u[<<m, e>>] = v[<<m, e>>]
      <4>1. \A e \in 0 .. d : e \in Depth /\ e # k
        BY <2>1, <3>1
      <4> QED BY <1>7, <4>1
    <3>4. must_pass(s.game, n) /\ d # 0 =>
            u[<<s.game.passes[n], child_depth(s, d, pass_move)>>]
              = v[<<s.game.passes[n], child_depth(s, d, pass_move)>>]
      BY <1>4, <2>1, <3>3 DEF child_depth
    <3> QED BY <2>1, <3>1, <3>2, <3>3, <3>4, BodyAgrees
  <2> QED BY <2>2, <2>3, <2>4
<1> QED BY <1>6, <1>8 DEF SolvedUpTo

LEMMA SolvedToEveryDepth ==
  ASSUME NEW s \in Setups, NEW k \in Depth
  PROVE  \E v : SolvedUpTo(s, v, k)
<1> DEFINE unsolved == {d \in Depth : ~ \E v : SolvedUpTo(s, v, d)}
<1> SUFFICES ASSUME unsolved # {} PROVE FALSE
  OBVIOUS
<1>1. PICK d \in unsolved : \A e \in unsolved : d <= e
  <2>1. unsolved \in SUBSET Nat
    BY SearchAssumption DEF Depth
  <2> HIDE DEF unsolved
  <2> QED BY <2>1, LeastNumber
<1>2. PICK v : v \in [Node \X Depth -> Inside] /\ (d # 0 => SolvedUpTo(s, v, d - 1))
  <2>1. CASE d = 0
    <3>1. [p \in Node \X Depth |-> 0] \in [Node \X Depth -> Inside]
      BY SearchAssumption DEF Inside, kScoreLoss
    <3> QED BY <2>1, <3>1
  <2>2. CASE d # 0
    <3>1. d - 1 \in Depth /\ ~(d <= d - 1)
      BY <2>2, SearchAssumption DEF Depth
    <3>2. \E v : SolvedUpTo(s, v, d - 1)
      BY <1>1, <3>1
    <3> QED BY <3>2 DEF SolvedUpTo
  <2> QED BY <2>1, <2>2
<1>3. \E u : SolvedUpTo(s, u, d)
  BY <1>2, SolveNextDepth
<1> QED BY <1>3

\* Minimax solves its equations at every depth.
LEMMA MinimaxSolved ==
  ASSUME NEW s \in Setups
  PROVE  \A n \in Node, d \in Depth : Minimax(s)[<<n, d>>] = Body(s, Minimax(s), n, d)
<1> DEFINE solves(f) == f = [p \in Node \X Depth |-> Body(s, f, p[1], p[2])]
           v == CHOOSE f : solves(f)
<1>1. \E f : solves(f)
  <2>1. PICK f : SolvedUpTo(s, f, MaxDepth)
    BY SolvedToEveryDepth, SearchAssumption DEF Depth
  <2>2. \A p \in Node \X Depth : f[p] = Body(s, f, p[1], p[2])
    <3>1. \A p \in Node \X Depth :
            p[1] \in Node /\ p[2] \in 0 .. MaxDepth /\ p = <<p[1], p[2]>>
      BY DEF Depth
    <3> QED BY <2>1, <3>1 DEF SolvedUpTo
  <2>3. f = [p \in Node \X Depth |-> f[p]]
    BY <2>1 DEF SolvedUpTo
  <2>4. solves(f)
    BY <2>2, <2>3
  <2> QED BY <2>4
<1>2. solves(v)
  <2> HIDE DEF solves
  <2> QED BY <1>1
<1>3. Minimax(s) = v
  BY DEF Minimax, Body
<1> HIDE DEF v
<1>4. ASSUME NEW n \in Node, NEW d \in Depth PROVE v[<<n, d>>] = Body(s, v, n, d)
  <2>1. <<n, d>> \in Node \X Depth /\ <<n, d>>[1] = n /\ <<n, d>>[2] = d
    OBVIOUS
  <2> QED BY <1>2, <2>1
<1> QED BY <1>3, <1>4

\* The values of minimax are scores strictly between loss and win.
LEMMA MinimaxInside ==
  ASSUME NEW s \in Setups
  PROVE  \A n \in Node, d \in Depth : Minimax(s)[<<n, d>>] \in Inside
<1> DEFINE v == Minimax(s)
           outside == {d \in Depth : \E n \in Node : v[<<n, d>>] \notin Inside}
<1>1. \A n \in Node, d \in Depth : v[<<n, d>>] = Body(s, v, n, d)
  BY MinimaxSolved
<1> HIDE DEF v
<1> SUFFICES ASSUME outside # {} PROVE FALSE
  BY DEF v
<1>2. PICK d \in outside : \A e \in outside : d <= e
  <2>1. outside \in SUBSET Nat
    BY SearchAssumption DEF Depth
  <2> HIDE DEF outside
  <2> QED BY <2>1, LeastNumber
<1>3. d \in Depth /\ (d # 0 => \A n \in Node : v[<<n, d - 1>>] \in Inside)
  <2>1. d \in Depth /\ (d # 0 => d - 1 \in Depth /\ ~(d <= d - 1))
    BY SearchAssumption DEF Depth
  <2> QED BY <1>2, <2>1
<1>4. ASSUME NEW n \in Node, ~must_pass(s.game, n) PROVE v[<<n, d>>] \in Inside
  BY <1>1, <1>3, <1>4, BodyOfMoves
<1>5. ASSUME NEW n \in Node, must_pass(s.game, n) PROVE v[<<n, d>>] \in Inside
  <2>1. CASE d = 0
    BY <1>1, <1>3, <2>1, SetupAssumption DEF Body, Inside
  <2>2. CASE d # 0
    <3>1. v[<<n, d>>] = -v[<<s.game.passes[n], child_depth(s, d, pass_move)>>]
      BY <1>1, <1>3, <1>5, <2>2 DEF Body, must_pass, is_terminal
    <3>2. s.game.passes[n] \in Node /\ ~must_pass(s.game, s.game.passes[n])
      BY <1>5, SetupAssumption DEF must_pass
    <3>3. child_depth(s, d, pass_move) \in {d, d - 1}
      BY DEF child_depth
    <3>4. v[<<s.game.passes[n], child_depth(s, d, pass_move)>>] \in Inside
      BY <1>3, <1>4, <2>2, <3>2, <3>3
    <3> QED BY <3>1, <3>4, NegatedInside
  <2> QED BY <2>1, <2>2
<1> QED BY <1>2, <1>4, <1>5

LEMMA MinimaxUnfolds ==
  ASSUME NEW s \in Setups
  PROVE  IsMinimax(s, Minimax(s))
<1> DEFINE v == Minimax(s)
<1>1. \A n \in Node, d \in Depth : v[<<n, d>>] = Body(s, v, n, d) /\ v[<<n, d>>] \in Inside
  BY MinimaxSolved, MinimaxInside
<1> HIDE DEF v
<1> SUFFICES ASSUME NEW n \in Node, NEW d \in Depth
             PROVE  /\ v[<<n, d>>] \in Inside
                    /\ is_terminal(s.game, n) \/ d = 0 => v[<<n, d>>] = s.game.evaluation[n]
                    /\ must_pass(s.game, n) /\ d # 0 =>
                         v[<<n, d>>] = -v[<<s.game.passes[n], child_depth(s, d, pass_move)>>]
                    /\ moves_of(s.game, n) # {} /\ d # 0 =>
                         /\ \A m \in moves_of(s.game, n) :
                              -v[<<s.game.successors[n][m], d - 1>>] <= v[<<n, d>>]
                         /\ \E m \in moves_of(s.game, n) :
                              -v[<<s.game.successors[n][m], d - 1>>] = v[<<n, d>>]
  BY DEF IsMinimax, v
<1>2. is_terminal(s.game, n) \/ d = 0 => v[<<n, d>>] = s.game.evaluation[n]
  BY <1>1 DEF Body
<1>3. must_pass(s.game, n) /\ d # 0 =>
        v[<<n, d>>] = -v[<<s.game.passes[n], child_depth(s, d, pass_move)>>]
  BY <1>1 DEF Body, must_pass, is_terminal
<1>4. d # 0 => \A k \in Node : v[<<k, d - 1>>] \in Inside
  BY <1>1, SearchAssumption DEF Depth
<1>5. moves_of(s.game, n) # {} => ~must_pass(s.game, n)
  BY DEF must_pass
<1> QED BY <1>1, <1>2, <1>3, <1>4, <1>5, BodyOfMoves

-----------------------------------------------------------------------------
(***************************************************************************)
(* Bounds, windows and lines.                                              *)
(***************************************************************************)

LEMMA BoundsByKind ==
  ASSUME NEW x \in Int, NEW y \in Int
  PROVE  /\ Bounds(x, "exact", y) <=> x = y
         /\ Bounds(x, "lower", y) <=> x <= y
         /\ Bounds(x, "upper", y) <=> x >= y
<1>1. Bounds(x, "exact", y) <=> x = y
  BY DEF Bounds
<1>2. Bounds(x, "lower", y) <=> x <= y
  BY DEF Bounds
<1>3. Bounds(x, "upper", y) <=> x >= y
  BY DEF Bounds
<1> QED BY <1>1, <1>2, <1>3

\* The answer to a window, read off its three cases.
LEMMA BoundsCases ==
  ASSUME NEW x \in Int, NEW y \in Int, NEW low \in Int, NEW high \in Int, low < high
  PROVE  Bounds(x, classify_bound(x, low, high), y) <=>
           /\ x <= low => y <= x
           /\ x >= high => y >= x
           /\ low < x /\ x < high => y = x
<1>1. CASE x <= low
  <2>1. classify_bound(x, low, high) = "upper"
    BY <1>1 DEF classify_bound
  <2> QED BY <1>1, <2>1, BoundsByKind
<1>2. CASE x >= high
  <2>1. classify_bound(x, low, high) = "lower"
    BY <1>2 DEF classify_bound
  <2> QED BY <1>2, <2>1, BoundsByKind
<1>3. CASE low < x /\ x < high
  <2>1. classify_bound(x, low, high) = "exact"
    BY <1>3 DEF classify_bound
  <2> QED BY <1>3, <2>1, BoundsByKind
<1> QED BY <1>1, <1>2, <1>3

\* What answers a window answers it for the other side.
LEMMA BoundsNegated ==
  ASSUME NEW x \in Int, NEW y \in Int, NEW low \in Int, NEW high \in Int, low < high,
         Bounds(x, classify_bound(x, -high, -low), y)
  PROVE  Bounds(-x, classify_bound(-x, low, high), -y)
<1>1. /\ x <= -high => y <= x
      /\ x >= -low => y >= x
      /\ -high < x /\ x < -low => y = x
  BY BoundsCases
<1>2. /\ -x <= low => -y <= -x
      /\ -x >= high => -y >= -x
      /\ low < -x /\ -x < high => -y = -x
  BY <1>1
<1> QED BY <1>2, BoundsCases

LEMMA EmptyLine ==
  ASSUME NEW s, NEW n \in Node
  PROVE  LegalLine(s, n, << >>)
<1>1. << >> \in Seq(Int) /\ Len(<< >>) = 0
  OBVIOUS
<1>2. PICK path \in [0 .. 0 -> Node] : path[0] = n
  <2>1. [i \in 0 .. 0 |-> n] \in [0 .. 0 -> Node] /\ [i \in 0 .. 0 |-> n][0] = n
    OBVIOUS
  <2> QED BY <2>1
<1>3. path \in [0 .. Len(<< >>) -> Node] /\ \A i \in 1 .. Len(<< >>) : FALSE
  BY <1>1
<1> QED BY <1>1, <1>2, <1>3 DEF LegalLine

LEMMA LongerLine ==
  ASSUME NEW s, NEW n \in Node, NEW m \in Int, LegalStep(s, n, m),
         NEW line, LegalLine(s, play(s.game, n, m), line)
  PROVE  LegalLine(s, n, <<m>> \o line) /\ <<m>> \o line # << >> /\ (<<m>> \o line)[1] = m
<1> DEFINE longer == <<m>> \o line
<1>1. PICK path \in [0 .. Len(line) -> Node] :
        /\ path[0] = play(s.game, n, m)
        /\ \A i \in 1 .. Len(line) :
             LegalStep(s, path[i - 1], line[i]) /\ path[i] = play(s.game, path[i - 1], line[i])
  BY DEF LegalLine
<1>2. line \in Seq(Int)
  BY DEF LegalLine
<1>3. /\ longer \in Seq(Int) /\ Len(longer) = Len(line) + 1 /\ longer[1] = m
      /\ \A i \in 2 .. Len(line) + 1 : longer[i] = line[i - 1]
  BY <1>2
<1> HIDE DEF longer
<1> DEFINE whole == [i \in 0 .. Len(line) + 1 |-> IF i = 0 THEN n ELSE path[i - 1]]
<1>4. Len(line) \in Nat
  BY <1>2
<1>5. whole \in [0 .. Len(longer) -> Node] /\ whole[0] = n
  BY <1>3, <1>4
<1>6. ASSUME NEW i \in 1 .. Len(longer)
      PROVE  LegalStep(s, whole[i - 1], longer[i]) /\ whole[i] = play(s.game, whole[i - 1], longer[i])
  <2>1. CASE i = 1
    BY <1>1, <1>3, <1>4, <2>1
  <2>2. CASE i # 1
    <3>1. i - 1 \in 1 .. Len(line) /\ i \in 2 .. Len(line) + 1
      BY <1>3, <1>4, <2>2
    <3>2. whole[i - 1] = path[(i - 1) - 1] /\ whole[i] = path[i - 1]
      BY <1>3, <1>4, <3>1
    <3> QED BY <1>1, <1>3, <3>1, <3>2
  <2> QED BY <2>1, <2>2
<1>7. longer # << >>
  BY <1>3, <1>4
<1> HIDE DEF whole
<1>8. LegalLine(s, n, longer)
  BY <1>3, <1>5, <1>6 DEF LegalLine
<1> QED BY <1>3, <1>7, <1>8 DEF longer

-----------------------------------------------------------------------------
(***************************************************************************)
(* The stack: replacing its top frame, pushing a call and popping one.     *)
(***************************************************************************)
Top(fs) == fs[Len(fs)]
ReplaceTop(fs, g) == [fs EXCEPT ![Len(fs)] = g]
PushCall(fs, g, c) == Append(ReplaceTop(fs, g), c)
PopTop(fs) == SubSeq(fs, 1, Len(fs) - 1)

\* What a frame keeps while its call lasts.
SameCall(f, g) ==
  /\ g.proc = f.proc /\ g.node = f.node /\ g.depth = f.depth /\ g.ply = f.ply
  /\ g.in_iid = f.in_iid /\ g.original_alpha = f.original_alpha /\ g.beta = f.beta

LEMMA FrameFields ==
  ASSUME NEW f \in Frame
  PROVE  /\ f.node \in Node /\ f.depth \in Depth /\ f.depth \in Nat /\ f.ply \in Ply /\ f.ply \in Nat
         /\ f.alpha \in Int /\ f.beta \in Int /\ f.original_alpha \in Int /\ f.best_score \in Int
         /\ f.low \in Int /\ f.high \in Int /\ f.best_move \in Int /\ f.move \in Int
         /\ f.in_iid \in BOOLEAN
<1> USE SearchAssumption DEF Frame, Ply, Depth, Score, kScoreLoss
<1>1. /\ f.node \in Node /\ f.depth \in Depth /\ f.ply \in Ply /\ f.in_iid \in BOOLEAN
      /\ f.best_move \in Int /\ f.move \in Int
  OBVIOUS
<1>2. /\ f.alpha \in Score /\ f.beta \in Score /\ f.original_alpha \in Score
      /\ f.best_score \in Score /\ f.low \in Score /\ f.high \in Score
  OBVIOUS
<1> QED BY <1>1, <1>2

LEMMA NonEmptyStack ==
  ASSUME NEW fs \in Seq(Frame), fs # << >>
  PROVE  Len(fs) \in Nat \ {0} /\ Len(fs) \in 1 .. Len(fs) /\ Top(fs) \in Frame
<1>1. Len(fs) \in Nat \ {0}
  BY EmptySeq
<1> QED BY <1>1, ElementOfSeq DEF Top

LEMMA ReplacedTop ==
  ASSUME NEW fs \in Seq(Frame), fs # << >>, NEW g \in Frame
  PROVE  /\ ReplaceTop(fs, g) \in Seq(Frame) /\ ReplaceTop(fs, g) # << >>
         /\ Len(ReplaceTop(fs, g)) = Len(fs) /\ Top(ReplaceTop(fs, g)) = g
         /\ \A i \in 1 .. Len(fs) :
              ReplaceTop(fs, g)[i] = IF i = Len(fs) THEN g ELSE fs[i]
<1>1. Len(fs) \in Nat \ {0} /\ Len(fs) \in 1 .. Len(fs)
  BY NonEmptyStack
<1> DEFINE h == ReplaceTop(fs, g)
<1>2. /\ h \in Seq(Frame) /\ Len(h) = Len(fs)
      /\ \A i \in 1 .. Len(fs) : h[i] = IF i = Len(fs) THEN g ELSE fs[i]
  BY <1>1, ExceptSeq DEF ReplaceTop
<1> HIDE DEF h
<1>3. h # << >>
  BY <1>1, <1>2, EmptySeq
<1> QED BY <1>1, <1>2, <1>3 DEF h, Top

LEMMA PushedCall ==
  ASSUME NEW fs \in Seq(Frame), fs # << >>, NEW g \in Frame, NEW c \in Frame
  PROVE  /\ PushCall(fs, g, c) \in Seq(Frame) /\ PushCall(fs, g, c) # << >>
         /\ Len(PushCall(fs, g, c)) = Len(fs) + 1 /\ Top(PushCall(fs, g, c)) = c
         /\ \A i \in 1 .. Len(fs) :
              PushCall(fs, g, c)[i] = IF i = Len(fs) THEN g ELSE fs[i]
         /\ PushCall(fs, g, c)[Len(fs) + 1] = c
<1> DEFINE h == ReplaceTop(fs, g)
           k == Append(h, c)
<1>1. /\ h \in Seq(Frame) /\ Len(h) = Len(fs) /\ Len(fs) \in Nat
      /\ \A i \in 1 .. Len(fs) : h[i] = IF i = Len(fs) THEN g ELSE fs[i]
  BY ReplacedTop, NonEmptyStack
<1> HIDE DEF h
<1>2. /\ k \in Seq(Frame) /\ Len(k) = Len(h) + 1 /\ k[Len(h) + 1] = c
      /\ \A i \in 1 .. Len(h) : k[i] = h[i]
  BY <1>1
<1> HIDE DEF k
<1>3. k # << >>
  BY <1>1, <1>2, EmptySeq
<1> QED BY <1>1, <1>2, <1>3 DEF h, k, Top, PushCall

LEMMA PoppedTop ==
  ASSUME NEW fs \in Seq(Frame), fs # << >>
  PROVE  /\ PopTop(fs) \in Seq(Frame) /\ Len(PopTop(fs)) = Len(fs) - 1
         /\ \A i \in 1 .. Len(fs) - 1 : PopTop(fs)[i] = fs[i]
<1>1. Len(fs) \in Nat \ {0} /\ \A i \in 1 .. Len(fs) - 1 : fs[i] \in Frame
  BY NonEmptyStack, ElementOfSeq
<1>2. Len(fs) - 1 \in Int /\ 1 \in Int
  BY <1>1
<1> DEFINE n == Len(fs) - 1
<1>3. /\ SubSeq(fs, 1, n) \in Seq(Frame)
      /\ Len(SubSeq(fs, 1, n)) = IF 1 <= n THEN n - 1 + 1 ELSE 0
      /\ \A i \in 1 .. n - 1 + 1 : SubSeq(fs, 1, n)[i] = fs[1 + i - 1]
  <2> HIDE DEF n
  <2> QED BY <1>1, <1>2, SubSeqProperties DEF n
<1>4. n \in Nat
  BY <1>1
<1> HIDE DEF n
<1>5. /\ 1 <= n => n - 1 + 1 = n
      /\ ~(1 <= n) => n = 0
      /\ \A i \in 1 .. n : i \in 1 .. n - 1 + 1 /\ 1 + i - 1 = i
  BY <1>4
<1>6. \A i \in 1 .. n : SubSeq(fs, 1, n)[i] = fs[i]
  <2> TAKE i \in 1 .. n
  <2>1. i \in 1 .. n - 1 + 1 /\ 1 + i - 1 = i
    BY <1>5
  <2>2. SubSeq(fs, 1, n)[i] = fs[1 + i - 1]
    BY <1>3, <2>1
  <2> QED BY <2>1, <2>2
<1>7. SubSeq(fs, 1, n) \in Seq(Frame) /\ Len(SubSeq(fs, 1, n)) = n
  BY <1>3, <1>5
<1> QED BY <1>6, <1>7 DEF PopTop, n

LEMMA ReplaceKeepsStack ==
  ASSUME NEW s, NEW r, NEW fs, StackOK(s, r, fs), fs # << >>,
         NEW g, FrameOK(s, r, g), SameCall(Top(fs), g)
  PROVE  StackOK(s, r, ReplaceTop(fs, g))
<1> DEFINE h == ReplaceTop(fs, g)
           n == Len(fs)
<1>1. fs \in Seq(Frame) /\ g \in Frame /\ n \in Nat \ {0} /\ n \in 1 .. n
  BY NonEmptyStack DEF StackOK, FrameOK
<1>2. /\ h \in Seq(Frame) /\ Len(h) = n
      /\ \A i \in 1 .. n : h[i] = IF i = n THEN g ELSE fs[i]
  BY <1>1, ReplacedTop
<1> HIDE DEF h
<1>3. /\ \A i \in 1 .. n : FrameOK(s, r, fs[i]) /\ (fs[i].proc = "root" <=> i = 1)
      /\ \A i \in 1 .. n - 1 : LinkOK(s, fs[i], fs[i + 1])
      /\ \A i, j \in 1 .. n :
           i < j => fs[i].ply < fs[j].ply \/ (fs[i].ply = fs[j].ply /\ fs[i].node = fs[j].node)
  BY DEF StackOK
<1>4. \A i \in 1 .. n : h[i].proc = fs[i].proc /\ h[i].ply = fs[i].ply /\ h[i].node = fs[i].node
  BY <1>1, <1>2 DEF SameCall, Top
<1>5. \A i \in 1 .. n : FrameOK(s, r, h[i]) /\ (h[i].proc = "root" <=> i = 1)
  BY <1>2, <1>3, <1>4
<1>6. ASSUME NEW i \in 1 .. n - 1 PROVE LinkOK(s, h[i], h[i + 1])
  <2>1. h[i] = fs[i] /\ i + 1 \in 1 .. n
    BY <1>1, <1>2
  <2>2. LinkOK(s, fs[i], fs[i + 1])
    BY <1>3
  <2>3. CASE i + 1 = n
    <3>1. h[i + 1] = g /\ SameCall(fs[i + 1], g)
      BY <1>1, <1>2, <2>1, <2>3 DEF Top
    <3> QED BY <2>1, <2>2, <3>1 DEF LinkOK, SameCall
  <2>4. CASE i + 1 # n
    BY <1>2, <2>1, <2>2, <2>4
  <2> QED BY <2>3, <2>4
<1>7. \A i, j \in 1 .. n :
        i < j => h[i].ply < h[j].ply \/ (h[i].ply = h[j].ply /\ h[i].node = h[j].node)
  BY <1>3, <1>4
<1> QED BY <1>2, <1>5, <1>6, <1>7 DEF StackOK, h

LEMMA PushKeepsStack ==
  ASSUME NEW s, NEW r, NEW fs, StackOK(s, r, fs), fs # << >>,
         NEW g, FrameOK(s, r, g), SameCall(Top(fs), g),
         NEW c, FrameOK(s, r, c), LinkOK(s, g, c), c.proc # "root"
  PROVE  StackOK(s, r, PushCall(fs, g, c))
<1> DEFINE h == ReplaceTop(fs, g)
           k == PushCall(fs, g, c)
           n == Len(fs)
<1>1. fs \in Seq(Frame) /\ g \in Frame /\ c \in Frame /\ n \in Nat \ {0}
  BY NonEmptyStack DEF StackOK, FrameOK
<1>2. StackOK(s, r, h)
  BY ReplaceKeepsStack
<1>3. Len(h) = n /\ \A i \in 1 .. n : h[i] = IF i = n THEN g ELSE fs[i]
  BY <1>1, ReplacedTop
<1>4. /\ k \in Seq(Frame) /\ Len(k) = n + 1 /\ k[n + 1] = c
      /\ \A i \in 1 .. n : k[i] = h[i]
  <2>1. /\ k \in Seq(Frame) /\ Len(k) = n + 1 /\ k[n + 1] = c
        /\ \A i \in 1 .. n : k[i] = IF i = n THEN g ELSE fs[i]
    <3> HIDE DEF h
    <3> QED BY <1>1, PushedCall
  <2> HIDE DEF h, k
  <2> QED BY <1>3, <2>1
<1> HIDE DEF h, k
<1>5. /\ \A i \in 1 .. n : FrameOK(s, r, h[i]) /\ (h[i].proc = "root" <=> i = 1)
      /\ \A i \in 1 .. n - 1 : LinkOK(s, h[i], h[i + 1])
      /\ \A i, j \in 1 .. n :
           i < j => h[i].ply < h[j].ply \/ (h[i].ply = h[j].ply /\ h[i].node = h[j].node)
  BY <1>2, <1>3 DEF StackOK
<1>6. \A i \in 1 .. n + 1 : FrameOK(s, r, k[i]) /\ (k[i].proc = "root" <=> i = 1)
  <2> TAKE i \in 1 .. n + 1
  <2>1. CASE i = n + 1
    BY <1>1, <1>4, <2>1
  <2>2. CASE i \in 1 .. n
    BY <1>4, <1>5, <2>2
  <2> QED BY <1>1, <2>1, <2>2
<1>7. \A i \in 1 .. n : LinkOK(s, k[i], k[i + 1])
  <2> TAKE i \in 1 .. n
  <2>1. CASE i = n
    BY <1>1, <1>3, <1>4, <2>1
  <2>2. CASE i \in 1 .. n - 1
    <3>1. i \in 1 .. n /\ i + 1 \in 1 .. n
      BY <1>1, <2>2
    <3> QED BY <1>4, <1>5, <2>2, <3>1
  <2> QED BY <1>1, <2>1, <2>2
<1>8. h[n] = g /\ n \in 1 .. n
  BY <1>1, <1>3
<1>9. g.ply < c.ply \/ (g.ply = c.ply /\ g.node = c.node)
  <2>1. g.ply \in Int
    BY <1>1, FrameFields
  <2> QED BY <2>1 DEF LinkOK
<1>10. ASSUME NEW i \in 1 .. n + 1, NEW j \in 1 .. n + 1, i < j
       PROVE  k[i].ply < k[j].ply \/ (k[i].ply = k[j].ply /\ k[i].node = k[j].node)
  <2>1. i \in 1 .. n /\ k[i] = h[i]
    BY <1>1, <1>4, <1>10
  <2>2. CASE j \in 1 .. n
    BY <1>4, <1>5, <1>10, <2>1, <2>2
  <2>3. CASE j = n + 1
    <3>1. h[i].ply < g.ply \/ (h[i].ply = g.ply /\ h[i].node = g.node)
      <4>1. CASE i = n
        BY <1>8, <4>1
      <4>2. CASE i # n
        BY <1>1, <1>5, <1>8, <2>1, <4>2
      <4> QED BY <4>1, <4>2
    <3>2. h[i] \in Frame
      BY <1>5, <2>1 DEF FrameOK
    <3>3. h[i].ply \in Int /\ g.ply \in Int /\ c.ply \in Int
      BY <1>1, <3>2, FrameFields
    <3>4. k[j] = c
      BY <1>4, <2>3
    <3> QED BY <1>9, <2>1, <3>1, <3>3, <3>4
  <2> QED BY <1>1, <2>2, <2>3
<1>11. Len(k) - 1 = n
  BY <1>1, <1>4
<1> QED BY <1>4, <1>6, <1>7, <1>10, <1>11 DEF StackOK, k

LEMMA PopKeepsStack ==
  ASSUME NEW s, NEW r, NEW fs, StackOK(s, r, fs), fs # << >>, Top(fs).proc # "root"
  PROVE  /\ StackOK(s, r, PopTop(fs)) /\ PopTop(fs) # << >>
         /\ LinkOK(s, Top(PopTop(fs)), Top(fs)) /\ FrameOK(s, r, Top(PopTop(fs)))
<1> DEFINE h == PopTop(fs)
           n == Len(fs)
<1>1. fs \in Seq(Frame) /\ n \in Nat \ {0} /\ n # 1
  BY NonEmptyStack DEF StackOK, Top
<1>2. h \in Seq(Frame) /\ Len(h) = n - 1 /\ \A i \in 1 .. n - 1 : h[i] = fs[i]
  BY <1>1, PoppedTop, EmptySeq
<1> HIDE DEF h
<1>3. \A i \in 1 .. n - 1 : i \in 1 .. n /\ (i # n - 1 => i + 1 \in 1 .. n - 1)
  BY <1>1
<1>4. StackOK(s, r, h)
  <2>1. \A i \in 1 .. (n - 1) - 1 : /\ i \in 1 .. n - 1 /\ i + 1 \in 1 .. n - 1
                                   /\ i \in 1 .. n /\ i + 1 \in 1 .. n
    BY <1>1
  <2>2. \A i \in 1 .. n - 1 : FrameOK(s, r, h[i]) /\ (h[i].proc = "root" <=> i = 1)
    BY <1>2, <1>3 DEF StackOK
  <2>3. \A i \in 1 .. (n - 1) - 1 : LinkOK(s, h[i], h[i + 1])
    BY <1>2, <2>1 DEF StackOK
  <2>4. \A i, j \in 1 .. n - 1 :
          i < j => h[i].ply < h[j].ply \/ (h[i].ply = h[j].ply /\ h[i].node = h[j].node)
    BY <1>2, <1>3 DEF StackOK
  <2> QED BY <1>2, <2>2, <2>3, <2>4 DEF StackOK
<1>5. h # << >>
  BY <1>1, <1>2, EmptySeq
<1>6. Top(h) = fs[n - 1] /\ Top(fs) = fs[(n - 1) + 1] /\ n - 1 \in 1 .. n - 1 /\ n - 1 \in 1 .. n
  BY <1>1, <1>2 DEF Top
<1> QED BY <1>4, <1>5, <1>6 DEF StackOK, h

-----------------------------------------------------------------------------
(***************************************************************************)
(* The calls: staying in a frame, calling and returning keep CallsOK.      *)
(***************************************************************************)

\* The line of the frame's ply is kept, or replaced by a legal line.
Rewritten(s, f, lines, new) ==
  \/ new = lines
  \/ \E line : LegalLine(s, f.node, line) /\ new = [lines EXCEPT ![f.ply] = line]

LEMMA RewrittenLines ==
  ASSUME NEW s, NEW r, NEW fs, StackOK(s, r, fs), fs # << >>,
         NEW lines, LinesOK(s, fs, lines), NEW new, Rewritten(s, Top(fs), lines, new)
  PROVE  /\ new \in [Ply -> Seq(Int)]
         /\ \A i \in 1 .. Len(fs) :
              LineStarted(fs[i]) => LegalLine(s, fs[i].node, new[fs[i].ply])
<1>1. CASE new = lines
  BY <1>1 DEF LinesOK
<1>2. CASE \E line : LegalLine(s, Top(fs).node, line) /\ new = [lines EXCEPT ![Top(fs).ply] = line]
  <2>1. PICK line : LegalLine(s, Top(fs).node, line) /\ new = [lines EXCEPT ![Top(fs).ply] = line]
    BY <1>2
  <2>2. line \in Seq(Int) /\ lines \in [Ply -> Seq(Int)]
    BY <2>1 DEF LegalLine, LinesOK
  <2>3. /\ new \in [Ply -> Seq(Int)]
        /\ \A p \in Ply : new[p] = IF p = Top(fs).ply THEN line ELSE lines[p]
    BY <2>1, <2>2
  <2>4. ASSUME NEW i \in 1 .. Len(fs), LineStarted(fs[i])
        PROVE  LegalLine(s, fs[i].node, new[fs[i].ply])
    <3>1. /\ fs \in Seq(Frame) /\ Len(fs) \in 1 .. Len(fs) /\ Len(fs) \in Nat
          /\ fs[i] \in Frame /\ Top(fs) \in Frame
      BY NonEmptyStack, ElementOfSeq DEF StackOK
    <3>2. /\ fs[i].ply \in Ply /\ fs[i].ply \in Nat
          /\ Top(fs).ply \in Ply /\ Top(fs).ply \in Nat
      BY <3>1, FrameFields
    <3>3. CASE fs[i].ply = Top(fs).ply
      <4>1. fs[i].node = Top(fs).node
        <5>1. CASE i = Len(fs)
          BY <5>1 DEF Top
        <5>2. CASE i # Len(fs)
          <6>1. i < Len(fs)
            BY <3>1, <5>2
          <6>2. fs[i].ply < Top(fs).ply \/ fs[i].node = Top(fs).node
            BY <3>1, <6>1 DEF StackOK, Top
          <6> QED BY <3>2, <3>3, <6>2
        <5> QED BY <5>1, <5>2
      <4> QED BY <2>1, <2>3, <3>2, <3>3, <4>1
    <3>4. CASE fs[i].ply # Top(fs).ply
      BY <2>3, <2>4, <3>2, <3>4 DEF LinesOK
    <3> QED BY <3>3, <3>4
  <2> QED BY <2>3, <2>4
<1> QED BY <1>1, <1>2 DEF Rewritten

\* The frame goes on with its loop.
LEMMA StayKeepsCalls ==
  ASSUME NEW s, NEW r, NEW fs, StackOK(s, r, fs), fs # << >>,
         NEW lines, LinesOK(s, fs, lines), NEW new, Rewritten(s, Top(fs), lines, new),
         NEW g, FrameOK(s, r, g), SameCall(Top(fs), g), ~Waiting(g),
         LegalLine(s, g.node, new[g.ply])
  PROVE  CallsOK(s, r, ReplaceTop(fs, g), new, no_return)
<1> DEFINE h == ReplaceTop(fs, g)
<1>1. fs \in Seq(Frame) /\ g \in Frame
  BY DEF StackOK, FrameOK
<1>2. /\ h # << >> /\ Len(h) = Len(fs) /\ Top(h) = g
      /\ \A i \in 1 .. Len(fs) : h[i] = IF i = Len(fs) THEN g ELSE fs[i]
  BY <1>1, ReplacedTop
<1>3. StackOK(s, r, h)
  BY ReplaceKeepsStack
<1> HIDE DEF h
<1>4. LinesOK(s, h, new)
  BY <1>2, RewrittenLines DEF LinesOK
<1>5. ReturnOK(s, h, new, no_return)
  BY <1>2 DEF ReturnOK, no_return, Top
<1> QED BY <1>3, <1>4, <1>5 DEF CallsOK, h

\* The frame makes a call and waits for it.
LEMMA CallKeepsCalls ==
  ASSUME NEW s, NEW r, NEW fs, StackOK(s, r, fs), fs # << >>,
         NEW lines, LinesOK(s, fs, lines), Top(fs).step # "enter",
         NEW g, FrameOK(s, r, g), SameCall(Top(fs), g),
         NEW c, FrameOK(s, r, c), LinkOK(s, g, c), c.proc # "root", c.step = "enter"
  PROVE  CallsOK(s, r, PushCall(fs, g, c), lines, no_return)
<1> DEFINE h == PushCall(fs, g, c)
<1>1. fs \in Seq(Frame) /\ g \in Frame /\ c \in Frame
  BY DEF StackOK, FrameOK
<1>2. /\ h # << >> /\ Len(h) = Len(fs) + 1 /\ Top(h) = c /\ h[Len(fs) + 1] = c
      /\ \A i \in 1 .. Len(fs) : h[i] = IF i = Len(fs) THEN g ELSE fs[i]
  BY <1>1, PushedCall
<1>3. StackOK(s, r, h)
  BY PushKeepsStack
<1> HIDE DEF h
<1>4. LinesOK(s, h, lines)
  <2>1. Len(fs) \in Nat /\ Len(fs) \in 1 .. Len(fs)
    BY <1>1, NonEmptyStack
  <2>2. LegalLine(s, g.node, lines[g.ply])
    BY <2>1 DEF LinesOK, SameCall, Top, LineStarted
  <2>3. ASSUME NEW i \in 1 .. Len(h), LineStarted(h[i])
        PROVE  LegalLine(s, h[i].node, lines[h[i].ply])
    <3>1. i \in 1 .. Len(fs)
      BY <1>2, <2>1, <2>3 DEF LineStarted
    <3>2. CASE i = Len(fs)
      BY <1>2, <2>2, <3>1, <3>2
    <3>3. CASE i # Len(fs)
      BY <1>2, <2>3, <3>1, <3>3 DEF LinesOK
    <3> QED BY <3>2, <3>3
  <2> QED BY <2>3 DEF LinesOK
<1>5. ReturnOK(s, h, lines, no_return)
  BY <1>2 DEF ReturnOK, no_return, Top, Waiting
<1> QED BY <1>3, <1>4, <1>5 DEF CallsOK, h

\* What a call returns: nothing when it was stopped, otherwise an answer to its
\* window together with a legal line.
ReturnedBy(s, f, new, value) ==
  \/ value = stopped_return
  \/ \E x \in Inside :
       /\ value = completed(x)
       /\ LegalLine(s, f.node, new[f.ply])
       /\ ~f.in_iid =>
            Bounds(x, classify_bound(x, f.original_alpha, f.beta), Minimax(s)[<<f.node, f.depth>>])

LEMMA ReturnKeepsCalls ==
  ASSUME NEW s \in Setups, NEW r, NEW fs, StackOK(s, r, fs), fs # << >>, Top(fs).proc # "root",
         NEW lines, LinesOK(s, fs, lines), NEW new, Rewritten(s, Top(fs), lines, new),
         NEW value, ReturnedBy(s, Top(fs), new, value)
  PROVE  CallsOK(s, r, PopTop(fs), new, value) /\ PopTop(fs) # << >>
<1> DEFINE h == PopTop(fs)
           f == Top(fs)
           g == Top(h)
<1>1. fs \in Seq(Frame) /\ f \in Frame /\ Len(fs) \in Nat
  BY NonEmptyStack DEF StackOK
<1>2. Len(h) = Len(fs) - 1 /\ \A i \in 1 .. Len(fs) - 1 : h[i] = fs[i]
  BY <1>1, PoppedTop
<1>3. StackOK(s, r, h) /\ h # << >> /\ LinkOK(s, g, f) /\ FrameOK(s, r, g)
  BY PopKeepsStack
<1>4. FrameOK(s, r, f)
  <2>1. Len(fs) \in 1 .. Len(fs)
    BY <1>1, NonEmptyStack
  <2> QED BY <2>1 DEF StackOK, Top
<1> HIDE DEF h, f
<1>5. LinesOK(s, h, new)
  <2>1. /\ new \in [Ply -> Seq(Int)]
        /\ \A i \in 1 .. Len(fs) :
             LineStarted(fs[i]) => LegalLine(s, fs[i].node, new[fs[i].ply])
    BY RewrittenLines
  <2>2. \A i \in 1 .. Len(h) : i \in 1 .. Len(fs) /\ h[i] = fs[i]
    BY <1>1, <1>2
  <2> QED BY <2>1, <2>2 DEF LinesOK
<1>6. Waiting(g)
  BY <1>3 DEF LinkOK, Waiting
<1>7. ASSUME NEW x \in Inside, LegalLine(s, f.node, new[f.ply]),
             ~f.in_iid => Bounds(x, classify_bound(x, f.original_alpha, f.beta),
                                 Minimax(s)[<<f.node, f.depth>>])
      PROVE  AnswerOK(s, g, new, x)
  <2> SUFFICES ASSUME g.step # "iid"
               PROVE  /\ LegalLine(s, play(s.game, g.node, g.move), new[g.ply + 1])
                      /\ ~g.in_iid => Bounds(-x, classify_bound(-x, g.low, g.high),
                                             FrameValue(s, g, g.move))
    BY DEF AnswerOK
  <2>1. /\ f.node = play(s.game, g.node, g.move) /\ f.depth = child_depth(s, g.depth, g.move)
        /\ f.ply = g.ply + 1 /\ f.in_iid = g.in_iid
        /\ f.original_alpha = -g.high /\ f.beta = -g.low
    BY <1>3 DEF LinkOK
  <2>2. LegalLine(s, play(s.game, g.node, g.move), new[g.ply + 1])
    BY <1>7, <2>1
  <2>3. ASSUME ~g.in_iid
        PROVE  Bounds(-x, classify_bound(-x, g.low, g.high), FrameValue(s, g, g.move))
    <3>1. f.node \in Node /\ f.depth \in Depth /\ g.low \in Int /\ g.high \in Int
      BY <1>1, <1>3, FrameFields DEF FrameOK
    <3>2. f.original_alpha < f.beta
      BY <1>4 DEF FrameOK, WindowOK
    <3>3. g.low < g.high
      BY <2>1, <3>1, <3>2
    <3>4. Minimax(s)[<<f.node, f.depth>>] \in Int /\ x \in Int
      BY <3>1, MinimaxInside, NegatedInside
    <3>5. Bounds(x, classify_bound(x, -g.high, -g.low), Minimax(s)[<<f.node, f.depth>>])
      BY <1>7, <2>1, <2>3
    <3>6. FrameValue(s, g, g.move) = -Minimax(s)[<<f.node, f.depth>>]
      BY <2>1 DEF FrameValue, ValueOf
    <3> QED BY <3>1, <3>3, <3>4, <3>5, <3>6, BoundsNegated
  <2> QED BY <2>2, <2>3
<1>8. ReturnOK(s, h, new, value)
  <2>1. CASE value = stopped_return
    BY <1>3, <1>6, <2>1 DEF ReturnOK, stopped_return, no_return, Top
  <2>2. CASE \E x \in Inside :
               /\ value = completed(x)
               /\ LegalLine(s, f.node, new[f.ply])
               /\ ~f.in_iid => Bounds(x, classify_bound(x, f.original_alpha, f.beta),
                                      Minimax(s)[<<f.node, f.depth>>])
    <3>1. PICK x \in Inside :
               /\ value = completed(x)
               /\ LegalLine(s, f.node, new[f.ply])
               /\ ~f.in_iid => Bounds(x, classify_bound(x, f.original_alpha, f.beta),
                                      Minimax(s)[<<f.node, f.depth>>])
      BY <2>2
    <3>2. AnswerOK(s, g, new, x)
      BY <1>7, <3>1
    <3>3. value.score = x /\ value # no_return /\ value \in {completed(y) : y \in Inside}
      BY <3>1 DEF completed, no_return
    <3> QED BY <1>3, <1>6, <3>2, <3>3 DEF ReturnOK, Top
  <2> QED BY <2>1, <2>2 DEF ReturnedBy, f
<1> QED BY <1>3, <1>5, <1>8 DEF CallsOK, h

-----------------------------------------------------------------------------
(***************************************************************************)
(* New calls, and frames that wait for them.                               *)
(***************************************************************************)
CallOf(s, proc, n, depth, alpha, beta, ply, in_iid) ==
  [proc |-> proc, node |-> n, depth |-> depth, ply |-> ply, in_iid |-> in_iid,
   alpha |-> alpha, beta |-> beta, original_alpha |-> alpha,
   best_score |-> kScoreLoss, best_move |-> no_move,
   todo |-> moves_of(s.game, n), move |-> no_move, low |-> alpha, high |-> beta,
   step |-> "enter", reports |-> << >>, best_line |-> << >>]

WaitOf(f, step, m, low, high) ==
  [f EXCEPT !.step = step, !.move = m, !.todo = @ \ {m}, !.low = low, !.high = high]

LEMMA Moves ==
  ASSUME NEW s \in Setups, NEW n \in Node
  PROVE  moves_of(s.game, n) \subseteq Square
BY SetupAssumption DEF Square

LEMMA OneMove ==
  ASSUME NEW s \in Setups, NEW n \in Node, NEW m \in moves_of(s.game, n)
  PROVE  /\ m \in Int /\ m # pass_move /\ m # no_move /\ ~must_pass(s.game, n)
         /\ play(s.game, n, m) \in Node /\ play(s.game, n, m) = s.game.successors[n][m]
         /\ s.stage[play(s.game, n, m)] = s.stage[n] + 1
         /\ \A d \in Depth : child_depth(s, d, m) = d - 1
BY SetupAssumption DEF must_pass, play, child_depth, pass_move, no_move

LEMMA Passes ==
  ASSUME NEW s \in Setups, NEW n \in Node, must_pass(s.game, n)
  PROVE  /\ moves_of(s.game, n) = {}
         /\ play(s.game, n, pass_move) \in Node
         /\ play(s.game, n, pass_move) = s.game.passes[n]
         /\ ~must_pass(s.game, play(s.game, n, pass_move))
         /\ s.pass_consumes_depth \in BOOLEAN
         /\ s.stage[play(s.game, n, pass_move)] =
              s.stage[n] + (IF s.pass_consumes_depth THEN 1 ELSE 0)
         /\ \A d \in Depth :
              child_depth(s, d, pass_move) = IF s.pass_consumes_depth THEN d - 1 ELSE d
BY SetupAssumption DEF must_pass, play, child_depth, pass_move

LEMMA ScoreRange ==
  /\ kScoreLoss \in Score /\ kScoreWin \in Score /\ kScoreLoss \in Int /\ kScoreWin \in Int
  /\ kScoreLoss < kScoreWin
  /\ \A x \in Score : x \in Int /\ -x \in Score /\ kScoreLoss <= x /\ x <= kScoreWin
  /\ \A x \in Inside : x \in Int /\ -x \in Inside /\ x \in Score /\ kScoreLoss < x /\ x < kScoreWin
BY SearchAssumption DEF Score, Inside, kScoreLoss

LEMMA CallInFrame ==
  ASSUME NEW s \in Setups, NEW proc \in {"root", "pvs", "alphabeta"}, NEW n \in Node,
         NEW depth \in Depth, NEW alpha \in Score, NEW beta \in Score,
         NEW ply \in Ply, NEW in_iid \in BOOLEAN
  PROVE  CallOf(s, proc, n, depth, alpha, beta, ply, in_iid) \in Frame
<1>1. moves_of(s.game, n) \in SUBSET Square
  BY Moves
<1>2. << >> \in Seq(Report) /\ << >> \in Seq(Int)
  OBVIOUS
<1>3. no_move \in Int
  BY DEF no_move
<1> QED BY <1>1, <1>2, <1>3, ScoreRange DEF CallOf, Frame

\* A call of pvs or alphabeta starts with what its frame has to know.
LEMMA NewCall ==
  ASSUME NEW s \in Setups, NEW r, NEW proc \in {"pvs", "alphabeta"}, NEW n \in Node,
         NEW depth \in Depth, NEW alpha \in Score, NEW beta \in Score, alpha < beta,
         NEW ply \in Ply, NEW in_iid \in BOOLEAN,
         IF in_iid THEN depth + s.stage[n] < Horizon(s, r) ELSE depth + s.stage[n] = Horizon(s, r),
         ply + 2 * depth <= 2 * r.depth + (IF must_pass(s.game, n) THEN 0 ELSE 1)
  PROVE  FrameOK(s, r, CallOf(s, proc, n, depth, alpha, beta, ply, in_iid))
<1> DEFINE c == CallOf(s, proc, n, depth, alpha, beta, ply, in_iid)
<1>1. c \in Frame
  BY CallInFrame
<1>2. /\ c.proc = proc /\ c.node = n /\ c.depth = depth /\ c.ply = ply /\ c.in_iid = in_iid
      /\ c.alpha = alpha /\ c.beta = beta /\ c.original_alpha = alpha
      /\ c.best_score = kScoreLoss /\ c.best_move = no_move
      /\ c.todo = moves_of(s.game, n) /\ c.step = "enter"
  BY DEF CallOf
<1> HIDE DEF c
<1>3. Finished(s, c) = {} /\ alpha \in Int /\ ~(kScoreLoss > alpha)
  BY <1>2, ScoreRange DEF Finished
<1>4. WindowOK(c) /\ BestOK(s, c) /\ DepthOK(s, r, c) /\ StepOK(s, c)
  <2>1. WindowOK(c)
    BY <1>2, <1>3 DEF WindowOK
  <2>2. BestOK(s, c)
    BY <1>2 DEF BestOK
  <2>3. DepthOK(s, r, c)
    BY <1>2 DEF DepthOK
  <2>4. StepOK(s, c)
    BY <1>2 DEF StepOK
  <2> QED BY <2>1, <2>2, <2>3, <2>4
<1>5. NodeOK(s, c) /\ RootOK(s, r, c)
  BY <1>2, <1>3 DEF NodeOK, RootOK
<1> QED BY <1>1, <1>4, <1>5 DEF FrameOK, c

\* Where a move, or a pass, leads to, and the depth left there.
LEMMA ChildPlace ==
  ASSUME NEW s \in Setups, NEW r, NEW f, FrameOK(s, r, f), f.depth # 0, r.depth \in Depth,
         NEW m, LegalStep(s, f.node, m)
  PROVE  /\ play(s.game, f.node, m) \in Node
         /\ child_depth(s, f.depth, m) \in Depth
         /\ f.ply + 1 \in Ply
         /\ IF f.in_iid
            THEN child_depth(s, f.depth, m) + s.stage[play(s.game, f.node, m)] < Horizon(s, r)
            ELSE child_depth(s, f.depth, m) + s.stage[play(s.game, f.node, m)] = Horizon(s, r)
         /\ (f.ply + 1) + 2 * child_depth(s, f.depth, m) <=
              2 * r.depth + (IF must_pass(s.game, play(s.game, f.node, m)) THEN 0 ELSE 1)
<1> DEFINE n == f.node
           d == f.depth
           p == f.ply
           n2 == play(s.game, f.node, m)
           d2 == child_depth(s, f.depth, m)
           h == Horizon(s, r)
<1>1. n \in Node /\ d \in Depth /\ d \in Nat /\ p \in Nat /\ f.in_iid \in BOOLEAN /\ d # 0
  BY FrameFields DEF FrameOK
<1>2. /\ IF f.in_iid THEN d + s.stage[n] < h ELSE d + s.stage[n] = h
      /\ p + 2 * d <= 2 * r.depth + (IF must_pass(s.game, n) THEN 0 ELSE 1)
  BY DEF FrameOK, DepthOK
<1>3. n2 \in Node
  BY <1>1, OneMove, Passes DEF LegalStep
<1>4. s.stage[n] \in Nat /\ s.stage[n2] \in Nat /\ h \in Nat /\ r.depth \in Nat /\ r.depth <= MaxDepth
      /\ MaxDepth \in Nat
  BY <1>1, <1>3, SetupAssumption, SearchAssumption DEF Horizon, Depth
<1>5. CASE m \in moves_of(s.game, n)
  <2>1. d2 = d - 1 /\ s.stage[n2] = s.stage[n] + 1 /\ ~must_pass(s.game, n)
    BY <1>1, <1>5, OneMove
  <2> HIDE DEF n, n2, d, d2, p, h
  <2>2. p + 2 * d <= 2 * r.depth + 1
    BY <1>2, <2>1
  <2>3. d2 \in Depth /\ p + 1 \in Ply
    BY <1>1, <1>4, <2>1, <2>2 DEF Depth, Ply
  <2>4. d2 + s.stage[n2] = d + s.stage[n]
    BY <1>1, <1>4, <2>1
  <2>5. (p + 1) + 2 * d2 <= 2 * r.depth
    BY <1>1, <1>4, <2>1, <2>2
  <2>6. (p + 1) + 2 * d2 <= 2 * r.depth + (IF must_pass(s.game, n2) THEN 0 ELSE 1)
    BY <1>1, <1>4, <2>1, <2>5
  <2> QED BY <1>2, <1>3, <2>3, <2>4, <2>6 DEF n, n2, d, d2, p, h
<1>6. CASE m = pass_move /\ must_pass(s.game, n)
  <2>1. /\ d2 = IF s.pass_consumes_depth THEN d - 1 ELSE d
        /\ s.stage[n2] = s.stage[n] + (IF s.pass_consumes_depth THEN 1 ELSE 0)
        /\ ~must_pass(s.game, n2)
    BY <1>1, <1>6, Passes
  <2> HIDE DEF n, n2, d, d2, p, h
  <2>2. p + 2 * d <= 2 * r.depth
    <3>1. p + 2 * d <= 2 * r.depth + 0
      BY <1>2, <1>6
    <3> QED BY <1>4, <3>1
  <2>3. d2 \in Nat /\ d2 <= d /\ d2 + s.stage[n2] = d + s.stage[n]
    BY <1>1, <1>4, <2>1, <2>2
  <2>4. d2 \in Depth /\ p + 1 \in Ply
    BY <1>1, <1>4, <2>2, <2>3 DEF Depth, Ply
  <2>5. (p + 1) + 2 * d2 <= 2 * r.depth + 1
    BY <1>1, <1>4, <2>2, <2>3
  <2> QED BY <1>2, <1>3, <2>1, <2>3, <2>4, <2>5 DEF n, n2, d, d2, p, h
<1> QED BY <1>5, <1>6 DEF LegalStep

\* The call for the move that frame g waits for.
LEMMA ChildCall ==
  ASSUME NEW s \in Setups, NEW r, NEW g, FrameOK(s, r, g), g.depth # 0, r.depth \in Depth,
         g.step \in {"full", "null", "report"}, LegalStep(s, g.node, g.move), g.low < g.high,
         NEW proc \in {"pvs", "alphabeta"}, NEW c,
         c = CallOf(s, proc, play(s.game, g.node, g.move), child_depth(s, g.depth, g.move),
                    -g.high, -g.low, g.ply + 1, g.in_iid)
  PROVE  FrameOK(s, r, c) /\ LinkOK(s, g, c) /\ c.proc # "root" /\ c.step = "enter"
<1>1. g.low \in Score /\ g.high \in Score /\ g.in_iid \in BOOLEAN
  BY DEF FrameOK, Frame
<1>2. -g.high \in Score /\ -g.low \in Score /\ -g.high < -g.low
  <2>1. g.low \in Int /\ g.high \in Int
    BY <1>1, ScoreRange
  <2> QED BY <1>1, <2>1, ScoreRange
<1>3. FrameOK(s, r, c)
  <2> DEFINE n == play(s.game, g.node, g.move)
             d == child_depth(s, g.depth, g.move)
             p == g.ply + 1
  <2>1. /\ n \in Node /\ d \in Depth /\ p \in Ply
        /\ IF g.in_iid THEN d + s.stage[n] < Horizon(s, r) ELSE d + s.stage[n] = Horizon(s, r)
        /\ p + 2 * d <= 2 * r.depth + (IF must_pass(s.game, n) THEN 0 ELSE 1)
    BY ChildPlace
  <2> HIDE DEF n, d, p
  <2>2. FrameOK(s, r, CallOf(s, proc, n, d, -g.high, -g.low, p, g.in_iid))
    BY <1>1, <1>2, <2>1, NewCall
  <2> QED BY <2>2 DEF n, d, p
<1>4. /\ c.node = play(s.game, g.node, g.move) /\ c.depth = child_depth(s, g.depth, g.move)
      /\ c.ply = g.ply + 1 /\ c.in_iid = g.in_iid
      /\ c.original_alpha = -g.high /\ c.beta = -g.low /\ c.proc = proc /\ c.step = "enter"
  BY DEF CallOf
<1> QED BY <1>3, <1>4 DEF LinkOK

-----------------------------------------------------------------------------
(***************************************************************************)
(* Frames that go on with what they know.                                  *)
(***************************************************************************)

\* Frame g knows what frame f does: only its step, or the move it waits for,
\* differ.
SameKnowledge(s, f, g) ==
  /\ SameCall(f, g) /\ g.alpha = f.alpha /\ g.best_score = f.best_score
  /\ g.best_move = f.best_move /\ g.reports = f.reports /\ g.best_line = f.best_line
  /\ Finished(s, g) = Finished(s, f)

\* The steps of a loop that can go on.
Looping(f) == f.step \notin {"report", "complete"}

LEMMA KnownBest ==
  ASSUME NEW s, NEW f, BestOK(s, f), Looping(f), NEW g, SameKnowledge(s, f, g)
  PROVE  BestOK(s, g)
BY DEF BestOK, SameKnowledge, Looping, SameCall

LEMMA KnownScores ==
  ASSUME NEW s, NEW f, NEW g, SameKnowledge(s, f, g)
  PROVE  /\ \A m : FrameValue(s, g, m) = FrameValue(s, f, m)
         /\ NodeOK(s, f) /\ Looping(g) /\ (g.proc # "root" /\ g.step \in {"full", "null"} => g.low = g.alpha)
              => NodeOK(s, g)
         /\ RootBestOK(s, f) /\ Looping(g) => RootBestOK(s, g)
<1>1. \A m : FrameValue(s, g, m) = FrameValue(s, f, m)
  BY DEF FrameValue, SameKnowledge, SameCall
<1>2. ASSUME NodeOK(s, f), Looping(g), g.proc # "root" /\ g.step \in {"full", "null"} => g.low = g.alpha
      PROVE  NodeOK(s, g)
  BY <1>1, <1>2 DEF NodeOK, SameKnowledge, SameCall, Looping
<1>3. ASSUME RootBestOK(s, f), Looping(g)
      PROVE  RootBestOK(s, g)
  BY <1>1, <1>3 DEF RootBestOK, SameKnowledge, SameCall, Looping
<1> QED BY <1>1, <1>2, <1>3

LEMMA KnownReports ==
  ASSUME NEW s, NEW f, NEW g, SameKnowledge(s, f, g), RootReportsOK(s, f), g.step # "report"
  PROVE  RootReportsOK(s, g)
<1>1. /\ Finished(s, g) = Finished(s, f) /\ g.reports = f.reports
      /\ \A m : FrameValue(s, g, m) = FrameValue(s, f, m)
  BY KnownScores DEF SameKnowledge
<1> QED BY <1>1 DEF RootReportsOK

LEMMA KeepsKnowing ==
  ASSUME NEW s, NEW r, NEW f, FrameOK(s, r, f), Looping(f), f.depth # 0,
         NEW g \in Frame, SameKnowledge(s, f, g), Looping(g), StepOK(s, g),
         g.proc # "root" /\ g.step \in {"full", "null"} => g.low = g.alpha,
         g.proc = "root" => g.step \notin {"order", "iid"} /\ RootLowOK(s, g)
  PROVE  FrameOK(s, r, g)
<1>1. WindowOK(g)
  BY DEF FrameOK, WindowOK, SameKnowledge, SameCall, Looping
<1>2. BestOK(s, g)
  BY KnownBest DEF FrameOK
<1>3. DepthOK(s, r, g)
  BY DEF FrameOK, DepthOK, SameKnowledge, SameCall
<1>4. NodeOK(s, g)
  BY KnownScores DEF FrameOK
<1>5. RootOK(s, r, g)
  <2> SUFFICES ASSUME g.proc = "root" PROVE RootOK(s, r, g)
    BY DEF RootOK
  <2>1. /\ f.node = RootNode /\ f.depth = r.depth /\ f.ply = 0 /\ ~f.in_iid
        /\ f.original_alpha = r.alpha /\ f.beta = r.beta
        /\ RootBestOK(s, f) /\ RootReportsOK(s, f) /\ RootLineOK(s, f)
    BY DEF FrameOK, RootOK, SameKnowledge, SameCall
  <2>2. RootBestOK(s, g) /\ RootReportsOK(s, g)
    BY <2>1, KnownScores, KnownReports DEF Looping
  <2>3. RootLineOK(s, g)
    BY <2>1 DEF RootLineOK, SameKnowledge
  <2> QED BY <2>1, <2>2, <2>3 DEF RootOK, SameKnowledge, SameCall, Looping
<1> QED BY <1>1, <1>2, <1>3, <1>4, <1>5 DEF FrameOK

\* The frame goes to another step of its own.
StepTo(f, step) == [f EXCEPT !.step = step]

LEMMA SteppedFrame ==
  ASSUME NEW f \in Frame, NEW step \in {"enter", "order", "iid", "loop", "full", "null", "report", "complete"}
  PROVE  /\ StepTo(f, step) \in Frame /\ SameCall(f, StepTo(f, step)) /\ StepTo(f, step).step = step
         /\ StepTo(f, step).todo = f.todo /\ StepTo(f, step).move = f.move
         /\ StepTo(f, step).alpha = f.alpha /\ StepTo(f, step).best_score = f.best_score
         /\ StepTo(f, step).best_move = f.best_move /\ StepTo(f, step).reports = f.reports
         /\ StepTo(f, step).best_line = f.best_line
         /\ StepTo(f, step).low = f.low /\ StepTo(f, step).high = f.high
BY DEF StepTo, Frame, SameCall

\* Entering a node or the root, iterative deepening and its end.
LEMMA StepKeepsFrame ==
  ASSUME NEW s, NEW r, NEW f, FrameOK(s, r, f), f.depth # 0,
         f.step \in {"enter", "order", "iid"}, NEW step \in {"order", "iid", "loop"},
         f.proc = "root" => step = "loop"
  PROVE  FrameOK(s, r, StepTo(f, step)) /\ SameCall(f, StepTo(f, step)) /\ StepTo(f, step).step = step
<1> DEFINE g == StepTo(f, step)
<1>1. f \in Frame /\ StepOK(s, f)
  BY DEF FrameOK
<1>2. /\ g \in Frame /\ SameCall(f, g) /\ g.step = step /\ g.todo = f.todo /\ g.move = f.move
      /\ g.alpha = f.alpha /\ g.best_score = f.best_score /\ g.best_move = f.best_move
      /\ g.reports = f.reports /\ g.best_line = f.best_line
  BY <1>1, SteppedFrame
<1> HIDE DEF g
<1>3. SameKnowledge(s, f, g)
  BY <1>2 DEF SameKnowledge, Finished, SameCall
<1>4. StepOK(s, g)
  BY <1>1, <1>2 DEF StepOK, SameCall
<1>5. RootLowOK(s, g) /\ Looping(g) /\ Looping(f)
  BY <1>2 DEF RootLowOK, Looping
<1>6. FrameOK(s, r, g)
  BY <1>2, <1>3, <1>4, <1>5, KeepsKnowing DEF SameCall
<1> QED BY <1>2, <1>6 DEF g

-----------------------------------------------------------------------------
(***************************************************************************)
(* Searching a move.                                                       *)
(***************************************************************************)
LEMMA WaitingFrame ==
  ASSUME NEW f \in Frame, NEW step \in {"full", "null", "report"}, NEW m \in Int,
         NEW low \in Score, NEW high \in Score, NEW g, g = WaitOf(f, step, m, low, high)
  PROVE  /\ g \in Frame /\ SameCall(f, g) /\ g.step = step /\ g.move = m /\ g.todo = f.todo \ {m}
         /\ g.low = low /\ g.high = high
         /\ g.alpha = f.alpha /\ g.best_score = f.best_score /\ g.best_move = f.best_move
         /\ g.reports = f.reports /\ g.best_line = f.best_line
BY DEF WaitOf, Frame, SameCall

\* The moves that a frame can wait for, and how.
CanWaitFor(s, f, step, m) ==
  \/ f.step \in {"order", "loop"} /\ m \in f.todo
  \/ f.step \in {"order", "loop"} /\ m = pass_move /\ must_pass(s.game, f.node) /\ step = "full"
  \/ f.step \in {"full", "null"} /\ m = f.move /\ m \in moves_of(s.game, f.node) /\ step = "full"

LEMMA WaitFinished ==
  ASSUME NEW s \in Setups, NEW f \in Frame, StepOK(s, f), NEW step \in {"full", "null"},
         NEW m, CanWaitFor(s, f, step, m),
         NEW g, g.node = f.node, g.step = step, g.move = m, g.todo = f.todo \ {m}
  PROVE  /\ Finished(s, g) = Finished(s, f) /\ m \in Int
         /\ LegalStep(s, f.node, m) /\ g.todo \subseteq moves_of(s.game, f.node)
         /\ m \in moves_of(s.game, f.node) \/ (m = pass_move /\ must_pass(s.game, f.node) /\ step = "full")
<1>1. f.node \in Node /\ f.todo \subseteq moves_of(s.game, f.node)
  BY FrameFields DEF StepOK
<1>2. CASE f.step \in {"order", "loop"} /\ m \in f.todo
  <2>1. m \in moves_of(s.game, f.node) /\ m \in Int
    BY <1>1, <1>2, OneMove
  <2>2. Finished(s, g) = Finished(s, f)
    BY <1>2, <2>1 DEF Finished
  <2> QED BY <1>1, <2>1, <2>2 DEF LegalStep
<1>3. CASE f.step \in {"order", "loop"} /\ m = pass_move /\ must_pass(s.game, f.node) /\ step = "full"
  <2>1. moves_of(s.game, f.node) = {} /\ m \in Int
    BY <1>1, <1>3, Passes DEF pass_move
  <2> QED BY <1>1, <1>3, <2>1 DEF LegalStep, Finished
<1>4. CASE f.step \in {"full", "null"} /\ m = f.move /\ m \in moves_of(s.game, f.node) /\ step = "full"
  <2>1. m \in Int
    BY <1>1, <1>4, OneMove
  <2>2. Finished(s, g) = Finished(s, f)
    BY <1>4 DEF Finished
  <2> QED BY <1>1, <1>4, <2>1, <2>2 DEF LegalStep
<1> QED BY <1>2, <1>3, <1>4 DEF CanWaitFor

LEMMA WaitKeepsFrame ==
  ASSUME NEW s \in Setups, NEW r, NEW f, FrameOK(s, r, f), f.depth # 0, Looping(f),
         NEW step \in {"full", "null"}, NEW m, CanWaitFor(s, f, step, m),
         NEW low \in Score, NEW high \in Score, low < high,
         IF step = "full" THEN high = f.beta ELSE high = low + 1,
         f.proc # "root" \/ m = pass_move => low = f.alpha,
         f.proc = "root" /\ m # pass_move =>
           \/ low = f.alpha /\ (f.best_move = no_move \/ m > f.best_move \/ (~s.use_pvs /\ step = "full"))
           \/ f.best_move # no_move /\ m < f.best_move /\ low = f.best_score - 1
  PROVE  /\ FrameOK(s, r, WaitOf(f, step, m, low, high)) /\ SameCall(f, WaitOf(f, step, m, low, high))
         /\ LegalStep(s, f.node, m)
<1> DEFINE g == WaitOf(f, step, m, low, high)
<1>1. f \in Frame /\ StepOK(s, f)
  BY DEF FrameOK
<1>2. m \in Int
  <2>1. f.node \in Node /\ f.move \in Int
    BY <1>1, FrameFields
  <2> QED BY <1>1, <2>1, OneMove DEF CanWaitFor, StepOK, pass_move
<1>3. /\ g \in Frame /\ SameCall(f, g) /\ g.step = step /\ g.move = m /\ g.todo = f.todo \ {m}
      /\ g.low = low /\ g.high = high
      /\ g.alpha = f.alpha /\ g.best_score = f.best_score /\ g.best_move = f.best_move
      /\ g.reports = f.reports /\ g.best_line = f.best_line
  <2>1. f \in Frame
    BY <1>1
  <2> QED BY <2>1, <1>2 DEF WaitOf, Frame, SameCall
<1> HIDE DEF g
<1>4. /\ Finished(s, g) = Finished(s, f) /\ LegalStep(s, f.node, m)
      /\ g.todo \subseteq moves_of(s.game, f.node)
      /\ m \in moves_of(s.game, f.node) \/ (m = pass_move /\ must_pass(s.game, f.node) /\ step = "full")
  BY <1>1, <1>3, WaitFinished DEF SameCall
<1>5. SameKnowledge(s, f, g)
  BY <1>3, <1>4 DEF SameKnowledge
<1>6. StepOK(s, g)
  <2>1. must_pass(s.game, g.node) => g.best_move = no_move
    BY <1>1, <1>3 DEF StepOK, SameCall
  <2>2. ASSUME m \in moves_of(s.game, f.node) PROVE m # pass_move
    <3>1. f.node \in Node
      BY <1>1, FrameFields
    <3> QED BY <2>2, <3>1, OneMove
  <2>3. \/ g.move = pass_move /\ must_pass(s.game, g.node) /\ g.step = "full"
           /\ g.low = g.alpha /\ g.best_move = no_move
        \/ g.move \in moves_of(s.game, g.node) /\ g.move \notin g.todo
    BY <1>3, <1>4, <2>1, <2>2 DEF SameCall
  <2> QED BY <1>3, <1>4, <2>1, <2>3 DEF StepOK, SameCall
<1>7. Looping(g) /\ (g.proc = "root" => RootLowOK(s, g))
  BY <1>3 DEF Looping, RootLowOK, SameCall
<1>8. FrameOK(s, r, g)
  BY <1>3, <1>5, <1>6, <1>7, KeepsKnowing DEF SameCall
<1> QED BY <1>3, <1>4, <1>8 DEF g

\* A frame that waits for a move pushes the call for it.
LEMMA PushMove ==
  ASSUME NEW s \in Setups, NEW r, r.depth \in Depth, NEW fs, StackOK(s, r, fs), fs # << >>,
         NEW lines, LinesOK(s, fs, lines), NEW f, f = Top(fs), f.step # "enter",
         NEW step \in {"full", "null", "report"}, NEW m, NEW low \in Score, NEW high \in Score, low < high,
         FrameOK(s, r, WaitOf(f, step, m, low, high)), SameCall(f, WaitOf(f, step, m, low, high)),
         LegalStep(s, f.node, m), NEW proc \in {"pvs", "alphabeta"}
  PROVE  CallsOK(s, r,
           PushCall(fs, WaitOf(f, step, m, low, high),
                    CallOf(s, proc, play(s.game, f.node, m), child_depth(s, f.depth, m),
                           -high, -low, f.ply + 1, f.in_iid)),
           lines, no_return)
<1> DEFINE g == WaitOf(f, step, m, low, high)
           c == CallOf(s, proc, play(s.game, f.node, m), child_depth(s, f.depth, m),
                       -high, -low, f.ply + 1, f.in_iid)
<1>1. f \in Frame
  BY NonEmptyStack DEF StackOK
<1>2. m \in Int
  <2>1. f.node \in Node
    BY <1>1, FrameFields
  <2> QED BY <2>1, OneMove DEF LegalStep, pass_move
<1>3. g.step = step /\ g.move = m /\ g.low = low /\ g.high = high
  BY <1>1 DEF WaitOf, Frame
<1>4. /\ g.node = f.node /\ g.depth = f.depth /\ g.ply = f.ply /\ g.in_iid = f.in_iid
  BY DEF SameCall
<1>5. FrameOK(s, r, g) /\ SameCall(Top(fs), g)
  OBVIOUS
<1> HIDE DEF g
<1>6. g.depth # 0
  BY <1>3, <1>5 DEF FrameOK, DepthOK
<1>7. FrameOK(s, r, c) /\ LinkOK(s, g, c) /\ c.proc # "root" /\ c.step = "enter"
  <2>1. c = CallOf(s, proc, play(s.game, g.node, g.move), child_depth(s, g.depth, g.move),
                   -g.high, -g.low, g.ply + 1, g.in_iid)
    BY <1>3, <1>4
  <2>2. LegalStep(s, g.node, g.move) /\ g.low < g.high /\ g.step \in {"full", "null", "report"}
    BY <1>3, <1>4
  <2> HIDE DEF c
  <2> QED BY <1>5, <1>6, <2>1, <2>2, ChildCall
<1> HIDE DEF c
<1>8. CallsOK(s, r, PushCall(fs, g, c), lines, no_return)
  BY <1>5, <1>7, CallKeepsCalls
<1> QED BY <1>8 DEF g, c

-----------------------------------------------------------------------------
(***************************************************************************)
(* A move has been searched.                                               *)
(***************************************************************************)
\* The frame with the score of the move it waited for taken into account.
UpdatedOf(f, score) ==
  LET better == is_better(score, f.move, f.best_score, f.best_move)
  IN  [f EXCEPT !.best_score = IF better THEN score ELSE @,
                !.best_move = IF better THEN f.move ELSE @,
                !.alpha = IF score > @ THEN score ELSE @,
                !.step = "loop"]

LEMMA UpdatedFields ==
  ASSUME NEW f \in Frame, NEW score \in Inside, NEW g, g = UpdatedOf(f, score)
  PROVE  /\ g \in Frame /\ SameCall(f, g) /\ g.step = "loop" /\ g.todo = f.todo /\ g.move = f.move
         /\ g.reports = f.reports /\ g.best_line = f.best_line
         /\ g.alpha = IF score > f.alpha THEN score ELSE f.alpha
         /\ g.best_score =
              IF is_better(score, f.move, f.best_score, f.best_move) THEN score ELSE f.best_score
         /\ g.best_move =
              IF is_better(score, f.move, f.best_score, f.best_move) THEN f.move ELSE f.best_move
         /\ g.low = f.low /\ g.high = f.high
<1>1. score \in Score /\ f.move \in Int /\ f.best_move \in Int
  BY ScoreRange, FrameFields
<1>2. /\ SameCall(f, g) /\ g.step = "loop" /\ g.todo = f.todo /\ g.move = f.move
      /\ g.reports = f.reports /\ g.best_line = f.best_line
      /\ g.alpha = IF score > f.alpha THEN score ELSE f.alpha
      /\ g.best_score =
           IF is_better(score, f.move, f.best_score, f.best_move) THEN score ELSE f.best_score
      /\ g.best_move =
           IF is_better(score, f.move, f.best_score, f.best_move) THEN f.move ELSE f.best_move
      /\ g.low = f.low /\ g.high = f.high
  BY DEF UpdatedOf, Frame, SameCall
<1>3. g \in Frame
  BY <1>1 DEF UpdatedOf, Frame
<1> QED BY <1>2, <1>3

\* A loop without a best move knows nothing; otherwise its best move is one of
\* the finished moves.
LEMMA BestCases ==
  ASSUME NEW s \in Setups, NEW r, NEW f, FrameOK(s, r, f), Looping(f)
  PROVE  \/ /\ f.best_move = no_move /\ f.best_score = kScoreLoss /\ f.alpha = f.original_alpha
         \/ /\ f.best_move # no_move /\ f.best_move \in Finished(s, f)
            /\ f.best_score \in Inside /\ f.best_score <= f.alpha
            /\ f.alpha = f.original_alpha \/ f.alpha = f.best_score
<1>1. \A k \in Finished(s, f) : k # no_move
  <2> TAKE k \in Finished(s, f)
  <2>1. f.node \in Node /\ k \in moves_of(s.game, f.node)
    BY FrameFields DEF FrameOK, Finished
  <2>2. k \in Square
    BY <2>1, Moves
  <2> QED BY <2>2 DEF Square, no_move
<1>2. \/ f.best_move = no_move /\ f.best_score = kScoreLoss /\ f.alpha = f.original_alpha
      \/ /\ f.best_move \in Finished(s, f) /\ f.best_score \in Inside
         /\ f.best_score <= f.alpha /\ f.alpha \in {f.original_alpha, f.best_score}
  BY DEF FrameOK, BestOK, Looping
<1> QED BY <1>1, <1>2

\* The best move and score after a move that has not been taken into account.
LEMMA BestUpdated ==
  ASSUME NEW s \in Setups, NEW r, NEW f, FrameOK(s, r, f), f.step \in {"full", "null"},
         f.move \in moves_of(s.game, f.node),
         NEW score \in Inside, NEW g, g = UpdatedOf(f, score)
  PROVE  /\ Finished(s, g) = Finished(s, f) \cup {f.move} /\ f.move \notin Finished(s, f)
         /\ BestOK(s, g) /\ g.best_move # no_move /\ g.best_score \in Inside
         /\ f.best_score <= g.best_score /\ score <= g.best_score
         /\ f.original_alpha <= g.alpha
         /\ g.alpha >= f.beta => g.best_score >= f.beta
         /\ \/ g.best_score = score /\ g.best_move = f.move
               /\ (f.best_move = no_move \/ score > f.best_score
                    \/ (score = f.best_score /\ f.move < f.best_move))
            \/ /\ g.best_score = f.best_score /\ g.best_move = f.best_move /\ f.best_move # no_move
               /\ score < f.best_score \/ (score = f.best_score /\ f.move > f.best_move)
<1> DEFINE m == f.move
<1>1. /\ f \in Frame /\ f.original_alpha <= f.alpha /\ f.alpha < f.beta /\ f.original_alpha < f.beta
      /\ m \notin f.todo
  <2>1. f.node \in Node
    BY FrameFields DEF FrameOK
  <2> QED BY <2>1, OneMove DEF FrameOK, WindowOK, StepOK
<1>2. /\ f.alpha \in Int /\ f.beta \in Int /\ f.original_alpha \in Int /\ f.best_score \in Int
      /\ f.best_move \in Int /\ m \in Int /\ score \in Int /\ kScoreLoss \in Int /\ kScoreLoss < score
  BY <1>1, FrameFields, ScoreRange
<1>3. /\ SameCall(f, g) /\ g.step = "loop" /\ g.todo = f.todo
      /\ g.alpha = IF score > f.alpha THEN score ELSE f.alpha
      /\ g.best_score = IF is_better(score, m, f.best_score, f.best_move) THEN score ELSE f.best_score
      /\ g.best_move = IF is_better(score, m, f.best_score, f.best_move) THEN m ELSE f.best_move
  BY <1>1, UpdatedFields
<1>4. \/ f.best_move = no_move /\ f.best_score = kScoreLoss /\ f.alpha = f.original_alpha
      \/ /\ f.best_move \in Finished(s, f) /\ f.best_score \in Inside /\ f.best_score <= f.alpha
         /\ f.alpha = f.original_alpha \/ f.alpha = f.best_score
  BY DEF FrameOK, BestOK
<1>5. Finished(s, g) = Finished(s, f) \cup {m} /\ m \notin Finished(s, f)
  BY <1>1, <1>3 DEF Finished, SameCall
<1>6. /\ \A k \in Finished(s, f) : k # no_move /\ k # m
      /\ m # no_move
  <2>1. f.node \in Node
    BY <1>1, FrameFields
  <2>2. m # no_move
    BY <2>1, OneMove
  <2>3. ASSUME NEW k \in Finished(s, f) PROVE k # no_move /\ k # m
    <3>1. k \in moves_of(s.game, f.node)
      BY DEF Finished
    <3>2. k # no_move
      <4>1. k \in Square
        BY <2>1, <3>1, Moves
      <4> QED BY <4>1 DEF Square, no_move
    <3>3. k # m
      BY <1>5, <2>3
    <3> QED BY <3>2, <3>3
  <2> QED BY <2>2, <2>3
<1>7. \/ /\ g.best_score = score /\ g.best_move = m
         /\ f.best_move = no_move \/ score > f.best_score \/ (score = f.best_score /\ m < f.best_move)
      \/ /\ g.best_score = f.best_score /\ g.best_move = f.best_move /\ f.best_move # no_move
         /\ score < f.best_score \/ (score = f.best_score /\ m > f.best_move)
  <2>1. f.best_move # no_move => f.best_move # m
    BY <1>4, <1>6
  <2> QED BY <1>2, <1>3, <2>1 DEF is_better
<1> HIDE DEF m
<1>8. g.best_score \in Inside /\ g.best_move # no_move /\ g.best_move \in Finished(s, g)
  <2>1. CASE g.best_score = score /\ g.best_move = m
    BY <1>5, <1>6, <2>1
  <2>2. CASE g.best_score = f.best_score /\ g.best_move = f.best_move /\ f.best_move # no_move
    <3>1. f.best_move \in Finished(s, f) /\ f.best_score \in Inside
      BY <1>4, <2>2
    <3> QED BY <1>5, <2>2, <3>1
  <2> QED BY <1>7, <2>1, <2>2
<1>9. f.best_score <= g.best_score /\ score <= g.best_score
  <2>1. f.best_move = no_move => f.best_score = kScoreLoss
    BY <1>4, <1>6
  <2> QED BY <1>2, <1>7, <2>1
<1>10. g.best_score <= g.alpha /\ g.alpha \in {f.original_alpha, g.best_score} /\ f.original_alpha <= g.alpha
  <2>1. CASE f.best_move = no_move
    <3>1. f.best_score = kScoreLoss /\ f.alpha = f.original_alpha
      BY <1>4, <1>6, <2>1
    <3>2. g.best_score = score
      BY <1>2, <1>7, <2>1
    <3> QED BY <1>1, <1>2, <1>3, <3>1, <3>2
  <2>2. CASE f.best_move # no_move
    <3>1. f.best_score <= f.alpha /\ (f.alpha = f.original_alpha \/ f.alpha = f.best_score)
      BY <1>4, <2>2
    <3>2. g.best_score = IF score > f.best_score THEN score ELSE f.best_score
      BY <1>2, <1>7, <2>2
    <3> QED BY <1>1, <1>2, <1>3, <3>1, <3>2
  <2> QED BY <2>1, <2>2
<1>11. g.alpha >= f.beta => g.best_score >= f.beta
  BY <1>1, <1>2, <1>3, <1>10
<1>12. BestOK(s, g)
  BY <1>3, <1>8, <1>10 DEF BestOK, SameCall
<1> QED BY <1>5, <1>7, <1>8, <1>9, <1>10, <1>11, <1>12 DEF m

-----------------------------------------------------------------------------
(***************************************************************************)
(* What a finished move tells pvs and alphabeta.                           *)
(***************************************************************************)
LEMMA ValueInside ==
  ASSUME NEW s \in Setups, NEW n \in Node, NEW d \in Depth, d # 0, NEW m \in moves_of(s.game, n)
  PROVE  ValueOf(s, n, d, m) \in Inside /\ ValueOf(s, n, d, m) <= Minimax(s)[<<n, d>>]
<1>1. /\ play(s.game, n, m) = s.game.successors[n][m] /\ play(s.game, n, m) \in Node
      /\ child_depth(s, d, m) = d - 1
  BY OneMove
<1>2. d - 1 \in Depth
  BY SearchAssumption DEF Depth
<1>3. Minimax(s)[<<play(s.game, n, m), d - 1>>] \in Inside
  BY <1>1, <1>2, MinimaxInside
<1>4. IsMinimax(s, Minimax(s))
  BY MinimaxUnfolds
<1> DEFINE v == Minimax(s)
<1> HIDE DEF v
<1>5. -v[<<s.game.successors[n][m], d - 1>>] <= v[<<n, d>>]
  BY <1>4 DEF IsMinimax, v
<1>6. ValueOf(s, n, d, m) = -v[<<s.game.successors[n][m], d - 1>>]
  BY <1>1 DEF ValueOf, v
<1> QED BY <1>1, <1>3, <1>5, <1>6, NegatedInside DEF v

LEMMA BestValue ==
  ASSUME NEW s \in Setups, NEW n \in Node, NEW d \in Depth, d # 0, moves_of(s.game, n) # {}
  PROVE  \E m \in moves_of(s.game, n) : ValueOf(s, n, d, m) = Minimax(s)[<<n, d>>]
<1> DEFINE v == Minimax(s)
<1>1. IsMinimax(s, v)
  BY MinimaxUnfolds
<1> HIDE DEF v
<1>2. PICK m \in moves_of(s.game, n) : -v[<<s.game.successors[n][m], d - 1>>] = v[<<n, d>>]
  BY <1>1 DEF IsMinimax
<1>3. play(s.game, n, m) = s.game.successors[n][m] /\ child_depth(s, d, m) = d - 1
  BY OneMove
<1>4. ValueOf(s, n, d, m) = v[<<n, d>>]
  BY <1>2, <1>3 DEF ValueOf, v
<1> QED BY <1>4 DEF v

\* A score that no finished move beats, and that a finished move reaches when
\* it is above alpha, answers the window of the call.
LEMMA LoopAnswers ==
  ASSUME NEW s \in Setups, NEW n \in Node, NEW d \in Depth, d # 0,
         NEW done, done \subseteq moves_of(s.game, n), done # {}, NEW x \in Int,
         NEW low \in Int, NEW high \in Int, low < high,
         x > low => \E k \in done : ValueOf(s, n, d, k) >= x,
         x < high => done = moves_of(s.game, n) /\ \A k \in done : ValueOf(s, n, d, k) <= x
  PROVE  Bounds(x, classify_bound(x, low, high), Minimax(s)[<<n, d>>])
<1> DEFINE value == Minimax(s)[<<n, d>>]
<1>1. value \in Int
  BY MinimaxInside, NegatedInside
<1>2. \A k \in done : ValueOf(s, n, d, k) \in Int /\ ValueOf(s, n, d, k) <= value
  <2> TAKE k \in done
  <2>1. ValueOf(s, n, d, k) \in Inside /\ ValueOf(s, n, d, k) <= value
    BY ValueInside
  <2> QED BY <2>1, ScoreRange
<1>3. \E k \in moves_of(s.game, n) : ValueOf(s, n, d, k) = value
  BY BestValue
<1> HIDE DEF value
<1>4. x > low => value >= x
  BY <1>1, <1>2
<1>5. x < high => value <= x
  BY <1>1, <1>2, <1>3
<1>6. /\ x <= low => value <= x
      /\ x >= high => value >= x
      /\ low < x /\ x < high => value = x
  BY <1>1, <1>4, <1>5
<1> QED BY <1>1, <1>6, BoundsCases DEF value

LEMMA NodeScores ==
  ASSUME NEW s \in Setups, NEW r, NEW f, FrameOK(s, r, f), f.step \in {"full", "null"}, ~f.in_iid,
         f.proc # "root", f.move \in moves_of(s.game, f.node),
         NEW score \in Inside, NEW g, g = UpdatedOf(f, score),
         Bounds(score, classify_bound(score, f.low, f.high), FrameValue(s, f, f.move)),
         f.step = "null" => ~(score > f.alpha /\ score < f.beta)
  PROVE  /\ g.best_score > f.original_alpha =>
              \E k \in Finished(s, g) : FrameValue(s, f, k) >= g.best_score
         /\ g.alpha < f.beta => \A k \in Finished(s, g) : FrameValue(s, f, k) <= g.best_score
<1> DEFINE m == f.move
           V(k) == FrameValue(s, f, k)
<1>1. /\ f \in Frame /\ f.alpha < f.beta /\ f.low = f.alpha /\ f.low < f.high
      /\ f.step = "full" => f.high = f.beta
      /\ f.step = "null" => f.high = f.low + 1
  BY DEF FrameOK, WindowOK, NodeOK, StepOK
<1>2. /\ f.node \in Node /\ f.depth \in Depth /\ f.depth # 0
      /\ f.alpha \in Int /\ f.beta \in Int /\ f.original_alpha \in Int /\ f.best_score \in Int
      /\ f.low \in Int /\ f.high \in Int /\ score \in Int
  BY <1>1, FrameFields, ScoreRange DEF FrameOK, DepthOK
<1>3. \A k \in moves_of(s.game, f.node) : V(k) \in Int
  <2> TAKE k \in moves_of(s.game, f.node)
  <2>1. ValueOf(s, f.node, f.depth, k) \in Inside
    BY <1>2, ValueInside
  <2> QED BY <2>1, ScoreRange DEF FrameValue
<1>4. /\ \A k \in Finished(s, f) : V(k) <= f.best_score
      /\ f.best_score > f.original_alpha => \E k \in Finished(s, f) : V(k) >= f.best_score
  BY DEF FrameOK, NodeOK
<1>5. /\ Finished(s, g) = Finished(s, f) \cup {m}
      /\ f.best_score <= g.best_score /\ score <= g.best_score /\ g.best_score \in Inside
      /\ \/ g.best_score = score
            /\ (f.best_move = no_move \/ score >= f.best_score)
         \/ g.best_score = f.best_score
      /\ g.alpha = IF score > f.alpha THEN score ELSE f.alpha
  <2>1. g.alpha = IF score > f.alpha THEN score ELSE f.alpha
    BY <1>1, UpdatedFields
  <2>2. /\ Finished(s, g) = Finished(s, f) \cup {m}
        /\ f.best_score <= g.best_score /\ score <= g.best_score /\ g.best_score \in Inside
        /\ \/ g.best_score = score
              /\ (f.best_move = no_move \/ score > f.best_score \/ score = f.best_score)
           \/ g.best_score = f.best_score
    BY BestUpdated
  <2> QED BY <1>2, <2>1, <2>2
<1>6. /\ f.best_move = no_move => f.alpha = f.original_alpha
      /\ f.best_move # no_move => f.alpha = f.original_alpha \/ f.alpha = f.best_score
  <2>1. Looping(f)
    BY DEF Looping
  <2> QED BY <2>1, BestCases
<1>7. m \in moves_of(s.game, f.node) /\ V(m) \in Int /\ \A k \in Finished(s, f) : V(k) \in Int
  BY <1>3 DEF Finished
<1>8. g.best_score \in Int
  BY <1>5, ScoreRange
<1> HIDE DEF m, V
<1>9. /\ score <= f.alpha => V(m) <= score
      /\ score >= f.beta => V(m) >= score
      /\ f.alpha < score /\ score < f.beta => V(m) = score
  <2>1. Bounds(score, classify_bound(score, f.low, f.high), V(m))
    BY DEF m, V
  <2>2. f.high = f.beta \/ (f.high = f.low + 1 /\ ~(score > f.low /\ score < f.beta))
    BY <1>1
  <2>3. f.low <= f.alpha /\ f.low < f.high /\ f.alpha < f.beta
    BY <1>1, <1>2
  <2>4. /\ score <= f.low => V(m) <= score
        /\ score >= f.high => V(m) >= score
        /\ f.low < score /\ score < f.high => V(m) = score
    BY <1>2, <1>7, <2>1, <2>3, BoundsCases
  <2> QED BY <1>1, <1>2, <1>7, <2>2, <2>3, <2>4
<1>10. ASSUME g.best_score > f.original_alpha
       PROVE  \E k \in Finished(s, g) : V(k) >= g.best_score
  <2>1. CASE g.best_score = score /\ score > f.alpha
    <3>1. V(m) >= score
      BY <1>2, <1>7, <1>9, <2>1
    <3> QED BY <1>5, <2>1, <3>1
  <2>2. CASE g.best_score = f.best_score
    BY <1>4, <1>5, <1>10, <2>2
  <2>3. CASE g.best_score = score /\ ~(score > f.alpha) /\ g.best_score # f.best_score
    <3>1. f.best_move = no_move \/ score > f.best_score
      BY <1>2, <1>5, <2>3
    <3> QED BY <1>2, <1>6, <1>10, <2>3, <3>1
  <2> QED BY <1>5, <2>1, <2>2, <2>3
<1>11. ASSUME g.alpha < f.beta, NEW k \in Finished(s, g)
       PROVE  V(k) <= g.best_score
  <2>1. CASE k \in Finished(s, f)
    BY <1>2, <1>4, <1>5, <1>7, <1>8, <2>1
  <2>2. CASE k = m
    <3>1. score < f.beta
      BY <1>1, <1>2, <1>5, <1>11
    <3>2. V(m) <= score
      BY <1>2, <1>7, <1>9, <3>1
    <3> QED BY <1>2, <1>5, <1>7, <1>8, <2>2, <3>2
  <2> QED BY <1>5, <2>1, <2>2
<1> QED BY <1>10, <1>11 DEF V

\* The loop goes on with a frame that knows one more move.
LEMMA NodeGoesOn ==
  ASSUME NEW s \in Setups, NEW r, NEW f, FrameOK(s, r, f), f.step \in {"full", "null"},
         f.proc # "root", f.move \in moves_of(s.game, f.node),
         NEW score \in Inside, NEW g, g = UpdatedOf(f, score),
         ~f.in_iid => Bounds(score, classify_bound(score, f.low, f.high), FrameValue(s, f, f.move)),
         f.step = "null" => ~(score > f.alpha /\ score < f.beta), g.alpha < f.beta
  PROVE  FrameOK(s, r, g)
<1>1. f \in Frame /\ f.original_alpha < f.beta /\ f.depth # 0 /\ f.node \in Node
  BY FrameFields DEF FrameOK, WindowOK, DepthOK
<1>2. /\ g \in Frame /\ SameCall(f, g) /\ g.step = "loop" /\ g.todo = f.todo
      /\ g.reports = f.reports /\ g.best_line = f.best_line
  BY <1>1, UpdatedFields
<1>3. BestOK(s, g) /\ f.original_alpha <= g.alpha
  BY BestUpdated
<1>4. WindowOK(g)
  BY <1>1, <1>2, <1>3 DEF WindowOK, SameCall
<1>5. DepthOK(s, r, g)
  BY <1>1, <1>2 DEF FrameOK, DepthOK, SameCall
<1>6. StepOK(s, g)
  <2>1. ~must_pass(s.game, g.node)
    BY <1>1, <1>2, OneMove DEF SameCall
  <2> QED BY <1>2, <2>1 DEF FrameOK, StepOK, SameCall
<1>7. NodeOK(s, g)
  <2>1. \A k : FrameValue(s, g, k) = FrameValue(s, f, k)
    BY <1>2 DEF FrameValue, SameCall
  <2>2. ASSUME ~f.in_iid
        PROVE  /\ g.best_score > f.original_alpha =>
                    \E k \in Finished(s, g) : FrameValue(s, f, k) >= g.best_score
               /\ \A k \in Finished(s, g) : FrameValue(s, f, k) <= g.best_score
    BY <2>2, NodeScores
  <2> QED BY <1>2, <2>1, <2>2 DEF NodeOK, SameCall
<1>8. RootOK(s, r, g)
  BY <1>2 DEF RootOK, SameCall
<1> QED BY <1>2, <1>3, <1>4, <1>5, <1>6, <1>7, <1>8 DEF FrameOK

\* The loop ends with an answer to the window of the call.
LEMMA NodeAnswers ==
  ASSUME NEW s \in Setups, NEW r, NEW f, FrameOK(s, r, f), f.step \in {"full", "null"}, ~f.in_iid,
         f.proc # "root", f.move \in moves_of(s.game, f.node),
         NEW score \in Inside, NEW g, g = UpdatedOf(f, score),
         Bounds(score, classify_bound(score, f.low, f.high), FrameValue(s, f, f.move)),
         f.step = "null" => ~(score > f.alpha /\ score < f.beta),
         g.alpha >= f.beta \/ g.todo = {}
  PROVE  Bounds(g.best_score, classify_bound(g.best_score, f.original_alpha, f.beta),
                Minimax(s)[<<f.node, f.depth>>])
<1>1. /\ f \in Frame /\ f.original_alpha < f.beta /\ f.depth # 0 /\ f.node \in Node /\ f.depth \in Depth
      /\ f.original_alpha \in Int /\ f.beta \in Int /\ f.todo \subseteq moves_of(s.game, f.node)
      /\ f.alpha \in Int
  BY FrameFields DEF FrameOK, WindowOK, DepthOK, StepOK
<1>2. /\ SameCall(f, g) /\ g.step = "loop" /\ g.todo = f.todo
      /\ g.alpha = IF score > f.alpha THEN score ELSE f.alpha
  BY <1>1, UpdatedFields
<1>3. /\ Finished(s, g) = Finished(s, f) \cup {f.move} /\ g.best_score \in Inside
      /\ g.alpha >= f.beta => g.best_score >= f.beta
  BY BestUpdated
<1>4. g.best_score \in Int /\ score \in Int
  BY <1>3, ScoreRange
<1>5. /\ Finished(s, g) \subseteq moves_of(s.game, f.node) /\ Finished(s, g) # {}
      /\ g.todo = {} => Finished(s, g) = moves_of(s.game, f.node)
  BY <1>2, <1>3 DEF Finished, SameCall
<1>6. /\ g.best_score > f.original_alpha =>
           \E k \in Finished(s, g) : FrameValue(s, f, k) >= g.best_score
      /\ g.alpha < f.beta => \A k \in Finished(s, g) : FrameValue(s, f, k) <= g.best_score
  BY NodeScores
<1>7. g.best_score < f.beta =>
        /\ Finished(s, g) = moves_of(s.game, f.node)
        /\ \A k \in Finished(s, g) : FrameValue(s, f, k) <= g.best_score
  <2> SUFFICES ASSUME g.best_score < f.beta
               PROVE  /\ Finished(s, g) = moves_of(s.game, f.node)
                      /\ \A k \in Finished(s, g) : FrameValue(s, f, k) <= g.best_score
    OBVIOUS
  <2>1. g.alpha \in Int
    BY <1>1, <1>2, <1>4
  <2>2. ~(g.alpha >= f.beta)
    BY <1>1, <1>3, <1>4
  <2>3. g.alpha < f.beta /\ g.todo = {}
    BY <1>1, <2>1, <2>2
  <2>4. Finished(s, g) = moves_of(s.game, f.node)
    BY <1>5, <2>3
  <2>5. \A k \in Finished(s, g) : FrameValue(s, f, k) <= g.best_score
    BY <1>6, <2>3
  <2> QED BY <2>4, <2>5
<1> DEFINE n == f.node
           d == f.depth
           done == Finished(s, g)
           x == g.best_score
           low == f.original_alpha
           high == f.beta
<1>8. /\ x > low => \E k \in done : ValueOf(s, n, d, k) >= x
      /\ x < high => done = moves_of(s.game, n) /\ \A k \in done : ValueOf(s, n, d, k) <= x
  BY <1>6, <1>7 DEF FrameValue
<1>9. /\ n \in Node /\ d \in Depth /\ d # 0 /\ done \subseteq moves_of(s.game, n) /\ done # {}
      /\ x \in Int /\ low \in Int /\ high \in Int /\ low < high
  BY <1>1, <1>4, <1>5
<1> HIDE DEF n, d, done, x, low, high
<1>10. Bounds(x, classify_bound(x, low, high), Minimax(s)[<<n, d>>])
  BY <1>8, <1>9, LoopAnswers
<1> QED BY <1>10 DEF n, d, x, low, high

-----------------------------------------------------------------------------
(***************************************************************************)
(* What a finished move tells the root.                                    *)
(***************************************************************************)
NeedsResearch(f, score) == f.step = "null" /\ score > f.low /\ score < f.beta

NeedsTieResearch(s, f, score) ==
  /\ ~s.use_pvs /\ f.step = "full" /\ f.low = f.alpha
  /\ f.best_score > kScoreLoss
  /\ f.best_move # no_move /\ f.move < f.best_move
  /\ score = f.best_score /\ score <= f.alpha

LEMMA RootScores ==
  ASSUME NEW s \in Setups, NEW r, NEW f, FrameOK(s, r, f), f.step \in {"full", "null"},
         f.proc = "root", f.move \in moves_of(s.game, f.node),
         NEW score \in Inside, NEW g, g = UpdatedOf(f, score),
         Bounds(score, classify_bound(score, f.low, f.high), FrameValue(s, f, f.move)),
         ~NeedsResearch(f, score), ~NeedsTieResearch(s, f, score)
  PROVE  /\ g.best_score > f.original_alpha => FrameValue(s, f, g.best_move) >= g.best_score
         /\ g.best_score < f.beta => \A k \in Finished(s, g) : FrameValue(s, f, k) <= g.best_score
         /\ g.best_score < f.beta /\ g.best_score > f.original_alpha =>
              /\ FrameValue(s, f, g.best_move) = g.best_score
              /\ \A k \in Finished(s, g) : k < g.best_move => FrameValue(s, f, k) < g.best_score
<1> DEFINE m == f.move
           V(k) == FrameValue(s, f, k)
           F == Finished(s, f)
           bs == f.best_score
           bm == f.best_move
           al == f.alpha
           orig == f.original_alpha
           beta == f.beta
           low == f.low
           high == f.high
           bs2 == g.best_score
           bm2 == g.best_move
<1>1. /\ f \in Frame /\ orig <= al /\ al < beta /\ orig < beta /\ low < high
      /\ f.step = "full" => high = beta
      /\ f.step = "null" => high = low + 1
      /\ Looping(f) /\ RootBestOK(s, f) /\ RootLowOK(s, f)
  BY DEF FrameOK, WindowOK, RootOK, StepOK, Looping
<1>2. /\ f.node \in Node /\ f.depth \in Depth /\ f.depth # 0
      /\ al \in Int /\ beta \in Int /\ orig \in Int /\ bs \in Int /\ bm \in Int /\ m \in Int
      /\ low \in Int /\ high \in Int /\ score \in Int /\ kScoreLoss \in Int /\ kScoreLoss <= orig
      /\ kScoreLoss < score
  BY <1>1, FrameFields, ScoreRange DEF FrameOK, DepthOK, Frame
<1>3. \A k \in moves_of(s.game, f.node) : V(k) \in Int /\ k \in Int /\ k # pass_move
  <2> TAKE k \in moves_of(s.game, f.node)
  <2>1. ValueOf(s, f.node, f.depth, k) \in Inside
    BY <1>2, ValueInside
  <2>2. k \in Square
    BY <1>2, Moves
  <2> QED BY <2>1, <2>2, ScoreRange DEF FrameValue, Square, pass_move
<1>4. V(m) \in Int /\ m # pass_move /\ \A k \in F : V(k) \in Int /\ k \in Int
  BY <1>3 DEF Finished
<1>5. \/ /\ bm = no_move /\ bs = kScoreLoss /\ al = orig
      \/ /\ bm # no_move /\ bm \in F /\ kScoreLoss < bs /\ bs <= al
         /\ al = orig \/ al = bs
  BY <1>1, BestCases, ScoreRange
<1>6. \/ /\ low = al
         /\ bm = no_move \/ m > bm \/ (~s.use_pvs /\ f.step = "full")
      \/ bm # no_move /\ m < bm /\ low = bs - 1
  BY <1>1, <1>4 DEF RootLowOK
<1>7. bs < beta
  BY <1>1, <1>2, <1>5
<1>8. /\ \A k \in F : V(k) <= bs
      /\ bs > orig => V(bm) = bs /\ \A k \in F : k < bm => V(k) < bs
  BY <1>1, <1>7 DEF RootBestOK
<1>9. /\ Finished(s, g) = F \cup {m}
      /\ \/ /\ bs2 = score /\ bm2 = m
            /\ bm = no_move \/ score > bs \/ (score = bs /\ m < bm)
         \/ /\ bs2 = bs /\ bm2 = bm /\ bm # no_move
            /\ score < bs \/ (score = bs /\ m > bm)
  BY BestUpdated
<1>10. ~(/\ ~s.use_pvs /\ f.step = "full" /\ low = al /\ bs > kScoreLoss
         /\ bm # no_move /\ m < bm /\ score = bs /\ score <= al)
  BY DEF NeedsTieResearch
<1>11. Bounds(score, classify_bound(score, low, high), V(m))
  OBVIOUS
<1>12. high = beta \/ (high = low + 1 /\ ~(score > low /\ score < beta))
  BY <1>1 DEF NeedsResearch
<1> HIDE DEF m, V, F, bs, bm, al, orig, beta, low, high, bs2, bm2
<1>13. low <= al
  BY <1>2, <1>5, <1>6
<1>14. /\ score <= low => V(m) <= score
       /\ score >= beta => V(m) >= score
       /\ low < score /\ score < beta => V(m) = score
  <2>1. /\ score <= low => V(m) <= score
        /\ score >= high => V(m) >= score
        /\ low < score /\ score < high => V(m) = score
    BY <1>1, <1>2, <1>4, <1>11, BoundsCases
  <2> QED BY <1>1, <1>2, <1>4, <1>12, <1>13, <2>1
<1>15. CASE /\ bs2 = score /\ bm2 = m
            /\ bm = no_move \/ score > bs \/ (score = bs /\ m < bm)
  <2>1. score > orig => score > low
    <3> SUFFICES ASSUME score > orig, score <= low PROVE FALSE
      BY <1>2
    <3>1. bm # no_move
      BY <1>2, <1>5, <1>6
    <3>2. al = bs /\ low = al /\ score = bs /\ m < bm
      BY <1>2, <1>5, <1>6, <1>15, <3>1
    <3>3. ~s.use_pvs /\ f.step = "full" /\ bs > kScoreLoss /\ score <= al
      BY <1>2, <1>5, <1>6, <3>1, <3>2
    <3> QED BY <1>10, <3>1, <3>2, <3>3
  <2>2. score > orig => V(m) >= score
    BY <1>2, <1>4, <1>14, <2>1
  <2>3. bs <= score
    BY <1>2, <1>5, <1>15
  <2>4. score < beta => V(m) <= score /\ \A k \in F : V(k) <= score
    BY <1>2, <1>4, <1>8, <1>14, <2>3
  <2>5. ASSUME score < beta, score > orig, NEW k \in F, k < m
        PROVE  V(k) < score
    <3>1. CASE score > bs
      BY <1>2, <1>4, <1>8, <3>1
    <3>2. CASE score = bs /\ m < bm
      BY <1>2, <1>4, <1>8, <2>5, <3>2
    <3>3. CASE bm = no_move
      <4>1. bs = kScoreLoss
        BY <1>5, <3>3
      <4> QED BY <1>2, <1>4, <1>8, <4>1
    <3> QED BY <1>15, <3>1, <3>2, <3>3
  <2>6. score < beta /\ score > orig => V(m) = score
    BY <1>2, <1>4, <2>2, <2>4
  <2>7. ~(m < m)
    BY <1>2
  <2>8. /\ bs2 > orig => V(bm2) >= bs2
        /\ bs2 < beta => \A k \in Finished(s, g) : V(k) <= bs2
        /\ bs2 < beta /\ bs2 > orig =>
             /\ V(bm2) = bs2
             /\ \A k \in Finished(s, g) : k < bm2 => V(k) < bs2
    BY <1>9, <1>15, <2>2, <2>4, <2>5, <2>6, <2>7
  <2> QED BY <2>8 DEF V, bs2, bm2, orig, beta
<1>16. CASE /\ bs2 = bs /\ bm2 = bm /\ bm # no_move
            /\ score < bs \/ (score = bs /\ m > bm)
  <2>1. V(m) <= score
    BY <1>2, <1>4, <1>7, <1>14, <1>16
  <2>2. V(m) <= bs /\ (m < bm => V(m) < bs)
    BY <1>2, <1>4, <1>16, <2>1
  <2>3. V(bm) \in Int /\ (bs > orig => V(bm) >= bs)
    BY <1>2, <1>4, <1>5, <1>8, <1>16
  <2>4. /\ bs2 > orig => V(bm2) >= bs2
        /\ bs2 < beta => \A k \in Finished(s, g) : V(k) <= bs2
        /\ bs2 < beta /\ bs2 > orig =>
             /\ V(bm2) = bs2
             /\ \A k \in Finished(s, g) : k < bm2 => V(k) < bs2
    BY <1>8, <1>9, <1>16, <2>2, <2>3
  <2> QED BY <2>4 DEF V, bs2, bm2, orig, beta
<1> QED BY <1>9, <1>15, <1>16

\* A report of a root move: its score bounds the move's value, its line starts
\* with the move.
ReportOK(s, f, p) ==
  /\ p \in Report /\ Bounds(p.score, p.bound, FrameValue(s, f, p.move))
  /\ LegalLine(s, RootNode, p.line) /\ p.line # << >> /\ p.line[1] = p.move

LEMMA AppendedReports ==
  ASSUME NEW s, NEW f \in Frame, RootReportsOK(s, f),
         NEW g \in Frame, g.node = f.node, g.depth = f.depth, g.step # "report",
         NEW p, ReportOK(s, f, p), g.reports = Append(f.reports, p),
         Finished(s, g) = Finished(s, f) \cup {p.move}
  PROVE  RootReportsOK(s, g)
<1>1. f.reports \in Seq(Report) /\ p \in Report /\ Len(f.reports) \in Nat
  BY DEF Frame, ReportOK
<1>2. /\ Len(g.reports) = Len(f.reports) + 1 /\ g.reports[Len(f.reports) + 1] = p
      /\ \A i \in 1 .. Len(f.reports) : g.reports[i] = f.reports[i]
  BY <1>1
<1>3. \A m : FrameValue(s, g, m) = FrameValue(s, f, m)
  BY DEF FrameValue
<1>4. /\ \A i \in 1 .. Len(f.reports) :
           /\ f.reports[i].move \in Finished(s, f)
           /\ Bounds(f.reports[i].score, f.reports[i].bound, FrameValue(s, f, f.reports[i].move))
           /\ LegalLine(s, RootNode, f.reports[i].line) /\ f.reports[i].line # << >>
           /\ f.reports[i].line[1] = f.reports[i].move
      /\ \A m \in Finished(s, f) : \E i \in 1 .. Len(f.reports) : f.reports[i].move = m
  BY DEF RootReportsOK
<1>5. ASSUME NEW i \in 1 .. Len(g.reports)
      PROVE  /\ g.reports[i].move \in Finished(s, g)
             /\ Bounds(g.reports[i].score, g.reports[i].bound, FrameValue(s, g, g.reports[i].move))
             /\ LegalLine(s, RootNode, g.reports[i].line) /\ g.reports[i].line # << >>
             /\ g.reports[i].line[1] = g.reports[i].move
  <2>1. CASE i = Len(f.reports) + 1
    BY <1>2, <1>3, <2>1 DEF ReportOK
  <2>2. CASE i # Len(f.reports) + 1
    <3>1. i \in 1 .. Len(f.reports) /\ g.reports[i] = f.reports[i]
      BY <1>1, <1>2, <2>2
    <3> QED BY <1>3, <1>4, <3>1
  <2> QED BY <2>1, <2>2
<1>6. ASSUME NEW m \in Finished(s, g)
      PROVE  \E i \in 1 .. Len(g.reports) : g.reports[i].move = m
  <2>1. CASE m = p.move
    <3>1. Len(f.reports) + 1 \in 1 .. Len(g.reports)
      BY <1>1, <1>2
    <3> QED BY <1>2, <2>1, <3>1
  <2>2. CASE m \in Finished(s, f)
    <3>1. PICK i \in 1 .. Len(f.reports) : f.reports[i].move = m
      BY <1>4, <2>2
    <3>2. i \in 1 .. Len(g.reports) /\ g.reports[i] = f.reports[i]
      BY <1>1, <1>2
    <3> QED BY <3>1, <3>2
  <2> QED BY <2>1, <2>2
<1> QED BY <1>5, <1>6 DEF RootReportsOK

\* publish_root_move
RootUpdatedOf(f, score, p) ==
  LET g == UpdatedOf(f, score)
      h == [g EXCEPT !.reports = Append(@, p),
                     !.best_line = IF is_better(score, f.move, f.best_score, f.best_move)
                                   THEN p.line ELSE @]
  IN  [h EXCEPT !.step = IF h.alpha >= h.beta \/ h.todo = {} THEN "complete" ELSE "loop"]

LEMMA RootUpdatedFields ==
  ASSUME NEW f \in Frame, NEW score \in Inside, NEW p \in Report,
         NEW g, g = UpdatedOf(f, score), NEW h, h = RootUpdatedOf(f, score, p)
  PROVE  /\ h \in Frame /\ SameCall(f, h)
         /\ h.step = IF g.alpha >= f.beta \/ f.todo = {} THEN "complete" ELSE "loop"
         /\ h.todo = f.todo /\ h.alpha = g.alpha /\ h.best_score = g.best_score
         /\ h.best_move = g.best_move /\ h.reports = Append(f.reports, p)
         /\ h.best_line = IF is_better(score, f.move, f.best_score, f.best_move)
                          THEN p.line ELSE f.best_line
<1>1. /\ g \in Frame /\ SameCall(f, g) /\ g.todo = f.todo /\ g.reports = f.reports
      /\ g.best_line = f.best_line
  BY UpdatedFields
<1> DEFINE better == is_better(score, f.move, f.best_score, f.best_move)
           k == [g EXCEPT !.reports = Append(@, p), !.best_line = IF better THEN p.line ELSE @]
<1>2. h = [k EXCEPT !.step = IF k.alpha >= k.beta \/ k.todo = {} THEN "complete" ELSE "loop"]
  BY DEF RootUpdatedOf
<1> HIDE DEF better
<1>3. Append(g.reports, p) \in Seq(Report) /\ (IF better THEN p.line ELSE g.best_line) \in Seq(Int)
  BY <1>1 DEF Frame, Report
<1>4. /\ k \in Frame /\ k.proc = g.proc /\ k.node = g.node /\ k.depth = g.depth /\ k.ply = g.ply
      /\ k.in_iid = g.in_iid /\ k.original_alpha = g.original_alpha /\ k.beta = g.beta
      /\ k.todo = g.todo /\ k.alpha = g.alpha /\ k.best_score = g.best_score
      /\ k.best_move = g.best_move /\ k.reports = Append(g.reports, p)
      /\ k.best_line = IF better THEN p.line ELSE g.best_line
  BY <1>1, <1>3 DEF Frame
<1> HIDE DEF k
<1>5. /\ h \in Frame /\ h.proc = k.proc /\ h.node = k.node /\ h.depth = k.depth /\ h.ply = k.ply
      /\ h.in_iid = k.in_iid /\ h.original_alpha = k.original_alpha /\ h.beta = k.beta
      /\ h.step = IF k.alpha >= k.beta \/ k.todo = {} THEN "complete" ELSE "loop"
      /\ h.todo = k.todo /\ h.alpha = k.alpha /\ h.best_score = k.best_score
      /\ h.best_move = k.best_move /\ h.reports = k.reports
      /\ h.best_line = k.best_line
  BY <1>2, <1>4 DEF Frame
<1> QED BY <1>1, <1>4, <1>5 DEF SameCall, better

\* The root goes on, or completes its reports, knowing one more move.
LEMMA RootGoesOn ==
  ASSUME NEW s \in Setups, NEW r, NEW f, FrameOK(s, r, f), f.step \in {"full", "null"},
         f.proc = "root", f.move \in moves_of(s.game, f.node),
         NEW score \in Inside, ~NeedsResearch(f, score), ~NeedsTieResearch(s, f, score),
         NEW p, ReportOK(s, f, p), p.move = f.move, p.score = score,
         p.bound = classify_bound(score, f.low, f.high),
         NEW h, h = RootUpdatedOf(f, score, p)
  PROVE  FrameOK(s, r, h) /\ SameCall(f, h) /\ ~Waiting(h) /\ h.step # "enter"
<1> DEFINE g == UpdatedOf(f, score)
<1>1. /\ f \in Frame /\ f.original_alpha < f.beta /\ f.depth # 0 /\ f.node \in Node
      /\ f.original_alpha \in Int /\ f.beta \in Int /\ p \in Report
      /\ f.todo \subseteq moves_of(s.game, f.node)
  BY FrameFields DEF FrameOK, WindowOK, DepthOK, ReportOK, StepOK
<1>2. /\ h \in Frame /\ SameCall(f, h)
      /\ h.step = IF g.alpha >= f.beta \/ f.todo = {} THEN "complete" ELSE "loop"
      /\ h.todo = f.todo /\ h.alpha = g.alpha /\ h.best_score = g.best_score
      /\ h.best_move = g.best_move /\ h.reports = Append(f.reports, p)
      /\ h.best_line = IF is_better(score, f.move, f.best_score, f.best_move)
                       THEN p.line ELSE f.best_line
  BY <1>1, RootUpdatedFields
<1>3. /\ g \in Frame /\ SameCall(f, g) /\ g.step = "loop" /\ g.todo = f.todo
      /\ g.best_move = IF is_better(score, f.move, f.best_score, f.best_move) THEN f.move ELSE f.best_move
  BY <1>1, UpdatedFields
<1>4. /\ Finished(s, g) = Finished(s, f) \cup {f.move}
      /\ BestOK(s, g) /\ g.best_move # no_move /\ g.best_score \in Inside
      /\ f.original_alpha <= g.alpha
      /\ g.alpha >= f.beta => g.best_score >= f.beta
  BY BestUpdated
<1>5. /\ g.best_score > f.original_alpha => FrameValue(s, f, g.best_move) >= g.best_score
      /\ g.best_score < f.beta => \A k \in Finished(s, g) : FrameValue(s, f, k) <= g.best_score
      /\ g.best_score < f.beta /\ g.best_score > f.original_alpha =>
           /\ FrameValue(s, f, g.best_move) = g.best_score
           /\ \A k \in Finished(s, g) : k < g.best_move => FrameValue(s, f, k) < g.best_score
  BY RootScores DEF ReportOK
<1>6. g.alpha \in Int /\ g.best_score \in Int
  BY <1>3, <1>4, FrameFields
<1> HIDE DEF g
<1>7. Finished(s, h) = Finished(s, g) /\ h.step \in {"complete", "loop"}
  BY <1>2, <1>3 DEF Finished, SameCall
<1>8. \A k : FrameValue(s, h, k) = FrameValue(s, f, k)
  BY <1>2 DEF FrameValue, SameCall
<1>9. WindowOK(h)
  BY <1>1, <1>2, <1>4, <1>6 DEF WindowOK, SameCall
<1>10. BestOK(s, h)
  <2>1. /\ g.best_move \in Finished(s, g) /\ g.best_score \in Inside
        /\ g.best_score <= g.alpha /\ g.alpha \in {g.original_alpha, g.best_score}
    BY <1>3, <1>4 DEF BestOK
  <2> QED BY <1>2, <1>3, <1>7, <2>1 DEF BestOK, SameCall
<1>11. DepthOK(s, r, h)
  BY <1>1, <1>2 DEF FrameOK, DepthOK, SameCall
<1>12. StepOK(s, h)
  <2>1. ~must_pass(s.game, f.node)
    BY <1>1, OneMove
  <2> QED BY <1>1, <1>2, <1>7, <2>1 DEF StepOK, SameCall
<1>13. NodeOK(s, h)
  BY <1>2 DEF NodeOK, SameCall
<1>14. RootBestOK(s, h)
  <2>1. h.best_score < f.beta /\ h.step \in {"report", "complete"} => h.todo = {}
    BY <1>1, <1>2, <1>4, <1>6
  <2>2. /\ h.best_score > h.original_alpha => FrameValue(s, h, h.best_move) >= h.best_score
        /\ h.best_score < h.beta => \A k \in Finished(s, h) : FrameValue(s, h, k) <= h.best_score
        /\ h.best_score < h.beta /\ h.best_score > h.original_alpha =>
             /\ FrameValue(s, h, h.best_move) = h.best_score
             /\ \A k \in Finished(s, h) : k < h.best_move => FrameValue(s, h, k) < h.best_score
    BY <1>2, <1>5, <1>7, <1>8 DEF SameCall
  <2>3. h.beta = f.beta
    BY <1>2 DEF SameCall
  <2> QED BY <2>1, <2>2, <2>3 DEF RootBestOK
<1>15. RootReportsOK(s, h)
  BY <1>1, <1>2, <1>4, <1>7, AppendedReports DEF FrameOK, RootOK, SameCall
<1>16. RootLineOK(s, h)
  <2>1. RootLineOK(s, f)
    BY DEF FrameOK, RootOK
  <2> QED BY <1>2, <1>3, <2>1 DEF RootLineOK, ReportOK
<1>17. RootOK(s, r, h)
  <2>1. /\ f.node = RootNode /\ f.depth = r.depth /\ f.ply = 0 /\ ~f.in_iid
        /\ f.original_alpha = r.alpha /\ f.beta = r.beta
    BY DEF FrameOK, RootOK
  <2>2. RootLowOK(s, h)
    BY <1>7 DEF RootLowOK
  <2> QED BY <1>2, <1>4, <1>7, <1>14, <1>15, <1>16, <2>1, <2>2 DEF RootOK, SameCall
<1>18. FrameOK(s, r, h)
  BY <1>2, <1>9, <1>10, <1>11, <1>12, <1>13, <1>17 DEF FrameOK
<1> QED BY <1>2, <1>7, <1>18 DEF Waiting

-----------------------------------------------------------------------------
(***************************************************************************)
(* The exact reports of several lines.                                     *)
(***************************************************************************)
LEMMA LowestInexact ==
  ASSUME NEW s \in Setups, NEW f \in Frame, Inexact(s, f) # {}
  PROVE  /\ lowest(Inexact(s, f)) \in 1 .. Len(f.reports)
         /\ f.reports[lowest(Inexact(s, f))] \in Report /\ s.multi_pv # 1
<1>1. /\ Inexact(s, f) \subseteq 1 .. Len(f.reports) /\ s.multi_pv # 1
      /\ f.reports \in Seq(Report) /\ Len(f.reports) \in Nat
  BY DEF Inexact, Frame
<1>2. Inexact(s, f) \in SUBSET Nat
  BY <1>1
<1>3. \E x \in Inexact(s, f) : \A y \in Inexact(s, f) : x <= y
  BY <1>2, LeastNumber
<1>4. lowest(Inexact(s, f)) \in Inexact(s, f)
  BY <1>3 DEF lowest
<1>5. lowest(Inexact(s, f)) \in 1 .. Len(f.reports)
  BY <1>1, <1>4
<1> QED BY <1>1, <1>5, ElementOfSeq

\* complete_exact_root_move_reports searches the first inexact report again.
LEMMA ReportWaits ==
  ASSUME NEW s \in Setups, NEW r, NEW f, FrameOK(s, r, f), f.proc = "root", f.step = "complete",
         Inexact(s, f) # {}, NEW m, m = f.reports[lowest(Inexact(s, f))].move,
         NEW g, g = WaitOf(f, "report", m, kScoreLoss, kScoreWin)
  PROVE  FrameOK(s, r, g) /\ SameCall(f, g) /\ LegalStep(s, f.node, m)
<1>1. f \in Frame /\ RootReportsOK(s, f) /\ RootBestOK(s, f) /\ RootLineOK(s, f)
  BY DEF FrameOK, RootOK
<1>2. m \in Finished(s, f)
  BY <1>1, LowestInexact DEF RootReportsOK
<1>3. m \in moves_of(s.game, f.node) /\ m \notin f.todo
  BY <1>2 DEF Finished
<1>4. m \in Int /\ f.node \in Node
  <2>1. f.node \in Node
    BY <1>1, FrameFields
  <2>2. m \in Square
    BY <1>3, <2>1, Moves
  <2> QED BY <2>1, <2>2 DEF Square
<1>5. /\ g \in Frame /\ SameCall(f, g) /\ g.step = "report" /\ g.move = m /\ g.todo = f.todo \ {m}
      /\ g.low = kScoreLoss /\ g.high = kScoreWin
      /\ g.alpha = f.alpha /\ g.best_score = f.best_score /\ g.best_move = f.best_move
      /\ g.reports = f.reports /\ g.best_line = f.best_line
  BY <1>1, <1>4, ScoreRange DEF WaitOf, Frame, SameCall
<1>6. g.todo = f.todo
  BY <1>3, <1>5
<1>7. Finished(s, g) = Finished(s, f) /\ Inexact(s, g) = Inexact(s, f)
  BY <1>5, <1>6 DEF Finished, Inexact, SameCall
<1>8. \A k : FrameValue(s, g, k) = FrameValue(s, f, k)
  BY <1>5 DEF FrameValue, SameCall
<1>9. WindowOK(g)
  BY <1>5 DEF FrameOK, WindowOK, SameCall
<1>10. BestOK(s, g)
  BY <1>5, <1>7 DEF FrameOK, BestOK, SameCall
<1>11. DepthOK(s, r, g)
  BY <1>5 DEF FrameOK, DepthOK, SameCall
<1>12. StepOK(s, g)
  BY <1>5, <1>6 DEF FrameOK, StepOK, SameCall
<1>13. NodeOK(s, g)
  BY <1>5 DEF NodeOK, SameCall
<1>14. RootBestOK(s, g)
  BY <1>1, <1>5, <1>6, <1>7, <1>8 DEF RootBestOK, SameCall
<1>15. RootReportsOK(s, g)
  BY <1>1, <1>5, <1>7, <1>8 DEF RootReportsOK
<1>16. RootLineOK(s, g)
  BY <1>1, <1>5 DEF RootLineOK
<1>17. RootOK(s, r, g)
  <2>1. RootLowOK(s, g)
    BY <1>5 DEF RootLowOK
  <2> QED BY <1>5, <1>14, <1>15, <1>16, <2>1 DEF FrameOK, RootOK, SameCall
<1>18. FrameOK(s, r, g)
  BY <1>5, <1>9, <1>10, <1>11, <1>12, <1>13, <1>17 DEF FrameOK
<1> QED BY <1>3, <1>5, <1>18 DEF LegalStep

\* The inexact report gets the score of the full range of scores.
ReportedOf(f, i, p) == [f EXCEPT !.reports[i] = p, !.step = "complete"]

LEMMA ReportedFields ==
  ASSUME NEW f \in Frame, NEW i \in 1 .. Len(f.reports), NEW p \in Report,
         NEW g, g = ReportedOf(f, i, p)
  PROVE  /\ g \in Frame /\ SameCall(f, g) /\ g.step = "complete" /\ g.todo = f.todo
         /\ g.alpha = f.alpha /\ g.best_score = f.best_score /\ g.best_move = f.best_move
         /\ g.best_line = f.best_line /\ Len(g.reports) = Len(f.reports)
         /\ \A j \in 1 .. Len(f.reports) : g.reports[j] = IF j = i THEN p ELSE f.reports[j]
<1> DEFINE reports == [f.reports EXCEPT ![i] = p]
<1>1. f.reports \in Seq(Report)
  BY DEF Frame
<1>2. /\ reports \in Seq(Report) /\ Len(reports) = Len(f.reports)
      /\ \A j \in 1 .. Len(f.reports) : reports[j] = IF j = i THEN p ELSE f.reports[j]
  BY <1>1, ExceptSeq
<1>3. g = [[f EXCEPT !.reports = reports] EXCEPT !.step = "complete"]
  BY DEF ReportedOf, Frame
<1> HIDE DEF reports
<1>4. /\ g \in Frame /\ SameCall(f, g) /\ g.step = "complete" /\ g.todo = f.todo
      /\ g.alpha = f.alpha /\ g.best_score = f.best_score /\ g.best_move = f.best_move
      /\ g.best_line = f.best_line /\ g.reports = reports
  BY <1>2, <1>3 DEF Frame, SameCall
<1> QED BY <1>2, <1>4

LEMMA ReportStored ==
  ASSUME NEW s \in Setups, NEW r, NEW f, FrameOK(s, r, f), f.proc = "root", f.step = "report",
         NEW p, ReportOK(s, f, p), p.move = f.move,
         NEW g, g = ReportedOf(f, lowest(Inexact(s, f)), p)
  PROVE  FrameOK(s, r, g) /\ SameCall(f, g) /\ g.step = "complete" /\ s.multi_pv # 1
<1> DEFINE i == lowest(Inexact(s, f))
<1>1. /\ f \in Frame /\ RootReportsOK(s, f) /\ RootBestOK(s, f) /\ RootLineOK(s, f)
      /\ Inexact(s, f) # {} /\ f.move = f.reports[i].move /\ p \in Report
  BY DEF FrameOK, RootOK, RootReportsOK, ReportOK
<1>2. i \in 1 .. Len(f.reports) /\ s.multi_pv # 1
  BY <1>1, LowestInexact
<1> HIDE DEF i
<1>3. /\ g \in Frame /\ SameCall(f, g) /\ g.step = "complete" /\ g.todo = f.todo
      /\ g.alpha = f.alpha /\ g.best_score = f.best_score /\ g.best_move = f.best_move
      /\ g.best_line = f.best_line /\ Len(g.reports) = Len(f.reports)
      /\ \A j \in 1 .. Len(f.reports) : g.reports[j] = IF j = i THEN p ELSE f.reports[j]
  BY <1>1, <1>2, ReportedFields DEF i
<1>4. Finished(s, g) = Finished(s, f)
  BY <1>3 DEF Finished, SameCall
<1>5. \A k : FrameValue(s, g, k) = FrameValue(s, f, k)
  BY <1>3 DEF FrameValue, SameCall
<1>6. WindowOK(g)
  BY <1>3 DEF FrameOK, WindowOK, SameCall
<1>7. BestOK(s, g)
  BY <1>3, <1>4 DEF FrameOK, BestOK, SameCall
<1>8. DepthOK(s, r, g)
  BY <1>3 DEF FrameOK, DepthOK, SameCall
<1>9. StepOK(s, g)
  BY <1>3 DEF FrameOK, StepOK, SameCall
<1>10. NodeOK(s, g)
  BY <1>3 DEF NodeOK, SameCall
<1>11. RootBestOK(s, g)
  BY <1>1, <1>3, <1>4, <1>5 DEF RootBestOK, SameCall
<1>12. RootReportsOK(s, g)
  <2>1. ASSUME NEW j \in 1 .. Len(g.reports)
        PROVE  /\ g.reports[j].move \in Finished(s, g)
               /\ Bounds(g.reports[j].score, g.reports[j].bound, FrameValue(s, g, g.reports[j].move))
               /\ LegalLine(s, RootNode, g.reports[j].line) /\ g.reports[j].line # << >>
               /\ g.reports[j].line[1] = g.reports[j].move
               /\ g.reports[j].move = f.reports[j].move
    <3>1. j \in 1 .. Len(f.reports) /\ f.reports[j].move \in Finished(s, f)
      BY <1>1, <1>3 DEF RootReportsOK
    <3>2. CASE j = i
      BY <1>1, <1>3, <1>4, <1>5, <3>1, <3>2 DEF ReportOK
    <3>3. CASE j # i
      BY <1>1, <1>3, <1>4, <1>5, <3>1, <3>3 DEF RootReportsOK
    <3> QED BY <3>2, <3>3
  <2>2. ASSUME NEW m \in Finished(s, g)
        PROVE  \E j \in 1 .. Len(g.reports) : g.reports[j].move = m
    <3>1. PICK j \in 1 .. Len(f.reports) : f.reports[j].move = m
      BY <1>1, <1>4 DEF RootReportsOK
    <3> QED BY <1>3, <2>1, <3>1
  <2> QED BY <1>3, <2>1, <2>2 DEF RootReportsOK
<1>13. RootLineOK(s, g)
  BY <1>1, <1>3 DEF RootLineOK
<1>14. RootOK(s, r, g)
  <2>1. RootLowOK(s, g)
    BY <1>3 DEF RootLowOK
  <2> QED BY <1>3, <1>11, <1>12, <1>13, <2>1 DEF FrameOK, RootOK, SameCall
<1>15. FrameOK(s, r, g)
  BY <1>3, <1>6, <1>7, <1>8, <1>9, <1>10, <1>14 DEF FrameOK
<1> QED BY <1>2, <1>3, <1>15

\* The best report has the highest score, and of those with it the lowest move.
LEMMA BestReport ==
  ASSUME NEW f \in Frame, f.reports # << >>
  PROVE  \E i \in 1 .. Len(f.reports) :
           /\ best_report(f) = f.reports[i]
           /\ \A j \in 1 .. Len(f.reports) :
                \/ f.reports[j].move = f.reports[i].move
                \/ f.reports[j].score < f.reports[i].score
                \/ f.reports[j].score = f.reports[i].score /\ f.reports[i].move <= f.reports[j].move
<1> DEFINE R == f.reports
           n == Len(R)
           T == {R[i].score : i \in 1 .. n}
           best == largest(T)
           M == {R[i].move : i \in {j \in 1 .. n : R[j].score = best}}
           Best(r) == \A i \in 1 .. n :
                        \/ R[i].move = r.move
                        \/ ~is_better(R[i].score, R[i].move, r.score, r.move)
<1>1. /\ R \in Seq(Report) /\ n \in Nat \ {0}
      /\ \A i \in 1 .. n : R[i] \in Report
  BY EmptySeq, ElementOfSeq DEF Frame
<1> HIDE DEF R, n
<1>2. \A i \in 1 .. n : /\ R[i].score \in Inside /\ R[i].score \in Int /\ R[i].move \in Nat
                        /\ R[i].move # no_move
  <2> TAKE i \in 1 .. n
  <2>1. R[i].score \in Inside /\ R[i].move \in Square
    BY <1>1 DEF Report
  <2> QED BY <2>1, ScoreRange DEF Square, no_move
<1>3. best \in T /\ \A t \in T : best >= t
  <2>1. T \in SUBSET Inside /\ T # {}
    BY <1>1, <1>2
  <2> QED BY <2>1, LargestScore
<1> HIDE DEF best
<1>4. M \in SUBSET Nat /\ M # {}
  BY <1>2, <1>3
<1>5. PICK k \in M : \A y \in M : k <= y
  BY <1>4, LeastNumber
<1>6. PICK i \in 1 .. n : R[i].score = best /\ R[i].move = k
  BY <1>5
<1>7. \A j \in 1 .. n :
        \/ R[j].score < R[i].score
        \/ R[j].score = R[i].score /\ R[i].move <= R[j].move
  <2> TAKE j \in 1 .. n
  <2>1. R[j].score <= best /\ R[j].score \in Int /\ best \in Int
    BY <1>2, <1>3, <1>6
  <2>2. R[j].score = best => k <= R[j].move
    BY <1>5
  <2> QED BY <1>6, <2>1, <2>2
<1>8. Best(R[i])
  <2> TAKE j \in 1 .. n
  <2>1. /\ R[j].score \in Int /\ R[i].score \in Int /\ R[j].move \in Nat /\ R[i].move \in Nat
        /\ R[i].move # no_move
    BY <1>2
  <2>2. \/ R[j].score < R[i].score
        \/ R[j].score = R[i].score /\ R[i].move <= R[j].move
    BY <1>7
  <2> QED BY <2>1, <2>2 DEF is_better
<1>9. \E r \in {R[j] : j \in 1 .. n} : Best(r)
  BY <1>8
<1>10. best_report(f) = CHOOSE r \in {R[j] : j \in 1 .. n} : Best(r)
  BY DEF best_report, R, n
<1> DEFINE r == best_report(f)
<1>11. r \in {R[j] : j \in 1 .. n} /\ Best(r)
  <2> HIDE DEF Best
  <2> QED BY <1>9, <1>10
<1> HIDE DEF r
<1>12. PICK h \in 1 .. n : r = R[h]
  BY <1>11
<1>13. \A j \in 1 .. n :
         \/ R[j].move = R[h].move
         \/ R[j].score < R[h].score
         \/ R[j].score = R[h].score /\ R[h].move <= R[j].move
  <2> TAKE j \in 1 .. n
  <2>1. R[j].move = R[h].move \/ ~is_better(R[j].score, R[j].move, R[h].score, R[h].move)
    BY <1>11, <1>12
  <2>2. /\ R[j].score \in Int /\ R[h].score \in Int /\ R[j].move \in Nat /\ R[h].move \in Nat
    BY <1>2
  <2> QED BY <2>1, <2>2 DEF is_better
<1> QED BY <1>12, <1>13 DEF r, R, n

\* recompute_best_root_move
RecomputedOf(f) ==
  [f EXCEPT !.best_score = best_report(f).score, !.best_move = best_report(f).move,
            !.best_line = best_report(f).line]

LEMMA BestRecomputed ==
  ASSUME NEW s \in Setups, NEW r, NEW f, FrameOK(s, r, f), f.proc = "root", f.step = "complete",
         Inexact(s, f) = {}, s.multi_pv # 1, NEW g, g = RecomputedOf(f)
  PROVE  FrameOK(s, r, g) /\ SameCall(f, g) /\ g.step = "complete"
<1>1. /\ f \in Frame /\ RootReportsOK(s, f) /\ RootBestOK(s, f) /\ f.best_move # no_move
      /\ f.original_alpha < f.beta /\ BestOK(s, f)
  BY DEF FrameOK, RootOK, WindowOK
<1>2. /\ f.original_alpha \in Int /\ f.beta \in Int /\ f.best_score \in Int /\ f.node \in Node
      /\ f.depth \in Depth /\ f.depth # 0
  BY <1>1, FrameFields DEF FrameOK, DepthOK
<1>3. /\ \A i \in 1 .. Len(f.reports) :
           /\ f.reports[i].move \in Finished(s, f) /\ f.reports[i] \in Report
           /\ FrameValue(s, f, f.reports[i].move) = f.reports[i].score
           /\ LegalLine(s, RootNode, f.reports[i].line) /\ f.reports[i].line # << >>
           /\ f.reports[i].line[1] = f.reports[i].move
      /\ \A m \in Finished(s, f) : \E i \in 1 .. Len(f.reports) : f.reports[i].move = m
  <2>1. ASSUME NEW i \in 1 .. Len(f.reports)
        PROVE  /\ f.reports[i] \in Report
               /\ FrameValue(s, f, f.reports[i].move) = f.reports[i].score
    <3>1. f.reports \in Seq(Report)
      BY <1>1 DEF Frame
    <3>2. f.reports[i] \in Report
      BY <3>1, ElementOfSeq
    <3>3. f.reports[i].bound = "exact"
      BY DEF Inexact
    <3>4. Bounds(f.reports[i].score, f.reports[i].bound, FrameValue(s, f, f.reports[i].move))
      BY <1>1 DEF RootReportsOK
    <3> QED BY <3>2, <3>3, <3>4 DEF Bounds
  <2> QED BY <1>1, <2>1 DEF RootReportsOK
<1>4. \A m \in Finished(s, f) : m # no_move /\ m \in Int /\ FrameValue(s, f, m) \in Int
  <2> TAKE m \in Finished(s, f)
  <2>1. m \in moves_of(s.game, f.node)
    BY DEF Finished
  <2>2. m \in Square /\ ValueOf(s, f.node, f.depth, m) \in Inside
    BY <1>2, <2>1, Moves, ValueInside
  <2> QED BY <2>2, ScoreRange DEF Square, no_move, FrameValue
<1>5. f.best_move \in Finished(s, f)
  BY <1>1 DEF BestOK
<1>6. f.reports # << >>
  <2>1. PICK i \in 1 .. Len(f.reports) : f.reports[i].move = f.best_move
    BY <1>3, <1>5
  <2>2. Len(<< >>) = 0
    OBVIOUS
  <2> QED BY <2>1, <2>2
<1>7. PICK i \in 1 .. Len(f.reports) :
        /\ best_report(f) = f.reports[i]
        /\ \A j \in 1 .. Len(f.reports) :
             \/ f.reports[j].move = f.reports[i].move
             \/ f.reports[j].score < f.reports[i].score
             \/ f.reports[j].score = f.reports[i].score /\ f.reports[i].move <= f.reports[j].move
  BY <1>1, <1>6, BestReport
<1> DEFINE p == f.reports[i]
<1>8. /\ p \in Report /\ p.move \in Finished(s, f) /\ FrameValue(s, f, p.move) = p.score
      /\ LegalLine(s, RootNode, p.line) /\ p.line # << >> /\ p.line[1] = p.move
  BY <1>3
<1>9. p.score \in Inside /\ p.score \in Int /\ p.score \in Score /\ p.move \in Int /\ p.line \in Seq(Int)
      /\ p.move # no_move
  BY <1>4, <1>8, ScoreRange DEF Report
<1>10. \A m \in Finished(s, f) : /\ FrameValue(s, f, m) <= p.score
                                 /\ m < p.move => FrameValue(s, f, m) < p.score
  <2> TAKE m \in Finished(s, f)
  <2>1. PICK j \in 1 .. Len(f.reports) : f.reports[j].move = m
    BY <1>3
  <2>2. FrameValue(s, f, m) = f.reports[j].score /\ m \in Int /\ FrameValue(s, f, m) \in Int
    BY <1>3, <1>4, <2>1
  <2>3. \/ m = p.move
        \/ FrameValue(s, f, m) < p.score
        \/ FrameValue(s, f, m) = p.score /\ p.move <= m
    BY <1>7, <2>1, <2>2
  <2> HIDE DEF p
  <2> QED BY <1>8, <1>9, <2>2, <2>3
<1>11. g = [f EXCEPT !.best_score = p.score, !.best_move = p.move, !.best_line = p.line]
  BY <1>7 DEF RecomputedOf
<1> HIDE DEF p
<1>12. /\ g \in Frame /\ SameCall(f, g) /\ g.step = "complete" /\ g.todo = f.todo
       /\ g.alpha = f.alpha /\ g.best_score = p.score /\ g.best_move = p.move
       /\ g.best_line = p.line /\ g.reports = f.reports
  BY <1>1, <1>9, <1>11 DEF Frame, SameCall
<1>13. Finished(s, g) = Finished(s, f)
  BY <1>12 DEF Finished, SameCall
<1>14. \A k : FrameValue(s, g, k) = FrameValue(s, f, k)
  BY <1>12 DEF FrameValue, SameCall
<1>15. WindowOK(g)
  BY <1>12 DEF FrameOK, WindowOK, SameCall
<1>16. BestOK(s, g)
  BY <1>8, <1>9, <1>12, <1>13 DEF BestOK
<1>17. DepthOK(s, r, g)
  BY <1>12 DEF FrameOK, DepthOK, SameCall
<1>18. StepOK(s, g)
  <2>1. ~must_pass(s.game, f.node)
    <3>1. f.best_move \in moves_of(s.game, f.node)
      BY <1>5 DEF Finished
    <3> QED BY <1>2, <3>1, OneMove
  <2> QED BY <1>12, <2>1 DEF FrameOK, StepOK, SameCall
<1>19. NodeOK(s, g)
  BY <1>12 DEF NodeOK, SameCall
<1>20. RootBestOK(s, g)
  <2>1. p.score < f.beta => f.todo = {}
    <3> SUFFICES ASSUME p.score < f.beta, f.best_score >= f.beta
                 PROVE  FALSE
      BY <1>1, <1>2 DEF RootBestOK
    <3>1. FrameValue(s, f, f.best_move) >= f.best_score
      BY <1>1, <1>2 DEF RootBestOK
    <3>2. FrameValue(s, f, f.best_move) <= p.score /\ FrameValue(s, f, f.best_move) \in Int
      BY <1>4, <1>5, <1>10
    <3> QED BY <1>2, <1>9, <3>1, <3>2
  <2>2. FrameValue(s, f, p.move) >= p.score
    BY <1>8, <1>9
  <2> QED BY <1>8, <1>10, <1>12, <1>13, <1>14, <2>1, <2>2 DEF RootBestOK, SameCall
<1>21. RootReportsOK(s, g)
  BY <1>1, <1>12, <1>13, <1>14 DEF RootReportsOK
<1>22. RootLineOK(s, g)
  BY <1>8, <1>12 DEF RootLineOK
<1>23. RootOK(s, r, g)
  <2>1. RootLowOK(s, g)
    BY <1>12 DEF RootLowOK
  <2> QED BY <1>9, <1>12, <1>20, <1>21, <1>22, <2>1 DEF FrameOK, RootOK, SameCall
<1>24. FrameOK(s, r, g)
  BY <1>12, <1>15, <1>16, <1>17, <1>18, <1>19, <1>23 DEF FrameOK
<1> QED BY <1>12, <1>24

-----------------------------------------------------------------------------
(***************************************************************************)
(* What the root publishes.                                                *)
(***************************************************************************)
Published(r, f, score, bound, line) ==
  [r EXCEPT !.running = FALSE, !.score = score, !.bound = bound, !.best_move = f.best_move,
            !.line = line, !.stopped = FALSE, !.reports = f.reports]

LeftBy(r, f) ==
  [r EXCEPT !.running = FALSE, !.score = f.best_score, !.bound = "lower", !.best_move = f.best_move,
            !.line = f.best_line, !.stopped = TRUE, !.reports = f.reports]

\* With its reports complete, the root's score answers the window of the search.
LEMMA RootAnswers ==
  ASSUME NEW s \in Setups, NEW r, NEW f, FrameOK(s, r, f), f.proc = "root", f.step = "complete"
  PROVE  Bounds(f.best_score, classify_bound(f.best_score, f.original_alpha, f.beta),
                Minimax(s)[<<f.node, f.depth>>])
<1> DEFINE n == f.node
           d == f.depth
           done == Finished(s, f)
           x == f.best_score
           low == f.original_alpha
           high == f.beta
<1>1. /\ f \in Frame /\ RootBestOK(s, f) /\ f.best_move # no_move /\ low < high /\ BestOK(s, f)
      /\ f.todo \subseteq moves_of(s.game, n)
  BY DEF FrameOK, RootOK, WindowOK, StepOK
<1>2. /\ n \in Node /\ d \in Depth /\ d # 0 /\ x \in Int /\ low \in Int /\ high \in Int
  BY <1>1, FrameFields DEF FrameOK, DepthOK
<1>3. f.best_move \in done /\ done \subseteq moves_of(s.game, n)
      /\ (f.todo = {} => done = moves_of(s.game, n))
  BY <1>1 DEF BestOK, Finished
<1>4. done # {}
  BY <1>3
<1>5. x > low => \E k \in done : ValueOf(s, n, d, k) >= x
  BY <1>1, <1>3 DEF RootBestOK, FrameValue
<1>6. x < high => done = moves_of(s.game, n) /\ \A k \in done : ValueOf(s, n, d, k) <= x
  BY <1>1, <1>3 DEF RootBestOK, FrameValue
<1> HIDE DEF n, d, done, x, low, high
<1>7. Bounds(x, classify_bound(x, low, high), Minimax(s)[<<n, d>>])
  BY <1>1, <1>2, <1>3, <1>4, <1>5, <1>6, LoopAnswers
<1> QED BY <1>7 DEF n, d, x, low, high

LEMMA RootPublishes ==
  ASSUME NEW s \in Setups, NEW r \in ResultType, NEW f, FrameOK(s, r, f), f.proc = "root",
         f.step = "complete", Inexact(s, f) = {},
         NEW bound, bound = classify_bound(f.best_score, r.alpha, r.beta),
         NEW q, q = Published(r, f, f.best_score, bound, f.best_line)
  PROVE  /\ q \in ResultType /\ ResultOK(s, q) /\ q.depth = r.depth
         /\ Bounds(f.best_score, bound, Minimax(s)[<<RootNode, r.depth>>]) /\ bound \in Bound
         /\ f.node = RootNode /\ f.depth = r.depth
         /\ f.best_move \in Square /\ f.best_score \in Inside
         /\ f.best_move \in moves_of(s.game, RootNode)
<1>1. /\ f \in Frame /\ RootBestOK(s, f) /\ RootReportsOK(s, f) /\ RootLineOK(s, f)
      /\ f.node = RootNode /\ f.depth = r.depth
      /\ f.original_alpha = r.alpha /\ f.beta = r.beta
      /\ f.best_move # no_move /\ BestOK(s, f) /\ f.depth # 0
      /\ f.todo \subseteq moves_of(s.game, f.node)
  BY DEF FrameOK, RootOK, DepthOK, StepOK
<1>2. /\ f.original_alpha \in Int /\ f.beta \in Int /\ f.best_score \in Int /\ f.best_score \in Score
      /\ f.best_line \in Seq(Int) /\ f.depth \in Depth
  BY <1>1, FrameFields DEF Frame
<1>3. bound \in Bound
  BY DEF classify_bound, Bound
<1>4. /\ q \in ResultType /\ q.depth = r.depth
      /\ q.score = f.best_score /\ q.bound = bound /\ q.best_move = f.best_move /\ q.line = f.best_line
      /\ q.stopped = FALSE /\ q.reports = f.reports
  <2>1. f.best_move \in Int /\ f.reports \in Seq(Report)
    BY <1>1 DEF Frame
  <2> QED BY <1>2, <1>3, <2>1 DEF Published, ResultType
<1>5. Bounds(f.best_score, bound, Minimax(s)[<<RootNode, r.depth>>])
  BY <1>1, RootAnswers
<1>6. /\ f.best_move \in Finished(s, f) /\ f.best_move \in Square /\ f.best_score \in Inside
      /\ f.best_move \in moves_of(s.game, RootNode)
  <2>1. f.best_move \in Finished(s, f) /\ f.best_score \in Inside
    BY <1>1 DEF BestOK
  <2>2. f.node \in Node
    BY <1>1, FrameFields
  <2> QED BY <1>1, <2>1, <2>2, Moves DEF Finished
<1>7. ASSUME bound = "exact"
      PROVE  /\ ValueOf(s, RootNode, r.depth, f.best_move) = f.best_score
             /\ \A m \in moves_of(s.game, RootNode) :
                  m < f.best_move => ValueOf(s, RootNode, r.depth, m) < f.best_score
  <2>1. f.best_score > f.original_alpha /\ f.best_score < f.beta
    BY <1>1, <1>2, <1>7 DEF classify_bound
  <2>2. /\ FrameValue(s, f, f.best_move) = f.best_score
        /\ \A m \in Finished(s, f) : m < f.best_move => FrameValue(s, f, m) < f.best_score
        /\ f.todo = {}
    BY <1>1, <2>1 DEF RootBestOK
  <2>3. Finished(s, f) = moves_of(s.game, RootNode)
    BY <1>1, <2>2 DEF Finished
  <2> QED BY <1>1, <2>2, <2>3 DEF FrameValue
<1>8. ASSUME s.multi_pv # 1, NEW i \in 1 .. Len(f.reports)
      PROVE  f.reports[i].score = ValueOf(s, RootNode, r.depth, f.reports[i].move)
  <2>1. f.reports[i].bound = "exact"
    BY <1>8 DEF Inexact
  <2>2. Bounds(f.reports[i].score, f.reports[i].bound, FrameValue(s, f, f.reports[i].move))
    BY <1>1 DEF RootReportsOK
  <2> QED BY <1>1, <2>1, <2>2 DEF Bounds, FrameValue
<1>9. ResultOK(s, q)
  <2>1. Bounds(q.score, q.bound, Minimax(s)[<<RootNode, q.depth>>])
    BY <1>4, <1>5
  <2>2. q.bound = "exact" =>
          /\ ValueOf(s, RootNode, q.depth, q.best_move) = q.score
          /\ \A m \in moves_of(s.game, RootNode) :
               m < q.best_move => ValueOf(s, RootNode, q.depth, m) < q.score
    BY <1>4, <1>7
  <2>3. s.multi_pv # 1 =>
          \A i \in 1 .. Len(q.reports) :
            q.reports[i].score = ValueOf(s, RootNode, q.depth, q.reports[i].move)
    BY <1>4, <1>8
  <2>4. /\ LegalLine(s, RootNode, q.line)
        /\ q.best_move # no_move => q.line # << >> /\ q.line[1] = q.best_move
    BY <1>1, <1>4 DEF RootLineOK
  <2> QED BY <1>4, <2>1, <2>2, <2>3, <2>4 DEF ResultOK
<1> QED BY <1>1, <1>3, <1>4, <1>5, <1>6, <1>9

LEMMA RootStops ==
  ASSUME NEW s \in Setups, NEW r \in ResultType, NEW f, FrameOK(s, r, f), f.proc = "root",
         NEW q, q = LeftBy(r, f)
  PROVE  q \in ResultType /\ ResultOK(s, q) /\ q.depth = r.depth
<1>1. /\ f \in Frame /\ RootBestOK(s, f) /\ RootLineOK(s, f)
      /\ f.node = RootNode /\ f.depth = r.depth /\ f.original_alpha = r.alpha /\ BestOK(s, f)
      /\ f.step = "enter" => f.best_move = no_move
  BY DEF FrameOK, RootOK, StepOK
<1>2. f.best_score \in Score /\ f.best_score \in Int /\ f.best_line \in Seq(Int)
      /\ f.depth \in Depth /\ f.node \in Node
  BY <1>1, FrameFields DEF Frame
<1>3. /\ q \in ResultType /\ q.depth = r.depth /\ q.alpha = r.alpha
      /\ q.score = f.best_score /\ q.best_move = f.best_move /\ q.line = f.best_line
      /\ q.stopped = TRUE
  <2>1. f.best_move \in Int /\ f.reports \in Seq(Report)
    BY <1>1 DEF Frame
  <2> QED BY <1>2, <2>1 DEF LeftBy, ResultType, Bound
<1>4. ASSUME f.best_move # no_move, r.alpha = kScoreLoss
      PROVE  f.best_score <= Minimax(s)[<<RootNode, r.depth>>]
  <2>1. f.best_move \in Finished(s, f) /\ f.best_score \in Inside /\ f.depth # 0
    BY <1>1, <1>4 DEF BestOK, FrameOK, DepthOK
  <2>2. f.best_score > f.original_alpha
    BY <1>1, <1>4, <2>1, ScoreRange
  <2>3. FrameValue(s, f, f.best_move) >= f.best_score
    BY <1>1, <2>2 DEF RootBestOK
  <2>4. f.best_move \in moves_of(s.game, f.node)
    BY <2>1 DEF Finished
  <2>5. /\ ValueOf(s, f.node, f.depth, f.best_move) \in Inside
        /\ ValueOf(s, f.node, f.depth, f.best_move) <= Minimax(s)[<<f.node, f.depth>>]
    BY <1>2, <2>1, <2>4, ValueInside
  <2>6. Minimax(s)[<<f.node, f.depth>>] \in Int /\ ValueOf(s, f.node, f.depth, f.best_move) \in Int
    BY <1>2, <2>5, MinimaxInside, ScoreRange
  <2> DEFINE a == ValueOf(s, f.node, f.depth, f.best_move)
             b == Minimax(s)[<<f.node, f.depth>>]
  <2>7. a >= f.best_score /\ a <= b /\ a \in Int /\ b \in Int
    BY <2>3, <2>5, <2>6 DEF FrameValue
  <2> HIDE DEF a, b
  <2>8. f.best_score <= b
    BY <1>2, <2>7
  <2> QED BY <1>1, <2>8 DEF b
<1>5. ResultOK(s, q)
  BY <1>1, <1>3, <1>4 DEF ResultOK, RootLineOK
<1> QED BY <1>3, <1>5

RootPassOf(f) == [f EXCEPT !.best_move = pass_move]

LEMMA RootPasses ==
  ASSUME NEW s \in Setups, NEW r \in ResultType, NEW f, FrameOK(s, r, f), f.proc = "root",
         f.step \in {"full", "null"}, f.move = pass_move, NEW score \in Inside,
         Bounds(score, classify_bound(score, f.low, f.high), FrameValue(s, f, f.move)),
         NEW line, LegalLine(s, RootNode, line), line # << >>, line[1] = pass_move,
         NEW bound, bound = classify_bound(score, r.alpha, r.beta),
         NEW g, g = RootPassOf(f),
         NEW q, q = Published(r, g, score, bound, line)
  PROVE  q \in ResultType /\ ResultOK(s, q) /\ q.depth = r.depth
<1>1. /\ f \in Frame /\ f.node = RootNode /\ f.depth = r.depth /\ f.depth # 0
      /\ f.original_alpha = r.alpha /\ f.beta = r.beta /\ RootReportsOK(s, f)
  BY DEF FrameOK, RootOK, DepthOK
<1>2. f.node \in Node /\ f.depth \in Depth
  BY <1>1, FrameFields
<1>3. must_pass(s.game, f.node) /\ f.low = f.alpha /\ f.best_move = no_move /\ f.step = "full"
      /\ f.high = f.beta
  <2>1. ~(f.move \in moves_of(s.game, f.node))
    BY <1>2, OneMove
  <2> QED BY <2>1 DEF FrameOK, StepOK
<1>4. f.alpha = f.original_alpha
  <2>1. Looping(f)
    BY <1>3 DEF Looping
  <2> QED BY <1>3, <2>1, BestCases
<1>5. FrameValue(s, f, f.move) = Minimax(s)[<<RootNode, r.depth>>]
  <2>1. IsMinimax(s, Minimax(s))
    BY MinimaxUnfolds
  <2> DEFINE v == Minimax(s)
  <2> HIDE DEF v
  <2>2. v[<<f.node, f.depth>>] = -v[<<s.game.passes[f.node], child_depth(s, f.depth, pass_move)>>]
    BY <1>1, <1>2, <1>3, <2>1 DEF IsMinimax, v
  <2>3. play(s.game, f.node, pass_move) = s.game.passes[f.node]
    BY <1>2, <1>3, Passes
  <2> QED BY <1>1, <2>2, <2>3 DEF FrameValue, ValueOf, v
<1>6. Bounds(score, bound, Minimax(s)[<<RootNode, r.depth>>])
  BY <1>1, <1>3, <1>4, <1>5
<1>7. g \in Frame /\ g.best_move = pass_move /\ g.reports = f.reports
  BY <1>1 DEF RootPassOf, Frame, pass_move
<1>8. bound \in Bound /\ score \in Score /\ line \in Seq(Int)
  BY ScoreRange DEF classify_bound, Bound, LegalLine
<1>9. /\ q \in ResultType /\ q.depth = r.depth
       /\ q.score = score /\ q.bound = bound /\ q.best_move = pass_move /\ q.line = line
       /\ q.stopped = FALSE /\ q.reports = f.reports
  <2>1. g.best_move \in Int /\ g.reports \in Seq(Report)
    BY <1>7 DEF Frame
  <2> QED BY <1>7, <1>8, <2>1 DEF Published, ResultType
<1>10. \A i \in 1 .. Len(f.reports) : FALSE
  <2> TAKE i \in 1 .. Len(f.reports)
  <2>1. f.reports[i].move \in moves_of(s.game, f.node)
    BY <1>1 DEF RootReportsOK, Finished
  <2> QED BY <1>2, <1>3, <2>1, Passes
<1>11. ResultOK(s, q)
  BY <1>6, <1>9, <1>10 DEF ResultOK
<1> QED BY <1>9, <1>11

-----------------------------------------------------------------------------
(***************************************************************************)
(* The state around the top frame.                                         *)
(***************************************************************************)
LEMMA TopFacts ==
  ASSUME IInv, frames # << >>
  PROVE  /\ setup \in Setups /\ result \in ResultType /\ result.depth \in Depth
         /\ searches # 0 /\ result.depth # 0
         /\ StackOK(setup, result, frames) /\ LinesOK(setup, frames, pv)
         /\ frame = Top(frames) /\ frame \in Frame /\ FrameOK(setup, result, frame)
         /\ frame.ply \in Ply /\ frame.node \in Node /\ pv \in [Ply -> Seq(Int)]
         /\ frame.step # "enter" \/ frame.proc = "root" => LegalLine(setup, frame.node, pv[frame.ply])
         /\ returned # no_return <=> Waiting(frame)
         /\ stopped \in BOOLEAN
<1>1. /\ setup \in Setups /\ result \in ResultType /\ stopped \in BOOLEAN
      /\ searches # 0 /\ result.depth # 0
      /\ StackOK(setup, result, frames) /\ LinesOK(setup, frames, pv)
      /\ ReturnOK(setup, frames, pv, returned)
  BY DEF IInv, CallsOK
<1>2. frame = Top(frames)
  BY DEF frame, Top
<1>3. frames \in Seq(Frame) /\ Len(frames) \in 1 .. Len(frames) /\ frame \in Frame
  BY <1>1, <1>2, NonEmptyStack DEF StackOK
<1>4. /\ FrameOK(setup, result, frame)
      /\ frame.step # "enter" \/ frame.proc = "root" => LegalLine(setup, frame.node, pv[frame.ply])
  BY <1>1, <1>3 DEF StackOK, LinesOK, LineStarted, frame
<1>5. returned # no_return <=> Waiting(frame)
  BY <1>1 DEF ReturnOK, frame
<1>6. frame.ply \in Ply /\ frame.node \in Node /\ result.depth \in Depth /\ pv \in [Ply -> Seq(Int)]
  BY <1>1, <1>3, FrameFields DEF ResultType, LinesOK
<1> QED BY <1>1, <1>2, <1>3, <1>4, <1>5, <1>6

\* A call that was not stopped has returned a score and a line.
LEMMA ScoreReturned ==
  ASSUME IInv, frames # << >>, returned # no_return, returned # stopped_return
  PROVE  /\ child_score \in Inside /\ returned.kind = "complete" /\ Waiting(frame)
         /\ frame.step # "iid" =>
              /\ LegalLine(setup, play(game, frame.node, frame.move), pv[frame.ply + 1])
              /\ ~frame.in_iid =>
                   Bounds(child_score, classify_bound(child_score, frame.low, frame.high),
                          FrameValue(setup, frame, frame.move))
<1>1. ReturnOK(setup, frames, pv, returned)
  BY DEF IInv, CallsOK
<1>2. PICK x \in Inside : returned = completed(x)
  BY <1>1 DEF ReturnOK
<1>3. returned.kind = "complete" /\ returned.score = x /\ child_score = -x
  BY <1>2 DEF completed, child_score
<1>4. AnswerOK(setup, frame, pv, x) /\ Waiting(frame)
  BY <1>1, <1>3 DEF ReturnOK, frame
<1> QED BY <1>3, <1>4, NegatedInside DEF AnswerOK, game

\* A kind of complete comes with a score.
LEMMA CompleteReturned ==
  ASSUME IInv, returned.kind = "complete"
  PROVE  returned # no_return /\ returned # stopped_return
BY DEF no_return, stopped_return

\* Within a search the state is right when the calls are.
LEMMA CallsKeepInvariant ==
  ASSUME IInv, frames # << >>, UNCHANGED <<setup, truth, result, searches>>, stopped' \in BOOLEAN,
         TableOK(setup, result, table'), CallsOK(setup, result, frames', pv', returned'),
         frames' # << >>
  PROVE  IInv'
<1>1. searches # 0
  BY TopFacts
<1> QED BY <1>1 DEF IInv, MaxSearches

\* A replaced or a longer stack is not empty.
LEMMA StackGoesOn ==
  ASSUME NEW fs \in Seq(Frame), fs # << >>, NEW g \in Frame
  PROVE  ReplaceTop(fs, g) # << >> /\ \A c \in Frame : PushCall(fs, g, c) # << >>
BY ReplacedTop, PushedCall

\* The search ends.
LEMMA EndKeepsInvariant ==
  ASSUME IInv, frames # << >>, UNCHANGED <<setup, truth, searches>>, stopped' \in BOOLEAN,
         frames' = << >>, returned' = no_return, pv' \in [Ply -> Seq(Int)],
         result' \in ResultType, result'.depth = result.depth, ResultOK(setup, result'),
         TableOK(setup, result, table')
  PROVE  IInv'
<1>1. searches # 0 /\ setup \in Setups
  BY TopFacts
<1>2. TableOK(setup, result', table')
  BY DEF TableOK, Horizon
<1>3. CallsOK(setup, result', frames', pv', returned')
  <2>1. frames' \in Seq(Frame) /\ Len(frames') = 0
    OBVIOUS
  <2>2. StackOK(setup, result', frames')
    BY <2>1 DEF StackOK
  <2>3. LinesOK(setup, frames', pv')
    BY <2>1 DEF LinesOK
  <2>4. ReturnOK(setup, frames', pv', returned')
    BY DEF ReturnOK
  <2> QED BY <2>2, <2>3, <2>4 DEF CallsOK
<1> QED BY <1>1, <1>2, <1>3 DEF IInv, MaxSearches

-----------------------------------------------------------------------------
(***************************************************************************)
(* The four ways a search goes on: a call returns, the top frame goes on   *)
(* with its loop, it searches a move, and the root publishes its result.   *)
(***************************************************************************)
\* What most steps leave alone.
Underway ==
  /\ UNCHANGED <<setup, truth, result, searches>> /\ stopped' \in BOOLEAN
  /\ TableOK(setup, result, table')

LEMMA UnderwayUnchanged ==
  ASSUME IInv, UNCHANGED <<setup, truth, table, result, searches>>, stopped' \in BOOLEAN
  PROVE  Underway
BY DEF IInv, Underway

LEMMA StepsReturn ==
  ASSUME IInv, InNode, Underway, NEW value, Return(value),
         Rewritten(setup, frame, pv, pv'), ReturnedBy(setup, frame, pv', value)
  PROVE  IInv'
<1>1. /\ setup \in Setups /\ frames # << >> /\ frame = Top(frames) /\ Top(frames).proc # "root"
      /\ StackOK(setup, result, frames) /\ LinesOK(setup, frames, pv)
  BY TopFacts DEF InNode
<1>2. frames' = PopTop(frames) /\ returned' = value
  BY DEF Return, Pop, PopTop
<1>3. CallsOK(setup, result, PopTop(frames), pv', value) /\ PopTop(frames) # << >>
  BY <1>1, ReturnKeepsCalls
<1> QED BY <1>1, <1>2, <1>3, CallsKeepInvariant DEF Underway

LEMMA StepsStay ==
  ASSUME IInv, frames # << >>, Underway, NEW g, frames' = Replace(g), returned' = no_return,
         Rewritten(setup, frame, pv, pv'), FrameOK(setup, result, g), SameCall(frame, g),
         ~Waiting(g), LegalLine(setup, g.node, pv'[g.ply])
  PROVE  IInv'
<1>1. /\ frame = Top(frames)
      /\ StackOK(setup, result, frames) /\ LinesOK(setup, frames, pv) /\ frames \in Seq(Frame)
  BY TopFacts DEF StackOK
<1>2. frames' = ReplaceTop(frames, g)
  BY DEF Replace, ReplaceTop
<1>3. CallsOK(setup, result, ReplaceTop(frames, g), pv', no_return)
  BY <1>1, StayKeepsCalls
<1>4. ReplaceTop(frames, g) # << >>
  BY <1>1, StackGoesOn DEF FrameOK
<1> QED BY <1>2, <1>3, <1>4, CallsKeepInvariant DEF Underway

LEMMA StepsSearch ==
  ASSUME IInv, frames # << >>, Underway, UNCHANGED pv, returned' = no_return, frame.step # "enter",
         NEW step \in {"full", "null", "report"}, NEW proc \in {"pvs", "alphabeta"}, NEW m,
         NEW low \in Score, NEW high \in Score, low < high, SearchMove(step, proc, m, low, high),
         FrameOK(setup, result, WaitOf(frame, step, m, low, high)),
         SameCall(frame, WaitOf(frame, step, m, low, high)), LegalStep(setup, frame.node, m)
  PROVE  IInv'
<1> DEFINE g == WaitOf(frame, step, m, low, high)
           c == CallOf(setup, proc, play(setup.game, frame.node, m), child_depth(setup, frame.depth, m),
                       -high, -low, frame.ply + 1, frame.in_iid)
<1>1. /\ setup \in Setups /\ result.depth \in Depth /\ frame = Top(frames)
      /\ StackOK(setup, result, frames) /\ LinesOK(setup, frames, pv) /\ frames \in Seq(Frame)
  BY TopFacts DEF StackOK
<1>2. frames' = PushCall(frames, g, c)
  BY DEF SearchMove, Push, Replace, PushCall, ReplaceTop, Call, CallOf, WaitOf, game
<1>3. CallsOK(setup, result, PushCall(frames, g, c), pv, no_return)
  BY <1>1, PushMove
<1> HIDE DEF g, c
<1>4. frames' # << >>
  <2>1. g \in Frame
    BY DEF g, FrameOK
  <2>2. Len(frames) \in Nat /\ ReplaceTop(frames, g) \in Seq(Frame)
    BY <1>1, <2>1, ReplacedTop
  <2> QED BY <1>2, <2>2 DEF PushCall
<1> QED BY <1>2, <1>3, <1>4, CallsKeepInvariant DEF Underway

LEMMA RootEnds ==
  ASSUME IInv, AtRoot, UNCHANGED <<setup, truth, searches>>, stopped' \in BOOLEAN,
         pv' \in [Ply -> Seq(Int)], TableOK(setup, result, table'),
         frames' = << >>, returned' = no_return, NEW q, result' = q,
         q \in ResultType, ResultOK(setup, q), q.depth = result.depth
  PROVE  IInv'
BY EndKeepsInvariant DEF AtRoot

\* A stop check leaves stopped a truth value.
LEMMA StopChecked ==
  ASSUME IInv, NEW told \in BOOLEAN, note_node_visited(told) \/ should_stop(told)
  PROVE  stopped' \in BOOLEAN
<1>1. MayStop \in BOOLEAN
  BY SetupAssumption DEF IInv, MayStop
<1> QED BY <1>1 DEF note_node_visited, should_stop

\* frame.pv.size = 0
LEMMA LineCleared ==
  ASSUME IInv, frames # << >>, clear_pv
  PROVE  Rewritten(setup, frame, pv, pv') /\ LegalLine(setup, frame.node, pv'[frame.ply])
<1>1. frame.ply \in Ply /\ frame.node \in Node /\ pv \in [Ply -> Seq(Int)]
  BY TopFacts
<1>2. LegalLine(setup, frame.node, << >>)
  BY <1>1, EmptyLine
<1> QED BY <1>1, <1>2 DEF clear_pv, Rewritten

\* The move in front of the child's line.
LEMMA LineExtended ==
  ASSUME IInv, frames # << >>, NEW m, m = frame.move, LegalStep(setup, frame.node, m),
         LegalLine(setup, play(game, frame.node, m), pv[frame.ply + 1]),
         NEW line, line = <<m>> \o pv[frame.ply + 1]
  PROVE  /\ LegalLine(setup, frame.node, line) /\ line # << >> /\ line[1] = m /\ line \in Seq(Int)
         /\ Rewritten(setup, frame, pv, [pv EXCEPT ![frame.ply] = line])
         /\ [pv EXCEPT ![frame.ply] = line][frame.ply] = line
         /\ [pv EXCEPT ![frame.ply] = line] \in [Ply -> Seq(Int)]
<1>1. frame.ply \in Ply /\ frame.node \in Node /\ pv \in [Ply -> Seq(Int)] /\ frame \in Frame
  BY TopFacts
<1>2. m \in Int
  BY <1>1, FrameFields
<1>3. LegalLine(setup, frame.node, line) /\ line # << >> /\ line[1] = m
  BY <1>1, <1>2, LongerLine DEF game
<1>4. line \in Seq(Int)
  BY <1>3 DEF LegalLine
<1> QED BY <1>1, <1>3, <1>4 DEF Rewritten

-----------------------------------------------------------------------------
(***************************************************************************)
(* The steps of pvs and alphabeta.                                         *)
(***************************************************************************)
\* What a frame knows when its call starts.
LEMMA AtEntry ==
  ASSUME IInv, InNode, frame.step = "enter"
  PROVE  /\ frame.alpha = frame.original_alpha /\ frame.original_alpha < frame.beta
         /\ frame.original_alpha \in Int /\ frame.beta \in Int
         /\ frame.depth \in Depth /\ frame.node \in Node
<1>1. setup \in Setups /\ FrameOK(setup, result, frame) /\ frame \in Frame
  BY TopFacts DEF InNode
<1>2. frame.best_move = no_move /\ frame.original_alpha < frame.beta
  BY <1>1 DEF FrameOK, StepOK, WindowOK
<1>3. frame.alpha = frame.original_alpha
  <2>1. Looping(frame)
    BY DEF Looping
  <2> QED BY <1>1, <1>2, <2>1, BestCases
<1> QED BY <1>1, <1>2, <1>3, FrameFields

LEMMA LeafAnswers ==
  ASSUME IInv, InNode, frame.step = "enter", is_terminal(game, frame.node) \/ frame.depth = 0
  PROVE  /\ game.evaluation[frame.node] \in Inside
         /\ Bounds(game.evaluation[frame.node],
                   classify_bound(game.evaluation[frame.node], frame.original_alpha, frame.beta),
                   Minimax(setup)[<<frame.node, frame.depth>>])
<1> DEFINE x == game.evaluation[frame.node]
           y == Minimax(setup)[<<frame.node, frame.depth>>]
           low == frame.original_alpha
           high == frame.beta
<1>1. /\ setup \in Setups /\ frame.node \in Node /\ frame.depth \in Depth
      /\ low \in Int /\ high \in Int /\ low < high
  BY TopFacts, AtEntry DEF InNode
<1>2. x \in Inside
  BY <1>1, SetupAssumption DEF Inside, game
<1>3. y = x
  <2>1. IsMinimax(setup, Minimax(setup))
    BY <1>1, MinimaxUnfolds
  <2> DEFINE v == Minimax(setup)
  <2> HIDE DEF v
  <2>2. v[<<frame.node, frame.depth>>] = setup.game.evaluation[frame.node]
    BY <1>1, <2>1 DEF IsMinimax, v, game
  <2> QED BY <2>2 DEF v, game
<1>4. x \in Int
  BY <1>2, ScoreRange
<1> HIDE DEF x, y, low, high
<1>5. Bounds(x, classify_bound(x, low, high), y)
  BY <1>1, <1>3, <1>4, BoundsCases
<1> QED BY <1>2, <1>5 DEF x, y, low, high

LEMMA TableAnswers ==
  ASSUME IInv, InNode, frame.step = "enter", NEW c \in table, c.node = frame.node,
         midgame_tt_cutoff(c, frame.depth, frame.alpha, frame.beta)
  PROVE  /\ c.score \in Inside
         /\ ~frame.in_iid =>
              Bounds(c.score, classify_bound(c.score, frame.original_alpha, frame.beta),
                     Minimax(setup)[<<frame.node, frame.depth>>])
<1> DEFINE x == c.score
           y == Minimax(setup)[<<frame.node, frame.depth>>]
           low == frame.original_alpha
           high == frame.beta
<1>1. /\ setup \in Setups /\ frame.node \in Node /\ frame.depth \in Depth /\ result.depth \in Depth
      /\ low \in Int /\ high \in Int /\ low < high /\ frame.alpha = low
      /\ FrameOK(setup, result, frame)
  BY TopFacts, AtEntry DEF InNode
<1>2. /\ c.score \in Inside /\ c.depth \in Depth /\ c.bound \in Bound
      /\ c.depth + setup.stage[c.node] <= Horizon(setup, result)
      /\ c.depth + setup.stage[c.node] = Horizon(setup, result) =>
           Bounds(c.score, c.bound, Minimax(setup)[<<c.node, c.depth>>])
  <2>1. TableOK(setup, result, table)
    BY DEF IInv
  <2>2. c \in [node : Node, depth : Depth, score : Inside, bound : Bound, best_move : Square]
    BY <2>1 DEF TableOK
  <2> QED BY <2>1, <2>2 DEF TableOK
<1>3. x \in Int /\ y \in Int
  BY <1>1, <1>2, MinimaxInside, ScoreRange
<1>4. ASSUME ~frame.in_iid
      PROVE  Bounds(x, c.bound, y)
  <2>1. frame.depth + setup.stage[frame.node] = Horizon(setup, result)
    BY <1>1, <1>4 DEF FrameOK, DepthOK
  <2>2. setup.stage[frame.node] \in Nat /\ frame.depth \in Int /\ c.depth \in Int
    BY <1>1, <1>2, SetupAssumption DEF Depth
  <2>3. c.depth >= frame.depth
    BY DEF midgame_tt_cutoff
  <2>4. Horizon(setup, result) \in Int
    BY <2>1, <2>2
  <2>5. c.depth = frame.depth
    BY <1>2, <2>1, <2>2, <2>3, <2>4
  <2> QED BY <1>2, <2>1, <2>5
<1>5. \/ c.bound = "exact"
      \/ c.bound = "lower" /\ x >= high
      \/ c.bound = "upper" /\ x <= low
  BY <1>1 DEF midgame_tt_cutoff
<1> HIDE DEF x, y, low, high
<1>6. ASSUME ~frame.in_iid
      PROVE  Bounds(x, classify_bound(x, low, high), y)
  <2>1. \/ x = y
        \/ x <= y /\ x >= high
        \/ x >= y /\ x <= low
    BY <1>3, <1>4, <1>5, <1>6, BoundsByKind
  <2>2. /\ x <= low => y <= x
        /\ x >= high => y >= x
        /\ low < x /\ x < high => y = x
    BY <1>1, <1>3, <2>1
  <2> QED BY <1>1, <1>3, <2>2, BoundsCases
<1> QED BY <1>2, <1>6 DEF x, y, low, high

LEMMA EvaluateNodeStep ==
  ASSUME IInv, EvaluateNode
  PROVE  IInv'
<1>1. InNode /\ frame.step = "enter" /\ frames # << >> /\ clear_pv
  BY DEF EvaluateNode, InNode
<1>2. Rewritten(setup, frame, pv, pv') /\ LegalLine(setup, frame.node, pv'[frame.ply])
  BY <1>1, LineCleared
<1>3. PICK told \in BOOLEAN :
        /\ note_node_visited(told)
        /\ \/ told /\ Return(stopped_return)
           \/ /\ ~told
              /\ is_terminal(game, frame.node) \/ frame.depth = 0
              /\ Return(completed(game.evaluation[frame.node]))
           \/ /\ ~told
              /\ ~is_terminal(game, frame.node) /\ frame.depth # 0
              /\ \E c \in table :
                   /\ c.node = frame.node
                   /\ midgame_tt_cutoff(c, frame.depth, frame.alpha, frame.beta)
                   /\ Return(completed(c.score))
  BY DEF EvaluateNode
<1>4. Underway
  <2>1. stopped' \in BOOLEAN
    BY <1>3, StopChecked
  <2> QED BY <2>1, UnderwayUnchanged DEF EvaluateNode
<1>5. CASE Return(stopped_return)
  BY <1>1, <1>2, <1>4, <1>5, StepsReturn DEF ReturnedBy
<1>6. CASE /\ is_terminal(game, frame.node) \/ frame.depth = 0
           /\ Return(completed(game.evaluation[frame.node]))
  <2>1. ReturnedBy(setup, frame, pv', completed(game.evaluation[frame.node]))
    BY <1>1, <1>2, <1>6, LeafAnswers DEF ReturnedBy
  <2> QED BY <1>1, <1>2, <1>4, <1>6, <2>1, StepsReturn
<1>7. CASE \E c \in table :
             /\ c.node = frame.node
             /\ midgame_tt_cutoff(c, frame.depth, frame.alpha, frame.beta)
             /\ Return(completed(c.score))
  <2>1. PICK c \in table :
             /\ c.node = frame.node
             /\ midgame_tt_cutoff(c, frame.depth, frame.alpha, frame.beta)
             /\ Return(completed(c.score))
    BY <1>7
  <2>2. ReturnedBy(setup, frame, pv', completed(c.score))
    BY <1>1, <1>2, <2>1, TableAnswers DEF ReturnedBy
  <2> QED BY <1>1, <1>2, <1>4, <2>1, <2>2, StepsReturn
<1> QED BY <1>3, <1>5, <1>6, <1>7

LEMMA EnterNodeStep ==
  ASSUME IInv, EnterNode
  PROVE  IInv'
<1>1. /\ InNode /\ frame.step = "enter" /\ frames # << >> /\ clear_pv /\ frame.depth # 0
      /\ frame.proc # "root"
  BY DEF EnterNode, InNode
<1>2. Rewritten(setup, frame, pv, pv') /\ LegalLine(setup, frame.node, pv'[frame.ply])
  BY <1>1, LineCleared
<1>3. PICK told \in BOOLEAN :
        /\ should_stop(told)
        /\ \/ told /\ Return(stopped_return)
           \/ /\ ~told
              /\ frames' = Replace([frame EXCEPT !.step = "order"])
              /\ UNCHANGED returned
  BY DEF EnterNode
<1>4. Underway
  <2>1. stopped' \in BOOLEAN
    BY <1>3, StopChecked
  <2> QED BY <2>1, UnderwayUnchanged DEF EnterNode
<1>5. CASE Return(stopped_return)
  BY <1>1, <1>2, <1>4, <1>5, StepsReturn DEF ReturnedBy
<1>6. CASE frames' = Replace([frame EXCEPT !.step = "order"]) /\ UNCHANGED returned
  <2> DEFINE g == StepTo(frame, "order")
  <2>1. FrameOK(setup, result, g) /\ SameCall(frame, g) /\ g.step = "order"
    BY <1>1, TopFacts, StepKeepsFrame
  <2>2. returned' = no_return
    BY <1>1, <1>6, TopFacts DEF Waiting
  <2>3. frames' = Replace(g)
    BY <1>6 DEF StepTo
  <2> HIDE DEF g
  <2>4. LegalLine(setup, g.node, pv'[g.ply]) /\ ~Waiting(g)
    BY <1>2, <2>1 DEF SameCall, Waiting
  <2> QED BY <1>1, <1>2, <1>4, <2>1, <2>2, <2>3, <2>4, StepsStay
<1> QED BY <1>3, <1>5, <1>6

\* A node in its loop, or on its way to it.
LEMMA InLoop ==
  ASSUME IInv, frames # << >>, frame.step \in {"order", "iid", "loop", "full", "null"}
  PROVE  /\ FrameOK(setup, result, frame) /\ frame.depth # 0 /\ Looping(frame) /\ frame.step # "enter"
         /\ frame.alpha \in Score /\ frame.beta \in Score /\ frame.alpha < frame.beta
         /\ frame.alpha \in Int /\ frame.beta \in Int
         /\ frame.proc \in {"root", "pvs", "alphabeta"}
<1>1. FrameOK(setup, result, frame) /\ frame \in Frame
  BY TopFacts
<1> QED BY <1>1, ScoreRange DEF FrameOK, WindowOK, DepthOK, Looping, Frame

LEMMA FullWindowSearch ==
  full_window_search \in {"pvs", "alphabeta"}
BY DEF full_window_search

LEMMA SearchIidStep ==
  ASSUME IInv, SearchIid
  PROVE  IInv'
<1>1. /\ InNode /\ frame.step = "order" /\ frames # << >> /\ ~frame.in_iid
      /\ frame.depth >= IidMinDepth /\ UNCHANGED pv
  BY DEF SearchIid, InNode
<1>2. PICK told \in BOOLEAN :
        /\ should_stop(told)
        /\ \/ told /\ Return(stopped_return)
           \/ /\ ~told
              /\ frames' = Push([frame EXCEPT !.step = "iid"],
                                Call(full_window_search, frame.node,
                                     frame.depth - IidDepthReduction,
                                     frame.alpha, frame.beta, frame.ply, TRUE))
              /\ UNCHANGED returned
  BY DEF SearchIid
<1>3. Underway
  <2>1. stopped' \in BOOLEAN
    BY <1>2, StopChecked
  <2> QED BY <2>1, UnderwayUnchanged DEF SearchIid
<1>4. CASE Return(stopped_return)
  BY <1>1, <1>3, <1>4, StepsReturn DEF ReturnedBy, Rewritten
<1>5. CASE /\ frames' = Push([frame EXCEPT !.step = "iid"],
                             Call(full_window_search, frame.node,
                                  frame.depth - IidDepthReduction,
                                  frame.alpha, frame.beta, frame.ply, TRUE))
           /\ UNCHANGED returned
  <2> DEFINE g == StepTo(frame, "iid")
             d == frame.depth - IidDepthReduction
             c == CallOf(setup, full_window_search, frame.node, d, frame.alpha, frame.beta,
                         frame.ply, TRUE)
  <2>1. /\ setup \in Setups /\ result.depth \in Depth /\ frame = Top(frames) /\ frame \in Frame
        /\ StackOK(setup, result, frames) /\ LinesOK(setup, frames, pv) /\ frames \in Seq(Frame)
        /\ frame.ply \in Ply /\ frame.node \in Node /\ returned = no_return
    BY <1>1, TopFacts DEF StackOK, Waiting
  <2>2. /\ FrameOK(setup, result, frame) /\ frame.depth # 0 /\ frame.proc # "root"
        /\ frame.alpha \in Score /\ frame.beta \in Score /\ frame.alpha < frame.beta
    BY <1>1, InLoop DEF InNode
  <2>3. FrameOK(setup, result, g) /\ SameCall(frame, g) /\ g.step = "iid"
    BY <1>1, <2>2, StepKeepsFrame
  <2>4. FrameOK(setup, result, c)
    <3> DEFINE n == frame.node
               e == frame.depth
               p == frame.ply
               h == Horizon(setup, result)
               k == 2 * result.depth + (IF must_pass(setup.game, n) THEN 0 ELSE 1)
    <3>1. e + setup.stage[n] = h /\ p + 2 * e <= k
      BY <1>1, <2>2 DEF FrameOK, DepthOK
    <3>2. setup.stage[n] \in Nat /\ p \in Nat /\ result.depth \in Nat /\ e \in Depth
      BY <2>1, FrameFields, SetupAssumption DEF Depth
    <3>3. k \in Int
      BY <3>2
    <3> HIDE DEF n, e, p, h, k
    <3>4. d \in Depth /\ d < e
      BY <1>1, <3>2, SearchAssumption DEF Depth, e
    <3> HIDE DEF d
    <3>5. d + setup.stage[n] < h /\ p + 2 * d <= k
      BY <3>1, <3>2, <3>3, <3>4 DEF Depth
    <3>6. /\ IF TRUE THEN d + setup.stage[n] < h ELSE d + setup.stage[n] = h
          /\ TRUE \in BOOLEAN
      BY <3>5
    <3> QED BY <2>1, <2>2, <3>4, <3>5, <3>6, FullWindowSearch, NewCall DEF n, p, h, k
  <2>5. frames' = PushCall(frames, g, c)
    BY <1>5 DEF Push, Replace, PushCall, ReplaceTop, Call, CallOf, StepTo, game
  <2>6. c.node = frame.node /\ c.ply = frame.ply /\ c.in_iid = TRUE /\ c.step = "enter" /\ c.proc # "root"
    BY FullWindowSearch DEF CallOf
  <2> HIDE DEF g, c
  <2>7. LinkOK(setup, g, c)
    BY <2>3, <2>6 DEF LinkOK, SameCall
  <2>8. CallsOK(setup, result, PushCall(frames, g, c), pv, no_return)
    BY <1>1, <2>1, <2>3, <2>4, <2>6, <2>7, CallKeepsCalls
  <2>9. PushCall(frames, g, c) # << >>
    BY <1>1, <2>1, <2>3, <2>4, StackGoesOn DEF FrameOK
  <2> QED BY <1>1, <1>3, <1>5, <2>1, <2>5, <2>8, <2>9, CallsKeepInvariant DEF Underway
<1> QED BY <1>2, <1>4, <1>5

LEMMA IidReturnedStep ==
  ASSUME IInv, IidReturned
  PROVE  IInv'
<1>1. InNode /\ frame.step = "iid" /\ frames # << >> /\ clear_pv /\ frame.proc # "root"
  BY DEF IidReturned, InNode
<1>2. Rewritten(setup, frame, pv, pv') /\ LegalLine(setup, frame.node, pv'[frame.ply])
  BY <1>1, LineCleared
<1>3. Underway
  <2>1. stopped' \in BOOLEAN
    BY DEF IidReturned, IInv
  <2> QED BY <2>1, UnderwayUnchanged DEF IidReturned
<1>4. CASE Return(stopped_return)
  BY <1>1, <1>2, <1>3, <1>4, StepsReturn DEF ReturnedBy
<1>5. CASE /\ frames' = Replace([frame EXCEPT !.step = "loop"])
           /\ returned' = no_return
  <2> DEFINE g == StepTo(frame, "loop")
  <2>1. FrameOK(setup, result, g) /\ SameCall(frame, g) /\ g.step = "loop"
    BY <1>1, InLoop, TopFacts, StepKeepsFrame
  <2>2. frames' = Replace(g)
    BY <1>5 DEF StepTo
  <2> HIDE DEF g
  <2>3. LegalLine(setup, g.node, pv'[g.ply]) /\ ~Waiting(g)
    BY <1>2, <2>1 DEF SameCall, Waiting
  <2> QED BY <1>1, <1>2, <1>3, <1>5, <2>1, <2>2, <2>3, StepsStay
<1> QED BY <1>4, <1>5 DEF IidReturned

LEMMA SearchPassChildStep ==
  ASSUME IInv, SearchPassChild
  PROVE  IInv'
<1>1. /\ InNode /\ frame.step \in {"order", "loop"} /\ frames # << >> /\ must_pass(game, frame.node)
      /\ SearchMove("full", frame.proc, pass_move, frame.alpha, frame.beta)
      /\ UNCHANGED <<setup, truth, table, pv, returned, stopped, result, searches>>
      /\ frame.proc \in {"pvs", "alphabeta"} /\ frame.proc # "root"
  BY DEF SearchPassChild, InNode, in_loop
<1>2. Underway /\ returned' = no_return
  <2>1. stopped' \in BOOLEAN
    BY <1>1 DEF IInv
  <2>2. returned = no_return
    BY <1>1, TopFacts DEF Waiting
  <2> QED BY <1>1, <2>1, <2>2, UnderwayUnchanged
<1>3. /\ setup \in Setups /\ FrameOK(setup, result, frame) /\ frame.depth # 0 /\ Looping(frame)
      /\ frame.alpha \in Score /\ frame.beta \in Score /\ frame.alpha < frame.beta
      /\ frame.step # "enter"
  BY <1>1, TopFacts, InLoop
<1>4. CanWaitFor(setup, frame, "full", pass_move)
  BY <1>1 DEF CanWaitFor, game
<1>5. /\ FrameOK(setup, result, WaitOf(frame, "full", pass_move, frame.alpha, frame.beta))
      /\ SameCall(frame, WaitOf(frame, "full", pass_move, frame.alpha, frame.beta))
      /\ LegalStep(setup, frame.node, pass_move)
  BY <1>1, <1>3, <1>4, WaitKeepsFrame
<1> QED BY <1>1, <1>2, <1>3, <1>5, StepsSearch

LEMMA SearchChildStep ==
  ASSUME IInv, frames # << >>, NEW m \in frame.todo, SearchChild(m)
  PROVE  IInv'
<1>1. /\ InNode /\ frame.step \in {"order", "loop"} /\ frames # << >>
      /\ IF frame.best_move = no_move \/ frame.proc = "alphabeta"
         THEN SearchMove("full", frame.proc, m, frame.alpha, frame.beta)
         ELSE SearchNullWindow(m, frame.alpha)
      /\ UNCHANGED <<setup, truth, table, pv, returned, stopped, result, searches>>
      /\ frame.proc \in {"pvs", "alphabeta"} /\ frame.proc # "root"
  BY DEF SearchChild, InNode, in_loop
<1>2. Underway /\ returned' = no_return
  <2>1. stopped' \in BOOLEAN
    BY <1>1 DEF IInv
  <2>2. returned = no_return
    BY <1>1, TopFacts DEF Waiting
  <2> QED BY <1>1, <2>1, <2>2, UnderwayUnchanged
<1>3. /\ setup \in Setups /\ FrameOK(setup, result, frame) /\ frame.depth # 0 /\ Looping(frame)
      /\ frame.alpha \in Score /\ frame.beta \in Score /\ frame.alpha < frame.beta
      /\ frame.step # "enter" /\ frame.alpha \in Int /\ frame.beta \in Int
  BY <1>1, TopFacts, InLoop
<1>4. \A step \in {"full", "null"} : CanWaitFor(setup, frame, step, m)
  BY <1>1 DEF CanWaitFor
<1>5. CASE SearchMove("full", frame.proc, m, frame.alpha, frame.beta)
  <2>1. /\ FrameOK(setup, result, WaitOf(frame, "full", m, frame.alpha, frame.beta))
        /\ SameCall(frame, WaitOf(frame, "full", m, frame.alpha, frame.beta))
        /\ LegalStep(setup, frame.node, m)
    BY <1>1, <1>3, <1>4, WaitKeepsFrame
  <2> QED BY <1>1, <1>2, <1>3, <1>5, <2>1, StepsSearch
<1>6. CASE SearchNullWindow(m, frame.alpha)
  <2> DEFINE high == frame.alpha + 1
  <2>1. high \in Score /\ frame.alpha < high
    BY <1>3, SearchAssumption DEF Score, kScoreLoss
  <2>2. SearchMove("null", "alphabeta", m, frame.alpha, high)
    BY <1>6 DEF SearchNullWindow
  <2>3. high = frame.alpha + 1
    OBVIOUS
  <2> HIDE DEF high
  <2>4. /\ FrameOK(setup, result, WaitOf(frame, "null", m, frame.alpha, high))
        /\ SameCall(frame, WaitOf(frame, "null", m, frame.alpha, high))
        /\ LegalStep(setup, frame.node, m)
    BY <1>1, <1>3, <1>4, <2>1, <2>3, WaitKeepsFrame
  <2> QED BY <1>1, <1>2, <1>3, <2>1, <2>2, <2>4, StepsSearch
<1> QED BY <1>1, <1>5, <1>6

LEMMA ChildStoppedStep ==
  ASSUME IInv, ChildStopped
  PROVE  IInv'
<1>1. InNode /\ Return(stopped_return) /\ Rewritten(setup, frame, pv, pv')
  BY DEF ChildStopped, Rewritten
<1>2. Underway
  BY UnderwayUnchanged DEF ChildStopped, IInv
<1> QED BY <1>1, <1>2, StepsReturn DEF ReturnedBy

\* What a frame knows when the call it waits for has found a score.
LEMMA ChildAnswered ==
  ASSUME IInv, frames # << >>, waiting_for_child, returned # stopped_return
  PROVE  /\ setup \in Setups /\ FrameOK(setup, result, frame) /\ frame \in Frame
         /\ frame.step \in {"full", "null"} /\ frame.depth # 0 /\ Looping(frame)
         /\ frame.depth \in Depth /\ frame.node \in Node
         /\ frame.alpha \in Score /\ frame.beta \in Score /\ frame.alpha < frame.beta
         /\ child_score \in Inside
         /\ LegalLine(setup, play(game, frame.node, frame.move), pv[frame.ply + 1])
         /\ LegalStep(setup, frame.node, frame.move)
         /\ ~frame.in_iid =>
              Bounds(child_score, classify_bound(child_score, frame.low, frame.high),
                     FrameValue(setup, frame, frame.move))
         /\ frame.move # pass_move => frame.move \in moves_of(setup.game, frame.node)
<1>1. frame.step \in {"full", "null"} /\ returned # no_return
  BY DEF waiting_for_child
<1>2. StepOK(setup, frame)
  BY TopFacts DEF FrameOK
<1>3. LegalStep(setup, frame.node, frame.move)
  BY <1>1, <1>2 DEF StepOK, LegalStep
<1>4. frame.move # pass_move => frame.move \in moves_of(setup.game, frame.node)
  BY <1>1, <1>2 DEF StepOK
<1> QED BY <1>1, <1>3, <1>4, TopFacts, InLoop, ScoreReturned, FrameFields

LEMMA PassAnswers ==
  ASSUME NEW s \in Setups, NEW r, NEW f, FrameOK(s, r, f), f.step \in {"full", "null"},
         f.depth # 0, f.move = pass_move
  PROVE  /\ FrameValue(s, f, f.move) = Minimax(s)[<<f.node, f.depth>>]
         /\ f.low = f.original_alpha /\ f.high = f.beta
<1>1. f.node \in Node /\ f.depth \in Depth
  BY FrameFields DEF FrameOK
<1>2. must_pass(s.game, f.node) /\ f.low = f.alpha /\ f.best_move = no_move /\ f.step = "full"
      /\ f.high = f.beta
  <2>1. ~(f.move \in moves_of(s.game, f.node))
    BY <1>1, OneMove
  <2> QED BY <2>1 DEF FrameOK, StepOK
<1>3. f.alpha = f.original_alpha
  <2>1. Looping(f)
    BY <1>2 DEF Looping
  <2> QED BY <1>2, <2>1, BestCases
<1>4. FrameValue(s, f, f.move) = Minimax(s)[<<f.node, f.depth>>]
  <2>1. IsMinimax(s, Minimax(s))
    BY MinimaxUnfolds
  <2> DEFINE v == Minimax(s)
  <2> HIDE DEF v
  <2>2. v[<<f.node, f.depth>>] = -v[<<s.game.passes[f.node], child_depth(s, f.depth, pass_move)>>]
    BY <1>1, <1>2, <2>1 DEF IsMinimax, v
  <2>3. play(s.game, f.node, pass_move) = s.game.passes[f.node]
    BY <1>1, <1>2, Passes
  <2> QED BY <2>2, <2>3 DEF FrameValue, ValueOf, v
<1> QED BY <1>2, <1>3, <1>4

LEMMA PassChildReturnedStep ==
  ASSUME IInv, PassChildReturned
  PROVE  IInv'
<1>1. /\ InNode /\ frames # << >> /\ waiting_for_child /\ returned # stopped_return
      /\ frame.move = pass_move /\ Return(completed(child_score))
      /\ pv' = [pv EXCEPT ![frame.ply] = <<pass_move>> \o pv[frame.ply + 1]]
  BY DEF PassChildReturned, InNode
<1>2. Underway
  BY UnderwayUnchanged DEF PassChildReturned, IInv
<1> DEFINE line == <<pass_move>> \o pv[frame.ply + 1]
<1>3. line = <<pass_move>> \o pv[frame.ply + 1] /\ pv' = [pv EXCEPT ![frame.ply] = line]
  BY <1>1
<1> HIDE DEF line
<1>4. /\ LegalStep(setup, frame.node, pass_move)
      /\ LegalLine(setup, play(game, frame.node, pass_move), pv[frame.ply + 1])
  BY <1>1, ChildAnswered
<1>5. /\ LegalLine(setup, frame.node, line)
      /\ Rewritten(setup, frame, pv, [pv EXCEPT ![frame.ply] = line])
      /\ [pv EXCEPT ![frame.ply] = line][frame.ply] = line
  BY <1>1, <1>3, <1>4, LineExtended
<1>6. ~frame.in_iid =>
        Bounds(child_score, classify_bound(child_score, frame.original_alpha, frame.beta),
               Minimax(setup)[<<frame.node, frame.depth>>])
  BY <1>1, ChildAnswered, PassAnswers
<1>7. ReturnedBy(setup, frame, pv', completed(child_score))
  BY <1>1, <1>3, <1>5, <1>6, ChildAnswered DEF ReturnedBy
<1> QED BY <1>1, <1>2, <1>3, <1>5, <1>7, StepsReturn

LEMMA ResearchChildStep ==
  ASSUME IInv, ResearchChild
  PROVE  IInv'
<1>1. /\ InNode /\ frames # << >> /\ waiting_for_child /\ returned # stopped_return
      /\ frame.step = "null" /\ returned' = no_return /\ UNCHANGED pv
      /\ SearchMove("full", "pvs", frame.move, frame.alpha, frame.beta)
      /\ frame.proc # "root" /\ frame.step # "enter"
  BY DEF ResearchChild, InNode
<1>2. Underway
  BY UnderwayUnchanged DEF ResearchChild, IInv
<1>3. frame.move \in moves_of(setup.game, frame.node)
  BY <1>1, TopFacts DEF FrameOK, StepOK
<1>4. CanWaitFor(setup, frame, "full", frame.move)
  BY <1>1, <1>3 DEF CanWaitFor
<1>5. /\ FrameOK(setup, result, WaitOf(frame, "full", frame.move, frame.alpha, frame.beta))
      /\ SameCall(frame, WaitOf(frame, "full", frame.move, frame.alpha, frame.beta))
      /\ LegalStep(setup, frame.node, frame.move)
  BY <1>1, <1>4, ChildAnswered, WaitKeepsFrame
<1> QED BY <1>1, <1>2, <1>5, ChildAnswered, StepsSearch

\* A claim about the value of a call's position keeps the table.
LEMMA ClaimStored ==
  ASSUME NEW s \in Setups, NEW r, NEW claims, TableOK(s, r, claims),
         NEW n \in Node, NEW d \in Depth, NEW x \in Inside, NEW bound \in Bound, NEW m \in Square,
         m \in moves_of(s.game, n),
         d + s.stage[n] <= Horizon(s, r),
         d + s.stage[n] = Horizon(s, r) => Bounds(x, bound, Minimax(s)[<<n, d>>])
  PROVE  TableOK(s, r, claims \cup {claim(n, d, x, bound, m)})
<1> DEFINE c == claim(n, d, x, bound, m)
<1>1. /\ c \in [node : Node, depth : Depth, score : Inside, bound : Bound, best_move : Square]
      /\ c.node = n /\ c.depth = d /\ c.score = x /\ c.bound = bound /\ c.best_move = m
  BY DEF claim
<1> HIDE DEF c
<1>2. ASSUME NEW e \in claims \cup {c}
      PROVE  /\ e \in [node : Node, depth : Depth, score : Inside, bound : Bound, best_move : Square]
             /\ e.best_move \in moves_of(s.game, e.node)
             /\ e.depth + s.stage[e.node] <= Horizon(s, r)
             /\ e.depth + s.stage[e.node] = Horizon(s, r) =>
                  Bounds(e.score, e.bound, Minimax(s)[<<e.node, e.depth>>])
  <2>1. CASE e \in claims
    BY <2>1 DEF TableOK
  <2>2. CASE e = c
    BY <1>1, <2>2
  <2> QED BY <1>2, <2>1, <2>2
<1> QED BY <1>2 DEF TableOK, c

LEMMA ChildReturnedStep ==
  ASSUME IInv, ChildReturned
  PROVE  IInv'
<1> DEFINE g == UpdatedOf(frame, child_score)
           better == is_better(child_score, frame.move, frame.best_score, frame.best_move)
           line == <<frame.move>> \o pv[frame.ply + 1]
           bound == classify_bound(g.best_score, g.original_alpha, g.beta)
           m == frame.move
<1>1. /\ InNode /\ frames # << >> /\ waiting_for_child /\ returned # stopped_return
      /\ frame.proc # "root" /\ m # pass_move
      /\ frame.step = "null" => ~(child_score > frame.alpha /\ child_score < frame.beta)
      /\ pv' = IF better THEN [pv EXCEPT ![frame.ply] = line] ELSE pv
      /\ UNCHANGED <<setup, truth, stopped, result, searches>>
  BY DEF ChildReturned, InNode
<1>2. \/ /\ ~(g.alpha >= g.beta \/ g.todo = {})
         /\ frames' = Replace(g) /\ returned' = no_return /\ UNCHANGED table
      \/ /\ g.alpha >= g.beta \/ g.todo = {}
         /\ table' = table \cup {claim(g.node, g.depth, g.best_score, bound, g.best_move)}
         /\ Return(completed(g.best_score))
  BY DEF ChildReturned, updated_frame, UpdatedOf
<1>3. /\ setup \in Setups /\ FrameOK(setup, result, frame) /\ frame \in Frame
      /\ frame.step \in {"full", "null"} /\ frame.depth \in Depth /\ frame.node \in Node
      /\ child_score \in Inside /\ m \in moves_of(setup.game, frame.node)
      /\ LegalLine(setup, play(game, frame.node, m), pv[frame.ply + 1])
      /\ LegalStep(setup, frame.node, m)
      /\ ~frame.in_iid =>
           Bounds(child_score, classify_bound(child_score, frame.low, frame.high),
                  FrameValue(setup, frame, m))
      /\ frame.step # "enter"
  BY <1>1, ChildAnswered
<1>4. g = UpdatedOf(frame, child_score)
  OBVIOUS
<1>5. /\ SameCall(frame, g) /\ g.step = "loop" /\ g.todo = frame.todo
      /\ BestOK(setup, g) /\ g.best_move # no_move /\ g.best_score \in Inside
      /\ Finished(setup, g) = Finished(setup, frame) \cup {m}
  BY <1>3, UpdatedFields, BestUpdated
<1>6. /\ Rewritten(setup, frame, pv, pv') /\ LegalLine(setup, frame.node, pv'[frame.ply])
  <2>1. CASE better
    <3>1. line = <<m>> \o pv[frame.ply + 1] /\ m = frame.move
      OBVIOUS
    <3> HIDE DEF line, m
    <3>2. /\ LegalLine(setup, frame.node, line)
          /\ Rewritten(setup, frame, pv, [pv EXCEPT ![frame.ply] = line])
          /\ [pv EXCEPT ![frame.ply] = line][frame.ply] = line
      BY <1>1, <1>3, <3>1, LineExtended
    <3> QED BY <1>1, <2>1, <3>2
  <2>2. CASE ~better
    <3>1. pv' = pv
      BY <1>1, <2>2
    <3> QED BY <1>1, <1>3, <3>1, TopFacts DEF Rewritten
  <2> QED BY <2>1, <2>2
<1> HIDE DEF g, line, m, better
<1>7. CASE /\ ~(g.alpha >= g.beta \/ g.todo = {})
           /\ frames' = Replace(g) /\ returned' = no_return /\ UNCHANGED table
  <2>1. Underway
    BY <1>1, <1>7, UnderwayUnchanged DEF IInv
  <2>2. g.alpha < frame.beta
    <3>1. g.alpha \in Int /\ g.beta \in Int
      BY <1>3, <1>4, UpdatedFields, FrameFields
    <3> QED BY <1>5, <1>7, <3>1 DEF SameCall
  <2>3. FrameOK(setup, result, g)
    BY <1>1, <1>3, <1>4, <2>2, NodeGoesOn DEF m
  <2>4. LegalLine(setup, g.node, pv'[g.ply]) /\ ~Waiting(g)
    BY <1>5, <1>6 DEF SameCall, Waiting
  <2> QED BY <1>1, <1>5, <1>6, <1>7, <2>1, <2>3, <2>4, StepsStay
<1>8. CASE /\ g.alpha >= g.beta \/ g.todo = {}
           /\ table' = table \cup {claim(g.node, g.depth, g.best_score, bound, g.best_move)}
           /\ Return(completed(g.best_score))
  <2>1. ~frame.in_iid =>
          Bounds(g.best_score, classify_bound(g.best_score, frame.original_alpha, frame.beta),
                 Minimax(setup)[<<frame.node, frame.depth>>])
    BY <1>1, <1>3, <1>4, <1>5, <1>8, NodeAnswers DEF m, SameCall
  <2>2. g.best_move \in Square /\ g.best_move \in moves_of(setup.game, frame.node)
    <3>1. g.best_move \in moves_of(setup.game, frame.node)
      <4>1. g.best_move \in Finished(setup, g)
        BY <1>5 DEF BestOK
      <4>2. Finished(setup, frame) \subseteq moves_of(setup.game, frame.node)
        BY DEF Finished
      <4> QED BY <1>3, <1>5, <4>1, <4>2
    <3> QED BY <1>3, <3>1, Moves
  <2>3. /\ frame.depth + setup.stage[frame.node] <= Horizon(setup, result)
        /\ frame.depth + setup.stage[frame.node] = Horizon(setup, result) => ~frame.in_iid
    <3>1. IF frame.in_iid THEN frame.depth + setup.stage[frame.node] < Horizon(setup, result)
          ELSE frame.depth + setup.stage[frame.node] = Horizon(setup, result)
      BY <1>3 DEF FrameOK, DepthOK
    <3>2. frame.depth + setup.stage[frame.node] \in Int /\ Horizon(setup, result) \in Int
      BY <1>1, <1>3, TopFacts, SetupAssumption, SearchAssumption DEF Depth, Horizon
    <3> DEFINE x == frame.depth + setup.stage[frame.node]
               h == Horizon(setup, result)
    <3>3. x \in Int /\ h \in Int /\ (IF frame.in_iid THEN x < h ELSE x = h)
      BY <3>1, <3>2
    <3> HIDE DEF x, h
    <3>4. x <= h /\ (x = h => ~frame.in_iid)
      BY <3>3
    <3> QED BY <3>4 DEF x, h
  <2>4. bound = classify_bound(g.best_score, frame.original_alpha, frame.beta) /\ bound \in Bound
    BY <1>5 DEF SameCall, classify_bound, Bound
  <2> HIDE DEF bound
  <2>5. g.node = frame.node /\ g.depth = frame.depth
    BY <1>5 DEF SameCall
  <2>6. TableOK(setup, result, table')
    <3>1. TableOK(setup, result, table)
      BY DEF IInv
    <3> QED BY <1>3, <1>5, <1>8, <2>1, <2>2, <2>3, <2>4, <2>5, <3>1, ClaimStored
  <2>7. Underway
    BY <1>1, <2>6 DEF Underway, IInv
  <2>8. ReturnedBy(setup, frame, pv', completed(g.best_score))
    BY <1>5, <1>6, <2>1 DEF ReturnedBy
  <2> QED BY <1>1, <1>6, <1>8, <2>7, <2>8, StepsReturn
<1> QED BY <1>2, <1>7, <1>8

-----------------------------------------------------------------------------
(***************************************************************************)
(* The steps of the root.                                                  *)
(***************************************************************************)
LEMMA RootCall ==
  ASSUME NEW s \in Setups, NEW r, NEW depth \in Depth, r.depth = depth,
         NEW alpha \in Score, NEW beta \in Score, alpha < beta, r.alpha = alpha, r.beta = beta
  PROVE  FrameOK(s, r, CallOf(s, "root", RootNode, depth, alpha, beta, 0, FALSE))
<1> DEFINE c == CallOf(s, "root", RootNode, depth, alpha, beta, 0, FALSE)
<1>1. RootNode \in Node /\ 0 \in Ply /\ MaxDepth \in Nat
  BY SearchAssumption DEF Ply
<1>2. c \in Frame
  BY <1>1, CallInFrame
<1>3. /\ c.proc = "root" /\ c.node = RootNode /\ c.depth = depth /\ c.ply = 0 /\ c.in_iid = FALSE
      /\ c.alpha = alpha /\ c.beta = beta /\ c.original_alpha = alpha
      /\ c.best_score = kScoreLoss /\ c.best_move = no_move
      /\ c.todo = moves_of(s.game, RootNode) /\ c.step = "enter"
      /\ c.reports = << >> /\ c.best_line = << >>
  BY DEF CallOf
<1> HIDE DEF c
<1>4. Finished(s, c) = {} /\ alpha \in Int /\ beta \in Int /\ ~(kScoreLoss > alpha)
  <2>1. Finished(s, c) = {}
    BY <1>3 DEF Finished
  <2>2. alpha \in Int /\ beta \in Int /\ kScoreLoss <= alpha /\ kScoreLoss \in Int
    BY ScoreRange
  <2> QED BY <2>1, <2>2
<1>5. WindowOK(c)
  BY <1>3, <1>4 DEF WindowOK
<1>6. BestOK(s, c) /\ StepOK(s, c) /\ NodeOK(s, c)
  BY <1>3 DEF BestOK, StepOK, NodeOK
<1>7. DepthOK(s, r, c)
  <2>1. depth \in Int /\ s.stage[RootNode] \in Nat
    BY <1>1, SetupAssumption DEF Depth
  <2>2. c.depth + s.stage[c.node] = Horizon(s, r)
    BY <1>3 DEF Horizon
  <2>3. 0 + 2 * depth <= 2 * depth + (IF must_pass(s.game, RootNode) THEN 0 ELSE 1)
    BY <2>1
  <2> QED BY <1>3, <2>2, <2>3 DEF DepthOK
<1>8. RootOK(s, r, c)
  <2>1. RootBestOK(s, c) /\ RootLowOK(s, c)
    BY <1>3, <1>4 DEF RootBestOK, RootLowOK
  <2>2. RootReportsOK(s, c)
    BY <1>3, <1>4 DEF RootReportsOK
  <2>3. RootLineOK(s, c)
    BY <1>1, <1>3, EmptyLine DEF RootLineOK
  <2> QED BY <1>3, <2>1, <2>2, <2>3 DEF RootOK
<1> QED BY <1>2, <1>5, <1>6, <1>7, <1>8 DEF FrameOK, c

\* Claims that no shallower search could use are still no deeper than the horizon.
LEMMA DeeperTable ==
  ASSUME NEW s \in Setups, NEW r, NEW q, NEW claims, TableOK(s, r, claims),
         r.depth \in Depth, q.depth \in Depth, q.depth >= r.depth
  PROVE  TableOK(s, q, claims)
<1> DEFINE h == Horizon(s, r)
           k == Horizon(s, q)
<1>1. h \in Int /\ k \in Int /\ h <= k
  BY SearchAssumption, SetupAssumption DEF Horizon, Depth
<1>2. ASSUME NEW c \in claims
      PROVE  /\ c \in [node : Node, depth : Depth, score : Inside, bound : Bound, best_move : Square]
             /\ c.best_move \in moves_of(s.game, c.node)
             /\ c.depth + s.stage[c.node] <= k
             /\ c.depth + s.stage[c.node] = k =>
                  Bounds(c.score, c.bound, Minimax(s)[<<c.node, c.depth>>])
  <2>1. /\ c \in [node : Node, depth : Depth, score : Inside, bound : Bound, best_move : Square]
        /\ c.best_move \in moves_of(s.game, c.node)
        /\ c.depth + s.stage[c.node] <= h
        /\ c.depth + s.stage[c.node] = h =>
             Bounds(c.score, c.bound, Minimax(s)[<<c.node, c.depth>>])
    BY <1>2 DEF TableOK
  <2> DEFINE x == c.depth + s.stage[c.node]
  <2>2. x \in Int
    BY <2>1, SetupAssumption DEF Depth
  <2>3. x <= h /\ (x = h => Bounds(c.score, c.bound, Minimax(s)[<<c.node, c.depth>>]))
    BY <2>1
  <2> HIDE DEF x, h, k
  <2>4. x <= k /\ (x = k => x = h)
    BY <1>1, <2>2, <2>3
  <2> QED BY <2>1, <2>3, <2>4 DEF x
<1> QED BY <1>2 DEF TableOK

LEMMA StartSearchStep ==
  ASSUME IInv, NEW depth \in Depths, NEW window \in Windows, StartSearch(depth, window)
  PROVE  IInv'
<1> DEFINE c == CallOf(setup, "root", RootNode, depth, window[1], window[2], 0, FALSE)
           q == [no_result EXCEPT !.running = TRUE, !.depth = depth,
                                  !.alpha = window[1], !.beta = window[2]]
<1>1. /\ frames = << >> /\ searches < MaxSearches /\ depth >= result.depth
      /\ searches' = searches + 1 /\ returned' = no_return
      /\ result' = q
      /\ pv' = [pv EXCEPT ![0] = << >>]
      /\ UNCHANGED <<setup, truth, table, stopped>>
  BY DEF StartSearch
<1>2. frames' = <<c>>
  BY DEF StartSearch, Call, CallOf, game
<1>3. /\ setup \in Setups /\ searches \in 0 .. MaxSearches /\ TableOK(setup, result, table)
      /\ result.depth \in Depth /\ pv \in [Ply -> Seq(Int)]
  BY DEF IInv, ResultType, CallsOK, LinesOK
<1>4. /\ depth \in 1 .. MaxDepth /\ depth \in Depth /\ depth # 0
      /\ window[1] \in Score /\ window[2] \in Score /\ window[1] < window[2]
      /\ MaxSearches \in Nat
  BY <1>3, SetupAssumption, SearchAssumption DEF Depths, Windows, Depth, MaxSearches
<1>5. q \in ResultType /\ q.depth = depth /\ q.alpha = window[1] /\ q.beta = window[2]
  <2>1. no_result \in ResultType
    BY ScoreRange, SearchAssumption DEF no_result, ResultType, Bound, no_move, Depth
  <2> QED BY <1>4, <2>1 DEF ResultType
<1> HIDE DEF q
<1>6. FrameOK(setup, q, c) /\ c \in Frame /\ c.proc = "root" /\ c.step = "enter"
      /\ c.ply = 0 /\ c.node = RootNode
  BY <1>3, <1>4, <1>5, RootCall DEF FrameOK, CallOf
<1>7. TableOK(setup, q, table)
  BY <1>1, <1>3, <1>4, <1>5, DeeperTable
<1>8. searches' \in 0 .. MaxSearches /\ searches' # 0
  BY <1>1, <1>3, <1>4
<1> HIDE DEF c
<1>9. frames' \in Seq(Frame) /\ Len(frames') = 1 /\ frames'[1] = c /\ frames' # << >>
  BY <1>2, <1>6
<1>10. CallsOK(setup, q, frames', pv', returned')
  <2>1. StackOK(setup, q, frames')
    <3>1. \A i \in 1 .. Len(frames') : i = 1
      BY <1>9
    <3> QED BY <1>6, <1>9, <3>1 DEF StackOK
  <2>2. LinesOK(setup, frames', pv')
    <3>1. 0 \in Ply /\ RootNode \in Node
      BY SearchAssumption DEF Ply
    <3>2. pv' \in [Ply -> Seq(Int)] /\ pv'[0] = << >>
      BY <1>1, <1>3, <3>1
    <3>3. LegalLine(setup, RootNode, pv'[0])
      BY <3>1, <3>2, EmptyLine
    <3> QED BY <1>6, <1>9, <3>2, <3>3 DEF LinesOK
  <2>3. ReturnOK(setup, frames', pv', returned')
    BY <1>1, <1>6, <1>9 DEF ReturnOK, Waiting, no_return
  <2> QED BY <2>1, <2>2, <2>3 DEF CallsOK
<1>11. truth' = Minimax(setup') /\ stopped' \in BOOLEAN /\ MaxSearches' = MaxSearches /\ setup' = setup
  BY <1>1 DEF IInv, MaxSearches
<1> QED BY <1>1, <1>3, <1>4, <1>5, <1>7, <1>8, <1>9, <1>10, <1>11 DEF IInv

\* The root is left with what its loop has found.
LEMMA RootStopStep ==
  ASSUME IInv, AtRoot, PublishStopped(frame), UNCHANGED <<setup, truth, table, pv, searches>>,
         stopped' \in BOOLEAN
  PROVE  IInv'
<1>1. /\ setup \in Setups /\ result \in ResultType /\ FrameOK(setup, result, frame)
      /\ frame.proc = "root" /\ pv' \in [Ply -> Seq(Int)] /\ TableOK(setup, result, table')
  BY TopFacts DEF AtRoot, IInv
<1> DEFINE q == LeftBy(result, frame)
<1>2. q = LeftBy(result, frame) /\ frames' = << >> /\ returned' = no_return /\ result' = q
  BY DEF PublishStopped, Finish, LeftBy
<1> HIDE DEF q
<1>3. q \in ResultType /\ ResultOK(setup, q) /\ q.depth = result.depth
  BY <1>1, <1>2, RootStops
<1> QED BY <1>1, <1>2, <1>3, RootEnds

LEMMA EnterRootStep ==
  ASSUME IInv, EnterRoot
  PROVE  IInv'
<1>1. AtRoot /\ frame.step = "enter" /\ frames # << >> /\ frame.proc = "root"
      /\ UNCHANGED <<setup, truth, table, pv, searches>>
  BY DEF EnterRoot, AtRoot
<1>2. PICK told \in BOOLEAN :
        /\ note_node_visited(told)
        /\ \/ told /\ PublishStopped(frame)
           \/ /\ ~told
              /\ frames' = Replace([frame EXCEPT !.step = "loop"])
              /\ UNCHANGED <<returned, result>>
  BY DEF EnterRoot
<1>3. stopped' \in BOOLEAN
  BY <1>2, StopChecked
<1>4. CASE PublishStopped(frame)
  BY <1>1, <1>3, <1>4, RootStopStep
<1>5. CASE frames' = Replace([frame EXCEPT !.step = "loop"]) /\ UNCHANGED <<returned, result>>
  <2> DEFINE g == StepTo(frame, "loop")
  <2>1. Underway /\ returned' = no_return /\ Rewritten(setup, frame, pv, pv')
    BY <1>1, <1>3, <1>5, TopFacts, UnderwayUnchanged DEF Waiting, Rewritten
  <2>2. frame.depth # 0 /\ FrameOK(setup, result, frame)
    BY <1>1, TopFacts DEF FrameOK, RootOK
  <2>3. FrameOK(setup, result, g) /\ SameCall(frame, g) /\ g.step = "loop"
    BY <1>1, <2>2, StepKeepsFrame
  <2>4. frames' = Replace(g)
    BY <1>5 DEF StepTo
  <2> HIDE DEF g
  <2>5. LegalLine(setup, g.node, pv'[g.ply]) /\ ~Waiting(g)
    BY <1>1, <2>3, TopFacts DEF SameCall, Waiting
  <2> QED BY <1>1, <2>1, <2>3, <2>4, <2>5, StepsStay
<1> QED BY <1>2, <1>4, <1>5

LEMMA RootPassStep ==
  ASSUME IInv, RootPass
  PROVE  IInv'
<1>1. AtRoot /\ frame.step = "loop" /\ frames # << >> /\ frame.proc = "root" /\ frame.step # "enter"
      /\ must_pass(game, frame.node) /\ UNCHANGED <<setup, truth, table, pv, searches>>
  BY DEF RootPass, AtRoot
<1>2. PICK told \in BOOLEAN :
        /\ should_stop(told)
        /\ \/ told /\ PublishStopped(frame)
           \/ /\ ~told
              /\ SearchMove("full", full_window_search, pass_move, frame.alpha, frame.beta)
              /\ UNCHANGED <<returned, result>>
  BY DEF RootPass
<1>3. stopped' \in BOOLEAN
  BY <1>2, StopChecked
<1>4. CASE PublishStopped(frame)
  BY <1>1, <1>3, <1>4, RootStopStep
<1>5. CASE /\ SearchMove("full", full_window_search, pass_move, frame.alpha, frame.beta)
           /\ UNCHANGED <<returned, result>>
  <2>1. Underway /\ returned' = no_return
    BY <1>1, <1>3, <1>5, TopFacts, UnderwayUnchanged DEF Waiting
  <2>2. /\ setup \in Setups /\ FrameOK(setup, result, frame) /\ frame.depth # 0 /\ Looping(frame)
        /\ frame.alpha \in Score /\ frame.beta \in Score /\ frame.alpha < frame.beta
    BY <1>1, TopFacts, InLoop
  <2>3. CanWaitFor(setup, frame, "full", pass_move)
    BY <1>1 DEF CanWaitFor, game
  <2>4. /\ FrameOK(setup, result, WaitOf(frame, "full", pass_move, frame.alpha, frame.beta))
        /\ SameCall(frame, WaitOf(frame, "full", pass_move, frame.alpha, frame.beta))
        /\ LegalStep(setup, frame.node, pass_move)
    BY <2>2, <2>3, WaitKeepsFrame
  <2> QED BY <1>1, <1>5, <2>1, <2>2, <2>4, FullWindowSearch, StepsSearch
<1> QED BY <1>2, <1>4, <1>5

LEMMA RootChildStoppedStep ==
  ASSUME IInv, RootChildStopped
  PROVE  IInv'
<1>1. stopped' \in BOOLEAN
  BY DEF RootChildStopped, IInv
<1> QED BY <1>1, RootStopStep DEF RootChildStopped

LEMMA RootPassReturnedStep ==
  ASSUME IInv, RootPassReturned
  PROVE  IInv'
<1> DEFINE line == <<pass_move>> \o pv[1]
           f == RootPassOf(frame)
           bound == classify_bound(child_score, result.alpha, result.beta)
           q == Published(result, f, child_score, bound, line)
<1>1. /\ AtRoot /\ frames # << >> /\ frame.proc = "root" /\ frame.step = "full"
      /\ frame.move = pass_move /\ returned.kind = "complete"
      /\ pv' = [pv EXCEPT ![0] = line] /\ frames' = << >> /\ returned' = no_return /\ result' = q
      /\ UNCHANGED <<setup, truth, table, stopped, searches>>
  BY DEF RootPassReturned, AtRoot, Finish, Published, RootPassOf
<1>2. returned # no_return /\ returned # stopped_return /\ waiting_for_child
  BY <1>1, CompleteReturned DEF waiting_for_child
<1>3. /\ setup \in Setups /\ result \in ResultType /\ FrameOK(setup, result, frame)
      /\ frame.node = RootNode /\ frame.ply = 0 /\ ~frame.in_iid
  BY <1>1, TopFacts DEF FrameOK, RootOK
<1>4. /\ child_score \in Inside /\ LegalStep(setup, RootNode, pass_move)
      /\ LegalLine(setup, play(game, RootNode, pass_move), pv[frame.ply + 1])
      /\ Bounds(child_score, classify_bound(child_score, frame.low, frame.high),
                FrameValue(setup, frame, frame.move))
  BY <1>1, <1>2, <1>3, ChildAnswered
<1>5. line = <<pass_move>> \o pv[frame.ply + 1]
  BY <1>3
<1> HIDE DEF line
<1>6. /\ LegalLine(setup, RootNode, line) /\ line # << >> /\ line[1] = pass_move
      /\ pv' \in [Ply -> Seq(Int)]
  BY <1>1, <1>3, <1>4, <1>5, LineExtended
<1>7. bound = classify_bound(child_score, result.alpha, result.beta)
      /\ f = RootPassOf(frame)
      /\ q = Published(result, f, child_score, bound, line)
  OBVIOUS
<1> HIDE DEF bound, f, q
<1>8. q \in ResultType /\ ResultOK(setup, q) /\ q.depth = result.depth
  BY <1>1, <1>3, <1>4, <1>6, <1>7, RootPasses
<1>9. TableOK(setup, result, table') /\ stopped' \in BOOLEAN
  BY <1>1 DEF IInv
<1> QED BY <1>1, <1>6, <1>7, <1>8, <1>9, RootEnds

LEMMA SearchRootMoveStep ==
  ASSUME IInv, NEW m, m \in frame.todo, SearchRootMove(m)
  PROVE  IInv'
<1>1. AtRoot /\ frame.step = "loop" /\ frames # << >> /\ frame.proc = "root" /\ frame.step # "enter"
      /\ UNCHANGED <<setup, truth, table, pv, searches>>
  BY DEF SearchRootMove, AtRoot
<1>2. PICK told \in BOOLEAN :
        /\ should_stop(told)
        /\ \/ told /\ PublishStopped(frame)
           \/ /\ ~told
              /\ IF frame.best_move = no_move \/ ~use_pvs
                 THEN SearchMove("full", full_window_search, m, frame.alpha, frame.beta)
                 ELSE SearchNullWindow(m, root_low(m))
              /\ UNCHANGED <<returned, result>>
  BY DEF SearchRootMove
<1>3. stopped' \in BOOLEAN
  BY <1>2, StopChecked
<1>4. CASE PublishStopped(frame)
  BY <1>1, <1>3, <1>4, RootStopStep
<1>5. /\ setup \in Setups /\ FrameOK(setup, result, frame) /\ frame.depth # 0 /\ Looping(frame)
      /\ frame.alpha \in Score /\ frame.beta \in Score /\ frame.alpha < frame.beta
      /\ frame.alpha \in Int /\ frame.beta \in Int
  BY <1>1, TopFacts, InLoop
<1>6. \A step \in {"full", "null"} : CanWaitFor(setup, frame, step, m)
  BY <1>1 DEF CanWaitFor
<1>7. CASE /\ frame.best_move = no_move \/ ~use_pvs
           /\ SearchMove("full", full_window_search, m, frame.alpha, frame.beta)
           /\ UNCHANGED <<returned, result>>
  <2>1. Underway /\ returned' = no_return
    BY <1>1, <1>3, <1>7, TopFacts, UnderwayUnchanged DEF Waiting
  <2>2. /\ FrameOK(setup, result, WaitOf(frame, "full", m, frame.alpha, frame.beta))
        /\ SameCall(frame, WaitOf(frame, "full", m, frame.alpha, frame.beta))
        /\ LegalStep(setup, frame.node, m)
    BY <1>5, <1>6, <1>7, WaitKeepsFrame DEF use_pvs
  <2> QED BY <1>1, <1>5, <1>7, <2>1, <2>2, FullWindowSearch, StepsSearch
<1>8. CASE /\ frame.best_move # no_move
           /\ SearchNullWindow(m, root_low(m))
           /\ UNCHANGED <<returned, result>>
  <2> DEFINE low == root_low(m)
             high == low + 1
  <2>1. Underway /\ returned' = no_return
    BY <1>1, <1>3, <1>8, TopFacts, UnderwayUnchanged DEF Waiting
  <2>2. /\ frame.best_move \in Finished(setup, frame) /\ frame.best_score \in Inside
        /\ frame.best_score \in Int /\ kScoreLoss < frame.best_score
    BY <1>5, <1>8, BestCases, ScoreRange
  <2>3. m \in Int /\ frame.best_move \in Int /\ m # frame.best_move
    <3>1. m \in moves_of(setup.game, frame.node) /\ frame.node \in Node /\ frame \in Frame
      BY <1>1, TopFacts DEF FrameOK, StepOK
    <3> QED BY <1>5, <2>2, <3>1, OneMove, FrameFields DEF Finished
  <2>4. /\ low \in Score /\ high \in Score /\ low < high
        /\ \/ low = frame.alpha /\ m > frame.best_move
           \/ m < frame.best_move /\ low = frame.best_score - 1
    <3>1. CASE m < frame.best_move
      <4>1. low = frame.best_score - 1
        BY <1>8, <2>2, <3>1 DEF root_low
      <4> QED BY <2>2, <3>1, <4>1, SearchAssumption DEF Inside, Score, kScoreLoss
    <3>2. CASE m > frame.best_move
      <4>1. low = frame.alpha
        BY <2>3, <3>2 DEF root_low
      <4> QED BY <1>5, <3>2, <4>1, SearchAssumption DEF Score, kScoreLoss
    <3> QED BY <2>3, <3>1, <3>2
  <2>5. SearchMove("null", "alphabeta", m, low, high) /\ high = low + 1
    BY <1>8 DEF SearchNullWindow
  <2> HIDE DEF low, high
  <2>6. /\ FrameOK(setup, result, WaitOf(frame, "null", m, low, high))
        /\ SameCall(frame, WaitOf(frame, "null", m, low, high))
        /\ LegalStep(setup, frame.node, m)
    <3>1. m # pass_move
      <4>1. m \in moves_of(setup.game, frame.node) /\ frame.node \in Node
        BY <1>1, TopFacts DEF FrameOK, StepOK
      <4> QED BY <1>5, <4>1, OneMove
    <3> QED BY <1>1, <1>5, <1>6, <1>8, <2>4, <2>5, <3>1, WaitKeepsFrame
  <2> QED BY <1>1, <2>1, <2>4, <2>5, <2>6, StepsSearch
<1> QED BY <1>2, <1>4, <1>7, <1>8

\* What the root knows when the search of a move has found a score.
LEMMA RootAnswered ==
  ASSUME IInv, AtRoot, frame.step \in {"full", "null", "report"}, returned.kind = "complete"
  PROVE  /\ setup \in Setups /\ frames # << >> /\ FrameOK(setup, result, frame) /\ frame \in Frame
         /\ frame.proc = "root" /\ frame.node = RootNode /\ frame.ply = 0 /\ frame.depth # 0
         /\ child_score \in Inside
         /\ LegalLine(setup, play(game, RootNode, frame.move), pv[frame.ply + 1])
         /\ Bounds(child_score, classify_bound(child_score, frame.low, frame.high),
                   FrameValue(setup, frame, frame.move))
         /\ pv \in [Ply -> Seq(Int)]
<1>1. returned # no_return /\ returned # stopped_return
  BY CompleteReturned
<1>2. /\ setup \in Setups /\ frames # << >> /\ FrameOK(setup, result, frame) /\ frame \in Frame
      /\ frame.proc = "root" /\ pv \in [Ply -> Seq(Int)]
  BY TopFacts DEF AtRoot
<1>3. /\ frame.node = RootNode /\ frame.ply = 0 /\ ~frame.in_iid /\ frame.depth # 0
  BY <1>2 DEF FrameOK, RootOK, DepthOK
<1> QED BY <1>1, <1>2, <1>3, ScoreReturned

LEMMA RootResearchStep ==
  ASSUME IInv, RootResearch
  PROVE  IInv'
<1> DEFINE low == IF needs_research THEN frame.low ELSE frame.best_score - 1
           m == frame.move
<1>1. /\ AtRoot /\ frame.step \in {"full", "null"} /\ m # pass_move
      /\ returned.kind = "complete"
      /\ needs_research \/ needs_tie_research
      /\ SearchMove("full", full_window_search, m, low, frame.beta)
      /\ returned' = no_return /\ UNCHANGED pv
  BY DEF RootResearch
<1>2. Underway
  BY UnderwayUnchanged DEF RootResearch, IInv
<1>3. /\ setup \in Setups /\ frames # << >> /\ FrameOK(setup, result, frame) /\ frame \in Frame
      /\ frame.proc = "root" /\ frame.depth # 0 /\ child_score \in Inside /\ child_score \in Int
  BY <1>1, RootAnswered, ScoreRange
<1>4. m \in moves_of(setup.game, frame.node)
  BY <1>1, <1>3 DEF FrameOK, StepOK
<1>5. CanWaitFor(setup, frame, "full", m)
  BY <1>1, <1>4 DEF CanWaitFor
<1>6. /\ frame.alpha \in Score /\ frame.beta \in Score /\ frame.low \in Score
      /\ frame.alpha < frame.beta /\ Looping(frame) /\ frame.step # "enter"
      /\ frame.alpha \in Int /\ frame.beta \in Int /\ frame.low \in Int
  BY <1>1, <1>3, InLoop, ScoreRange DEF Frame
<1>7. /\ low \in Score /\ low < frame.beta
      /\ \/ low = frame.alpha /\ (frame.best_move = no_move \/ m > frame.best_move)
         \/ frame.best_move # no_move /\ m < frame.best_move /\ low = frame.best_score - 1
  <2>1. CASE needs_research
    <3>1. low = frame.low /\ frame.step = "null" /\ child_score > low /\ child_score < frame.beta
      BY <2>1 DEF needs_research
    <3>2. low < frame.beta
      BY <1>3, <1>6, <3>1
    <3>3. RootLowOK(setup, frame)
      BY <1>3 DEF FrameOK, RootOK
    <3> QED BY <1>1, <1>6, <3>1, <3>2, <3>3 DEF RootLowOK
  <2>2. CASE ~needs_research /\ needs_tie_research
    <3>1. /\ low = frame.best_score - 1 /\ frame.best_move # no_move /\ m < frame.best_move
          /\ child_score = frame.best_score /\ child_score <= frame.alpha
      BY <2>2 DEF needs_tie_research
    <3>2. low < frame.beta
      BY <1>3, <1>6, <3>1
    <3>3. low \in Score
      BY <1>3, <3>1, SearchAssumption DEF Inside, Score, kScoreLoss
    <3> QED BY <3>1, <3>2, <3>3
  <2> QED BY <1>1, <2>1, <2>2
<1> HIDE DEF low
<1>8. /\ FrameOK(setup, result, WaitOf(frame, "full", m, low, frame.beta))
      /\ SameCall(frame, WaitOf(frame, "full", m, low, frame.beta))
      /\ LegalStep(setup, frame.node, m)
  BY <1>1, <1>3, <1>5, <1>6, <1>7, WaitKeepsFrame
<1> QED BY <1>1, <1>2, <1>3, <1>6, <1>7, <1>8, FullWindowSearch, StepsSearch

LEMMA RootChildReturnedStep ==
  ASSUME IInv, RootChildReturned
  PROVE  IInv'
<1> DEFINE p == root_report
           h == RootUpdatedOf(frame, child_score, p)
           m == frame.move
<1>1. /\ AtRoot /\ frame.step \in {"full", "null"} /\ m # pass_move
      /\ returned.kind = "complete" /\ ~needs_research /\ ~needs_tie_research
      /\ pv' = [pv EXCEPT ![0] = p.line] /\ returned' = no_return
  BY DEF RootChildReturned
<1>2. frames' = Replace(h)
  BY DEF RootChildReturned, RootUpdatedOf, UpdatedOf, updated_frame
<1>3. Underway
  BY UnderwayUnchanged DEF RootChildReturned, IInv
<1>4. /\ setup \in Setups /\ frames # << >> /\ FrameOK(setup, result, frame) /\ frame \in Frame
      /\ frame.proc = "root" /\ frame.node = RootNode /\ frame.ply = 0 /\ child_score \in Inside
      /\ LegalLine(setup, play(game, RootNode, m), pv[frame.ply + 1])
      /\ Bounds(child_score, classify_bound(child_score, frame.low, frame.high),
                FrameValue(setup, frame, m))
  BY <1>1, RootAnswered
<1>5. m \in moves_of(setup.game, frame.node) /\ LegalStep(setup, frame.node, m)
  BY <1>1, <1>4 DEF FrameOK, StepOK, LegalStep
<1>6. m \in Square
  BY <1>4, <1>5, Moves, SearchAssumption
<1>7. ~NeedsResearch(frame, child_score) /\ ~NeedsTieResearch(setup, frame, child_score)
  BY <1>1 DEF needs_research, needs_tie_research, NeedsResearch, NeedsTieResearch, use_pvs
<1>8. /\ p.move = m /\ p.score = child_score /\ p.line = <<m>> \o pv[frame.ply + 1]
      /\ p.bound = classify_bound(child_score, frame.low, frame.high)
      /\ p = [move |-> p.move, score |-> p.score, line |-> p.line, bound |-> p.bound]
  BY <1>4 DEF root_report
<1>9. h = RootUpdatedOf(frame, child_score, p) /\ m = frame.move
  OBVIOUS
<1> HIDE DEF h, p, m
<1> DEFINE line == p.line
<1>10. line = <<m>> \o pv[frame.ply + 1]
  BY <1>8
<1> HIDE DEF line
<1>11. /\ LegalLine(setup, frame.node, line) /\ line # << >> /\ line[1] = m /\ line \in Seq(Int)
       /\ Rewritten(setup, frame, pv, [pv EXCEPT ![frame.ply] = line])
       /\ [pv EXCEPT ![frame.ply] = line][frame.ply] = line
  BY <1>4, <1>5, <1>9, <1>10, LineExtended
<1>12. pv' = [pv EXCEPT ![frame.ply] = line]
  BY <1>1, <1>4 DEF line
<1>13. ReportOK(setup, frame, p)
  <2>1. p.bound \in Bound
    BY <1>8 DEF classify_bound, Bound
  <2>2. p \in Report
    BY <1>4, <1>6, <1>8, <1>11, <2>1 DEF Report, line
  <2> QED BY <1>4, <1>8, <1>11, <2>2 DEF ReportOK, line
<1>14. FrameOK(setup, result, h) /\ SameCall(frame, h) /\ ~Waiting(h) /\ h.step # "enter"
  BY <1>1, <1>4, <1>5, <1>7, <1>8, <1>9, <1>13, RootGoesOn
<1>15. LegalLine(setup, h.node, pv'[h.ply]) /\ Rewritten(setup, frame, pv, pv')
  BY <1>11, <1>12, <1>14 DEF SameCall
<1> QED BY <1>1, <1>2, <1>3, <1>4, <1>14, <1>15, StepsStay

LEMMA InexactReports ==
  ASSUME NEW f
  PROVE  inexact_reports(f) = Inexact(setup, f)
BY DEF inexact_reports, Inexact, multi_pv

LEMMA SearchRootReportStep ==
  ASSUME IInv, SearchRootReport
  PROVE  IInv'
<1> DEFINE m == frame.reports[lowest(Inexact(setup, frame))].move
<1>1. /\ AtRoot /\ frames # << >> /\ frame.proc = "root" /\ frame.step = "complete"
      /\ frame.step # "enter" /\ Inexact(setup, frame) # {}
      /\ SearchMove("report", full_window_search, m, kScoreLoss, kScoreWin)
      /\ UNCHANGED <<setup, truth, table, pv, returned, stopped, result, searches>>
  BY InexactReports DEF SearchRootReport, AtRoot
<1>2. Underway /\ returned' = no_return
  BY <1>1, TopFacts, UnderwayUnchanged DEF Waiting
<1>3. m = frame.reports[lowest(Inexact(setup, frame))].move
  OBVIOUS
<1> HIDE DEF m
<1>4. /\ FrameOK(setup, result, WaitOf(frame, "report", m, kScoreLoss, kScoreWin))
      /\ SameCall(frame, WaitOf(frame, "report", m, kScoreLoss, kScoreWin))
      /\ LegalStep(setup, frame.node, m)
  BY <1>1, <1>3, TopFacts, ReportWaits
<1> QED BY <1>1, <1>2, <1>4, ScoreRange, FullWindowSearch, StepsSearch

LEMMA RootReportReturnedStep ==
  ASSUME IInv, RootReportReturned
  PROVE  IInv'
<1> DEFINE i == lowest(Inexact(setup, frame))
           line == <<frame.move>> \o pv[1]
           p == [move |-> frame.move, score |-> child_score, line |-> line, bound |-> "exact"]
           f == ReportedOf(frame, i, p)
           g == IF Inexact(setup, f) # {} THEN f ELSE RecomputedOf(f)
           m == frame.move
<1>1. /\ AtRoot /\ frame.step = "report" /\ returned.kind = "complete" /\ returned' = no_return
      /\ pv' = [pv EXCEPT ![0] = line]
  BY DEF RootReportReturned
<1>2. frames' = Replace(g)
  BY InexactReports DEF RootReportReturned, ReportedOf, RecomputedOf
<1>3. Underway
  BY UnderwayUnchanged DEF RootReportReturned, IInv
<1>4. /\ setup \in Setups /\ frames # << >> /\ FrameOK(setup, result, frame) /\ frame \in Frame
      /\ frame.proc = "root" /\ frame.node = RootNode /\ frame.ply = 0 /\ child_score \in Inside
      /\ frame.depth # 0 /\ frame.depth \in Depth /\ frame.node \in Node
      /\ LegalLine(setup, play(game, RootNode, m), pv[frame.ply + 1])
      /\ Bounds(child_score, classify_bound(child_score, frame.low, frame.high),
                FrameValue(setup, frame, m))
  BY <1>1, RootAnswered, FrameFields
<1>5. /\ Inexact(setup, frame) # {} /\ m = frame.reports[i].move
      /\ frame.low = kScoreLoss /\ frame.high = kScoreWin /\ m \in Finished(setup, frame)
  <2>1. RootReportsOK(setup, frame)
    BY <1>4 DEF FrameOK, RootOK
  <2>2. /\ Inexact(setup, frame) # {} /\ m = frame.reports[i].move
        /\ frame.low = kScoreLoss /\ frame.high = kScoreWin
    BY <1>1, <2>1 DEF RootReportsOK
  <2>3. i \in 1 .. Len(frame.reports)
    BY <1>4, <2>2, LowestInexact
  <2> QED BY <2>1, <2>2, <2>3 DEF RootReportsOK
<1>6. m \in moves_of(setup.game, frame.node) /\ LegalStep(setup, frame.node, m) /\ m \in Square
  <2>1. m \in moves_of(setup.game, frame.node)
    BY <1>5 DEF Finished
  <2> QED BY <1>4, <2>1, Moves DEF LegalStep
<1>7. child_score = FrameValue(setup, frame, m)
  <2> DEFINE x == child_score
             y == FrameValue(setup, frame, m)
  <2>1. x \in Int /\ y \in Int /\ kScoreLoss < x /\ x < kScoreWin
        /\ kScoreLoss \in Int /\ kScoreWin \in Int /\ kScoreLoss < kScoreWin
    BY <1>4, <1>6, ValueInside, ScoreRange DEF FrameValue
  <2>2. Bounds(x, classify_bound(x, kScoreLoss, kScoreWin), y)
    BY <1>4, <1>5
  <2> HIDE DEF x, y
  <2>3. x = y
    BY <2>1, <2>2, BoundsCases
  <2> QED BY <2>3 DEF x, y
<1>8. line = <<m>> \o pv[frame.ply + 1] /\ m = frame.move
  BY <1>4
<1>9. /\ p.move = m /\ p.score = child_score /\ p.line = line /\ p.bound = "exact"
      /\ p = [move |-> p.move, score |-> p.score, line |-> p.line, bound |-> p.bound]
  OBVIOUS
<1>10. f = ReportedOf(frame, i, p) /\ i = lowest(Inexact(setup, frame))
       /\ g = IF Inexact(setup, f) # {} THEN f ELSE RecomputedOf(f)
  OBVIOUS
<1> HIDE DEF g, f, p, line, i, m
<1>11. /\ LegalLine(setup, frame.node, line) /\ line # << >> /\ line[1] = m /\ line \in Seq(Int)
       /\ Rewritten(setup, frame, pv, [pv EXCEPT ![frame.ply] = line])
       /\ [pv EXCEPT ![frame.ply] = line][frame.ply] = line
  BY <1>4, <1>6, <1>8, LineExtended
<1>12. pv' = [pv EXCEPT ![frame.ply] = line]
  BY <1>1, <1>4
<1>13. ReportOK(setup, frame, p)
  <2>1. p \in Report
    BY <1>4, <1>6, <1>9, <1>11 DEF Report, Bound
  <2>2. Bounds(p.score, p.bound, FrameValue(setup, frame, p.move))
    BY <1>7, <1>9 DEF Bounds
  <2> QED BY <1>4, <1>9, <1>11, <2>1, <2>2 DEF ReportOK
<1>14. FrameOK(setup, result, f) /\ SameCall(frame, f) /\ f.step = "complete" /\ setup.multi_pv # 1
  BY <1>1, <1>4, <1>8, <1>9, <1>10, <1>13, ReportStored
<1>15. FrameOK(setup, result, g) /\ SameCall(frame, g) /\ g.step = "complete"
  <2>1. CASE Inexact(setup, f) # {}
    BY <1>10, <1>14, <2>1
  <2>2. CASE Inexact(setup, f) = {}
    <3>1. g = RecomputedOf(f) /\ f.proc = "root"
      BY <1>4, <1>10, <1>14, <2>2 DEF SameCall
    <3>2. FrameOK(setup, result, g) /\ SameCall(f, g) /\ g.step = "complete"
      BY <1>4, <1>14, <2>2, <3>1, BestRecomputed
    <3> QED BY <1>14, <3>2 DEF SameCall
  <2> QED BY <2>1, <2>2
<1>16. LegalLine(setup, g.node, pv'[g.ply]) /\ Rewritten(setup, frame, pv, pv') /\ ~Waiting(g)
  BY <1>11, <1>12, <1>15 DEF SameCall, Waiting
<1> QED BY <1>1, <1>2, <1>3, <1>4, <1>15, <1>16, StepsStay

LEMMA FinishRootStep ==
  ASSUME IInv, FinishRoot
  PROVE  IInv'
<1> DEFINE bound == classify_bound(frame.best_score, result.alpha, result.beta)
           q == Published(result, frame, frame.best_score, bound, frame.best_line)
<1>1. /\ AtRoot /\ frames # << >> /\ frame.proc = "root" /\ frame.step = "complete"
      /\ Inexact(setup, frame) = {}
      /\ table' = table \cup
           {claim(frame.node, frame.depth, frame.best_score, bound, frame.best_move)}
      /\ frames' = << >> /\ returned' = no_return /\ result' = q
      /\ UNCHANGED <<setup, truth, pv, stopped, searches>>
  BY InexactReports DEF FinishRoot, AtRoot, Finish, Published
<1>2. /\ setup \in Setups /\ result \in ResultType /\ FrameOK(setup, result, frame)
      /\ TableOK(setup, result, table) /\ pv' \in [Ply -> Seq(Int)] /\ stopped' \in BOOLEAN
      /\ result.depth \in Depth
  BY <1>1, TopFacts DEF IInv
<1>3. bound = classify_bound(frame.best_score, result.alpha, result.beta)
      /\ q = Published(result, frame, frame.best_score, bound, frame.best_line)
  OBVIOUS
<1> HIDE DEF q, bound
<1>4. /\ q \in ResultType /\ ResultOK(setup, q) /\ q.depth = result.depth
      /\ Bounds(frame.best_score, bound, Minimax(setup)[<<RootNode, result.depth>>]) /\ bound \in Bound
      /\ frame.node = RootNode /\ frame.depth = result.depth
      /\ frame.best_move \in Square /\ frame.best_score \in Inside
      /\ frame.best_move \in moves_of(setup.game, RootNode)
  BY <1>1, <1>2, <1>3, RootPublishes
<1>5. TableOK(setup, result, table')
  <2>1. result.depth + setup.stage[RootNode] <= Horizon(setup, result) /\ RootNode \in Node
    BY <1>2, SetupAssumption, SearchAssumption DEF Horizon, Depth
  <2> QED BY <1>1, <1>2, <1>4, <2>1, ClaimStored
<1> QED BY <1>1, <1>2, <1>4, <1>5, RootEnds

-----------------------------------------------------------------------------
(***************************************************************************)
(* The invariant.                                                          *)
(***************************************************************************)
LEMMA InitIsInvariant ==
  ASSUME Init
  PROVE  IInv
<1>1. /\ setup \in Setups /\ truth = Minimax(setup) /\ table = {} /\ frames = << >>
      /\ pv = [ply \in Ply |-> << >>] /\ returned = no_return /\ stopped = FALSE
      /\ result = no_result /\ searches = 0
  BY DEF Init
<1>2. searches \in 0 .. MaxSearches
  BY <1>1, SetupAssumption DEF MaxSearches
<1>3. result \in ResultType
  BY <1>1, ScoreRange, SearchAssumption DEF no_result, ResultType, Bound, no_move, Depth
<1>4. TableOK(setup, result, table)
  BY <1>1 DEF TableOK
<1>5. CallsOK(setup, result, frames, pv, returned)
  <2>1. frames \in Seq(Frame) /\ Len(frames) = 0
    BY <1>1
  <2>2. StackOK(setup, result, frames)
    BY <2>1 DEF StackOK
  <2>3. pv \in [Ply -> Seq(Int)]
    BY <1>1
  <2>4. LinesOK(setup, frames, pv)
    BY <2>1, <2>3 DEF LinesOK
  <2>5. ReturnOK(setup, frames, pv, returned)
    BY <1>1 DEF ReturnOK
  <2> QED BY <2>2, <2>4, <2>5 DEF CallsOK
<1> QED BY <1>1, <1>2, <1>3, <1>4, <1>5 DEF IInv

LEMMA StutterKeepsInvariant ==
  ASSUME IInv, UNCHANGED vars
  PROVE  IInv'
BY DEF IInv, vars, MaxSearches

LEMMA NextKeepsInvariant ==
  ASSUME IInv, [Next]_vars
  PROVE  IInv'
<1>1. CASE \E depth \in Depths, window \in Windows : StartSearch(depth, window)
  BY <1>1, StartSearchStep
<1>2. CASE EnterRoot \/ RootPass \/ RootPassReturned
  BY <1>2, EnterRootStep, RootPassStep, RootPassReturnedStep
<1>3. CASE frames # << >> /\ \E m \in frame.todo : SearchRootMove(m) \/ SearchChild(m)
  BY <1>3, SearchRootMoveStep, SearchChildStep
<1>4. CASE RootChildStopped \/ RootResearch \/ RootChildReturned
  BY <1>4, RootChildStoppedStep, RootResearchStep, RootChildReturnedStep
<1>5. CASE SearchRootReport \/ RootReportReturned \/ FinishRoot
  BY <1>5, SearchRootReportStep, RootReportReturnedStep, FinishRootStep
<1>6. CASE EvaluateNode \/ EnterNode \/ SearchIid \/ IidReturned
  BY <1>6, EvaluateNodeStep, EnterNodeStep, SearchIidStep, IidReturnedStep
<1>7. CASE SearchPassChild \/ PassChildReturned
  BY <1>7, SearchPassChildStep, PassChildReturnedStep
<1>8. CASE ChildStopped \/ ResearchChild \/ ChildReturned
  BY <1>8, ChildStoppedStep, ResearchChildStep, ChildReturnedStep
<1>9. CASE UNCHANGED vars
  BY <1>9, StutterKeepsInvariant
<1> QED BY <1>1, <1>2, <1>3, <1>4, <1>5, <1>6, <1>7, <1>8, <1>9 DEF Next

\* The inductive invariant: every loop of pvs, alphabeta and the root knows what
\* it must know of the moves it has finished, every call waits for the call
\* above it with that call's window, and the table, the lines and the value
\* being returned say nothing false.
THEOREM SearchInvariant == Spec => []IInv
<1>1. Init => IInv
  BY InitIsInvariant
<1>2. IInv /\ [Next]_vars => IInv'
  BY NextKeepsInvariant
<1> QED BY <1>1, <1>2, PTL DEF Spec

-----------------------------------------------------------------------------
(***************************************************************************)
(* The properties.                                                         *)
(***************************************************************************)

\* The claims that can answer the running search are true, whatever windows,
\* re-searches and stops stored them: midgame_tt_cutoff may trust them.
THEOREM TableNeverLies == Spec => []TableIsTrue
<1>1. IInv => TableIsTrue
  <2> SUFFICES ASSUME IInv, NEW c \in table, c.depth + setup.stage[c.node] >= horizon
               PROVE  Bounds(c.score, c.bound, truth[<<c.node, c.depth>>])
    BY DEF TableIsTrue
  <2> DEFINE x == c.depth + setup.stage[c.node]
  <2>1. /\ setup \in Setups /\ truth = Minimax(setup) /\ result.depth \in Depth
        /\ TableOK(setup, result, table)
    BY DEF IInv, ResultType
  <2>2. /\ c \in [node : Node, depth : Depth, score : Inside, bound : Bound, best_move : Square]
        /\ x <= horizon
        /\ x = horizon => Bounds(c.score, c.bound, Minimax(setup)[<<c.node, c.depth>>])
    BY <2>1 DEF TableOK, Horizon, horizon
  <2>3. x \in Int /\ horizon \in Int /\ x >= horizon
    BY <2>1, <2>2, SetupAssumption, SearchAssumption DEF Depth, horizon
  <2> HIDE DEF x
  <2>4. x = horizon
    BY <2>2, <2>3
  <2> QED BY <2>1, <2>2, <2>4
<1> QED BY <1>1, SearchInvariant, PTL

\* What a call returns is a fail-soft answer to the window it was given.
THEOREM CallsAnswerTheirWindows == Spec => []AnswersAreBounds
<1>1. IInv => AnswersAreBounds
  <2> SUFFICES ASSUME IInv, InNode \/ AtRoot, returned.kind = "complete",
                      ~frame.in_iid, frame.step # "iid"
               PROVE  Bounds(child_score, classify_bound(child_score, frame.low, frame.high),
                             -truth[<<play(game, frame.node, frame.move),
                                      child_depth(setup, frame.depth, frame.move)>>])
    BY DEF AnswersAreBounds
  <2>1. frames # << >> /\ returned # no_return /\ returned # stopped_return
    BY CompleteReturned DEF InNode, AtRoot
  <2>2. Bounds(child_score, classify_bound(child_score, frame.low, frame.high),
               FrameValue(setup, frame, frame.move))
    BY <2>1, ScoreReturned
  <2>3. truth = Minimax(setup)
    BY DEF IInv
  <2> QED BY <2>2, <2>3 DEF FrameValue, ValueOf, game
<1> QED BY <1>1, SearchInvariant, PTL

\* A root search that was not stopped answers its window.
THEOREM RootAnswersItsWindow == Spec => []RootAnswerIsTrue
<1>1. IInv => RootAnswerIsTrue
  BY DEF IInv, ResultOK, RootAnswerIsTrue
<1> QED BY <1>1, SearchInvariant, PTL

\* An exact answer's move has the exact value, and every move on a lower square
\* is worse.
THEOREM BestMoveIsTheLowest == Spec => []BestMoveIsLowestOptimal
<1>1. IInv => BestMoveIsLowestOptimal
  <2> SUFFICES ASSUME IInv, frames = << >>, searches # 0, ~result.stopped,
                      result.bound = "exact", result.best_move # pass_move
               PROVE  /\ -truth[<<play(game, RootNode, result.best_move), result.depth - 1>>]
                           = truth[<<RootNode, result.depth>>]
                      /\ \A m \in moves_of(game, RootNode) :
                           m < result.best_move =>
                             -truth[<<play(game, RootNode, m), result.depth - 1>>]
                               < truth[<<RootNode, result.depth>>]
    BY DEF BestMoveIsLowestOptimal
  <2>1. /\ setup \in Setups /\ truth = Minimax(setup) /\ result.depth \in Depth
        /\ ResultOK(setup, result)
    BY DEF IInv, ResultType
  <2>2. result.score = truth[<<RootNode, result.depth>>]
    BY <2>1 DEF ResultOK, Bounds
  <2>3. ASSUME NEW m, m # pass_move
        PROVE  ValueOf(setup, RootNode, result.depth, m)
                 = -truth[<<play(game, RootNode, m), result.depth - 1>>]
    BY <2>1, <2>3 DEF ValueOf, child_depth, game
  <2>4. /\ ValueOf(setup, RootNode, result.depth, result.best_move) = result.score
        /\ \A m \in moves_of(setup.game, RootNode) :
             m < result.best_move => ValueOf(setup, RootNode, result.depth, m) < result.score
    BY <2>1 DEF ResultOK
  <2>5. \A m \in moves_of(setup.game, RootNode) : m # pass_move
    BY <2>1, SearchAssumption, OneMove
  <2> QED BY <2>2, <2>3, <2>4, <2>5 DEF game
<1> QED BY <1>1, SearchInvariant, PTL

\* A stopped full-range search that has found a move has found a lower bound.
THEOREM StoppedAnswersAreLowerBounds == Spec => []StoppedAnswerIsLowerBound
<1>1. IInv => StoppedAnswerIsLowerBound
  <2> SUFFICES ASSUME IInv, frames = << >>, result.stopped, result.best_move # no_move,
                      result.alpha = kScoreLoss
               PROVE  result.score <= truth[<<RootNode, result.depth>>]
    BY DEF StoppedAnswerIsLowerBound
  <2>1. searches # 0
    BY DEF IInv, no_result
  <2> QED BY <2>1 DEF IInv, ResultOK
<1> QED BY <1>1, SearchInvariant, PTL

\* With several lines asked for, every reported score is the move's own value.
THEOREM ReportsHaveExactValues == Spec => []ReportsAreExact
<1>1. IInv => ReportsAreExact
  <2> SUFFICES ASSUME IInv, frames = << >>, ~result.stopped, multi_pv # 1,
                      NEW i \in 1 .. Len(result.reports)
               PROVE  result.reports[i].score =
                        -truth[<<play(game, RootNode, result.reports[i].move), result.depth - 1>>]
    BY DEF ReportsAreExact
  <2>1. searches # 0
    <3>1. searches = 0 => result.reports = << >>
      BY DEF IInv, no_result
    <3> QED BY <3>1
  <2>2. truth = Minimax(setup) /\ result \in ResultType
        /\ result.reports[i].score =
             ValueOf(setup, RootNode, result.depth, result.reports[i].move)
    BY <2>1 DEF IInv, ResultOK, multi_pv
  <2>3. result.reports[i].move # pass_move
    <3>1. result.reports \in Seq(Report)
      BY <2>2 DEF ResultType
    <3>2. result.reports[i] \in Report
      BY <3>1, ElementOfSeq
    <3> QED BY <3>2 DEF Report, Square, pass_move
  <2> QED BY <2>2, <2>3 DEF ValueOf, child_depth, game
<1> QED BY <1>1, SearchInvariant, PTL

\* Every published line can be replayed.
ReplayStep(s, line, replay, i) ==
  IF i = 0 THEN {RootNode}
  ELSE UNION {LET m == line[i]
              IN  IF m \in moves_of(s.game, n) \/ (m = pass_move /\ must_pass(s.game, n))
                  THEN {play(s.game, n, m)} ELSE {} : n \in replay[i - 1]}

LEMMA ReplayExists ==
  ASSUME NEW s, NEW line \in Seq(Int)
  PROVE  \E f : f = [i \in 0 .. Len(line) |-> ReplayStep(s, line, f, i)]
<1> DEFINE Index == 0 .. Len(line)
           upto(f, k) == /\ DOMAIN f = Index /\ f = [i \in Index |-> f[i]]
                         /\ \A i \in 0 .. k : f[i] = ReplayStep(s, line, f, i)
           failed == {k \in Index : ~ \E f : upto(f, k)}
<1>1. Len(line) \in Nat
  OBVIOUS
<1>2. failed = {}
  <2> SUFFICES ASSUME failed # {} PROVE FALSE
    OBVIOUS
  <2>1. PICK k \in failed : \A j \in failed : k <= j
    <3>1. failed \in SUBSET Nat
      BY <1>1
    <3> HIDE DEF failed
    <3> QED BY <3>1, LeastNumber
  <2>2. k \in Nat /\ k \in Index
    BY <1>1
  <2>3. PICK f : /\ DOMAIN f = Index /\ f = [i \in Index |-> f[i]]
                 /\ \A i \in 0 .. k - 1 : f[i] = ReplayStep(s, line, f, i)
    <3>1. CASE k = 0
      <4> DEFINE f == [i \in Index |-> {}]
      <4>1. DOMAIN f = Index /\ f = [i \in Index |-> f[i]] /\ 0 .. k - 1 = {}
        BY <3>1
      <4> HIDE DEF f
      <4> QED BY <4>1
    <3>2. CASE k # 0
      <4>1. k - 1 \in Index /\ ~(k <= k - 1)
        BY <1>1, <2>2, <3>2
      <4>2. \E f : upto(f, k - 1)
        BY <2>1, <4>1
      <4> QED BY <4>2
    <3> QED BY <3>1, <3>2
  <2> DEFINE g == [i \in Index |-> IF i = k THEN ReplayStep(s, line, f, k) ELSE f[i]]
  <2>4. /\ DOMAIN g = Index /\ g = [i \in Index |-> g[i]]
        /\ \A i \in Index : g[i] = IF i = k THEN ReplayStep(s, line, f, k) ELSE f[i]
    OBVIOUS
  <2> HIDE DEF g
  <2>5. ASSUME NEW i \in 0 .. k
        PROVE  g[i] = ReplayStep(s, line, g, i)
    <3>1. i \in Index /\ (i # 0 => i - 1 \in Index /\ i - 1 # k)
      BY <1>1, <2>2
    <3>2. i # 0 => g[i - 1] = f[i - 1]
      BY <2>4, <3>1
    <3>3. ReplayStep(s, line, g, i) = ReplayStep(s, line, f, i)
      BY <3>2 DEF ReplayStep
    <3>4. CASE i = k
      BY <2>4, <3>1, <3>3, <3>4
    <3>5. CASE i # k
      <4>1. i \in 0 .. k - 1
        BY <2>2, <3>5
      <4> QED BY <2>3, <2>4, <3>1, <3>3, <3>5, <4>1
    <3> QED BY <3>4, <3>5
  <2>6. upto(g, k)
    BY <2>4, <2>5
  <2> QED BY <2>1, <2>6
<1>3. PICK f : upto(f, Len(line))
  <2>1. Len(line) \in Index
    BY <1>1
  <2> QED BY <1>2, <2>1
<1>4. f = [i \in 0 .. Len(line) |-> ReplayStep(s, line, f, i)]
  BY <1>3
<1> QED BY <1>4

LEMMA LineReplays ==
  ASSUME NEW s, NEW line, LegalLine(s, RootNode, line),
         NEW replay, replay = [i \in 0 .. Len(line) |-> ReplayStep(s, line, replay, i)]
  PROVE  replay[Len(line)] # {}
<1>1. Len(line) \in Nat
  BY DEF LegalLine
<1>2. PICK path \in [0 .. Len(line) -> Node] :
        /\ path[0] = RootNode
        /\ \A i \in 1 .. Len(line) :
             LegalStep(s, path[i - 1], line[i]) /\ path[i] = play(s.game, path[i - 1], line[i])
  BY DEF LegalLine
<1>3. \A i \in 0 .. Len(line) : replay[i] = ReplayStep(s, line, replay, i)
  OBVIOUS
<1> DEFINE missed == {i \in 0 .. Len(line) : path[i] \notin replay[i]}
<1>4. missed = {}
  <2> SUFFICES ASSUME missed # {} PROVE FALSE
    OBVIOUS
  <2>1. PICK k \in missed : \A j \in missed : k <= j
    <3>1. missed \in SUBSET Nat
      BY <1>1
    <3> HIDE DEF missed
    <3> QED BY <3>1, LeastNumber
  <2>2. k \in 0 .. Len(line) /\ k \in Nat /\ path[k] \notin replay[k]
    BY <1>1
  <2>3. CASE k = 0
    BY <1>2, <1>3, <2>2, <2>3 DEF ReplayStep
  <2>4. CASE k # 0
    <3>1. k - 1 \in 0 .. Len(line) /\ k \in 1 .. Len(line) /\ ~(k <= k - 1)
      BY <1>1, <2>2, <2>4
    <3>2. path[k - 1] \in replay[k - 1]
      BY <2>1, <3>1
    <3>3. LegalStep(s, path[k - 1], line[k]) /\ path[k] = play(s.game, path[k - 1], line[k])
      BY <1>2, <3>1
    <3>4. path[k] \in ReplayStep(s, line, replay, k)
      BY <2>4, <3>2, <3>3 DEF ReplayStep, LegalStep
    <3> QED BY <1>3, <2>2, <3>4
  <2> QED BY <2>3, <2>4
<1>5. Len(line) \in 0 .. Len(line)
  BY <1>1
<1> QED BY <1>4, <1>5

\* The principal variation can be replayed from the root, and it starts with
\* the best move.
THEOREM PvCanBeReplayed == Spec => []PvIsLegal
<1>1. IInv => PvIsLegal
  <2> SUFFICES ASSUME IInv PROVE PvIsLegal
    OBVIOUS
  <2> DEFINE line == result.line
             replays(f) == f = [i \in 0 .. Len(line) |-> ReplayStep(setup, line, f, i)]
             replay == CHOOSE f : replays(f)
  <2>1. ASSUME frames = << >>
        PROVE  /\ LegalLine(setup, RootNode, line)
               /\ result.best_move # no_move => line # << >> /\ line[1] = result.best_move
    <3>1. CASE searches = 0
      <4>1. line = << >> /\ result.best_move = no_move
        BY <3>1 DEF IInv, no_result
      <4> QED BY <4>1, EmptyLine, SearchAssumption
    <3>2. CASE searches # 0
      BY <2>1, <3>2 DEF IInv, ResultOK
    <3> QED BY <3>1, <3>2
  <2>2. line \in Seq(Int)
    BY DEF IInv, ResultType
  <2>3. replays(replay)
    <3>1. \E f : replays(f)
      BY <2>2, ReplayExists
    <3> HIDE DEF replays
    <3> QED BY <3>1
  <2>4. ASSUME frames = << >>
        PROVE  replay[Len(line)] # {}
    <3> HIDE DEF replay, line
    <3> QED BY <2>1, <2>3, <2>4, LineReplays
  <2>5. PvIsLegal <=>
          (frames = << >> =>
             /\ replay[Len(line)] # {}
             /\ result.best_move # no_move => line # << >> /\ line[1] = result.best_move)
    BY DEF PvIsLegal, ReplayStep, game
  <2> HIDE DEF replay, line, replays
  <2> QED BY <2>1, <2>4, <2>5
<1> QED BY <1>1, SearchInvariant, PTL

\* Every frame, claim and result has its type, no window is ever empty where
\* its search starts, and the lines by ply have room for the deepest call.
THEOREM SearchTypes == Spec => []TypeOK
<1>1. IInv => TypeOK
  <2> SUFFICES ASSUME IInv PROVE TypeOK
    OBVIOUS
  <2>1. /\ setup \in Setups /\ stopped \in BOOLEAN /\ searches \in 0 .. MaxSearches
        /\ result.depth \in Depth /\ TableOK(setup, result, table)
        /\ StackOK(setup, result, frames) /\ LinesOK(setup, frames, pv)
        /\ ReturnOK(setup, frames, pv, returned)
    BY DEF IInv, CallsOK, ResultType
  <2>2. ASSUME NEW c \in table
        PROVE  c \in [node : Node, depth : Depth, score : Score,
                      bound : {"exact", "lower", "upper"}, best_move : Move]
    <3>1. /\ c \in [node : Node, depth : Depth, score : Inside, bound : Bound, best_move : Square]
          /\ c.best_move \in moves_of(setup.game, c.node)
      BY <2>1 DEF TableOK
    <3>2. c.best_move \in Move /\ c.score \in Score
      BY <3>1, ScoreRange DEF Move, game
    <3> QED BY <3>1, <3>2 DEF Bound
  <2>3. returned.kind \in {"none", "stopped", "complete"} /\ returned.score \in Score
    <3>1. returned \in {no_return, stopped_return} \cup {completed(x) : x \in Inside}
      BY <2>1 DEF ReturnOK
    <3>2. 0 \in Score
      BY SearchAssumption DEF Score, kScoreLoss
    <3>3. CASE returned \in {no_return, stopped_return}
      BY <3>2, <3>3 DEF no_return, stopped_return
    <3>4. CASE \E x \in Inside : returned = completed(x)
      BY <3>4, ScoreRange DEF completed
    <3> QED BY <3>1, <3>3, <3>4
  <2>4. ASSUME NEW i \in 1 .. Len(frames)
        PROVE  /\ frames[i].alpha \in Score /\ frames[i].original_alpha < frames[i].beta
               /\ frames[i].ply + 1 \in DOMAIN pv
               /\ frames[i].best_move \in Move
    <3> DEFINE f == frames[i]
    <3>1. FrameOK(setup, result, f) /\ f \in Frame
      BY <2>1 DEF StackOK, FrameOK
    <3>2. f.alpha \in Score /\ f.original_alpha < f.beta
      BY <3>1 DEF Frame, FrameOK, WindowOK
    <3>3. f.best_move \in Move
      <4>1. f.best_move = no_move \/ f.best_move \in Finished(setup, f)
        BY <3>1 DEF FrameOK, BestOK
      <4> QED BY <3>1, <4>1, FrameFields DEF Move, Finished, game
    <3>4. f.ply + 1 \in Ply
      <4> DEFINE p == f.ply
                 d == f.depth
                 k == IF must_pass(setup.game, f.node) THEN 0 ELSE 1
      <4>1. p + 2 * d <= 2 * result.depth + k
        BY <3>1 DEF FrameOK, DepthOK
      <4>2. p \in Nat /\ d \in Nat /\ k \in {0, 1} /\ result.depth \in Depth /\ MaxDepth \in Nat
        BY <2>1, <3>1, FrameFields, SearchAssumption
      <4> HIDE DEF p, d, k
      <4>3. p + 1 \in Ply
        BY <4>1, <4>2 DEF Ply, Depth
      <4> QED BY <4>3 DEF p
    <3>5. DOMAIN pv = Ply
      BY <2>1 DEF LinesOK
    <3> QED BY <3>2, <3>3, <3>4, <3>5
  <2>5. table \subseteq [node : Node, depth : Depth, score : Score,
                         bound : {"exact", "lower", "upper"}, best_move : Move]
    BY <2>2
  <2> QED BY <2>1, <2>3, <2>4, <2>5 DEF TypeOK
<1> QED BY <1>1, SearchInvariant, PTL
=============================================================================
