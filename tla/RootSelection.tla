---------------------------- MODULE RootSelection ----------------------------
(***************************************************************************)
(* The programs that choose, from normalised rows, the roots a teacher is  *)
(* to label: select_phase_stratified_roots.py, select_low_empty_roots.py,  *)
(* normalized_v2_contract.py and select_hard_search_teacher_roots.py.      *)
(*                                                                         *)
(* The cap on roots of one game is a flow from phases through games, and   *)
(* is found one augmenting path at a time.  Which of the shortest paths is *)
(* taken depends on an order of phases and games that comes from digests;  *)
(* here it is any of them.                                                 *)
(***************************************************************************)
EXTENDS RowSample

CONSTANTS Phases,
          SelectedSplit(_)   \* selected_game_group_split of a game group

VARIABLES args, outcome, files,
          flow               \* roots sent from each phase to each game, or None

Report(why) == outcome' = why /\ UNCHANGED files
Finish(written) == outcome' = "ok" /\ files' = written

-----------------------------------------------------------------------------
(* select_phase_stratified_roots.py                                        *)

\* The first row of each board.
unique_roots(rows) ==
    {row \in rows : \A x \in rows : x.board = row.board => row.ordinal <= x.ordinal}

\* fnv_sample_key with the board id as the tie-break.
Least(roots, n) ==
    {root \in roots :
        Cardinality({x \in roots : SampleKey(args.seed, <<x.board>>)
                                   < SampleKey(args.seed, <<root.board>>)}) < n}

load_roots == unique_roots(files.normalized)

leaks(rows) == BoardCollisions(rows) \cup GameCollisions(rows) # {}

roots_by_phase_and_game(phase, game) ==
    {root \in load_roots : root.phase = phase /\ root.game = game}

Games == {root.game : root \in load_roots}
Cells ==
    {cell \in Phases \X Games : roots_by_phase_and_game(cell[1], cell[2]) # {}}
Room(cell) == Cardinality(roots_by_phase_and_game(cell[1], cell[2]))

SumOver(f, S) == MapThenSumSet(LAMBDA cell : f[cell], S)
OfPhase(f, p) == SumOver(f, {cell \in DOMAIN f : cell[1] = p})
OfGame(f, g) == SumOver(f, {cell \in DOMAIN f : cell[2] = g})

\* A path <<p1, g1, p2, g2, ...>>: from a phase below its quota to a game,
\* from that game back to a phase it has roots of, and so on to a game below
\* the cap.
AugmentingPaths(f, k) ==
    {path \in [1..k -> Phases] \X [1..k -> Games] :
        /\ \A i \in 1..k : <<path[1][i], path[2][i]>> \in Cells
        /\ \A i \in 1..k : f[<<path[1][i], path[2][i]>>] < Room(<<path[1][i], path[2][i]>>)
        /\ \A i \in 1..(k - 1) : /\ <<path[1][i + 1], path[2][i]>> \in Cells
                                 /\ f[<<path[1][i + 1], path[2][i]>>] > 0
        /\ \A i, j \in 1..k : i # j => path[1][i] # path[1][j] /\ path[2][i] # path[2][j]
        /\ OfPhase(f, path[1][1]) < args.quota[path[1][1]]
        /\ OfGame(f, path[2][k]) < args.cap}

Longest == Min({Cardinality(Phases), Cardinality(Games)})
Shortest(f) ==
    LET lengths == {k \in 1..Longest : AugmentingPaths(f, k) # {}}
    IN  IF lengths = {} THEN {} ELSE AugmentingPaths(f, Min(lengths))

\* Mutant of send_blocking_flow: nothing is taken back from the games that
\* the path goes back through.
send_flow_forth_only(f, path) ==
    LET k == Len(path[1])
        forth == {<<path[1][i], path[2][i]>> : i \in 1..k}
    IN  [cell \in DOMAIN f |-> IF cell \in forth THEN f[cell] + 1 ELSE f[cell]]

\* send_blocking_flow: as much as every edge of the path can take.
send_blocking_flow(f, path) ==
    LET k == Len(path[1])
        forth == {<<path[1][i], path[2][i]>> : i \in 1..k}
        back == {<<path[1][i + 1], path[2][i]>> : i \in 1..(k - 1)}
        sent == Min({Room(cell) - f[cell] : cell \in forth} \cup {f[cell] : cell \in back}
                    \cup {args.quota[path[1][1]] - OfPhase(f, path[1][1]),
                          args.cap - OfGame(f, path[2][k])})
    IN  [cell \in DOMAIN f |-> CASE cell \in forth -> f[cell] + sent
                                 [] cell \in back  -> f[cell] - sent
                                 [] OTHER          -> f[cell]]

select_with_game_cap ==
    UNION {LET cellRoots == roots_by_phase_and_game(cell[1], cell[2])
           IN  Least(cellRoots, flow[cell]) : cell \in Cells}

select_without_game_cap ==
    UNION {Least({root \in load_roots : root.phase = p}, args.quota[p]) : p \in Phases}

apply_selected_split_policy(roots) ==
    {[root EXCEPT !.split =
         IF root.phase \in args.train_only THEN "train"
         ELSE IF args.split_policy = "preserve" THEN root.split
         ELSE SelectedSplit(root.game)] : root \in roots}

phase_parse_args(A) == {a \in A : a.split_policy = "game-group-hash" => a.cap = 1}

\* main, until the roots are grouped.
start_selection ==
    /\ args.tool = "select_phases" /\ outcome = None /\ flow = None
    /\ IF files.normalized = None THEN Report("no-input") /\ UNCHANGED flow
       ELSE IF leaks(files.normalized)
       THEN Report("input-leakage") /\ UNCHANGED flow
       ELSE flow' = [cell \in Cells |-> 0] /\ UNCHANGED <<outcome, files>>
    /\ UNCHANGED args

\* max_flow.
augment ==
    /\ args.tool = "select_phases" /\ outcome = None /\ flow # None /\ args.cap # None
    /\ \E path \in Shortest(flow) : flow' = send_blocking_flow(flow, path)
    /\ UNCHANGED <<args, outcome, files>>

\* main, after the selection.  With --require-all-phases a shortage is an
\* error, but the files have been written.
finish_selection ==
    /\ args.tool = "select_phases" /\ outcome = None /\ flow # None
    /\ args.cap # None => Shortest(flow) = {}
    /\ LET roots == apply_selected_split_policy(
               IF args.cap = None THEN select_without_game_cap ELSE select_with_game_cap)
           shortage == {p \in Phases :
               Cardinality({r \in roots : r.phase = p}) < args.quota[p]}
       IN  IF leaks(roots) THEN Report("selected-leakage")
           ELSE /\ files' = [files EXCEPT !.roots = roots]
                /\ outcome' = IF args.require_all /\ shortage # {} THEN "shortage" ELSE "ok"
    /\ UNCHANGED <<args, flow>>

-----------------------------------------------------------------------------
(* select_low_empty_roots.py, and the selection the exact teacher and its  *)
(* cache make (normalized_v2_contract.select_roots).                       *)

eligible(rows, max_empty) == unique_roots({row \in rows : row.empty <= max_empty})

select_low_empty ==
    /\ args.tool = "select_low_empty" /\ outcome = None
    /\ LET roots == eligible(files.normalized, args.max_empty)
       IN  IF Cardinality(roots) < args.max_roots /\ ~args.allow_less
           THEN Report("too-few-roots")
           ELSE Finish([files EXCEPT !.roots = Least(roots, args.max_roots)])
    /\ UNCHANGED <<args, flow>>

select_roots(rows, max_empty, max_roots) ==
    IF max_roots = None THEN eligible(rows, max_empty)
    ELSE Least(eligible(rows, max_empty), max_roots)

-----------------------------------------------------------------------------
(* select_hard_search_teacher_roots.py: roots where the baseline would     *)
(* play a move the teacher thinks worse of.                                *)

MovesOf(teacher, root) == {row \in teacher : row.root = root}
Baseline(row) == -row.child_baseline

\* Of the moves the baseline likes best, the best for the teacher counts.
regret(rows) ==
    LET liked == {row \in rows : \A x \in rows : Baseline(x) <= Baseline(row)}
    IN  Max({row.score : row \in rows}) - Max({row.score : row \in liked})

best_score_margin(rows) ==
    Min({row.margin : row \in {x \in rows : \A y \in rows : y.score <= x.score}})

load_hard_roots(teacher) ==
    {root \in {row.root : row \in teacher} :
        regret(MovesOf(teacher, root)) >= args.minimum_regret}

Harder(teacher, a, b) ==
    LET x == MovesOf(teacher, a)
        y == MovesOf(teacher, b)
    IN  \/ regret(x) > regret(y)
        \/ regret(x) = regret(y) /\ best_score_margin(x) < best_score_margin(y)
        \/ /\ regret(x) = regret(y) /\ best_score_margin(x) = best_score_margin(y)
           /\ SampleKey(args.seed, <<a>>) < SampleKey(args.seed, <<b>>)

PhaseOf(teacher, root) == (CHOOSE row \in teacher : row.root = root).phase

\* Round robin: the hardest root of each phase, then the second of each ...
phase_balanced_selection(teacher) ==
    LET hard == load_hard_roots(teacher)
        place(a) == Cardinality({b \in hard : /\ PhaseOf(teacher, b) = PhaseOf(teacher, a)
                                              /\ Harder(teacher, b, a)})
        before(b, a) == \/ place(b) < place(a)
                        \/ place(b) = place(a) /\ PhaseOf(teacher, b) < PhaseOf(teacher, a)
    IN  {a \in hard : Cardinality({b \in hard : before(b, a)}) < args.max_roots}

RootRow(root) == CHOOSE row \in files.moves : row.root = root
RowsOfRoot(root) == {row \in files.normalized : row.ordinal = RootRow(root).record}

\* load_hard_roots: one teacher, each move of a root once, and the same said
\* of a root on all its rows.
refused_teacher(teacher) ==
    \E x, y \in teacher :
        \/ x.provenance # y.provenance
        \/ /\ x.root = y.root
           /\ \/ x.move = y.move /\ x # y
              \/ <<x.record, x.split, x.phase>> # <<y.record, y.split, y.phase>>

\* A chosen root needs its own normalised row, and only one.
unmatched(chosen) ==
    \/ \E a, b \in chosen : a # b /\ RootRow(a).record = RootRow(b).record
    \/ \E root \in chosen :
          \/ Cardinality(RowsOfRoot(root)) # 1
          \/ \E row \in RowsOfRoot(root) :
                row.board # root \/ row.phase # RootRow(root).phase

\* Their normalised rows, with the teacher's split.
materialize_normalized(chosen) ==
    UNION {{[row EXCEPT !.split = RootRow(root).split] : row \in RowsOfRoot(root)} :
              root \in chosen}

select_hard ==
    /\ args.tool = "select_hard" /\ outcome = None
    /\ IF files.moves = None \/ files.normalized = None THEN Report("no-input")
       ELSE IF refused_teacher(files.moves) THEN Report("teacher-refused")
       ELSE LET chosen == phase_balanced_selection(files.moves)
                rows == materialize_normalized(chosen)
            IN  IF unmatched(chosen) THEN Report("roots-not-found")
                ELSE IF leaks(rows) THEN Report("selected-leakage")
                ELSE Finish([files EXCEPT !.hard = rows])
    /\ UNCHANGED <<args, flow>>

SelectionNext ==
    start_selection \/ augment \/ finish_selection \/ select_low_empty \/ select_hard
=============================================================================
