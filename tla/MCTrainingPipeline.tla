-------------------------- MODULE MCTrainingPipeline --------------------------
(***************************************************************************)
(* Small corpora for TrainingPipeline.  Boards 1 to 6 are roots, 11 to 15  *)
(* the children their moves lead to; 6 has no move.  Each start is a set   *)
(* of files and a plan of tools with the command lines to try for each.    *)
(***************************************************************************)
EXTENDS TrainingPipeline

MCPhases == {0, 1}
MCPhaseOfBoard(b) == IF b \in 1..3 \cup 11..12 THEN 0 ELSE 1
MCPlyOf(b) == b
MCPatterns == {"edge", "diag", "corner"}
MCPatternIds(set) == IF set = "p" THEN MCPatterns ELSE {"corner"}
MCPatternsOf(b) == IF MCPhaseOfBoard(b) = 0 THEN {"edge"} ELSE {"diag"}
MCSteps == {-7, 5}
MCLosses == {1, 2}

\* Different for any two identities that occur, and in no obvious order.
MCSampleKey(seed, identity) ==
    FoldLeft(LAMBDA key, part : (31 * key + 617 * part + 5 * seed) % 1009, 7, identity)
MCGameSplit(g) == IF g = 2 THEN "validation" ELSE "train"
MCComponentSplit(n) == IF n % 2 = 0 THEN "validation" ELSE "train"
MCGroupSplit(b) == IF b % 3 = 0 THEN "validation" ELSE "train"
MCSelectedSplit(g) == IF g = 1 THEN "validation" ELSE "train"

MCMoves(b) ==
    CASE b = 1 -> {<<"a", 11>>, <<"b", 12>>}
      [] b = 2 -> {<<"a", 12>>, <<"b", 13>>}
      [] b = 3 -> {<<"a", 13>>, <<"b", 11>>}
      [] b = 4 -> {<<"a", 14>>}
      [] b = 5 -> {<<"a", 14>>, <<"b", 15>>}
      [] b = 6 -> {}

MCSearchScore(depth, b) ==
    CASE b = 11 -> 1 [] b = 12 -> (IF depth = 1 THEN 2 ELSE 0) [] b = 13 -> 0
      [] b = 14 -> 1 [] b = 15 -> -1
MCExactScore(b) == CASE b = 11 -> 2 [] b = 14 -> 1 [] OTHER -> -1
MCBaselineScore(b) == IF b = 12 THEN -1 ELSE 0

-----------------------------------------------------------------------------
(* Files that stand for what earlier tools have left.                      *)

Nothing ==
    [normalized |-> None, wld |-> None, policy |-> {}, report |-> None, roots |-> None,
     hard |-> None, moves |-> None, children |-> None, deep_moves |-> None,
     deep_children |-> None, retained |-> None, labels |-> None, labelled |-> None,
     dataset |-> None, weights |-> None, trained |-> None, payload |-> None,
     manifest |-> None, exporting |-> None, source |-> None, initial |-> None,
     early_selected |-> None, late_selected |-> None, exact_moves |-> None,
     exact_children |-> None, merged_children |-> None]

NormalizedRow(game, board, label, split) ==
    [game |-> game, ply |-> 0, board |-> board, phase |-> MCPhaseOfBoard(board),
     empty |-> 7 - board, label |-> label, move |-> None, split |-> split,
     ordinal |-> 10 * game + board]

\* Five games, one board each; the children of 1, 2 and 3 overlap.
FiveRoots(low, high) ==
    {NormalizedRow(b, b, (b % 4) - 1, IF b <= 3 THEN low ELSE high) : b \in 1..5}

\* Roots 2 and 3 share a child and are in different splits.
CrossedRoots == {IF row.board = 3 THEN [row EXCEPT !.split = "validation"] ELSE row :
                    row \in FiveRoots("train", "validation")}

\* Phase 0 has both games to choose from, phase 1 only the first.
TwoGames ==
    {NormalizedRow(1, 1, 0, "train"), NormalizedRow(1, 2, 0, "train"),
     NormalizedRow(2, 3, 1, "validation"), NormalizedRow(1, 4, 1, "train"),
     NormalizedRow(1, 5, 0, "train")}
LeakingGame == TwoGames \cup {NormalizedRow(1, 6, 0, "validation")}

Policy(b, m, split) == [board |-> b, move |-> m, split |-> split, wins |-> 1, draws |-> 0, losses |-> 0]
Policies == {{Policy(2, "b", "train"), Policy(9, "a", "train")}, {Policy(2, "c", "train")},
             {Policy(9, "a", "train")}}

DataLine(n, record, valid, label, split, patterns) ==
    [number |-> n, record |-> <<"row", record>>, valid |-> valid, split |-> split,
     label |-> label, ply |-> 1, phase |-> 0, patterns |-> patterns]

\* The lines of records 2 and 5 disagree, of 5 on the ply alone.
RoughLines ==
    {DataLine(1, 1, TRUE, 1, "train", {"edge"}), DataLine(2, 1, TRUE, 1, "train", {"diag"}),
     DataLine(3, 2, TRUE, 2, "train", {"edge"}), DataLine(4, 2, TRUE, 2, "validation", {"diag"}),
     DataLine(5, 3, FALSE, 0, "validation", {"edge"}), DataLine(6, 4, TRUE, 1, "validation", {"diag"}),
     DataLine(7, 5, TRUE, 0, "train", {"corner"}),
     [DataLine(8, 5, TRUE, 0, "train", {"corner"}) EXCEPT !.ply = 2]}

-----------------------------------------------------------------------------
(* Command lines.                                                          *)

Snapshot(ply, board, label, move) ==
    [ply |-> ply, board |-> board, phase |-> MCPhaseOfBoard(board), empty |-> 7 - board,
     label |-> label, move |-> move]
Game(g, snapshots, terminal, cutoff) ==
    [accepted |-> TRUE, game |-> g, terminal |-> terminal, cutoff |-> cutoff, snapshots |-> snapshots]
Cutoff(score) == [board |-> 6, score |-> score]

\* 3 is game 1 again; 4 is no game; 5 has another result at the cutoff.
MCReplay ==
    [t \in 1..5 |->
        CASE t \in {1, 3} -> Game(1, <<Snapshot(0, 1, 1, "a"), Snapshot(1, 2, -1, "b"),
                                       Snapshot(2, 4, 1, None)>>, TRUE, Cutoff(2))
          [] t = 2 -> Game(2, <<Snapshot(0, 1, 0, "a"), Snapshot(1, 3, 0, "a"),
                                Snapshot(2, 5, 0, None)>>, TRUE, None)
          [] t = 4 -> [Game(0, <<>>, FALSE, None) EXCEPT !.accepted = FALSE]
          [] t = 5 -> Game(3, <<Snapshot(0, 3, 2, "b"), Snapshot(1, 5, -2, None)>>,
                           FALSE, Cutoff(-2))]

Corpus == {<<1, 2>>, <<4, 3, 5>>}
SequenceLines ==
    [tool : {"import_games"}, kind : {"egaroucid"},
     mode : {"streaming-target", "full-scan-topk"}, max_positions : {None, 2, 3},
     max_games : {None, 2}, max_files : {None, 1}, sampled : BOOLEAN,
     plies : {0..2}, emit_terminal : BOOLEAN,
     split_policy : {"game-group", "connected-board-game"}, strict : {FALSE},
     policy_out : {FALSE}, seed : {1}, sources : {Corpus}, inputs : {{Corpus}}]

\* One input is a directory of two files, the other a file of its own.
BoundedLines ==
    {[line EXCEPT !.mode = "bounded-dev", !.sources = Corpus \cup {<<2>>}] :
        line \in {x \in SequenceLines : x.max_positions = 3 /\ x.emit_terminal}}
StrictLines ==
    {[line EXCEPT !.strict = TRUE, !.plies = {0, 1}] :
        line \in {x \in SequenceLines : x.mode = "full-scan-topk" /\ x.max_games = None}}
WthorLines ==
    [tool : {"import_games"}, kind : {"wthor"}, mode : {"full-scan-topk"},
     max_positions : {None, 3}, max_games : {None, 2}, max_files : {None}, sampled : {FALSE},
     plies : {0..2, {}}, emit_terminal : {TRUE},
     split_policy : {"game-group", "connected-board-game"}, strict : BOOLEAN,
     policy_out : BOOLEAN, seed : {1, 2}, sources : {Corpus, {<<1>>, <<3, 2>>}}, inputs : {{}}]
ImportLines ==
    Import!parse_args(SequenceLines \cup BoundedLines \cup StrictLines) \cup Import!wthor_parse_args(WthorLines)

ScoreLine(board, score, record, valid) ==
    [valid |-> valid, board |-> board, phase |-> MCPhaseOfBoard(board), empty |-> 7 - board,
     score |-> score, record |-> record]
ScoreFiles ==
    {<<ScoreLine(1, 2, 5, TRUE), ScoreLine(4, 1, 2, TRUE), ScoreLine(1, 2, 3, TRUE)>>,
     <<ScoreLine(2, 0, 4, TRUE), ScoreLine(3, 0, 7, FALSE), ScoreLine(1, 1, 1, TRUE)>>,
     <<ScoreLine(5, -1, 8, TRUE), ScoreLine(4, 1, 6, TRUE), ScoreLine(3, 1, 9, TRUE)>>}
BoardScoreLines ==
    BoardScores!board_score_parse_args(
        [tool : {"import_board_scores"}, manifest : {"matches", "differs"},
         max_positions : {None, 1, 2, 3}, per_phase : {None, 1, 2}, max_files : {None, 0, 2},
         seed : {1, 2}, sources : {ScoreFiles}])

PhaseLines ==
    Selection!phase_parse_args(
        [tool : {"select_phases"}, quota : [MCPhases -> 1..3], cap : {None, 1, 2},
         split_policy : {"preserve", "game-group-hash"}, train_only : {{}, {1}},
         require_all : BOOLEAN, seed : {1}])
LowEmptyLines ==
    [tool : {"select_low_empty"}, max_empty : {3, 6}, max_roots : {2, 5},
     allow_less : BOOLEAN, seed : {1}]
AllRoots == {[tool |-> "select_low_empty", max_empty |-> 6, max_roots |-> 6,
              allow_less |-> TRUE, seed |-> 1]}
HardLines ==
    [tool : {"select_hard"}, minimum_regret : {1, 2, 3}, max_roots : {1, 2}, seed : {1}]
Teacher(tool, depth, roots, moves, children) ==
    {[tool |-> tool, depth |-> depth, normalized_tsv |-> roots, move_teacher_out |-> moves,
      child_normalized_out |-> children]}
FullPhase(tool) == {[tool |-> tool, midgame_phases |-> {0}]}
Tool(tool) == {[tool |-> tool]}
LabelLines(tool) == [tool : {tool}, missing : {"fail", "drop"}]
DatasetFrom(rows, formats) == [tool : {"build_dataset"}, rows : {rows}, format : formats]

SgdLines ==
    [tool : {"train"}, mode : {"v0b", "v0c", "v0d"}, teachers : {<<>>}, initial : {FALSE},
     freeze : {{}}, initial_trained : {{}}, played_move_policy : {FALSE}, trainable : {{}},
     patience : {None, 1}, epochs : {2}, emit_trained_phases : {TRUE}, schema : {"v2"}, set : {"p"}]
LegacyLines == {[line EXCEPT !.schema = "v1"] : line \in {x \in SgdLines : x.mode = "v0b" /\ x.patience = None}}
BiasLines ==
    {[line EXCEPT !.mode = "v0a"] :
        line \in {x \in SgdLines : x.mode = "v0b" /\ x.patience = None}}
RankLine ==
    [tool |-> "train", mode |-> "v0e", teachers |-> <<"moves">>, initial |-> FALSE,
     freeze |-> {}, initial_trained |-> {}, played_move_policy |-> FALSE, trainable |-> {},
     pair_sampling_cap |-> 0, tie_margin |-> 0, value_loss |-> FALSE, weight_decay |-> FALSE,
     patience |-> None, epochs |-> 1, emit_trained_phases |-> FALSE, schema |-> "v2", set |-> "p"]
WarmLine == [RankLine EXCEPT !.initial = TRUE, !.freeze = {0}, !.initial_trained = {0},
                             !.patience = 1, !.epochs = 2]
Cold == Trainer!trainer_parse_args(
    {RankLine, [RankLine EXCEPT !.teachers = <<"retained", "deep_moves">>]})
Warm == Trainer!trainer_parse_args(
    {WarmLine, [WarmLine EXCEPT !.freeze = {}, !.patience = None],
     [WarmLine EXCEPT !.played_move_policy = TRUE], [WarmLine EXCEPT !.pair_sampling_cap = 1],
     [WarmLine EXCEPT !.trainable = {"diag"}], [WarmLine EXCEPT !.tie_margin = 1],
     [WarmLine EXCEPT !.value_loss = TRUE, !.weight_decay = TRUE, !.initial_trained = {0, 1}],
     [WarmLine EXCEPT !.trainable = {"corner"}], [WarmLine EXCEPT !.set = "q"],
     [WarmLine EXCEPT !.schema = "v1"],
     [WarmLine EXCEPT !.freeze = {1}, !.initial_trained = {0, 1}]})

ExportLines(tool) ==
    [tool : {tool}, scale : {2, 4}, set : {"p"}, allow_legacy_v1 : {FALSE}]

LegacyExports ==
    {[tool |-> "export_v0b", scale |-> 2, set |-> set, allow_legacy_v1 |-> TRUE] : set \in {"p", "q"}}

MCCampaigns == {1, 2}
Shared(b, split) == [board |-> b, record |-> 10 * b, split |-> split]
MCRootsOf(c) == IF c = 1 THEN {Shared(1, "train"), Shared(2, "validation")}
                ELSE {Shared(1, "validation"), Shared(2, "train")}
MCSolve(build, b) == [m \in 1..(3 - b) |-> <<b, m, IF b = 2 THEN build ELSE 0>>]
MCBuild(c) == c

-----------------------------------------------------------------------------
(* The starts.                                                             *)

Start(left, tools) == [kind |-> "pipeline", files |-> left, plan |-> tools]
Normalized(rows) == [Nothing EXCEPT !.normalized = rows]
Roots(rows) == [Normalized(rows) EXCEPT !.roots = rows]
Export == {line \in ExportLines("export_v0b") : line.scale = 2}

SomeRoots == {FiveRoots("train", "validation"), FiveRoots("validation", "train"),
              FiveRoots("train", "train"), CrossedRoots}

MCCommandLines ==
    [import |-> ImportLines, board_scores |-> BoardScoreLines,
     select |-> PhaseLines, low_empty |-> LowEmptyLines, all_roots |-> AllRoots,
     hard |-> HardLines, search |-> Teacher("search_teacher", 1, "roots", "moves", "children"),
     deeper |-> Teacher("search_teacher", 2, "hard", "deep_moves", "deep_children"),
     overlay |-> Tool("overlay"),
     exact |-> Teacher("exact_teacher", 0, "roots", "moves", "children"),
     partition |-> FullPhase("partition"), merge |-> FullPhase("merge"),
     midgame |-> Teacher("search_teacher", 1, "early_selected", "moves", "children"),
     late |-> Teacher("exact_teacher", 0, "late_selected", "exact_moves", "exact_children"),
     merged |-> DatasetFrom("merged_children", {"compact"}),
     rank_full |-> {[RankLine EXCEPT !.teachers = <<"moves", "exact_moves">>]},
     derive |-> LabelLines("derive"),
     apply |-> LabelLines("apply"), children |-> DatasetFrom("children", {"compact"}),
     labelled |-> DatasetFrom("labelled", {"compact", "expanded"}), sgd |-> SgdLines,
     legacy |-> LegacyLines, legacy_exports |-> LegacyExports, bias |-> BiasLines, rank |-> {RankLine}, cold |-> Cold, warm |-> Warm,
     export |-> Export, exports |-> ExportLines("export_v0b"),
     export_bias |-> ExportLines("export_v0a"), import_artifact |-> Tool("import_artifact"),
     import_corpus |-> {line \in WthorLines :
         /\ line.max_games = None /\ line.max_positions = None /\ line.plies # {}
         /\ line.seed = 1 /\ line.sources # Corpus},
     select_corpus |-> {line \in PhaseLines :
         /\ line.quota = [p \in MCPhases |-> 2] /\ line.cap = 2
         /\ ~line.require_all /\ line.train_only = {}}]

ImportStarts == {Start(Nothing, <<"import">>), Start(Nothing, <<"board_scores">>)}
SelectionStarts ==
    {Start(Normalized(rows), <<step>>) :
        rows \in {TwoGames, LeakingGame, FiveRoots("train", "validation")},
        step \in {"select", "low_empty"}} \cup {Start(Nothing, <<"select">>)}

\* Roots labelled twice, the second time only the hard ones.
DeepenStarts ==
    {Start(Normalized(rows), <<"all_roots", "search", "hard", "deeper", "overlay", "children",
                               "cold", "export">>) :
        rows \in SomeRoots \cup {FiveRoots("train", "validation") \cup
                                   {NormalizedRow(6, 6, 0, "train")}}}

\* A table that has become exact cannot be overlaid with searched rows.
MixedStarts ==
    {Start(Roots(FiveRoots("train", "train")),
           <<"search", "hard", "deeper", "exact", "overlay">>)}

\* Midgame roots labelled by search, late ones exactly.
FullPhaseStarts ==
    {Start(Roots(rows), <<"partition", "midgame", "late", "merge", "merged", "rank_full">>) :
        rows \in SomeRoots \cup
            {FiveRoots("train", "train") \cup {NormalizedRow(6, 6, 0, "train")},
             {row \in FiveRoots("train", "train") : row.board <= 3},
             {IF row.board = 5 THEN [row EXCEPT !.split = "validation"] ELSE row :
                 row \in FiveRoots("train", "train")}}}

\* Exact labels for roots, and weights exported at two scales.
ExactStarts ==
    {Start(Roots(rows), <<"exact", "derive", "apply", "labelled", "sgd", "exports">>) :
        rows \in {FiveRoots("train", "validation"), CrossedRoots, FiveRoots("validation", "validation"),
                  FiveRoots("train", "train") \cup {NormalizedRow(6, 6, 0, "train")}}}

RoughStarts ==
    {Start([Nothing EXCEPT !.dataset = [format |-> f, lines |-> RoughLines]], <<"sgd">>) :
        f \in {"compact", "expanded"}}

\* Weights of the first format, exported on request.
LegacyStarts ==
    {Start(Roots(FiveRoots("train", "validation")),
           <<"search", "children", "legacy", "legacy_exports">>)}

\* An artifact is trained, exported, imported and trained again.
WarmStarts ==
    {Start([Roots(FiveRoots("train", "validation")) EXCEPT !.policy = policy],
           <<"search", "children">> \o first
           \o <<"import_artifact", "warm", "export", "import_artifact">>) :
        policy \in Policies, first \in {<<"rank", "export">>, <<"bias", "export_bias">>}}

\* From a corpus to an artifact.
ChainStarts ==
    {Start(Nothing, <<"import_corpus", "select_corpus", "search", "children", "rank", "export">>)}

MCStarts ==
    UNION {ImportStarts, SelectionStarts, DeepenStarts, MixedStarts, FullPhaseStarts, ExactStarts, RoughStarts, LegacyStarts,
           WarmStarts,
           ChainStarts,
           {[kind |-> kind, files |-> Nothing, plan |-> <<>>] : kind \in {"cache", "run"}}}
=============================================================================
