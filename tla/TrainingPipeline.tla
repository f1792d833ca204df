--------------------------- MODULE TrainingPipeline ---------------------------
(***************************************************************************)
(* The tools between a corpus and an artifact, one after the other over    *)
(* the files they leave each other: import, selection of roots, teachers,  *)
(* overlay, labels, dataset, training, export and import of weights.       *)
(* A plan says which step comes next, CommandLines which command lines may *)
(* be given for it.  Beside it, each in starts of their own: campaigns     *)
(* over a shared cache of labels, and the runner of board-score training.  *)
(***************************************************************************)
EXTENDS MoveTeacherCache, FiniteSetsExt, SequencesExt

CONSTANTS Phases, Replay,
          Starts,            \* kind, files and plan of what may be begun
          CommandLines,      \* of a step of a plan: those that may be given
          SampleKey(_, _), GameSplit(_), ComponentSplit(_), GroupSplit(_), SelectedSplit(_),
          Moves(_), SearchScore(_, _), ExactScore(_), BaselineScore(_),
          Patterns, PhaseOfBoard(_), PlyOf(_), PatternsOf(_), PatternIds(_),
          Unit, Steps, Losses, Int32, Runs

VARIABLES args, unread, lines, summary, sample, theoretical, outcome, files,
          flow, trainer,
          plan,              \* the steps still to be taken
          directory, runner  \* the board-score run, in starts that have one

Import == INSTANCE GameImport
BoardScores == INSTANCE BoardScoreImport
Selection == INSTANCE RootSelection
Labels == INSTANCE TeacherLabels
Trainer == INSTANCE PatternTrainer
TrainingRun == INSTANCE BoardScoreTrainingRun

ASSUME CacheAssumption == RootsAndLabels

\* Of a weight and of an artifact; a loss is a number.
ASSUME NumbersAssumption ==
    /\ Unit \in Nat \ {0} /\ Int32 \in Nat /\ Runs \in Nat
    /\ Losses \subseteq Int /\ None \notin Losses
    /\ None \notin {"ok", "shortage", "killed", "connected-board-game-failed", "nothing"}

Artifacts == {"dataset", "weights", "trained", "payload", "manifest", "exporting",
              "source", "initial", "normalized", "roots", "merged_children"}
Tables == {"moves", "children", "deep_moves", "deep_children", "exact_moves", "exact_children"}

\* The table of the children of each table of moves: a teacher writes both
\* into one directory.
ChildTable ==
    [moves |-> "children", deep_moves |-> "deep_children", exact_moves |-> "exact_children"]

\* Nothing is begun with labels or an artifact in hand, and a plan names its
\* steps.
ASSUME StartsAssumption ==
    \A start \in Starts :
        /\ Artifacts \cup Tables \subseteq DOMAIN start.files
        /\ start.files.payload = None /\ start.files.exporting = None
        /\ start.files.source = None /\ start.files.initial = None
        /\ \A table \in Tables : start.files[table] = None
        /\ start.plan \in Seq(DOMAIN CommandLines)

\* Of a transcript: the snapshots are a sequence.
ASSUME ReplayAssumption ==
    \A t \in DOMAIN Replay : Replay[t].snapshots \in Seq(Range(Replay[t].snapshots))

ASSUME PhasesAssumption == IsFiniteSet(Phases)

Positions ==
    UNION {{<<Replay[t].game, snapshot.ply, snapshot.board>> :
               snapshot \in Range(Replay[t].snapshots)} : t \in DOMAIN Replay}

\* A digest, as a number, keeps what it is given apart.
KeysApart(seed, identities) ==
    /\ \A p \in identities : SampleKey(seed, p) \in Int
    /\ \A p, q \in identities : SampleKey(seed, p) = SampleKey(seed, q) => p = q

ScoreLines(a) == UNION {Range(source) : source \in a.sources}
Positive(limit) == limit = None \/ limit \in Nat \ {0}

\* The boards that rows are of: those a start has rows of, those of games and
\* those of scores.
ScoredBoards ==
    UNION {UNION {{line.board : line \in ScoreLines(a)} :
                     a \in {x \in CommandLines[step] : x.tool = "import_board_scores"}} :
              step \in DOMAIN CommandLines}
StartedBoards ==
    UNION {{row.board : row \in start.files.normalized} :
              start \in {x \in Starts : x.files.normalized # None}}
KnownBoards == StartedBoards \cup ScoredBoards \cup {p[3] : p \in Positions}

\* Rows as importers write them, numbered in the order they were read.
NormalizedRows(rows) ==
    /\ IsFiniteSet(rows)
    /\ \A r \in rows : /\ {"split", "board", "game", "phase", "ordinal"} \subseteq DOMAIN r
                       /\ r.ordinal \in Nat /\ r.board \in KnownBoards
    /\ \A r, x \in rows : r.ordinal = x.ordinal => r = x

ASSUME NormalizedAssumption ==
    \A start \in Starts :
        start.files.normalized # None => NormalizedRows(start.files.normalized)

\* What argparse lets through; teachers write a pair of tables, and weights are
\* exported at a scale that divides Unit.  Importers read transcripts that
\* the helper can be asked about, and lines that their records tell apart.
Legal(a) ==
    /\ a.tool = "import_games" =>
          /\ Positive(a.max_positions) /\ KeysApart(a.seed, Positions)
          /\ \A source \in a.sources : source \in Seq(DOMAIN Replay)
    /\ a.tool = "import_board_scores" =>
          /\ a \in BoardScores!board_score_parse_args({a})
          /\ Positive(a.max_positions) /\ Positive(a.per_phase)
          /\ KeysApart(a.seed, {<<line.board>> : line \in ScoreLines(a)})
          /\ \A source \in a.sources : source \in Seq(ScoreLines(a))
          /\ \A line \in ScoreLines(a) :
                line.board \in Int /\ line.record \in Int /\ line.phase \in Phases
          /\ \A x, y \in ScoreLines(a) : x.record = y.record => x = y
    /\ a.tool = "select_phases" =>
          /\ a.quota \in [Phases -> Nat \ {0}] /\ Positive(a.cap)
          /\ KeysApart(a.seed, {<<b>> : b \in KnownBoards})
    /\ a.tool = "train" => a \in Trainer!trainer_parse_args({a})
    /\ a.tool \in {"search_teacher", "exact_teacher"} =>
          /\ a.move_teacher_out \in DOMAIN ChildTable
          /\ a.child_normalized_out = ChildTable[a.move_teacher_out]
    /\ a.tool = "export_v0b" => a.scale \in Nat \ {0} /\ Unit % a.scale = 0

ASSUME CommandLinesAssumption ==
    \A step \in DOMAIN CommandLines : \A a \in CommandLines[step] : Legal(a)

importState == <<unread, lines, summary, sample, theoretical>>
pipelineState == <<args, outcome, files, flow, trainer, plan, importState>>
aside == <<cache, campaign, directory, runner>>
vars == <<pipelineState, aside>>

\* In starts without a shared cache.
NoCampaigns == [c \in Campaigns |-> [pc |-> "none"]]

Init ==
    /\ \E start \in Starts :
        /\ files = start.files /\ plan = start.plan
        /\ IF start.kind = "cache" THEN InitCache ELSE cache = None /\ campaign = NoCampaigns
        /\ IF start.kind = "run" THEN TrainingRun!InitRuns ELSE directory = None /\ runner = None
    /\ args = None /\ outcome = "ok" /\ flow = None /\ trainer = None
    /\ unread = {} /\ lines = <<>> /\ summary = None /\ sample = None /\ theoretical = None

\* Someone starts the next tool, if the last one left its files.
start_tool ==
    /\ plan # <<>> /\ outcome \in {"ok", "shortage", "killed"}
    /\ plan' = Tail(plan)
    /\ \E a \in CommandLines[Head(plan)] :
        CASE a.tool = "import_games" -> Import!start_import(a) /\ UNCHANGED <<flow, trainer>>
          [] a.tool = "import_board_scores" ->
               BoardScores!start_board_scores(a) /\ UNCHANGED <<theoretical, flow, trainer>>
          [] OTHER ->
               /\ args' = a /\ outcome' = None /\ flow' = None
               /\ trainer' = IF a.tool = "train" THEN None ELSE trainer
               /\ unread' = {} /\ lines' = <<>> /\ summary' = None
               /\ sample' = None /\ theoretical' = None
               /\ UNCHANGED files
    /\ UNCHANGED aside

Running(tool) == args # None /\ args.tool = tool

game_import ==
    /\ Running("import_games") /\ Import!ImportNext
    /\ UNCHANGED <<flow, trainer, plan, aside>>

board_score_import ==
    /\ Running("import_board_scores") /\ BoardScores!BoardScoreNext
    /\ UNCHANGED <<theoretical, flow, trainer, plan, aside>>

selection == args # None /\ Selection!SelectionNext /\ UNCHANGED <<importState, trainer, plan, aside>>
labelling == args # None /\ Labels!LabelNext /\ UNCHANGED <<importState, flow, trainer, plan, aside>>
training == args # None /\ Trainer!TrainerNext /\ UNCHANGED <<importState, flow, plan, aside>>
caching == campaign # NoCampaigns /\ CacheNext /\ UNCHANGED <<pipelineState, directory, runner>>
running == runner # None /\ TrainingRun!RunNext /\ UNCHANGED <<pipelineState, cache, campaign>>

Next ==
    \/ start_tool \/ game_import \/ board_score_import \/ selection \/ labelling
    \/ training \/ caching \/ running

Spec == Init /\ [][Next]_vars

-----------------------------------------------------------------------------
(* Properties.                                                             *)

Finished(tool) == Running(tool) /\ outcome = "ok"

\* Of a set, the n members with the least keys.
LeastBy(S, n, Key(_)) == {x \in S : Cardinality({y \in S : Key(y) < Key(x)}) < n}

GameSampleIsLeast ==
    LET rows == summary.considered
        Key(p) == SampleKey(args.seed, p)
        kept == LeastBy({Import!position(r) : r \in rows}, sample.capacity, Key)
    IN  sample.rows =
            CASE sample.capacity = None -> rows
              [] sample.capacity # None /\ sample.mode = "streaming" ->
                   {r \in rows : r.ordinal <= sample.capacity}
              [] OTHER -> {r \in rows : Import!position(r) \in kept}

BucketIsLeast(bucket, rows) ==
    LET Key(b) == SampleKey(args.seed, <<b>>)
        kept == LeastBy({r.board : r \in rows}, bucket.capacity, Key)
        first(b) == CHOOSE r \in rows : r.board = b /\ \A x \in rows : x.board = b => r.record <= x.record
    IN  {[r EXCEPT !.ordinal = 0] : r \in bucket.entries}
        = {[first(b) EXCEPT !.ordinal = 0] : b \in kept}

\* connected-board-game: no board and no game is in two splits, and the
\* importer's own check of that never fails (import_egaroucid_sequences.py
\* 1302-1319; the WTHOR importer has no such check).
SplitsAreIsolated ==
    Running("import_games") /\ args.split_policy = "connected-board-game" =>
        /\ outcome # "connected-board-game-failed"
        /\ outcome = "ok" => /\ Import!BoardCollisions(files.normalized) = {}
                             /\ Import!GameCollisions(files.normalized) = {}

\* A bounded sample depends on what was read and on the seed, never on the
\* order: at every moment it is the least of what was considered, with all
\* rows of each position kept and, of a board seen twice, the row with the
\* lesser record (TopKRows.consider, SampleBucket.consider).
SamplesAreLeast ==
    /\ Running("import_games") => GameSampleIsLeast
    /\ Running("import_board_scores") /\ outcome # "manifest-refused" /\ BoardScores!Enabled =>
          \A b \in DOMAIN sample :
              BucketIsLeast(sample[b],
                            {r \in summary.considered : BoardScores!BucketOf(r) = b})
    /\ SplitsAreIsolated

\* What quotas and the cap allow.
Feasible ==
    {f \in [Selection!Cells -> 0..Max({Selection!Room(c) : c \in Selection!Cells} \cup {0})] :
        /\ \A c \in Selection!Cells : f[c] <= Selection!Room(c)
        /\ \A p \in Phases : Selection!OfPhase(f, p) <= args.quota[p]
        /\ \A g \in Selection!Games : Selection!OfGame(f, g) <= args.cap}

\* A selection with a cap keeps to the quotas and the cap and has as many
\* roots as any selection that does (select_with_game_cap, max_flow): a
\* shortage is never the selection's own fault.
SelectionIsMaximal ==
    Running("select_phases") /\ outcome \in {"ok", "shortage"} /\ args.cap # None =>
        LET Chosen(p, g) == Cardinality({r \in files.roots : r.phase = p /\ r.game = g})
            chosen == [c \in Selection!Cells |-> Chosen(c[1], c[2])]
        IN  /\ chosen \in Feasible
            /\ Cardinality(files.roots) =
                  Max({Selection!SumOver(f, Selection!Cells) : f \in Feasible})

\* Each root has a row for each of its moves and no other, and each child of
\* a row has its own, with the label that the move is scored by.
WholeTables(moves, children) ==
    /\ \A row \in moves :
          /\ \E m \in Moves(row.root) : row.move = m[1] /\ row.child_board = m[2]
          /\ row.score = -row.child_label
          /\ \E x \in children :
                x.record = row.child /\ x.label = row.child_label /\ x.split = row.split
    /\ \A root \in Labels!LabelledRoots(moves) : \A m \in Moves(root) :
          \E row \in moves :
              row.root = root /\ row.move = m[1] /\ row.child_board = m[2]
    /\ {x.record : x \in children} = {row.child : row \in moves}

\* One child, one label: roots that share a child give it one score in one
\* split, each root keeps all its moves, and each child has its row.
ConsistentLabels(moves, children) ==
    /\ \A x, y \in moves : x.child = y.child => x.score = y.score /\ x.split = y.split
    /\ WholeTables(moves, children)

\* What search teacher, overlay and the join of two teachers leave has one
\* label for a child in all tables, whatever was run before
\* (overlay_search_move_teacher.py, merge_teacher_outputs).
OneLabelPerChild ==
    /\ Finished("search_teacher") =>
          ConsistentLabels(files[args.move_teacher_out], files[args.child_normalized_out])
    /\ Finished("overlay") => ConsistentLabels(files.moves, files.children)
    /\ Finished("merge") =>
          ConsistentLabels(files.moves \cup files.exact_moves, files.merged_children)

\* From selection to training no root is lost: the join of both teachers has
\* labels for all of it and for no other root; and the trainer takes the
\* retained rows beside the deeper ones, and the exact ones beside the
\* searched ones, as users are told to pass them: if it refuses, one of the
\* two has nothing to train on (merge_teacher_outputs,
\* load_move_teacher_roots_many).
SelectionReachesTraining ==
    /\ Finished("merge") =>
          Labels!LabelledRoots(files.moves \cup files.exact_moves)
              = {root.board : root \in files.roots}
    /\ Running("train") /\ Len(args.teachers) = 2 /\ outcome = "bad-teachers" =>
          \E i \in 1..2 : \A row \in files[args.teachers[i]] : row.split # "train"

\* Frozen phases come through a warm start and another export at the same
\* scale unchanged, bias and weights, and stay among the trained phases.
FrozenPhasesStand ==
    Finished("export_v0b") /\ trainer # None /\ trainer.artifact # None
    /\ files.payload.scale = trainer.artifact.scale =>
        /\ \A k \in Trainer!Keys : k[1] \in trainer.freeze =>
              files.payload.values[k] = trainer.artifact.values[k]
        /\ trainer.freeze # {} => trainer.freeze \subseteq files.manifest.trained

\* A training cut short writes the weights of its first best epoch, and no
\* training moves a weight that only validation or test rows read.
EarlyStopKeepsBest ==
    Finished("train") /\ trainer.stopped /\ trainer.best_epoch # None =>
        \E k \in DOMAIN trainer.history :
            /\ files.weights.values = trainer.history[k].weights
            /\ \A j \in DOMAIN trainer.history :
                  /\ trainer.history[k].loss <= trainer.history[j].loss
                  /\ j < k => trainer.history[k].loss < trainer.history[j].loss

OnlyTrainRowsTrain ==
    Finished("train") =>
        \A k \in Trainer!Keys : files.weights.values[k] # trainer.initial[k] =>
            \E e \in Trainer!load_examples :
                e.split = "train" /\ e.phase = k[1] /\ (k[2] = Trainer!Bias \/ k[2] \in e.patterns)

\* Trainer, exporter and importer of weights together, and the runner whose
\* report says that they are complete (train_pattern_rank_v0e, export_v0b,
\* import_artifact_weights, run_training).
TrainingIsFaithful ==
    /\ FrozenPhasesStand
    /\ EarlyStopKeepsBest
    /\ OnlyTrainRowsTrain
    /\ runner # None => TrainingRun!CompleteRunIsOneRun

\* docs/architecture/pattern-learning.md, 256-258: a child is known by its
\* board, and a board whose roots are in different splits is refused.
ChildBoardsStayInOneSplit ==
    Finished("exact_teacher") =>
        \A x, y \in files[args.child_normalized_out] : x.board = y.board => x.split = y.split
=============================================================================
