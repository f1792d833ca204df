---------------------------- MODULE PatternTrainer ----------------------------
(***************************************************************************)
(* train_pattern.py, export_v0a.py, export_v0b.py and                      *)
(* import_artifact_weights.py: pattern rows and move teachers in, weights  *)
(* and then an artifact out, and an artifact back to weights from which a  *)
(* later training starts.                                                  *)
(*                                                                         *)
(* A weight belongs to a phase and a pattern, or to a phase alone (its     *)
(* bias); an entry of a pattern's table is not told from the pattern.      *)
(* Weights are whole numbers, Unit of them to a disc.  What a gradient     *)
(* adds to a weight, and the loss a validation measures, are any of a few  *)
(* values: the objectives decide neither which weights move nor which      *)
(* epoch is kept.                                                          *)
(***************************************************************************)
EXTENDS Integers, FiniteSetsExt, SequencesExt

CONSTANTS None, Phases, Patterns,
          PhaseOfBoard(_),   \* phase_for_occupied of a board
          PlyOf(_),          \* its discs but the first four
          PatternsOf(_),     \* the patterns it has features of
          PatternIds(_),     \* the patterns of a pattern set
          Unit, Steps, Losses,
          Int32              \* the largest weight an artifact holds

VARIABLES args, files, outcome,
          trainer            \* a training, from its first epoch on, or None

trainerVars == <<args, files, outcome, trainer>>

Fail(why) == outcome' = why /\ UNCHANGED files
Save(written) == outcome' = "ok" /\ files' = written

Bias == "bias"
Keys == Phases \X (Patterns \cup {Bias})

-----------------------------------------------------------------------------
(* The dataset.  A builder outside this module writes one line for each    *)
(* row, or one for each feature of a row.                                  *)

Record(row) == IF args.rows # "labelled" THEN row.record ELSE <<"row", row.ordinal>>

Line(row, number, patterns) ==
    [number |-> number, record |-> Record(row), valid |-> TRUE, split |-> row.split,
     label |-> row.label, ply |-> PlyOf(row.board), phase |-> PhaseOfBoard(row.board),
     patterns |-> patterns]

build_dataset ==
    /\ args.tool = "build_dataset" /\ outcome = None
    /\ LET rows == files[args.rows]
           lines == IF args.format = "compact"
                    THEN {Line(row, 0, PatternsOf(row.board)) : row \in rows}
                    ELSE UNION {{Line(row, 0, {p}) : p \in PatternsOf(row.board)} : row \in rows}
       IN  Save([files EXCEPT !.dataset = [format |-> args.format, lines |-> lines]])
    /\ UNCHANGED <<args, trainer>>

\* ExampleBuilder.add: the lines of a record must agree.
Metadata(line) == <<line.ply, line.split, line.label, line.phase>>

\* A record is rejected whole if any of its lines is invalid or disagrees.
load_expanded_examples(lines) ==
    LET of(record) == {line \in lines : line.record = record}
        accepted == {record \in {line.record : line \in lines} :
            \A x, y \in of(record) : x.valid /\ Metadata(x) = Metadata(y)}
        first(record) == CHOOSE line \in of(record) : TRUE
    IN  {[first(record) EXCEPT !.number = 0,
             !.patterns = UNION {line.patterns : line \in of(record)}] : record \in accepted}

\* Here every line is an example; a record may have several.
load_compact_examples(lines) == {line \in lines : line.valid}

load_examples ==
    IF files.dataset.format = "compact"
    THEN load_compact_examples(files.dataset.lines)
    ELSE load_expanded_examples(files.dataset.lines)

OfSplit(S, split) == {x \in S : x.split = split}

validate_training_examples == OfSplit(load_examples, "train") # {}

-----------------------------------------------------------------------------
(* The move teachers: files of move rows joined to the examples.           *)

Teachers == [i \in DOMAIN args.teachers |-> files[args.teachers[i]]]
AllMoves == UNION Range(Teachers)
RootIds(moves) == {row.root : row \in moves}

\* move.example: the example a row is joined to, and its features.
features(row) == (CHOOSE e \in load_examples : e.record = row.child).patterns

\* The metadata a root repeats on each of its rows.
RootMetadata(row) == <<row.record, row.split, row.phase>>

\* Why a file is refused by load_move_teacher_roots.
bad_teacher(moves, examples) ==
    \/ moves = {} \/ OfSplit(moves, "train") = {}
    \/ \E x, y \in moves :
          \/ x.provenance # y.provenance
          \/ x.root = y.root /\ RootMetadata(x) # RootMetadata(y)
          \/ x.root = y.root /\ x.move = y.move /\ x # y
    \/ \E row \in moves : ~\E e \in examples :
          /\ e.record = row.child /\ e.split = row.split
          /\ e.phase = PhaseOfBoard(row.child_board) /\ e.label = -row.score

\* load_move_teacher_roots_many: and why the files together are.
bad_teachers(examples) ==
    \/ \E x, y \in examples : x # y /\ x.record = y.record
    \/ \E i \in DOMAIN Teachers : bad_teacher(Teachers[i], examples)
    \/ \E i, j \in DOMAIN Teachers :
          i # j /\ RootIds(Teachers[i]) \cap RootIds(Teachers[j]) # {}
    \/ {e.record : e \in examples} # {row.child : row \in AllMoves}

\* load_played_move_policy: rows of boards that are no roots are ignored.
matched_policy == {p \in files.policy : p.board \in RootIds(AllMoves)}

bad_policy ==
    \/ OfSplit(matched_policy, "train") = {}
    \/ \E x, y \in files.policy : x.board = y.board /\ x.split # y.split
    \/ \E p \in matched_policy :
          \/ \E row \in AllMoves : row.root = p.board /\ row.split # p.split
          \/ ~\E row \in AllMoves : row.root = p.board /\ row.move = p.move

-----------------------------------------------------------------------------
(* Which weights a training moves.                                         *)

\* train_phase_bias: the mean label of the train examples of a phase.
train_phase_bias(examples) ==
    [p \in Phases |->
        LET of == {e \in OfSplit(examples, "train") : e.phase = p}
        IN  IF of = {} THEN 0
            ELSE (Unit * MapThenSumSet(LAMBDA e : e.label, of)) \div Cardinality(of)]

Initial(examples) ==
    [k \in Keys |-> IF k[2] = Bias THEN train_phase_bias(examples)[k[1]] ELSE 0]

\* train_pattern_sgd, _v0c, _v0d: the features of the train examples.
sgd_keys(examples) ==
    UNION {{<<e.phase, p>> : p \in e.patterns} : e \in OfSplit(examples, "train")}

\* sampled_rank_pairs: of the pairs of moves that do not tie, at most
\* pair_sampling_cap of each root, drawn once.
rank_pairs(root) ==
    {pair \in {m \in AllMoves : m.root = root} \X {m \in AllMoves : m.root = root} :
        pair[1].score - pair[2].score > args.tie_margin}

sampled_rank_pairs ==
    {sample \in SUBSET UNION {rank_pairs(root) : root \in RootIds(AllMoves)} :
        \A root \in RootIds(AllMoves) :
            LET room == Cardinality(rank_pairs(root))
            IN  Cardinality(sample \cap rank_pairs(root)) =
                   IF args.pair_sampling_cap = 0 THEN room
                   ELSE Min({args.pair_sampling_cap, room})}

ChildPhase(row) == PhaseOfBoard(row.child_board)

\* Mutant of unfrozen_moves: the freeze looks at the root's phase.
moves_of_unfrozen_roots ==
    {row \in OfSplit(AllMoves, "train") : row.phase \notin args.freeze}

\* train_pattern_rank_v0e: the moves that reach weights at all ...
unfrozen_moves ==
    {row \in OfSplit(AllMoves, "train") : ChildPhase(row) \notin args.freeze}

\* ... and those of them a loss pulls at.
pulled_moves(sample) ==
    {row \in unfrozen_moves :
        \/ \E pair \in sample : row \in {pair[1], pair[2]}
        \/ args.played_move_policy /\ \E p \in matched_policy : p.board = row.root
        \/ args.value_loss}

trainable_patterns(row) ==
    features(row) \cap (IF args.trainable = {} THEN Patterns ELSE args.trainable)

\* A weight that only decays belongs to a move no loss pulls at.
rank_keys(sample) ==
    {<<ChildPhase(row), Bias>> : row \in pulled_moves(sample)}
    \cup UNION {{<<ChildPhase(row), p>> : p \in trainable_patterns(row)} :
                row \in IF args.weight_decay THEN unfrozen_moves ELSE pulled_moves(sample)}

\* A validation has a loss if a validation root has a pair.
ranks_validation == \E row \in OfSplit(AllMoves, "validation") : rank_pairs(row.root) # {}

-----------------------------------------------------------------------------
(* main: load everything, then the epochs, then the weights.               *)

\* The options argparse lets through together.
trainer_parse_args(A) ==
    {a \in A : /\ a.mode = "v0e" <=> a.teachers # <<>>
               /\ a.initial \/ (a.freeze = {} /\ a.initial_trained = {})
               /\ a.mode # "v0e" => ~a.initial /\ ~a.played_move_policy /\ a.trainable = {}
               /\ a.freeze \subseteq a.initial_trained}

\* artifact: what the initial weights were imported from, if there are any.
Started(weights, keys, updated, validates) ==
    [weights |-> weights, keys |-> keys, updated |-> updated, validates |-> validates,
     initial |-> weights, artifact |-> IF args.initial THEN files.source ELSE None,
     freeze |-> args.freeze, epoch |-> 0, stopped |-> FALSE, waiting |-> 0,
     best |-> weights, best_loss |-> None, best_epoch |-> None, history |-> <<>>]

run_pattern_sgd(examples) ==
    trainer' = Started(Initial(examples),
                       IF args.mode = "v0a" THEN {} ELSE sgd_keys(examples),
                       {e.phase : e \in OfSplit(examples, "train")},
                       OfSplit(examples, "validation") # {})

run_pattern_rank_v0e(examples) ==
    \E sample \in sampled_rank_pairs :
        trainer' = Started(IF args.initial THEN files.initial.values ELSE Initial(examples),
                           rank_keys(sample),
                           {ChildPhase(row) : row \in pulled_moves(sample)},
                           ranks_validation)

\* load_initial_weights: an imported artifact is in the second format, and
\* must be of the pattern set that a training in that format names.
other_metadata == args.schema # "v2" \/ files.initial.set # args.set

start_training ==
    /\ args.tool = "train" /\ outcome = None /\ trainer = None
    /\ LET examples == load_examples
           refuse(why) == Fail(why) /\ UNCHANGED trainer
       IN  CASE ~validate_training_examples -> refuse("no-train-examples")
             [] validate_training_examples /\ args.mode # "v0e" ->
                  run_pattern_sgd(examples) /\ UNCHANGED <<outcome, files>>
             [] validate_training_examples /\ args.mode = "v0e" ->
                  IF bad_teachers(examples) THEN refuse("bad-teachers")
                  ELSE IF args.played_move_policy /\ bad_policy THEN refuse("bad-policy")
                  ELSE IF args.initial /\ files.initial = None THEN refuse("no-initial-weights")
                  ELSE IF args.initial /\ other_metadata THEN refuse("other-patterns")
                  ELSE IF ~args.trainable \subseteq
                          UNION {features(row) : row \in AllMoves}
                  THEN refuse("absent-patterns")
                  ELSE run_pattern_rank_v0e(examples) /\ UNCHANGED <<outcome, files>>
    /\ UNCHANGED args

Patience == IF args.mode \in {"v0a", "v0b"} THEN None ELSE args.patience
Epochs == IF args.mode = "v0a" THEN 0 ELSE args.epochs

moved_weights(step) ==
    [k \in Keys |-> IF k \in trainer.keys THEN trainer.weights[k] + step[k]
                    ELSE trainer.weights[k]]

improves(loss) == loss # None /\ (trainer.best_loss = None \/ loss < trainer.best_loss)

epochs_without_improvement(loss) ==
    IF loss = None THEN trainer.waiting
    ELSE IF improves(loss) THEN 0 ELSE trainer.waiting + 1

early_stop(loss) ==
    Patience # None /\ loss # None /\ epochs_without_improvement(loss) >= Patience

after_epoch(weights, loss) ==
    [trainer EXCEPT
        !.weights = weights, !.epoch = @ + 1, !.waiting = epochs_without_improvement(loss),
        !.best = IF improves(loss) THEN weights ELSE @,
        !.best_loss = IF improves(loss) THEN loss ELSE @,
        !.best_epoch = IF improves(loss) THEN trainer.epoch + 1 ELSE @,
        !.stopped = early_stop(loss),
        !.history = Append(@, [weights |-> weights, loss |-> loss])]

\* One pass over the train split, and the validation after it.
train_epoch ==
    /\ args.tool = "train" /\ outcome = None /\ trainer # None
    /\ trainer.epoch < Epochs /\ ~trainer.stopped
    /\ \E step \in [trainer.keys -> Steps],
          loss \in IF trainer.validates THEN Losses ELSE {None} :
              trainer' = after_epoch(moved_weights(step), loss)
    /\ UNCHANGED <<args, files, outcome>>

\* The best epoch is taken only if the training was cut short.
FinalWeights ==
    IF trainer.stopped /\ trainer.best_epoch # None THEN trainer.best ELSE trainer.weights

trained_phases ==
    CASE args.mode = "v0e" ->
           (IF trainer.epoch > 0 THEN trainer.updated ELSE {}) \cup args.initial_trained
      [] args.mode \in {"v0b", "v0c", "v0d"} /\ args.emit_trained_phases -> trainer.updated
      [] OTHER -> None

write_weights ==
    /\ args.tool = "train" /\ outcome = None /\ trainer # None
    /\ trainer.epoch = Epochs \/ trainer.stopped
    /\ Save([files EXCEPT
           !.weights = [format |-> IF args.mode = "v0a" THEN "tsv" ELSE args.schema,
                        values |-> FinalWeights, set |-> args.set],
           !.trained = trained_phases])
    /\ UNCHANGED <<args, trainer>>

-----------------------------------------------------------------------------
(* Artifacts.                                                              *)

\* Half away from zero.
quantize_weight(value, scale) ==
    IF value >= 0 THEN (2 * value * scale + Unit) \div (2 * Unit)
    ELSE -((Unit - 2 * value * scale) \div (2 * Unit))

Quantized(values, scale) == [k \in Keys |-> quantize_weight(values[k], scale)]

outside_int32(values) == \E k \in Keys : values[k] \notin (-Int32 - 1)..Int32

\* Only weights that are not zero are in the file.
listed_patterns(values) == {k[2] : k \in {x \in Keys : x[2] # Bias /\ values[x] # 0}}

\* What export_v0b refuses before it writes anything.
validate_weights ==
    /\ files.weights.format = "v2" \/ (files.weights.format = "v1" /\ args.allow_legacy_v1)
    /\ files.weights.format = "v2" => files.weights.set = args.set
    /\ listed_patterns(files.weights.values) \subseteq PatternIds(args.set)
    /\ files.trained # {}
    /\ ~outside_int32(Quantized(files.weights.values, args.scale))

\* export_v0a takes the biases only, at scale one.
validate_phase_biases ==
    /\ files.weights.format = "tsv"
    /\ ~outside_int32(Quantized(files.weights.values, 1))

Scale == IF args.tool = "export_v0a" THEN 1 ELSE args.scale

\* make_artifact: the payload is written first ...
write_payload ==
    /\ args.tool \in {"export_v0a", "export_v0b"} /\ outcome = None /\ files.exporting = None
    /\ IF args.tool = "export_v0a" THEN validate_phase_biases ELSE validate_weights
    /\ LET payload == [values |-> Quantized(files.weights.values, Scale),
                       scale |-> Scale, set |-> args.set]
       IN  files' = [files EXCEPT !.payload = payload, !.exporting = payload]
    /\ UNCHANGED <<args, outcome, trainer>>

\* ... then the manifest, with a checksum of the payload.
write_manifest ==
    /\ args.tool \in {"export_v0a", "export_v0b"} /\ outcome = None /\ files.exporting # None
    /\ Save([files EXCEPT !.exporting = None,
           !.manifest = [checksum |-> files.exporting, scale |-> Scale, set |-> args.set,
                         trained |-> IF args.tool = "export_v0a" THEN None ELSE files.trained]])
    /\ UNCHANGED <<args, trainer>>

refuse_export ==
    /\ args.tool \in {"export_v0a", "export_v0b"} /\ outcome = None /\ files.exporting = None
    /\ ~IF args.tool = "export_v0a" THEN validate_phase_biases ELSE validate_weights
    /\ Fail("weights-refused")
    /\ UNCHANGED <<args, trainer>>

\* The exporter is killed between its two files.
export_killed ==
    /\ files.exporting # None
    /\ outcome' = "killed" /\ files' = [files EXCEPT !.exporting = None]
    /\ UNCHANGED <<args, trainer>>

\* import_artifact_weights.py: the manifest must describe this very payload.
parse_artifact ==
    /\ files.manifest.set = files.payload.set
    /\ files.manifest.scale = files.payload.scale
    /\ files.manifest.checksum = files.payload

\* scale of the artifact's weights are a disc; the scales used divide Unit.
dequantize(value) == (Unit * value) \div files.payload.scale

import_artifact ==
    /\ args.tool = "import_artifact" /\ outcome = None
    /\ IF files.payload = None \/ files.manifest = None
       THEN Fail("no-artifact")
       ELSE IF ~parse_artifact THEN Fail("artifact-refused")
       ELSE Save([files EXCEPT !.source = files.payload,
               !.initial = [values |-> [k \in Keys |-> dequantize(files.payload.values[k])],
                            set |-> files.payload.set, trained |-> files.manifest.trained]])
    /\ UNCHANGED <<args, trainer>>

TrainerNext ==
    \/ build_dataset \/ start_training \/ train_epoch \/ write_weights
    \/ write_payload \/ write_manifest \/ refuse_export \/ export_killed
    \/ import_artifact
=============================================================================
