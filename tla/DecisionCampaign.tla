--------------------------- MODULE DecisionCampaign ---------------------------
(***************************************************************************)
(* tools/pattern/labels/run_move_teacher_decision_campaign.py: label every *)
(* legal move of the selected roots, train a child-value artifact on them, *)
(* rank the moves with it and with a previous artifact, and play a bounded *)
(* arena against a baseline.  The branch that takes the labels from the    *)
(* move-teacher cache is in MoveTeacherCache.                              *)
(***************************************************************************)
EXTENDS CampaignStage

\* The options that select stages or go into their commands.  roots stands
\* for max-empty, max-roots and seed, training for the trainer's options.
parse_args ==
    [roots : {1}, patterns : {1}, training : {1, 2}, rank : BOOLEAN,
     previous : BOOLEAN, baseline : BOOLEAN, depth : {1}, keep_going : {FALSE}]

\* Files made elsewhere: the inputs named on the command line and the tools
\* (generator, dataset builder, trainer, exporter, evaluator, arena).
sources == {"normalized_tsv", "previous_artifact", "arena_baseline", "tools"}

Tool(s) == [s EXCEPT !.reads = @ \cup {"tools"}]

generate_exact_move_teacher_dataset ==
    Tool(Fingerprinted("generate_exact_move_teacher_dataset", 3,
                       {"normalized_tsv"}, {"roots"}))

build_dataset ==
    Tool(Fingerprinted("build_child_pattern_dataset", 2,
                       {"generate_exact_move_teacher_dataset"}, {"patterns"}))

\* The trainer mode names the stage; only the rank mode reads the labels.
train(rank) ==
    [Tool(Fingerprinted(IF rank THEN "train_pairwise_rank_artifact"
                                ELSE "train_child_value_artifact", 2,
              {"build_child_pattern_dataset"} \cup
              (IF rank THEN {"generate_exact_move_teacher_dataset"} ELSE {}),
              {"training", "rank", "roots"}))
     EXCEPT !.out = "weights", !.when = <<"rank", rank>>]

export_artifact ==
    Tool(Fingerprinted("export_child_value_artifact", 2, {"weights"}, {"patterns"}))

evaluate_artifact(stage_name, artifact) ==
    Tool(Fingerprinted(stage_name, 2,
             {"generate_exact_move_teacher_dataset", artifact}, {"patterns"}))

run_arena ==
    [Tool(Fingerprinted("bounded_late_game_arena", 2,
              {"normalized_tsv", "export_child_value_artifact", "arena_baseline"},
              {"roots", "patterns", "depth"}))
     EXCEPT !.when = <<"baseline", TRUE>>]

main ==
    <<generate_exact_move_teacher_dataset,
      build_dataset,
      train(TRUE),
      train(FALSE),
      export_artifact,
      [evaluate_artifact("evaluate_previous_artifact_ranking", "previous_artifact")
       EXCEPT !.when = <<"previous", TRUE>>],
      evaluate_artifact("evaluate_move_teacher_child_artifact_ranking",
                        "export_child_value_artifact"),
      run_arena>>

\* With --resume a stage whose outputs all exist is validated against its
\* sidecar; otherwise its tool is run, over whatever lies there.
run_stage(look) ==
    IF look.resume /\ look.files \in {Torn, Entire}
    THEN IF look.matches THEN "reuse" ELSE "refuse"
    ELSE "run"

\* The arena report is quoted whenever the file is there.
quotes(s) == s.name = "bounded_late_game_arena"

\* Both rankings on the same labels; no verdict is drawn from them.
compare_rankings(previous, trained) ==
    IF IsKnown(previous) /\ IsKnown(trained)
    THEN [available |-> TRUE,
          top1_accuracy_delta |-> trained.top1 - previous.top1,
          mean_teacher_regret_delta |-> trained.regret - previous.regret]
    ELSE [available |-> FALSE]

report(results) ==
    compare_rankings(results["evaluate_previous_artifact_ranking"],
                     results["evaluate_move_teacher_child_artifact_ranking"])
=============================================================================
