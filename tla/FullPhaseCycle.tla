----------------------------- MODULE FullPhaseCycle -----------------------------
(***************************************************************************)
(* tools/pattern/train/run_full_phase_growth_cycle.py for one seed: select *)
(* roots of all phases, label the midgame ones by search and the late ones *)
(* exactly, join the labels, train, export, rank, and play a late-game     *)
(* arena matrix (ArenaMatrix) and three full-game arenas.  Every sidecar   *)
(* records the repository and the tools of the stage besides its inputs.   *)
(* Two phases stand for the thirteen: "midgame" and "late".                *)
(***************************************************************************)
EXTENDS CampaignStage

phases == {"midgame", "late"}

\* selection stands for quotas and split policy, training for the trainer's
\* options, arena for depths, seeds and the limits of the games.
parse_args ==
    [keep_going : {FALSE}, selection : {1}, training : {1, 2}, arena : {1}]

sources == {"normalized_tsv", "teacher", "baseline", "openings", "tools", "repository"}

execute(name, files, inputs, flags) ==
    Fingerprinted(name, files, inputs \cup {"tools", "repository"}, flags)

main ==
    <<execute("phase_selection", 4, {"normalized_tsv"}, {"selection"}),
      execute("midgame_search_teacher", 3, {"phase_selection", "teacher"}, {}),
      execute("late_game_exact_teacher", 3, {"phase_selection"}, {}),
      execute("teacher_merge_validation", 2,
              {"phase_selection", "midgame_search_teacher", "late_game_exact_teacher"}, {}),
      execute("dataset_build", 2, {"teacher_merge_validation"}, {}),
      execute("rank_train", 2,
              {"dataset_build", "midgame_search_teacher", "late_game_exact_teacher"},
              {"training"}),
      execute("export", 2, {"rank_train"}, {}),
      execute("offline_ranking", 9,
              {"midgame_search_teacher", "late_game_exact_teacher", "export", "baseline"}, {}),
      [execute("late_game_arena", 2, {"phase_selection", "export", "baseline"}, {"arena"})
       EXCEPT !.nested = TRUE],
      execute("full_game_arena", 4, {"export", "baseline", "openings"}, {"arena"}),
      execute("decision_summary", 1,
              {"phase_selection", "teacher_merge_validation", "rank_train", "export",
               "offline_ranking", "late_game_arena", "full_game_arena"}, {})>>

\* The trainer must have trained every phase; looked at before the export.
trainer_trained_phases(found) == found.trained_phases = phases
ready(s, results) == s.name = "export" => trainer_trained_phases(results["rank_train"])

\* Outputs and sidecar are all compared, or, unless none of them is there,
\* refused, with or without --resume.
execute_stage(look) ==
    CASE look.files = Absent /\ ~look.sidecar -> "run"
      [] look.resume /\ look.files \in {Torn, Entire} /\ look.sidecar ->
            IF look.matches THEN "reuse" ELSE "refuse"
      [] OTHER -> "refuse"

\* What the selection stage finds wrong with what the selector wrote: a leak
\* between splits, or a phase without train roots.  The checks of the join
\* come before it writes anything: it fails as a tool does.
validate_selection_train_coverage(found) ==
    found.collisions = 0 /\ found.train_phases = phases

accepts(s, content) ==
    s.name = "phase_selection" => validate_selection_train_coverage(content.result)

-----------------------------------------------------------------------------
\* The evaluator reports mean_teacher_regret; the summary asks for
\* mean_root_regret, which no report has and which counts as 0 then.
ranking_summary(found) ==
    [pairwise_accuracy_delta |-> found.candidate_pairwise - found.baseline_pairwise,
     mean_root_regret_delta |-> 0,
     all_same_score_rate |-> found.all_same]

\* Rates in percent, of candidate against baseline and the other way round.
full_game_summary(found) ==
    [same_artifact_sanity |-> found.bad = 0 /\ found.neutral,
     swap_sanity |-> found.bad = 0 /\ found.forward + found.reverse \in 96..104,
     candidate_vs_baseline_score_rate |-> found.forward]

\* The assessment of the late-game matrix is looked up under a name its
\* report does not have, so that it is never found fatal.
late_ok(late_matrix) == TRUE

decision_for_run(results) ==
    LET ranking == ranking_summary(results["offline_ranking"])
        full_game == full_game_summary(results["full_game_arena"])
        pairwise == ranking.pairwise_accuracy_delta
        regret == ranking.mean_root_regret_delta
    IN  CASE \/ results["teacher_merge_validation"].root_phases # phases
             \/ results["rank_train"].trained_phases # phases
             \/ ~full_game.same_artifact_sanity
             \/ ~full_game.swap_sanity
             \/ ~late_ok(results["late_game_arena"])  -> "invalid_run"
          [] pairwise < 0 /\ regret < 0               -> "negative"
          [] pairwise <= 0 \/ regret <= 0             -> "needs_rank_objective"
          [] ranking.all_same_score_rate >= 25        -> "needs_feature_capacity"
          [] full_game.candidate_vs_baseline_score_rate >= 50 ->
                "promote_to_larger_validation"
          [] OTHER                                    -> "hold_for_more_data"

report(results) == [decision |-> decision_for_run(results)]
=============================================================================
