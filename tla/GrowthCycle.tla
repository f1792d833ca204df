------------------------------ MODULE GrowthCycle ------------------------------
(***************************************************************************)
(* tools/pattern/train/run_pattern_growth_cycle.py: run a matrix of child- *)
(* value trainings (CampaignMatrix) over root counts and seeds, and when   *)
(* most of them rank moves better, play bounded arenas with the best       *)
(* artifacts and say what to do next.  One arena depth and one arena seed.   *)
(* Deltas are -1, 0 or 1, a regret delta of -1 is an improvement; score    *)
(* rates are in percent.                                                   *)
(***************************************************************************)
EXTENDS CampaignStage

CONSTANT runs       \* sequence of [id, root, seed], in matrix order

Runs == {runs[i] : i \in DOMAIN runs}

parse_args == [keep_going : BOOLEAN, skip_arenas : BOOLEAN, training : {1}]

sources == {"normalized_tsv", "baseline_v1", "baseline_root_label", "matrix_tools",
            "arena_executable"}

\* The matrix helper looks after its own outputs: it is started every time.
\* (Or the report of an earlier matrix is named, which may hold failed runs.)
run_or_reuse_matrix ==
    [Stage("matrix") EXCEPT !.reads = {"normalized_tsv", "baseline_root_label",
                                       "matrix_tools"},
                            !.flags = {"training", "keep_going"}, !.sidecar = FALSE]

\* resume_expected records the positions and both artifacts, not the arena.
Arena(comparison, run) == comparison \o "-" \o run.id
baselines == [id |-> "baselines"]
arena_command(comparison, run, artifacts) ==
    [Stage(Arena(comparison, run)) EXCEPT
        !.kind = comparison,
        !.files = 2, !.reads = {"normalized_tsv", "arena_executable"} \cup artifacts,
        !.prints = {"normalized_tsv"} \cup artifacts, !.tolerant = TRUE,
        !.when = <<"skip_arenas", FALSE>>, !.planned = TRUE,
        !.required = comparison \in {"same_artifact_sanity",
                                     "candidate_baseline_swap_sanity"}]

\* Every variant that may come up, in the order of the plan: the sanity
\* check of the best artifact, the baselines, the candidates, the swap.
PerRun(comparison, artifacts) ==
    [i \in DOMAIN runs |-> arena_command(comparison, runs[i], artifacts)]

run_arena_matrix ==
    PerRun("same_artifact_sanity", {"matrix"})
    \o <<arena_command("exact_root_v2_vs_v1", baselines,
                       {"baseline_root_label", "baseline_v1"})>>
    \o PerRun("move_teacher_v2_vs_v1", {"matrix", "baseline_v1"})
    \o PerRun("move_teacher_v2_vs_exact_root_v2", {"matrix", "baseline_root_label"})
    \o PerRun("candidate_baseline_swap_sanity", {"matrix", "baseline_v1"})

main == <<run_or_reuse_matrix>> \o run_arena_matrix

\* Three files left over are compared; anything less is run again.
run_stage(look) ==
    IF look.resume /\ look.sidecar /\ look.files \in {Torn, Entire}
    THEN IF look.matches THEN "reuse" ELSE "refuse"
    ELSE "run"

-----------------------------------------------------------------------------
\* The matrix report maps each run to its deltas, or to Failed.
completed_comparable_runs(matrix) ==
    IF IsKnown(matrix) THEN {r \in DOMAIN matrix : matrix[r] # Failed} ELSE {}

run_supports_decision_leverage(run) == run.top1 > 0 /\ run.pairwise > 0 /\ run.regret < 0
run_is_negative(run) == run.pairwise <= 0 \/ run.regret >= 0

summarize_decision_leverage(matrix) ==
    LET completed == completed_comparable_runs(matrix)
        count(P(_)) == Cardinality({r \in completed : P(matrix[r])})
        top1 == count(LAMBDA run : run.top1 > 0)
        pairwise == count(LAMBDA run : run.pairwise > 0)
        regret == count(LAMBDA run : run.regret < 0)
        heldout == count(LAMBDA run : run.heldout)
        n == Cardinality(completed)
        trained_counts == {r.root : r \in completed}
        of(root) == {r \in completed : r.root = root}
        replicated == n >= 2 /\ \A root \in trained_counts : Cardinality(of(root)) >= 2
        most(part, group) == 2 * Cardinality(part) > Cardinality(group)
    IN  [completed_comparable_runs |-> n,
         top1_positive_count |-> top1,
         pairwise_positive_count |-> pairwise,
         regret_decrease_count |-> regret,
         high_all_same_count |-> count(LAMBDA run : run.all_same),
         compressed_static_score_range_count |-> count(LAMBDA run : run.compressed),
         gate_passed |-> /\ n > 0
                         /\ \A c \in {top1, pairwise, regret, heldout} : 2 * c > n,
         stable |-> /\ replicated
                    /\ count(run_is_negative) = 0
                    /\ \A root \in trained_counts :
                         /\ most({r \in of(root) : run_supports_decision_leverage(matrix[r])},
                                 of(root))
                         /\ most({r \in of(root) : matrix[r].heldout}, of(root))]

\* Is quality p better than quality q, compared field by field?
candidate_quality(run) == <<run.pairwise, -run.regret, run.top1>>
Exceeds(p, q) ==
    \E i \in DOMAIN p : p[i] > q[i] /\ \A j \in 1..(i - 1) : p[j] = q[j]

\* The order of extract_candidates: root count, quality, smaller seed first.
extract_candidates(matrix) == completed_comparable_runs(matrix)
best_candidate(group, matrix) ==
    LET key(r) == candidate_quality(matrix[r]) \o <<r.root, -r.seed>>
    IN  CHOOSE r \in group : \A q \in group : ~Exceeds(key(q), key(r))

selected_arena_candidates(matrix) ==
    LET candidates == extract_candidates(matrix)
        largest == Max({r.root : r \in candidates})
        of(root) == {r \in candidates : r.root = root}
    IN  of(largest) \cup {best_candidate(of(root), matrix) :
                             root \in {r.root : r \in candidates} \ {largest}}

same_artifact_sanity_passes(result) ==
    result.failed = 0 /\ result.rate \in 48..52 /\ result.diff \in -1..1

\* The variants of this session's plan, up to a sanity check that fails.
arena_variant_plan(s, results) ==
    LET matrix == results["matrix"]
        selected == selected_arena_candidates(matrix)
        best == best_candidate(selected, matrix)
        sanity == results[Arena("same_artifact_sanity", best)]
        candidates == {"move_teacher_v2_vs_v1", "move_teacher_v2_vs_exact_root_v2"}
    IN  /\ IsKnown(matrix) /\ summarize_decision_leverage(matrix).gate_passed
        /\ s.name \in {Arena("same_artifact_sanity", best)}
                      \cup {Arena("exact_root_v2_vs_v1", baselines),
                            Arena("candidate_baseline_swap_sanity", best)}
                      \cup {Arena(c, r) : c \in candidates, r \in selected}
        /\ s.kind # "same_artifact_sanity" =>
              IsKnown(sanity) /\ same_artifact_sanity_passes(sanity)

arena_supportive(result, close_ok) ==
    result.failed = 0 /\ result.rate >= IF close_ok THEN 49 ELSE 50

\* A comparison of which no run completed counts as passed.
summarize_arena_validation(results) ==
    LET of(comparison) ==
            {n \in {Arena(comparison, r) : r \in Runs \cup {baselines}} :
                n \in DOMAIN results /\ IsKnown(results[n])}
        completed == {n \in DOMAIN results \ {"matrix"} : IsKnown(results[n])}
        supported(comparison, close_ok) ==
            LET group == of(comparison)
                supportive == {n \in group : arena_supportive(results[n], close_ok)}
            IN  group = {} \/ 2 * Cardinality(supportive) > Cardinality(group)
    IN  [status |-> IF completed = {} THEN "missing" ELSE "ok",
         gate_passed |->
            /\ completed # {}
            /\ \A n \in of("same_artifact_sanity") : same_artifact_sanity_passes(results[n])
            /\ supported("move_teacher_v2_vs_v1", FALSE)
            /\ supported("move_teacher_v2_vs_exact_root_v2", TRUE)
            /\ \A n \in completed : results[n].failed = 0,
         positive_arena_margin_observed |->
            \E n \in of("move_teacher_v2_vs_v1") : results[n].rate > 50]

promotion_decision(decision, arena) ==
    LET n == decision.completed_comparable_runs
        most(count) == 2 * count > n
        ready == decision.gate_passed /\ arena.gate_passed
        convincing == arena.positive_arena_margin_observed /\ decision.stable
    IN  CASE n = 0 -> "inconclusive"
          [] /\ ~decision.gate_passed
             /\ \/ most(decision.high_all_same_count)
                \/ most(decision.compressed_static_score_range_count) ->
               "needs_rank_objective"
          [] \/ ~most(decision.pairwise_positive_count)
             \/ ~most(decision.regret_decrease_count) ->
               IF most(decision.top1_positive_count) THEN "needs_rank_objective"
               ELSE "negative"
          [] decision.gate_passed /\ (arena.status = "missing" \/ ~arena.gate_passed) ->
               "hold_for_more_data"
          [] ready /\ convincing -> "promote_to_larger_local_validation"
          [] ready /\ ~convincing -> "hold_for_more_data"
          [] OTHER -> "inconclusive"

next_action(category) ==
    CASE category = "promote_to_larger_local_validation" -> "larger_input_generation"
      [] category = "hold_for_more_data" -> "more_bounded_arenas"
      [] category = "needs_rank_objective" -> "rank_objective"
      [] category = "negative" -> "stop_and_debug"
      [] OTHER -> "complete_missing_reports"

report(results) ==
    LET category == promotion_decision(summarize_decision_leverage(results["matrix"]),
                                       summarize_arena_validation(results))
    IN  [decision |-> category, next |-> next_action(category)]
=============================================================================
