------------------------------ MODULE ArenaMatrix ------------------------------
(***************************************************************************)
(* tools/arena/run_pattern_artifact_arena_matrix.py: bounded arenas for    *)
(* every comparison, depth, seed and position count, and an assessment of  *)
(* all of them.  Here the comparisons are the three the assessment looks   *)
(* for (move teacher, exact root and v1 artifacts against each other) with *)
(* the sanity comparisons, at every depth of depths; one seed and one      *)
(* position count.  A score rate is 0..4 quarters, a disc difference an    *)
(* integer seen from the candidate.                                        *)
(***************************************************************************)
EXTENDS CampaignStage

CONSTANT depths      \* sequence of search depths

\* --pair-json: a comparison and the words of its name; the order is that of
\* the names, which is the order the report lists its groups in.
base_comparisons ==
    <<[comparison |-> "exact_vs_v1", words |-> {"exact", "v1"},
       kind |-> "comparison", swap_of |-> ""],
      [comparison |-> "move_vs_exact", words |-> {"move", "exact"},
       kind |-> "comparison", swap_of |-> ""],
      [comparison |-> "move_vs_v1", words |-> {"move", "v1"},
       kind |-> "comparison", swap_of |-> ""]>>

\* Both sanity checks are made with the primary comparison, move_vs_exact.
sanity_comparisons ==
    base_comparisons \o
    <<[comparison |-> "same_artifact_sanity__move", words |-> {"move"},
       kind |-> "same_artifact_sanity", swap_of |-> ""],
      [comparison |-> "swap_sanity__move_vs_exact", words |-> {"swap", "move", "exact"},
       kind |-> "swap_sanity", swap_of |-> "move_vs_exact"]>>

\* Artifacts of all comparisons are one source here, validated at the start.
parse_args == [keep_going : BOOLEAN, side_swap : {TRUE}, seed : {1, 2}]
sources == {"positions_tsv", "artifacts", "arena_executable"}

run_key(comparison, depth) == <<comparison.comparison, depth>>

\* What resume_expected records: the run and its command, the positions and
\* the artifacts; not the arena executable.
resume_expected == {"positions_tsv", "artifacts"}

arena_command(comparison, depth) ==
    [Stage(run_key(comparison, depth)) EXCEPT
        !.files = 2, !.reads = resume_expected \cup {"arena_executable"},
        !.prints = resume_expected, !.flags = {"seed", "side_swap"},
        !.tolerant = TRUE]

planned_runs ==
    LET D == Len(depths)
    IN  [i \in 1..(Len(sanity_comparisons) * D) |->
            arena_command(sanity_comparisons[((i - 1) \div D) + 1],
                          depths[((i - 1) % D) + 1])]

\* Reuse takes report, summary and sidecar; anything less that is left over
\* is refused, with or without --resume.
run_one_arena(look) ==
    CASE look.files = Absent /\ ~look.sidecar -> "run"
      [] look.resume /\ look.files \in {Torn, Entire} /\ look.sidecar
                                              -> IF look.matches THEN "reuse" ELSE "refuse"
      [] OTHER                                -> "refuse"

-----------------------------------------------------------------------------
\* The assessment.  results maps <<comparison, depth>> to what the arena
\* reported, Failed for a run that failed, None for one after such a run.
completed_results(results) == {k \in DOMAIN results : IsKnown(results[k])}

group_of(results, comparison) ==
    [k \in {j \in completed_results(results) : j[1] = comparison} |-> results[k]]

non_negative(result) == result.failed = 0 /\ result.rate >= 2

basic_stats(group) ==
    [run_count |-> Cardinality(DOMAIN group),
     total_failed_games |-> TotalOf([k \in DOMAIN group |-> group[k].failed]),
     non_negative_run_count |-> Cardinality({k \in DOMAIN group : non_negative(group[k])}),
     rates |-> TotalOf([k \in DOMAIN group |-> group[k].rate]),
     diffs |-> TotalOf([k \in DOMAIN group |-> group[k].diff])]

depth_breakdown(group, depth) ==
    basic_stats([k \in {j \in DOMAIN group : j[2] = depth} |-> group[k]])

mean_at_least_half(stats) == stats.rates >= 2 * stats.run_count
mean_diff_non_negative(stats) == stats.diffs >= 0

same_artifact_passes(group) ==
    /\ DOMAIN group # {}
    /\ \A k \in DOMAIN group :
          group[k].failed = 0 /\ group[k].rate = 2 /\ group[k].diff = 0

group_local_assessment(comparison, group) ==
    LET stats == basic_stats(group)
    IN  CASE comparison.kind = "same_artifact_sanity" ->
               IF same_artifact_passes(group) THEN "same_artifact_sanity_passed"
               ELSE "same_artifact_sanity_failed"
          [] comparison.kind = "swap_sanity" -> "check_swap_sanity_result"
          [] stats.total_failed_games # 0 -> "local_harness_failed"
          [] /\ mean_at_least_half(stats) /\ mean_diff_non_negative(stats)
             /\ stats.non_negative_run_count >= Ceiling(stats.run_count, 2) ->
               "local_signal_non_negative"
          [] 100 * stats.rates < 196 * stats.run_count
             \/ 2 * stats.diffs < -stats.run_count -> "local_harness_failed"
          [] OTHER -> "local_harness_needs_more_runs"

\* The comparisons some run of which completed, with their results, by their
\* place in the report.
summarize_by_comparison(results) ==
    [i \in {j \in DOMAIN sanity_comparisons :
               DOMAIN group_of(results, sanity_comparisons[j].comparison) # {}} |->
        [about |-> sanity_comparisons[i],
         group |-> group_of(results, sanity_comparisons[i].comparison)]]

same_artifact_sanity_summary(by) ==
    LET checks == {i \in DOMAIN by : by[i].about.kind = "same_artifact_sanity"}
    IN  [run |-> checks # {},
         passed |-> checks # {} /\ \A i \in checks : same_artifact_passes(by[i].group)]

\* Each swapped run against the forward run of the same key.
swap_mirrors(reverse, forward) ==
    /\ forward.failed = 0 /\ reverse.failed = 0
    /\ forward.rate + reverse.rate = 4
    /\ forward.diff + reverse.diff = 0
swap_sanity(results) ==
    LET checks == {k \in completed_results(results) : k[1] = "swap_sanity__move_vs_exact"}
        forward(k) == <<"move_vs_exact", k[2]>>
    IN  [run |-> checks # {},
         passed |-> /\ checks # {}
                    /\ \A k \in checks :
                          /\ forward(k) \in completed_results(results)
                          /\ swap_mirrors(results[k], results[forward(k)])]

\* The first group whose name has all the words, an empty one if none has.
find_group(by, words) ==
    LET found == {i \in DOMAIN by : words \subseteq by[i].about.words}
    IN  IF found = {} THEN <<>> ELSE by[Min(found)].group

group_non_negative_most(group, num, den) ==
    LET stats == basic_stats(group)
    IN  /\ stats.run_count > 0
        /\ stats.non_negative_run_count >= Ceiling(stats.run_count * num, den)

group_mean_non_negative(group) ==
    LET stats == basic_stats(group)
    IN  stats.run_count > 0 /\ mean_at_least_half(stats) /\ mean_diff_non_negative(stats)

deepest_depth_negative(group) ==
    /\ DOMAIN group # {}
    /\ LET stats == depth_breakdown(group, Max({k[2] : k \in DOMAIN group}))
       IN  stats.non_negative_run_count = 0 /\ ~mean_at_least_half(stats)

overall_local_assessment(results) ==
    LET by == summarize_by_comparison(results)
        same == same_artifact_sanity_summary(by)
        swap == swap_sanity(results)
        mt_exact == find_group(by, {"move", "exact"})
        mt_v1 == find_group(by, {"move", "v1"})
        exact_v1 == find_group(by, {"exact", "v1"})
        present(group) == group # <<>>
        fatal == \/ \E i \in DOMAIN by : basic_stats(by[i].group).total_failed_games # 0
                 \/ same.run /\ ~same.passed
                 \/ swap.run /\ ~swap.passed
                 \/ present(mt_exact) /\ ~group_non_negative_most(mt_exact, 1, 2)
                 \/ present(mt_v1) /\ ~group_mean_non_negative(mt_v1)
                 \/ deepest_depth_negative(mt_exact)
    IN  CASE fatal -> "local_harness_failed"
          [] /\ ~fatal /\ same.passed /\ swap.passed
             /\ present(mt_exact) /\ present(mt_v1) /\ present(exact_v1)
             /\ group_non_negative_most(mt_exact, 4, 5)
             /\ group_mean_non_negative(mt_exact)
             /\ group_mean_non_negative(mt_v1)
             /\ group_mean_non_negative(exact_v1)
             /\ \E k \in DOMAIN mt_exact : k[2] = 7 -> "local_harness_passed"
          [] OTHER -> "local_harness_needs_more_runs"

build_report(results) ==
    [decision |-> overall_local_assessment(results),
     groups |-> {<<c.comparison, group_local_assessment(c, group_of(results, c.comparison))>> :
                    c \in {d \in {sanity_comparisons[i] : i \in DOMAIN sanity_comparisons} :
                              DOMAIN group_of(results, d.comparison) # {}}},
     failed_run_count |-> Cardinality({k \in DOMAIN results : results[k] = Failed}),
     skipped_run_count |-> Cardinality({k \in DOMAIN results : results[k] = None})]
=============================================================================
