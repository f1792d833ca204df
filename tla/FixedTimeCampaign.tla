-------------------------- MODULE FixedTimeCampaign --------------------------
(***************************************************************************)
(* tools/arena/run_fixed_time_artifact_strength_campaign.py: a candidate   *)
(* artifact against a baseline in every cell of a matrix (opening set,     *)
(* time limit), each cell played in both argument orders and with either   *)
(* artifact against itself, and a decision drawn from all the reports.     *)
(* One exact threshold; two openings, so that the score of a pair is in    *)
(* quarters and the percentiles of the bootstrap are the two extremes.     *)
(***************************************************************************)
EXTENDS CampaignStage

CONSTANTS time_limits_ms,   \* sequence of time limits, shortest first
          minimum_time_limits, \* --minimum-promotion-time-limits, at least 2
          minimum_pairs     \* --minimum-promotion-opening-pairs

Variants == <<"candidate_vs_baseline", "baseline_vs_candidate",
              "same_candidate", "same_baseline">>
opening_sets == <<"primary", "holdout">>

\* --holdout-opening-corpus, and a seed for every other option.
parse_args == [seed : {1, 2}, holdout : BOOLEAN, keep_going : {FALSE}]

sources == {"primary_corpus", "holdout_corpus", "candidate", "baseline",
            "arena_executable", "repository"}

\* What a sidecar records, besides configuration and command.
expected_resume(set) ==
    {set \o "_corpus", "candidate", "baseline", "arena_executable", "repository"}

\* One stage per opening set, time limit and variant.
stage_of(set, time, variant) ==
    [Fingerprinted(<<set, time, variant>>, 1, expected_resume(set), {"seed", "holdout"})
     EXCEPT !.when = IF set = "holdout" THEN <<"holdout", TRUE>> ELSE <<>>]

main ==
    LET T == Len(time_limits_ms)
        V == Len(Variants)
    IN  [i \in 1..(Len(opening_sets) * T * V) |->
            stage_of(opening_sets[((i - 1) \div (T * V)) + 1],
                     time_limits_ms[(((i - 1) \div V) % T) + 1],
                     Variants[((i - 1) % V) + 1])]

\* Reuse takes both the report and its sidecar; anything less that is left
\* over is refused, with or without --resume.
run_stage(look) ==
    CASE look.files = Absent /\ ~look.sidecar        -> "run"
      [] look.resume /\ look.files = Entire /\ look.matches -> "reuse"
      [] OTHER                                       -> "refuse"

\* The report must be of this very stage and hold both games of each pair.
validate_arena_report(s, content) ==
    /\ content.by = s.name
    /\ DOMAIN content.from = s.reads
    /\ content.result.paired_color_swap_complete

-----------------------------------------------------------------------------
\* build_decision.  Scores of a pair are 0..4, observations 0..8: the mean
\* of the forward score and of what the reverse one leaves.
opening_pair_score_map(report) == report.scores
observations_not_turned(forward, reverse) ==
    [o \in DOMAIN opening_pair_score_map(forward) |->
        opening_pair_score_map(forward)[o] + opening_pair_score_map(reverse)[o]]
argument_order_observations(forward, reverse) ==
    [o \in DOMAIN opening_pair_score_map(forward) |->
        opening_pair_score_map(forward)[o]
        + (4 - opening_pair_score_map(reverse)[o])]

\* One of four resamples repeats the lower observation, one the higher.
bootstrap_interval(observations) ==
    [lower |-> Min({observations[o] : o \in DOMAIN observations}),
     upper |-> Max({observations[o] : o \in DOMAIN observations})]

\* Wins and draws of both orders, the reverse ones turned round.
argument_order_overall(forward, reverse) ==
    TotalOf(argument_order_observations(forward, reverse))

\* The candidate's median depth is at least nine tenths of the baseline's,
\* in either order; a baseline depth of 0 counts as reached.
argument_order_depth_passed(forward, reverse) ==
    /\ 10 * forward.depth.candidate >= 9 * forward.depth.baseline
    /\ 10 * reverse.depth.baseline >= 9 * reverse.depth.candidate

promotion_cell_assessment(forward, reverse) ==
    LET observations == argument_order_observations(forward, reverse)
        pairs == Cardinality(DOMAIN observations)
    IN  [eligible |-> forward.eligible /\ reverse.eligible,
         score_rate_passed |-> argument_order_overall(forward, reverse) > 4 * pairs,
         ci95 |-> bootstrap_interval(observations),
         completed_depth_passed |-> argument_order_depth_passed(forward, reverse),
         minimum_opening_pairs_passed |-> pairs >= minimum_pairs]

promotion_passed_by_upper_bound(cell) ==
    /\ cell.eligible /\ cell.ci95.upper > 4
    /\ cell.completed_depth_passed /\ cell.minimum_opening_pairs_passed
promotion_passed(cell) ==
    /\ cell.eligible /\ cell.score_rate_passed /\ cell.ci95.lower > 4
    /\ cell.completed_depth_passed /\ cell.minimum_opening_pairs_passed

\* Same-artifact and argument-order checks are shown, never gates.
same_artifact_diagnostic(report) ==
    [exactly_neutral |-> report.bad = 0 /\ \A o \in DOMAIN report.scores :
                                              report.scores[o] = 2]
swap_diagnostic(forward, reverse) ==
    [exactly_complementary |->
        /\ forward.bad = 0 /\ reverse.bad = 0
        /\ TotalOf(argument_order_observations(forward, reverse))
             = 2 * TotalOf(forward.scores)]

suggest_decision(failed, primary, passed_limits) ==
    CASE failed > 0                       -> "reject_correctness"
      [] ~primary.eligible                -> "inconclusive"
      [] ~primary.minimum_opening_pairs_passed -> "continue_validation"
      [] primary.ci95.upper < 4           -> "reject_strength"
      [] \/ ~promotion_passed(primary)
         \/ passed_limits < minimum_time_limits -> "continue_validation"
      [] OTHER                            -> "promote"

\* The set that decides is the holdout where there is one, the primary cell
\* the one with the longest time limit.
build_decision(settings, results) ==
    LET decision_set == IF settings.holdout THEN "holdout" ELSE "primary"
        sets == IF settings.holdout THEN {"primary", "holdout"} ELSE {"primary"}
        times == {time_limits_ms[i] : i \in DOMAIN time_limits_ms}
        report(set, time, variant) == results[<<set, time, variant>>]
        cell(set, time) ==
            promotion_cell_assessment(report(set, time, "candidate_vs_baseline"),
                                      report(set, time, "baseline_vs_candidate"))
        failed == {n \in sets \X times \X {Variants[i] : i \in 1..4} :
                      results[n].bad > 0}
    IN  [decision |-> suggest_decision(Cardinality(failed),
                          cell(decision_set, Max(times)),
                          Cardinality({t \in times :
                              promotion_passed(cell(decision_set, t))})),
         same_artifact |-> {same_artifact_diagnostic(report(set, t, v)) :
                               set \in sets, t \in times,
                               v \in {"same_candidate", "same_baseline"}},
         argument_order |-> {swap_diagnostic(report(set, t, "candidate_vs_baseline"),
                                             report(set, t, "baseline_vs_candidate")) :
                               set \in sets, t \in times}]
=============================================================================
