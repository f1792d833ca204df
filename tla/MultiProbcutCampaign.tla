------------------------- MODULE MultiProbcutCampaign -------------------------
(***************************************************************************)
(* tools/arena/run_multi_probcut_strength_campaign.py: one artifact against*)
(* itself, with ProbCut off, single and multi, under every limit, in both  *)
(* argument orders; and the checks that are evidence for enabling it.  One *)
(* opening corpus and one seed.  Rates are in percent; the profile has two *)
(* depth pairs, so the telemetry of the later one is a pair of counters.   *)
(***************************************************************************)
EXTENDS CampaignStage

CONSTANTS limits,      \* sequence of limits: "depth", "nodes", "100ms" or "500ms"
          comparisons, \* sequence of names of COMPARISONS
          noninferiority_margin, minimum_100ms_score_rate, \* in percent
          minimum_later_pair_attempts, minimum_later_pair_successes,
          minimum_shadow_candidates,
          false_cut_bound     \* of the profile's joint holdout, in percent

\* Which ProbCut mode the candidate and the baseline play with.
COMPARISONS ==
    [same_config_off |-> <<"off", "off">>,
     single_off_forward |-> <<"single", "off">>,
     single_off_reverse |-> <<"off", "single">>,
     multi_off_forward |-> <<"multi", "off">>,
     multi_off_reverse |-> <<"off", "multi">>,
     multi_forward |-> <<"multi", "single">>,
     multi_reverse |-> <<"single", "multi">>,
     shadow_multi_forward |-> <<"shadow", "off">>,
     shadow_multi_reverse |-> <<"off", "shadow">>]
reversed == {"single_off_reverse", "multi_off_reverse", "multi_reverse",
             "shadow_multi_reverse"}

parse_args == [seed : {1, 2}, keep_going : {FALSE}]
sources == {"arena_executable", "artifact", "probcut_profile", "openings"}

command_for(limit, comparison) ==
    Fingerprinted(<<limit, comparison>>, 1, sources, {"seed"})

stage_limits ==
    LET C == Len(comparisons)
    IN  [i \in 1..(Len(limits) * C) |->
            command_for(limits[((i - 1) \div C) + 1], comparisons[((i - 1) % C) + 1])]

\* A report that is there must be resumed, with its identity and checksum; a
\* sidecar without a report is written again.
run_stage(look) ==
    CASE look.files = Absent                            -> "run"
      [] look.files = Entire /\ look.resume /\ look.matches -> "reuse"
      [] OTHER                                          -> "refuse"

\* The report is bound to the modes, limit and inputs of its stage, without
\* failed or illegal games, with complete pairs and an eligible gate.
validate_report(s, content) ==
    /\ content.by = s.name
    /\ DOMAIN content.from = s.reads
    /\ content.result.modes = COMPARISONS[s.name[2]]
    /\ content.result.bad = 0 /\ content.result.eligible

-----------------------------------------------------------------------------
\* The tested policy is the candidate, or the baseline of a reverse run.
stage_summary(report, comparison) ==
    IF comparison \in reversed
    THEN [score_rate |-> 100 - report.point, lower |-> 100 - report.upper,
          upper |-> 100 - report.lower, pairs |-> report.pairs,
          tested |-> report.baseline, control |-> report.candidate]
    ELSE [score_rate |-> report.point, lower |-> report.lower,
          upper |-> report.upper, pairs |-> report.pairs,
          tested |-> report.candidate, control |-> report.baseline]

\* The Wilson upper bound at z = 1.96 is at most bound percent.
wilson_upper_bound_at_most(false_cuts, candidates, bound) ==
    IF candidates = 0 THEN bound >= 100
    ELSE LET gap == bound * candidates - 100 * false_cuts
         IN  \/ bound >= 100
             \/ /\ gap >= 0
                /\ 1000 * gap * gap >= 3842 * bound * (100 - bound) * candidates

\* Summaries of the stages with one of these comparisons under one of these
\* limits, as a function so that equal ones are counted apart.
summaries(results, compared, under) ==
    [n \in {m \in DOMAIN results : m[2] \in compared /\ m[1] \in under} |->
        stage_summary(results[n], n[2])]

AllOf(stages, P(_)) == DOMAIN stages # {} /\ \A n \in DOMAIN stages : P(stages[n])

pair_telemetry_total(stages, field) ==
    TotalOf([n \in DOMAIN stages |-> stages[n].tested[field]])

sanity_passed(results) ==
    LET strict == {n \in DOMAIN results :
                      n[2] = "same_config_off" /\ n[1] \in {"depth", "nodes"}}
    IN  strict # {} /\ \A n \in strict : results[n].neutral

fixed_time_sanity(results) ==
    {[limit |-> n[1], neutral |-> results[n].neutral,
      consistent |-> results[n].lower <= 50 /\ 50 <= results[n].upper] :
        n \in {m \in DOMAIN results :
                  m[2] = "same_config_off" /\ m[1] \notin {"depth", "nodes"}}}

scheduler_shadow_audit_passed(shadow) ==
    LET verifications == pair_telemetry_total(shadow, "shadow_verifications")
    IN  /\ pair_telemetry_total(shadow, "shadow_candidates") >= minimum_shadow_candidates
        /\ verifications = pair_telemetry_total(shadow, "shadow_candidates")
        /\ wilson_upper_bound_at_most(pair_telemetry_total(shadow, "shadow_false_cuts"),
                                      verifications, false_cut_bound)

later_pair_exercised(active) ==
    /\ pair_telemetry_total(active, "later_attempts") >= minimum_later_pair_attempts
    /\ pair_telemetry_total(active, "later_successes") >= minimum_later_pair_successes

multi_off == {"multi_off_forward", "multi_off_reverse"}
multi_single == {"multi_forward", "multi_reverse"}
shadow_multi == {"shadow_multi_forward", "shadow_multi_reverse"}

automatic_checks(results) ==
    LET every == {n[1] : n \in DOMAIN results}
        primary == summaries(results, multi_off, {"500ms"})
        single == summaries(results, multi_single, {"500ms"})
        secondary == summaries(results, multi_off, {"100ms"})
        active == summaries(results, multi_off \cup multi_single, every)
    IN  [same_config_sanity_passed |-> sanity_passed(results),
         primary_500ms_direction_consistent |->
             AllOf(primary, LAMBDA s : s.score_rate > 50),
         primary_500ms_ci_lower_above_half |-> AllOf(primary, LAMBDA s : s.lower > 50),
         primary_500ms_completed_depth_non_degraded |->
             AllOf(primary, LAMBDA s : s.tested.depth >= s.control.depth),
         primary_500ms_effective_efficiency_improved |->
             AllOf(primary, LAMBDA s : \/ s.tested.depth > s.control.depth
                                       \/ s.tested.speed > s.control.speed),
         primary_500ms_minimum_100_opening_pairs |->
             AllOf(primary, LAMBDA s : s.pairs >= 100),
         multi_vs_single_non_degraded |->
             AllOf(single, LAMBDA s : s.lower >= 50 - noninferiority_margin),
         multi_vs_single_point_superior |->
             AllOf(single, LAMBDA s : s.score_rate > 50),
         secondary_100ms_not_reversed |->
             AllOf(secondary, LAMBDA s : s.score_rate >= minimum_100ms_score_rate),
         later_pair_exercised |-> later_pair_exercised(active),
         scheduler_shadow_audit_passed |->
             scheduler_shadow_audit_passed(summaries(results, shadow_multi, every))]

\* The report authorizes nothing; a reader looks whether all checks hold.
run(results) ==
    LET checks == automatic_checks(results)
    IN  [decision |-> IF \A c \in DOMAIN checks : checks[c]
                      THEN "all_checks_hold" ELSE "some_check_fails",
         checks |-> checks,
         fixed_time_diagnostics |-> fixed_time_sanity(results)]
=============================================================================
