-------------------------- MODULE MCResumableCampaign --------------------------
(***************************************************************************)
(* The campaign programs, each under the shared stage machine.  A program  *)
(* appears up to twice: with sessions, crashes and edits by hand but tools *)
(* that find out little ("fixed_time"), and as a single undisturbed        *)
(* session whose tools may find out many things ("fixed_time_evidence").   *)
(***************************************************************************)
EXTENDS CampaignDecisions

DC == INSTANCE DecisionCampaign
FT == INSTANCE FixedTimeCampaign WITH time_limits_ms <- <<100>>,
          minimum_time_limits <- 2, minimum_pairs <- 2
AM == INSTANCE ArenaMatrix WITH depths <- <<5>>
PC == INSTANCE MultiProbcutCampaign WITH limits <- <<"depth", "500ms">>,
          comparisons <- <<"same_config_off", "multi_off_forward">>,
          noninferiority_margin <- 2, minimum_100ms_score_rate <- 48,
          minimum_later_pair_attempts <- 2, minimum_later_pair_successes <- 1,
          minimum_shadow_candidates <- 2, false_cut_bound <- 90
GC == INSTANCE GrowthCycle WITH runs <- <<[id |-> "a", root |-> 1, seed |-> 1]>>
CM == INSTANCE CampaignMatrix WITH root_counts <- <<1>>, seeds <- <<1, 2>>
FP == INSTANCE FullPhaseCycle
TG == INSTANCE TeacherGeneration

AllPrograms == {"decision", "fixed_time", "fixed_time_evidence", "arena_matrix",
    "arena_matrix_evidence", "probcut", "probcut_evidence", "growth",
    "growth_evidence", "campaign_matrix", "campaign_matrix_evidence", "full_phase",
    "search_teacher", "exact_teacher"}

MCStagesOf ==
    [decision |-> DC!main, fixed_time |-> FT!main, fixed_time_evidence |-> FTE!main,
     arena_matrix |-> AM!planned_runs, arena_matrix_evidence |-> AME!planned_runs,
     probcut |-> PC!stage_limits, probcut_evidence |-> PCE!stage_limits,
     growth |-> GC!main, growth_evidence |-> GCE!main,
     campaign_matrix |-> CM!main, campaign_matrix_evidence |-> CME!main,
     full_phase |-> FP!main, search_teacher |-> TG!search_main,
     exact_teacher |-> TG!exact_main]

\* The command lines tried: those that differ in what the program looks at.
MCCommandLines ==
    [decision |-> {line \in DC!parse_args :
                      line.previous = line.rank /\ (line.training = 2 => line.rank)},
     fixed_time |-> FT!parse_args,
     fixed_time_evidence |-> {line \in FTE!parse_args : line.seed = 1 /\ ~line.holdout},
     arena_matrix |-> AM!parse_args,
     arena_matrix_evidence |-> {line \in AME!parse_args : line.seed = 1 /\ line.keep_going},
     probcut |-> PC!parse_args,
     probcut_evidence |-> {line \in PCE!parse_args : line.seed = 1},
     growth |-> GC!parse_args,
     growth_evidence |-> {line \in GCE!parse_args : line.keep_going /\ ~line.skip_arenas},
     campaign_matrix |-> CM!parse_args,
     campaign_matrix_evidence |-> {line \in CME!parse_args : line.training = 1 /\ line.keep_going},
     full_phase |-> FP!parse_args, search_teacher |-> TG!search_parse_args,
     exact_teacher |-> TG!exact_parse_args]

MCSources ==
    [decision |-> DC!sources, fixed_time |-> FT!sources, fixed_time_evidence |-> FTE!sources,
     arena_matrix |-> AM!sources, arena_matrix_evidence |-> AME!sources,
     probcut |-> PC!sources, probcut_evidence |-> PCE!sources,
     growth |-> GC!sources, growth_evidence |-> GCE!sources,
     campaign_matrix |-> CM!sources, campaign_matrix_evidence |-> CME!sources,
     full_phase |-> FP!sources, search_teacher |-> TG!search_sources,
     exact_teacher |-> TG!exact_sources]

MCVerdict(p, look) ==
    CASE p = "decision"                                 -> DC!run_stage(look)
      [] p \in {"fixed_time", "fixed_time_evidence"}    -> FT!run_stage(look)
      [] p \in {"arena_matrix", "arena_matrix_evidence"} -> AM!run_one_arena(look)
      [] p \in {"probcut", "probcut_evidence"}          -> PC!run_stage(look)
      [] p \in {"growth", "growth_evidence"}            -> GC!run_stage(look)
      [] p \in {"campaign_matrix", "campaign_matrix_evidence"} -> CM!run_campaign(look)
      [] p = "full_phase"                               -> FP!execute_stage(look)
      [] p = "search_teacher"                           -> TG!search_resume(look)
      [] p = "exact_teacher"                            -> TG!exact_resume(look)

MCPlanned(p, s, found) ==
    CASE p = "growth"          -> GC!arena_variant_plan(s, found)
      [] p = "growth_evidence" -> GCE!arena_variant_plan(s, found)
      [] OTHER                 -> TRUE

MCReady(p, s, found) == p = "full_phase" => FP!ready(s, found)

MCAccepts(p, s, content) ==
    CASE p \in {"fixed_time", "fixed_time_evidence"} -> FT!validate_arena_report(s, content)
      [] p \in {"probcut", "probcut_evidence"}       -> PC!validate_report(s, content)
      [] p = "full_phase"                            -> FP!accepts(s, content)
      [] OTHER                                       -> TRUE

MCConclude(p, line, found) ==
    CASE p \in Evidence                -> ConcludeEvidence(p, line, found)
      [] p = "decision"                -> DC!report(found)
      [] p = "fixed_time"              -> FT!build_decision(line, found)
      [] p = "arena_matrix"            -> AM!build_report(found)
      [] p = "probcut"                 -> PC!run(found)
      [] p = "growth"                  -> GC!report(found)
      [] p = "campaign_matrix"         -> CM!aggregate(found)
      [] p = "full_phase"              -> FP!report(found)
      [] p = "search_teacher"          -> None
      [] p = "exact_teacher"           -> TG!exact_report(found)

MCQuotes(p, s) == p = "decision" /\ DC!quotes(s)

\* The programs that reuse or refuse a stage that has its outputs; the others
\* run some of theirs again.
MCKeepers == {"fixed_time", "arena_matrix", "probcut", "full_phase"}

MCMaxSessions ==
    [p \in AllPrograms |-> IF p \in Evidence THEN 1
                           ELSE IF p \in {"decision", "growth"} THEN 2 ELSE 3]
MCMaxMishaps ==
    [p \in AllPrograms |-> IF p \in Evidence THEN 0
                           ELSE IF p \in {"search_teacher", "probcut"} THEN 2 ELSE 1]

\* The shapes of the programs that are run for their decisions.
MCTimeLimits == <<100, 500>>
MCDepths == <<5, 7>>
MCLimits == <<"depth", "100ms", "500ms">>
MCComparisons == <<"same_config_off", "multi_off_forward", "multi_off_reverse",
                   "multi_forward", "multi_reverse", "shadow_multi_forward">>
MCRuns == <<[id |-> "a", root |-> 1, seed |-> 1], [id |-> "b", root |-> 1, seed |-> 2],
            [id |-> "c", root |-> 2, seed |-> 1], [id |-> "d", root |-> 2, seed |-> 2]>>
MCRootCounts == <<1, 2>>
MCSeeds == <<1, 2>>

-----------------------------------------------------------------------------
\* What the tools may find out.
ArenaReport(scores, c, b, bad) ==
    [scores |-> scores, depth |-> [candidate |-> c, baseline |-> b], bad |-> bad,
     eligible |-> bad = 0, paired_color_swap_complete |-> TRUE]
FixedTimeOutcomes(s, many) ==
    IF s.name[3] \in {"same_candidate", "same_baseline"} \/ ~many
    THEN {ArenaReport(<<2, 2>>, 10, 10, 0)}
    ELSE {ArenaReport(scores, c, 10, 0) :
             scores \in {<<1, 1>>, <<3, 3>>, <<4, 1>>}, c \in {8, 11}}
         \cup {ArenaReport(<<3, 3>>, 10, 10, 1)}

Played(rate, diff) == [rate |-> rate, diff |-> diff, failed |-> 0]
Broken == [rate |-> 2, diff |-> 0, failed |-> 1]
MatrixOutcomes(s, many) ==
    CASE ~many -> {Played(2, 0)}
      [] s.name[1] = "same_artifact_sanity__move" -> {Played(2, 0)}
      [] s.name[1] = "exact_vs_v1" -> {Played(1, -1), Played(2, 0)}
      [] OTHER -> {Played(1, -1), Played(2, 0), Played(3, 1)}

Telemetry(attempts, cuts, depth) ==
    [later_attempts |-> attempts, later_successes |-> attempts,
     shadow_candidates |-> 3, shadow_verifications |-> 3, shadow_false_cuts |-> cuts,
     depth |-> depth, speed |-> 10]
ProbcutReport(s, point, half, tested, control) ==
    LET reverse == s.name[2] \in PC!reversed
        seen == IF reverse THEN 100 - point ELSE point
    IN  [modes |-> PC!COMPARISONS[s.name[2]], bad |-> 0, eligible |-> TRUE,
         point |-> seen, lower |-> seen - half, upper |-> seen + half, pairs |-> 100,
         neutral |-> point = 50,
         candidate |-> IF reverse THEN control ELSE tested,
         baseline |-> IF reverse THEN tested ELSE control]
ProbcutOutcomes(s, many) ==
    LET plain == Telemetry(1, 0, 10)
        usual == ProbcutReport(s, 50, 2, plain, plain)
    IN  CASE ~many -> {usual, [usual EXCEPT !.eligible = FALSE]}
          [] s.name[2] = "same_config_off" -> {usual}
          [] s.name[2] = "shadow_multi_forward" ->
               {ProbcutReport(s, 50, 2, Telemetry(1, n, 10), plain) :
                   n \in IF s.name[1] = "500ms" THEN {0, 3} ELSE {0}}
          [] s.name[1] = "500ms" /\ s.name[2] \in PC!multi_off ->
               {ProbcutReport(s, p, 2, Telemetry(1, 0, d), plain) :
                   p \in {51, 53}, d \in {9, 11}}
          [] s.name[1] = "500ms" ->
               {ProbcutReport(s, p, 2, plain, plain) : p \in {47, 51}}
          [] s.name[1] = "100ms" /\ s.name[2] \in PC!multi_off ->
               {ProbcutReport(s, p, 2, plain, plain) : p \in {47, 50}}
          [] OTHER -> {usual}

Deltas(top1, pairwise, regret, heldout) ==
    [top1 |-> top1, pairwise |-> pairwise, regret |-> regret, heldout |-> heldout,
     all_same |-> FALSE, compressed |-> FALSE, arena |-> None]
SomeDeltas == {Deltas(1, 1, -1, TRUE), Deltas(0, 1, -1, FALSE), Deltas(1, 0, 1, TRUE)}
Percent(rate) == [rate |-> rate, diff |-> 0, failed |-> 0]
GrowthOutcomes(s, many, Runs) ==
    CASE s.name = "matrix" ->
            IF many
            THEN {m \in [Runs -> SomeDeltas \cup {Failed}] :
                     Cardinality({r \in Runs : m[r] # Deltas(1, 1, -1, TRUE)}) <= 2}
            ELSE {[r \in Runs |-> Deltas(1, 1, -1, TRUE)]}
      [] many /\ s.kind \in {"move_teacher_v2_vs_v1",
                             "move_teacher_v2_vs_exact_root_v2"} ->
            {Percent(49), Percent(53)}
      [] many /\ s.kind = "same_artifact_sanity" -> {Percent(50), Percent(55)}
      [] OTHER -> {Percent(50)}

CampaignOutcomes(many) ==
    IF many THEN {[d EXCEPT !.arena = a] : d \in SomeDeltas, a \in {None, TRUE, FALSE}}
    ELSE {Deltas(1, 1, -1, TRUE)}

FullPhaseOutcomes(s) ==
    CASE s.name = "phase_selection" ->
            {[collisions |-> n, train_phases |-> FP!phases] : n \in {0, 1}}
      [] s.name = "teacher_merge_validation" -> {[root_phases |-> FP!phases]}
      [] s.name = "rank_train" -> {[trained_phases |-> FP!phases], [trained_phases |-> {"late"}]}
      [] s.name = "offline_ranking" ->
            {[candidate_pairwise |-> 60, baseline_pairwise |-> 50, all_same |-> 0]}
      [] s.name = "full_game_arena" ->
            {[bad |-> 0, neutral |-> TRUE, forward |-> 52, reverse |-> 48]}
      [] OTHER -> {"made"}

MCOutcomes(p, s) ==
    CASE p = "decision" -> {[top1 |-> 50, regret |-> 2]}
      [] p \in {"fixed_time", "fixed_time_evidence"} ->
            FixedTimeOutcomes(s, p = "fixed_time_evidence")
      [] p \in {"arena_matrix", "arena_matrix_evidence"} ->
            MatrixOutcomes(s, p = "arena_matrix_evidence")
      [] p \in {"probcut", "probcut_evidence"} -> ProbcutOutcomes(s, p = "probcut_evidence")
      [] p = "growth"                   -> GrowthOutcomes(s, FALSE, GC!Runs)
      [] p = "growth_evidence"          -> GrowthOutcomes(s, TRUE, GCE!Runs)
      [] p = "campaign_matrix"          -> CampaignOutcomes(FALSE)
      [] p = "campaign_matrix_evidence" -> CampaignOutcomes(TRUE)
      [] p = "full_phase"               -> FullPhaseOutcomes(s)
      [] p = "exact_teacher"            -> {250}
      [] p = "search_teacher"           -> {"made"}
=============================================================================
