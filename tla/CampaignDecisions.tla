--------------------------- MODULE CampaignDecisions ---------------------------
(***************************************************************************)
(* Five of the campaign programs end with a decision: is a candidate       *)
(* promoted on the evidence their tools report?  Here they run, each as a  *)
(* program of its own, under the shared stage machine, and what their      *)
(* decisions promise is stated: they are monotone in the evidence, and     *)
(* one-sided.  The constants are those of the programs.                    *)
(***************************************************************************)
EXTENDS ResumableCampaign

CONSTANTS
    time_limits_ms, minimum_time_limits, minimum_pairs,       \* FixedTimeCampaign
    depths,                                                   \* ArenaMatrix
    limits, comparisons, noninferiority_margin,               \* MultiProbcutCampaign
    minimum_100ms_score_rate, minimum_later_pair_attempts,
    minimum_later_pair_successes, minimum_shadow_candidates, false_cut_bound,
    runs,                                                     \* GrowthCycle
    root_counts, seeds                                        \* CampaignMatrix

FTE == INSTANCE FixedTimeCampaign
AME == INSTANCE ArenaMatrix
PCE == INSTANCE MultiProbcutCampaign
GCE == INSTANCE GrowthCycle
CME == INSTANCE CampaignMatrix

Evidence == {"fixed_time_evidence", "arena_matrix_evidence", "probcut_evidence",
             "growth_evidence", "campaign_matrix_evidence"}

PlanOf ==
    [fixed_time_evidence |-> FTE!main, arena_matrix_evidence |-> AME!planned_runs,
     probcut_evidence |-> PCE!stage_limits, growth_evidence |-> GCE!main,
     campaign_matrix_evidence |-> CME!main]

\* What the tools report, as far as a decision looks at it.
FixedTimeReports ==
    [scores : [1..2 -> 0..4], depth : [candidate : Int, baseline : Int], bad : Nat,
     eligible : BOOLEAN, paired_color_swap_complete : BOOLEAN]
MatrixReports == [rate : Int, diff : Int, failed : Nat]
TelemetryReports ==
    [later_attempts : Nat, later_successes : Nat, shadow_candidates : Nat,
     shadow_verifications : Nat, shadow_false_cuts : Nat, depth : Int, speed : Int]
ProbcutReports ==
    [modes : {PCE!COMPARISONS[c] : c \in DOMAIN PCE!COMPARISONS}, bad : Nat,
     eligible : BOOLEAN, point : Int, lower : Int, upper : Int, pairs : Nat,
     neutral : BOOLEAN, candidate : TelemetryReports, baseline : TelemetryReports]
DeltaReports ==
    [top1 : Int, pairwise : Int, regret : Int, heldout : BOOLEAN, all_same : BOOLEAN,
     compressed : BOOLEAN, arena : BOOLEAN \cup {None}]

ReportsOf(p, s) ==
    CASE p = "fixed_time_evidence"      -> FixedTimeReports
      [] p = "arena_matrix_evidence"    -> MatrixReports
      [] p = "probcut_evidence"         -> ProbcutReports
      [] p = "growth_evidence"          -> IF s.name = "matrix"
                                           THEN [GCE!Runs -> DeltaReports \cup {Failed}]
                                           ELSE MatrixReports
      [] p = "campaign_matrix_evidence" -> DeltaReports

\* The programs are run with their own stages and command lines, and their
\* tools report what such tools can report.
ASSUME EvidenceAssumption ==
    \A p \in Evidence \cap Programs :
        /\ StagesOf[p] = PlanOf[p]
        /\ p = "fixed_time_evidence" => CommandLines[p] \subseteq FTE!parse_args
        /\ \A i \in DOMAIN PlanOf[p] :
              Outcomes(p, PlanOf[p][i]) \subseteq ReportsOf(p, PlanOf[p][i])

ASSUME ConstantsAssumption ==
    /\ time_limits_ms \in Seq(Nat) /\ time_limits_ms # <<>>
    /\ runs \in Seq([id : STRING, root : Nat, seed : Nat])
    /\ {minimum_time_limits, minimum_pairs, noninferiority_margin, minimum_100ms_score_rate,
        minimum_later_pair_attempts, minimum_later_pair_successes,
        minimum_shadow_candidates, false_cut_bound} \subseteq Nat
    /\ None # Failed /\ None \notin BOOLEAN
    /\ {None, Failed} \cap (DeltaReports \cup MatrixReports) = {}

\* The arenas of different comparisons have different names.
ASSUME ArenaNamesAssumption ==
    LET kinds == {"same_artifact_sanity", "exact_root_v2_vs_v1", "move_teacher_v2_vs_v1",
                  "move_teacher_v2_vs_exact_root_v2", "candidate_baseline_swap_sanity"}
        players == GCE!Runs \cup {GCE!baselines}
    IN  \A c, d \in kinds, q, r \in players :
            /\ GCE!Arena(c, q) # "matrix"
            /\ GCE!Arena(c, q) = GCE!Arena(d, r) => c = d

-----------------------------------------------------------------------------
ConcludeEvidence(p, line, found) ==
    CASE p = "fixed_time_evidence"      -> FTE!build_decision(line, found)
      [] p = "arena_matrix_evidence"    -> AME!build_report(found)
      [] p = "probcut_evidence"         -> PCE!run(found)
      [] p = "growth_evidence"          -> GCE!report(found)
      [] p = "campaign_matrix_evidence" -> CME!aggregate(found)

\* The decisions.  Promotes: does the report say that a candidate goes on?
Promotes(p, line, found) ==
    ConcludeEvidence(p, line, found).decision \in
        {"promote", "local_harness_passed", "all_checks_hold",
         "promote_to_larger_local_validation", "robust"}

Lower(r, o) == IF r.scores[o] = 0 THEN r ELSE [r EXCEPT !.scores[o] = @ - 1]
Raise(r, o) == IF r.scores[o] = 4 THEN r ELSE [r EXCEPT !.scores[o] = @ + 1]

\* One stage of the evidence replaced by one less favourable to the candidate
\* (the tested policy, the trained artifact).  Sanity checks, which compare
\* stages for equality, are not in an order with each other.
WorseFixedTime(n, r) ==
    CASE n[3] = "candidate_vs_baseline" ->
            {Lower(r, o) : o \in {1, 2}} \cup {[r EXCEPT !.depth.candidate = @ - 3]}
      [] n[3] = "baseline_vs_candidate" ->
            {Raise(r, o) : o \in {1, 2}} \cup {[r EXCEPT !.depth.baseline = @ - 3]}
      [] OTHER -> {[r EXCEPT !.bad = 1]}
WorseMatrix(n, r) ==
    IF n[1] \in {"move_vs_v1", "exact_vs_v1"}
    THEN {[r EXCEPT !.rate = @ - 1], [r EXCEPT !.diff = @ - 1]} ELSE {}
WorseProbcut(n, r) ==
    CASE n[2] \in PCE!reversed ->
            {[r EXCEPT !.point = @ + 2, !.lower = @ + 2, !.upper = @ + 2],
             [r EXCEPT !.baseline.depth = @ - 2], [r EXCEPT !.baseline.later_attempts = 0]}
      [] n[2] \notin PCE!reversed \cup {"same_config_off"} ->
            {[r EXCEPT !.point = @ - 2, !.lower = @ - 2, !.upper = @ - 2],
             [r EXCEPT !.candidate.depth = @ - 2],
             [r EXCEPT !.candidate.shadow_false_cuts = @ + 3]}
      [] OTHER -> {}
WorseDeltas(r) ==
    {[r EXCEPT !.top1 = -1], [r EXCEPT !.pairwise = -1], [r EXCEPT !.regret = 1],
     [r EXCEPT !.heldout = FALSE]}
    \cup (IF r.arena = TRUE THEN {[r EXCEPT !.arena = FALSE]} ELSE {})
WorseArena(n, r) ==
    IF n \in {GCE!Arena(c, run) : c \in {"move_teacher_v2_vs_v1",
                 "move_teacher_v2_vs_exact_root_v2"}, run \in GCE!Runs}
    THEN {[r EXCEPT !.rate = @ - 3]} ELSE {}

Worse(p, n, r) ==
    CASE p = "fixed_time_evidence"      -> WorseFixedTime(n, r)
      [] p = "arena_matrix_evidence"    -> WorseMatrix(n, r)
      [] p = "probcut_evidence"         -> WorseProbcut(n, r)
      [] p = "growth_evidence"          -> WorseArena(n, r)
      [] p = "campaign_matrix_evidence" -> WorseDeltas(r)

\* A decision is monotone in its evidence: with one result replaced by a
\* worse one, what was not promoted is not promoted either.
WorseEvidenceNeverPromotes ==
    phase = "report" /\ program \in Evidence /\ ~Promotes(program, settings, results) =>
        \A n \in {m \in DOMAIN results : status[m] = "ok"} :
            \A r \in Worse(program, n, results[n]) :
                ~Promotes(program, settings, [results EXCEPT ![n] = r])

\* The same evidence with the two sides exchanged.
MirrorFixedTime(found) ==
    LET other(v) == CASE v = "candidate_vs_baseline" -> "baseline_vs_candidate"
                      [] v = "baseline_vs_candidate" -> "candidate_vs_baseline"
                      [] v = "same_candidate"        -> "same_baseline"
                      [] v = "same_baseline"         -> "same_candidate"
    IN  [n \in DOMAIN found |-> found[<<n[1], n[2], other(n[3])>>]]
MirrorProbcut(found) ==
    [n \in DOMAIN found |->
        [found[n] EXCEPT !.point = 100 - @, !.lower = 100 - found[n].upper,
                         !.upper = 100 - found[n].lower,
                         !.candidate = found[n].baseline, !.baseline = found[n].candidate]]
MirrorDeltas(r) ==
    IF ~IsKnown(r) THEN r
    ELSE [r EXCEPT !.top1 = -@, !.pairwise = -@, !.regret = -@, !.heldout = ~@,
                   !.arena = IF @ = None THEN None ELSE ~@]
MirrorGrowth(found) ==
    [n \in DOMAIN found |->
        CASE n = "matrix" /\ IsKnown(found[n]) ->
                [r \in DOMAIN found[n] |-> MirrorDeltas(found[n][r])]
          [] ~IsKnown(found[n]) -> found[n]
          [] OTHER -> [found[n] EXCEPT !.rate = 100 - @]]

\* Nothing promotes a candidate over a baseline on evidence that, read the
\* other way round, promotes the baseline over the candidate.  (The arena
\* matrix asks for results that are not negative, which both may have.)
PromotionIsOneSided ==
    phase = "report" /\ program \in Evidence \ {"arena_matrix_evidence"} =>
        LET mirror ==
                CASE program = "fixed_time_evidence" -> MirrorFixedTime(results)
                  [] program = "probcut_evidence" -> MirrorProbcut(results)
                  [] program = "growth_evidence" -> MirrorGrowth(results)
                  [] program = "campaign_matrix_evidence" ->
                        [n \in DOMAIN results |-> MirrorDeltas(results[n])]
        IN  ~(Promotes(program, settings, results) /\ Promotes(program, settings, mirror))
=============================================================================
