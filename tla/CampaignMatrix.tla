----------------------------- MODULE CampaignMatrix -----------------------------
(***************************************************************************)
(* tools/pattern/labels/run_move_teacher_campaign_matrix.py: one decision  *)
(* campaign (DecisionCampaign) per root count and seed, in a directory of  *)
(* its own, and a recommendation drawn from all of them.  A run is <<root  *)
(* count, seed>>, one trainer mode.  Deltas are -1, 0 or 1, a regret delta *)
(* of -1 is an improvement; the arena of a run is None where none was      *)
(* played, otherwise whether the candidate scored at least one half.       *)
(***************************************************************************)
EXTENDS CampaignStage

CONSTANTS root_counts, seeds    \* sequences of numbers

parse_args == [keep_going : BOOLEAN, training : {1, 2}]

\* preflight: the input, the tools, the previous artifact and the arena's.
sources == {"normalized_tsv", "tools", "previous_artifact", "arena_baseline"}

\* The campaign looks after its own outputs: it is started every time, and
\* told whether to resume.
campaign_command(root_count, seed) ==
    [Stage(<<root_count, seed>>) EXCEPT !.reads = sources, !.flags = {"training"},
                                        !.sidecar = FALSE, !.tolerant = TRUE]

main == LET S == Len(seeds)
        IN  [i \in 1..(Len(root_counts) * S) |->
                campaign_command(root_counts[((i - 1) \div S) + 1],
                                 seeds[((i - 1) % S) + 1])]

run_campaign(look) == "run"

-----------------------------------------------------------------------------
\* The recommendation.  results maps each run to its summary, Failed, or
\* None for a run after one that failed.
comparable_runs(results) == {r \in DOMAIN results : IsKnown(results[r])}

seed_positive(run) == run.top1 > 0 /\ run.pairwise > 0 /\ run.regret < 0
seed_negative(run) == run.pairwise <= 0 \/ run.regret >= 0
arena_completed(run) == run.arena # None
arena_non_negative(run) == run.arena = TRUE

\* best_run and worst_run: the first of the runs with the best deltas.
Exceeds(p, q) ==
    \E i \in DOMAIN p : p[i] > q[i] /\ \A j \in 1..(i - 1) : p[j] = q[j]
quality(run) == <<run.pairwise, -run.regret, run.top1>>
best_runs(results, group) ==
    {r \in group : \A q \in group : ~Exceeds(quality(results[q]), quality(results[r]))}
worst_runs(results, group) ==
    {r \in group : \A q \in group : ~Exceeds(quality(results[r]), quality(results[q]))}

summarize_group(results, group) ==
    LET count(P(_)) == Cardinality({r \in group : P(results[r])})
    IN  [comparable_run_count |-> Cardinality(group),
         positive_seed_count |-> count(seed_positive),
         negative_seed_count |-> count(seed_negative),
         top1_positive_count |-> count(LAMBDA run : run.top1 > 0),
         pairwise_positive_count |-> count(LAMBDA run : run.pairwise > 0),
         regret_decrease_count |-> count(LAMBDA run : run.regret < 0),
         heldout_support_count |-> count(LAMBDA run : run.heldout),
         arena_completed_count |-> count(arena_completed),
         arena_non_negative_count |-> count(arena_non_negative),
         best |-> best_runs(results, group),
         worst |-> worst_runs(results, group)]

\* Runs that failed, and arenas that were not played, are not in any count.
recommendation(overall) ==
    LET completed == overall.comparable_run_count
        most(count) == 2 * count > completed
        arena_ok == \/ overall.arena_completed_count = 0
                    \/ 2 * overall.arena_non_negative_count > overall.arena_completed_count
        improves == /\ most(overall.pairwise_positive_count)
                    /\ most(overall.regret_decrease_count)
        robust == most(overall.top1_positive_count) /\ arena_ok
        unanimous == /\ overall.pairwise_positive_count = completed
                     /\ overall.regret_decrease_count = completed
        held == most(overall.heldout_support_count)
    IN  IF completed = 0 THEN "inconclusive"
        ELSE CASE ~improves                                     -> "negative"
               [] improves /\ robust /\ held                    -> "robust"
               [] improves /\ ~robust /\ unanimous /\ held      -> "positive_mixed"
               [] OTHER                                         -> "inconclusive"

aggregate(results) ==
    LET comparable == comparable_runs(results)
        overall == summarize_group(results, comparable)
    IN  [decision |-> recommendation(overall),
         by_root_count |->
            [n \in {r[1] : r \in comparable} |->
                summarize_group(results, {r \in comparable : r[1] = n})],
         status |-> IF \E r \in DOMAIN results : results[r] = Failed THEN 1 ELSE 0]
=============================================================================
