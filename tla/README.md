# Vibe Othello: a TLA+ model of the engine and of the tools that train it

This directory holds a formal model of this repository: TLA+ modules translated from the C++
sources of the engine and from the Python tools that import games, label positions, train and
export weights and run strength campaigns; TLC configurations that check them on small instances, and
proofs that TLAPS checks for every value of the constants. `PROJECT.json` lists the runs, the
source lines each definition stands for, the mutants that show each property can fail, the
hazards the properties are for and the findings.

To run it: `tlc -config MCX.cfg MCX` for a model-checking module `MCX`, `tlapm X.tla` for a
module of proofs.

## The system

The repository is an Othello engine (C++), the same engine compiled to WebAssembly behind a
web application (TypeScript), and offline tools around it (C++ and Python): an arena, campaign
runners, a trainer for the pattern evaluator and importers for game records.

| Component | State it keeps | Operations | Talks to | Hard part | What makes it correct | Model |
| --- | --- | --- | --- | --- | --- | --- |
| Board core (`engine/src/board_core`) | none: positions and deltas are values | legal moves, flips, make, apply, undo, pass, hash | everyone, by calls | bit tricks at the edges of the board; incremental hash | the kernels compute the rules; undo inverts apply; the incremental hash is the hash | `BoardCore`, `RayKernels` |
| Search position (`search_position_internal.h`) | position, key, cached legal mask, one undo frame per ply | apply, undo, pass, compute the mask | board core, search | stale key or mask after long walks | key and mask belong to the position; undo restores all | `SearchPosition` |
| Transposition table | buckets, generation | probe, store, new generation, clear | session, searches | replacement, aging, a counter that runs out | never mixes positions, keeps the better entry, implements an abstract cache | `TranspositionTable`, `SearchCache` |
| Search session | a table, the fingerprint of the last root, ordering state | begin root, clear | root driver, evaluator | values that survive a change of what they mean | every entry a root can see was computed under its semantics | `SearchSession` |
| Search limits | nodes, countdown to the next clock reading, `stopped` | should_stop, note_node_visited | the caller's stop flag (another thread), the clock | the flag and the deadline move between any two calls | budget kept, deadline and flag noticed promptly, stops final and for a reason | `SearchLimits` |
| Tree search (`pvs.cc`, `alphabeta.cc`, `search_node_common.cc`) | call stack, principal variations | node, child, re-search, internal deepening | table, limits, evaluator | bounds from other windows and depths; stops anywhere | equals plain minimax | `GameTreeSearch` |
| Root driver (`root_search.cc`) | best result so far, window, reports | fixed depth, aspiration, iterative deepening, exact reports | tree search, session, limits | which depth a stopped result belongs to; ties; widening windows | last completed depth exactly; lowest best move; returns | `GameTreeSearch`, `IterativeSearch` |
| Exact endgame solver (`endgame_*.cc`) | call stack, table entries of its kinds | exact and win-loss-draw search, stability cutoffs, root | table, limits | stores beside stops; stability bounds | the exact value | planned |
| ProbCut, shadow calibration | profile, samples | shallow probes, selective cuts | tree search | nested searches at one ply | a cut is a bound with the stated confidence | not modelled |
| Evaluation (`engine/src/evaluation`) | weights, incremental pattern indices | load, evaluate, update | tree search | incremental state against full evaluation | they agree | planned |
| WASM API (`wasm/src`, `wasm/js`) | table of engine handles, an engine's session and evaluator | create, destroy, load, search | worker | handles used after destroy; evaluator replaced under a session | a call reaches the engine it was given | planned |
| Web app (`apps/web/src`) | game state, pending requests, request counter | move, CPU move, reset, toggle, dispose | worker by messages | late answers, effects on old state, requests after dispose | an answer is applied to the state it was asked for; every request settles | planned |
| Arena processes (`tools/arena/*process*`, `nboard_*`) | a child process, its pipes and buffer | write, read with timeout, stop; go, synchronize | an external engine | late answers, full pipes, end of file | an answer is taken for the command it belongs to | planned |
| Campaign programs (`tools/arena/run_*.py`, `tools/pattern/labels/run_*.py`, `tools/pattern/train/run_*_cycle.py`) | outputs, resume sidecars and a report on disk | run, skip, refuse a stage; write its sidecar; decide | external tools, each other (a growth cycle runs a campaign matrix, that runs decision campaigns) | kills between two writes, resuming with other settings or inputs, leftovers, failing tools | a report never mixes evidence, finished outputs stand, decisions are monotone and one-sided | `ResumableCampaign`, `CampaignStage` and a module per program |
| Move-teacher cache (`materialize_move_teacher_from_cache.py`) | one file per solved root | probe, full hit, solve the missing roots, write an entry | decision campaigns, side by side | two writers, kills, generators of different builds | whoever finishes trains on a whole and complete table | `MoveTeacherCache` |
| Importers (`tools/data-import/import_*.py`) | bounded samples in memory; files | replay, sample, split, write | the replay programs, the selections | heaps with stale entries, limits, splits of connected components | samples do not depend on the order, splits are isolated | `GameImport`, `BoardScoreImport`, `RowSample` |
| Root selection (`tools/pattern/labels/select_*.py`) | a flow network | quotas per phase and a cap per game; low empties; hard roots | importers, teachers | competing quotas | as many roots as the quotas allow | `RootSelection` |
| Teachers, overlay, derived labels, join of two teachers | label tables in files | label, overlay deeper labels, derive, apply, merge | selections, trainer | one child under several roots, teachers and splits | one child, one label, one split | `TeacherLabels` |
| Pattern trainer, exporters, import of weights (`tools/pattern/train`, `tools/pattern/export`) | weights, best epoch, artifact and manifest | train, stop early, freeze, quantise, export, import | data sets, teachers | frozen phases, warm starts, two writes of an export | frozen phases come through unchanged; only train rows train; best epoch | `PatternTrainer` |
| Board-score training run | an output directory and its report | import, dataset, train in turn | importer, trainer | several runs at once; failures and kills between stages and reports | a directory holds only files of runs that found none; a run alone completes with its own files | `BoardScoreTrainingRun` |
| Native pre-trainers, replay, audits, data policy, calibration, benchmarks, build | files in, files out | batch programs | each other, by files | numeric code and formats | | not modelled |

How they interact in one search: the caller (command line, arena or WASM) calls
`search_iterative` with limits and, usually, a session. The session compares fingerprints and
keeps, ages or clears its table. The iterative driver runs fixed-depth searches with windows
around the previous score. Each walks a search position over the tree; at each node it asks the
limits whether to stop, probes the table, tries the moves in some order with full and null
windows, and stores what it found. Everything but the stop flag and the clock is one thread.

How the tools interact: by files. An importer leaves normalised rows with a split; a selection
takes roots from them; a teacher writes a row for each move of a root and a row for each child; an
overlay or the join of two teachers makes one table of two; the data-set builder and the trainer
read them; an exporter makes an artifact of the weights, from which a later training may start.
The campaign programs start these tools (and the arena) as processes, write a sidecar beside what
each left, and trust the sidecar when they are started again. Campaigns that run at the same time
share nothing but the cache of solved roots.

## Modules

| Module | Models | State | Actions |
| --- | --- | --- | --- |
| `BoardCore` | `board.cc`, `hash.cc` and their headers | none: operators | |
| `RayKernels` | the shifts, the three ray loops and the unrolled kernels of `board.cc` | the arguments and locals of a loop | one iteration of `flips_in_direction`, `legal_moves_in_direction`, `has_legal_move_in_direction` |
| `SearchPosition` | `search_position_internal.h`, the child searches of `search_node_common.cc` | position, key, mask, frames | `ComputeLegalMask`, `SearchMove`, `SearchPass`, `UndoMove` |
| `TranspositionTable` | `transposition_table.cc` | `buckets`, `generation_` | the five ends of `store_entry`, `new_generation`, `clear` |
| `SearchCache` | what the searches may assume of the table (abstract) | one claim for each key | `StoreClaim`, `ForgetAll` |
| `SearchSession` | `search_session_internal.h`, the calls of `search_iterative` on it | the table, fingerprint, evaluator revisions, the running root | `BeginRoot`, `NextDepth`, `EndRoot`, `SearchStore`, `Clear`, `ChangeEvaluator` |
| `SearchLimits` | `search_util.cc` | nodes, countdown, stopped; flag and clock outside | `ShouldStop`, `RefuseNode`, `CountNode`, `RaiseStop`, `DeadlinePasses` |
| `GameTreeSearch` | `pvs.cc`, `alphabeta.cc`, `search_node_common.cc`, the fixed-depth root of `root_search.cc` | the call stack, the table as a set of claims, lines, `stopped`, the result | a step per call, return, re-search and stop of a node and of the root |
| `IterativeSearch` | `search_iterative`, `search_depth_with_aspiration` | depth, window, margins, best completed result | one step of the depth loop or of the window loop |
| `ResumableCampaign` | the stage loop of nine programs, over `CampaignStage` (what a stage is) | outputs and sidecars on disk, the session under way, the report | `StartSession`, `SkipStage`, `ReuseStage`, `RefuseStage`, `RunStage`, `ToolWrites`, `ToolFinishes`, `ToolFails`, `RejectOutput`, `PublishSidecar`, `FinishReport`; outside: `Crash`, `ReplaceSource`, `RemoveOutputs` |
| `DecisionCampaign`, `FixedTimeCampaign`, `ArenaMatrix`, `MultiProbcutCampaign`, `CampaignMatrix`, `GrowthCycle`, `FullPhaseCycle`, `TeacherGeneration` | what each program puts into that loop | none: operators | stages and command lines, when a stage is reused, refused or run, which outputs are believed, the decision |
| `CampaignDecisions` | the five programs that decide on the evidence of their tools, under the stage loop | none: what a tool can report, and the properties of the decisions | |
| `MoveTeacherCache` | the shared cache and the campaigns over it | cache entries; table, solved rows, temporary file and place of each campaign | one for each look at and write to the disk, `crash`, `restart` |
| `GameImport`, `BoardScoreImport` over `RowSample` | the importers and their bounded samples | what is unread, counters, sample | a source, a game or a line at a time; the write |
| `RootSelection` | the three selections | the flow and levels of the blocking-flow search | a level search, a blocking flow, the write |
| `TeacherLabels` | the two generators, overlay, derivation, application, the join | files | one for each tool |
| `PatternTrainer` | data set, trainer, both exporters, import of weights | a training and its history, files | epochs, writes, kills between the writes of an export |
| `BoardScoreTrainingRun` | the board-score runner, any number of them side by side | the directory; where each run is | the look, the making of the directory, manifest, first report; begin, success and failure of a stage, its report, the failure's report, a kill |
| `TrainingPipeline` | all of these over one set of files | a plan of tools to run | `start_tool` and the steps of each |
| `RayKernelsProofs`, `SearchPositionProofs` (with the theorems about `BoardCore`), `SearchSessionProofs` (with those about `TranspositionTable`), `GameTreeSearchProofs`, `IterativeSearchProofs`, `ResumableCampaignProofs` (with those about `CampaignDecisions` and the programs' decisions), `TrainingPipelineProofs` (with those about every module it is composed of) | theorems about the modules they are named for; `SearchLimits` holds its own | | |

`MC*` modules give the constants their values. `MCEvaluatorReuse` adds one environment action.

How they compose: `RayKernels` and `SearchPosition` extend `BoardCore`; `SearchSession` extends
`TranspositionTable`, which refines `SearchCache` (`Cache!CacheSpec`, with the claim for a key
being what a probe of it returns). `GameTreeSearch` uses the promise of `SearchCache` in its
most general form: its table is the set of every claim stored, and a probe returns any of them
or nothing, so it covers every replacement policy, bucket size and eviction. It uses
`SearchLimits` as "a check may say stop, and then every later one does". `IterativeSearch` takes a
fixed-depth search as one step that is stopped or gives an answer with the promise
`GameTreeSearch` checks (`RootAnswerIsTrue`).

`ResumableCampaign` takes the programs as constant operators; `MCResumableCampaign` instantiates
the eight program modules and hands their operators over, so that one machine runs every program.
`CampaignDecisions` extends it with the five programs that decide, under names of their own
(`Evidence`), and states what their decisions promise.
`TrainingPipeline` extends `MoveTeacherCache` and instantiates `GameImport`, `BoardScoreImport`,
`RootSelection`, `TeacherLabels`, `PatternTrainer` and `BoardScoreTrainingRun` over the same files: what
a tool writes is what the next one reads. The plans of `MCTrainingPipeline` chain up to eight tools,
from a corpus to an artifact and back into a training.

Abstractions that matter:

- A hash is the set of key tokens that are XORed: XOR is symmetric difference, and two positions
  never collide.
- `GameTreeSearch` searches abstract games (a graph of positions with transpositions,
  passes and terminal positions) and not Othello boards; the rules are the business of
  `BoardCore`. A game is what `SetupAssumption` asks for: evaluations lie strictly inside the range
  of scores (as `clamp_evaluation` makes them), after a pass there is a move, and every position has
  a stage, its number of discs, which grows by one with each move. In setups where a pass consumes
  depth the stage has to grow with a pass as well: the runs and theorems about those setups are about
  games in which no position is reached by lines with different numbers of passes. Moves are tried in any order, which covers every ordering heuristic.
- Internal iterative deepening starts at depth 2 and searches 1 ply less (4 and 2 in the code),
  so that it happens within the depths that TLC can reach; both are constants in the proofs.
- ProbCut, shadow calibration and exact endgames inside a midgame search are off, as they are by
  default. Searches on one table go to non-decreasing depths, as the iterative driver makes them
  in a cold session. A warm session may hold deeper entries than a search asks for, and its
  answers are then true at *some* depth at least as deep; that weaker promise is on the plan.
- The same happens inside one search: an internal deepening searches a position less deep than the
  search that runs, and may be answered by a deeper entry of a transposition. What it stores has
  the depth it asked for and is not the minimax value of that depth. The code loses nothing, since
  such a result only chooses which move is tried first; the properties therefore speak of the claims
  that can answer the running search (those whose depth reaches its horizon, `TableIsTrue`) and of
  the calls that are not part of an internal deepening (`AnswersAreBounds`). Without these
  restrictions the fifth game of `MCGameTreeSearch` violates both.
- Statistics counters, formatting and validation of options are left out.
- In the campaigns a file is what it was made from (stage, settings, versions of the inputs, and
  what the tool found out); equal checksums are equal contents. The outputs of a stage are one group
  that is absent, partly there, cut short or whole. Inputs are replaced between sessions, not while
  a tool reads them.
- What a tool finds out is any member of a small set of reports. Score rates are in quarters or in
  percent, deltas are -1, 0 or 1, and the bootstrap is over two openings, whose percentiles are the
  extremes; the thresholds and the order of all tests are those of the code.
- A source file of an import is its sequence of transcripts, so that two equal files are one. Empty
  fields, unreadable numbers and unknown splits or phases of a table are left out: a row is well formed.
- A board is a number with a set of moves that lead to children; a label is a small number; a
  sample key is an arbitrary injective function of the seed and the identity.
- A training moves weights by a few possible steps and measures a few possible losses. Which
  weights may move, which epoch is kept and what is refused is the code's.

## What the runs check

Every bound is a constant of the `.cfg` or a definition of the `MC` module.

| Run | Instance | States | Shows |
| --- | --- | --- | --- |
| `search_position` | 4 x 4 board, from the opening to 6 plies and from every filling of a rank | 4.2 k | the key is the hash, a valid mask is the mask, every square of it can be played, every pass is forced and not the end, undo restores |
| `ray_kernels` | 8 x 8: a rank and the diagonal filled in every way, and the ends of three ranks | 1.2 M | loops and unrolled kernels compute the rules in all directions, runs of all lengths 0 to 6, no wrap |
| `transposition_table` | 3 keys in a bucket of 2, all kinds of bound, 3 generations | 1.8 k | one entry for a key and kind, truthful generations, updates only improve, eviction is the last resort, the table implements `SearchCache` |
| `search_session` | 2 evaluators that change once, 2 option sets, shadow metadata, 3 domains | 9.9 k | entries fit the root, an unchanged root stays warm, a root starts with aged entries |
| `search_limits` | budgets 0, 1, 9; a clock read every 4th node; 12 nodes | 881 | the budget is kept, deadline and flag are prompt, a stop has a reason and is final |
| `game_tree_search` | 5 shapes of games over 8 positions, leaves of every value in -1..1, depths 1 to 3, and 4 for the deep shape; pvs with exact reports and alphabeta stopped anywhere; two pvs searches with 4 windows | 3.5 M | table, answers, root answer, best move, stopped answer, line and reports against plain minimax |
| `iterative_search` | scores -3..3, windows of 1, depths 0, 2, 5 (beyond the 3 plies there are) and no limit | 277 k | a result belongs to its depth exactly, a stop costs one depth, windows only widen, the search returns |
| `resumable_campaigns` | nine programs, each with 1 to 3 sessions (`MCMaxSessions`) of several command lines, 0 to 2 crashes or edits by hand (`MCMaxMishaps`); five of them once more as one undisturbed session with many possible reports | 493 k | a session takes over only what its own settings and inputs would have made; finished outputs stand in the programs that promise it; decisions are monotone and one-sided |
| `training_data` | 5 games, 6 roots, 5 children, 2 phases, 3 patterns, some 60 starts (corpus, files, plan of tools); 2 campaigns of 2 builds over a cache, each killed and restarted once (`Restarts`); 2 board-score runs side by side (`Runs`) | 1.5 M | samples are the least by key; selections are maximal and reach the trainer whole; one child has one label; training, export and re-import are faithful; the cache serves whole tables |
| `depth_generations` | as `search_session` | | a finding, below |
| `evaluator_reuse` | as `search_session`, and evaluators replaced at their address | | a finding, below |
| `cross_split_children` | as `training_data` | | a finding, below |

Why the bounds are enough to mean something: a bucket of two slots is the smallest that can be
full, hold a key twice by mistake and have a choice of victim; three generations contain the
wrap of the counter; a clock interval of 3 and a budget of 9 put two readings before, at and
after the end of the budget; depth 3 with a transposition is the smallest tree in which an entry
stored under one window and depth is probed under another, and two shapes differ only in which
of two moves has the lower square, because the tie rules depend on it; depth 4 is what it takes for an
internal deepening to find an entry deeper than it asks for; margins double three
times before they reach the range of scores. A weight unit of 12 and a limit of
4 (`Unit`, `Int32`) make quantisation round at one scale and overflow at another; two phases are enough
for a root whose children are in the other phase, one of them frozen; three roots in a cycle of
shared children are the smallest selection in which an overlay makes labels conflict; three games,
two of which share a board, make a component that is joined late; two campaigns that share a root,
one restart each and two builds give every order of probe, solve and write, and a table of two
builds; two board-score runs give every order of two looks and two makings. Three sessions are what it takes to make, change and resume; two mishaps, to be killed and
then to remove what the error names. The mutants in `PROJECT.json` show each property
failing for a plausible bug within these bounds.

`CHECK_DEADLOCK FALSE` stands where a computation ends: a kernel returned, a search returned, a
walk has no move left, a plan is done, the last session or run has ended. Sessions of the search,
tables and limits are checked for deadlock.

Fairness: only `IterativeSearch` has a liveness property, `SearchReturns`. It assumes
`WF_vars(Next)`: the thread that searches keeps running. It does not assume that a stop comes.
`odd_searches` makes searching the same window again a step, so a loop that does so forever is a
counterexample (and is found when the margin does not grow). The campaign and training models
have no fairness: their programs may be killed at any point and need not be started again, so they
promise nothing must happen, only what may not.

## What is proved

The proofs are for every value of the constants that satisfies the named assumptions of the
modules (board size, table size, generation limit, check interval, score range, ...).

- `RayKernelsProofs`: the loops compute the rules (`LoopsComputeTheRules`) and the unrolled kernels
  return what the loops return (`UnrolledMatchesReference`), on boards of every size and for every
  position, square and direction. First, a masked shift of bits is a step of squares: indices and
  squares correspond one to one, and a bit that is not masked off never changes its rank by the
  shift. Then `Walked(k)`, the invariant of the loops: after k iterations `run` is the set of squares
  that lie k steps behind the sources through opponent discs only, and `captured` those passed so far;
  a loop that has not left yet has found no closing disc (or no free square) at a shorter distance.
  An unrolled kernel looks at a fixed number of runs. That it misses none rests on
  `UnrolledRunsAssumption`, `UnrolledRuns >= BoardSize - 2` (6 and 8 in the code): a line has at most
  that many squares between two others.
- `SearchPositionProofs`: of the board core, the generator of legal moves and that of flips agree
  (`LegalMovesAreTheMovesThatFlip`), undo inverts apply for moves and passes
  (`UndoInvertsApply`), the incremental hash is the hash (`HashAfterMoveIsHashOfResult`). Of the
  search position: the key, the mask and the walk alone are not inductive, because an undo
  puts back what a frame saved. The walk keeps, for each move, the whole state it was entered with
  (position, key, mask and whether the mask is valid), which is a history and not in the code. The
  invariant says of every frame that what it saved is that state, and that its delta leads to the next
  position (`FramesMatchWalk`); with the board theorems an undo then restores all of it, which is what
  `UndoRestores` asks. From it follow type correctness,
  `KeyIsPositionHash`, `LegalMaskIsFresh`, `WalkIsLegal`, `UndoRestores`, and that every square of a
  valid mask can be played, so that `require_invariant(made_delta)` never aborts.
- `SearchSessionProofs`, of the table: one entry for each key and kind and no entry that was not
  stored, truthful generations (the invariant adds that no entry comes from a later generation).
  Two action properties rest on it: an entry only improves while it is held
  (`SameKeyOnlyImproves`), and a store takes another position's slot only as a last resort
  (`EvictionIsLastResort`: no slot is free, the entry that goes is the one worth least of its bucket,
  by age, depth and kind of bound, and one of this root goes only for one worth at least as much; the
  victim loop ends at a slot no other goes before, and truthful generations tell which entries are this
  root's). And the table implements `SearchCache`, step by
  step: each end of `store_entry` maps to `StoreClaim` or a stutter, `clear` to `ForgetAll`.
- `SearchSessionProofs`, of the session: `EntriesFitTheRoot`. The invariant ties the fingerprint of the session to
  the semantics of every entry, also between roots; it needs that a fingerprint determines the
  semantics, which holds while an evaluator that changes announces it by its revision. A root starts
  with aged entries (`RootStartsWithAgedEntries`), and one like the last keeps them all
  (`WarmRootKeepsEntries`), because the fingerprint that is kept names no observational metadata
  (`NoMetadata`).
- `SearchLimits`: type correctness, the budget, that flag and deadline are seen in time
  (`StopIsPrompt`), that a stop has a reason and is final. The deadline needs a bound on late nodes
  plus the remaining countdown.
- `GameTreeSearchProofs`: every property of the run (`TableIsTrue`, `AnswersAreBounds`,
  `RootAnswerIsTrue`, `BestMoveIsLowestOptimal`, `StoppedAnswerIsLowerBound`, `PvIsLegal`,
  `ReportsAreExact`) and the type invariant, for every set of games and searches that satisfies
  `SetupAssumption`: any game graph, depth and window, pvs and alphabeta, with stops, re-searches,
  internal deepening and a table that answers with any claim or none. None of the properties is
  inductive alone. The invariant `IInv` says of each active call what its loop knows of the moves it has finished
  (`NodeOK`: none is better than the best score, and the best score is reached if it raised alpha;
  `RootOK` also why the best move is the lowest of the best, for which a move on a lower square than
  the best is searched with a window that lets it tie), that each call is the one the call below it
  waits for, with that call's window negated (`LinkOK`), that depth and stage of every position add up to
  the horizon of the search (`DepthOK`, by which an entry as deep as it is asked for is exactly as
  deep), that a line started at a ply is legal from its node (`LinesOK`), and that table, returned
  value and published result are true (`TableOK`, `ReturnOK`, `ResultOK`).
  Minimax is a recursive function, so that it has a value at all is proved first, by a least
  counterexample over depths (`MinimaxUnfolds`).
- `IterativeSearchProofs`: `CompletedDepthIsExact` and `StopLosesOneDepth`. While the loop runs the
  result at hand is that of the depth before; a score that is accepted lies inside its window or
  the window was the full range, and is then the value. `WindowsOnlyWiden` has an invariant of its
  own: a window that is searched is the full range or lies around the previous score at the current
  margins (`WindowFitsMargins`), so the end that failed moves outwards and the other stays.
- `ResumableCampaignProofs`: for every list of programs and stages in which no stage reads what it or a
  later one writes and two stages share outputs only as alternatives of one setting
  (`StagesAssumption`), and every rule that reuses only a stage whose sidecar matches
  (`ReuseAssumption`): a sidecar tells the truth (`SidecarTellsTruth`) and no session takes over a
  stage that its own command line and inputs would not have made (`ReportIsCurrent`), for any number
  of sessions, crashes, replaced inputs and removed outputs. `ReportIsCurrent` alone is not inductive:
  the invariant adds that stages are taken in their order and stay current while later ones run
  (`TakenStagesAreCurrent`, which needs the order of the reads), that what was expected before the
  tool ran is still so when the sidecar is written (`WorkInHand`, `OutputsAreMade`), and the truth of
  the sidecars. For the programs that promise to keep what was finished (`Keepers`: fixed time, arena
  matrix, ProbCut, full phase), whose rule runs no stage that has its outputs (`KeepersAssumption`),
  `FinishedStagesStand`: from the look at a stage to the return of its tool there is nothing finished
  at the outputs it writes (`NothingIsOverwritten`). TLC evaluates the assumptions for the nine
  programs as they are.
- `ResumableCampaignProofs`, of the decisions: `PromotionIsOneSided` and `WorseEvidenceNeverPromotes`, for
  every report the tools can make and every list of time limits, depths, comparisons, runs, roots and
  seeds, every margin and every threshold. What a session knows is what its tools can report, also
  when it took an output over, and a program that gives up with any tool has a report of each stage it
  asked for when it comes to its decision (`EvidenceInv`, inductive with the invariant above).
  One-sided: a matrix and a growth cycle promote on a majority of the comparable runs, and two
  majorities have a run in common, which cannot have gone both ways (`MajorityIsOneSided`); a fixed-time
  campaign asks for a lower percentile above one half at its longest time limit, where the mirror has
  an upper percentile below it (`FixedTimeIsOneSided`); ProbCut asks for a score rate above one half
  of the policy against none at the longest limit (`ProbcutIsOneSided`). Monotone: a total is monotone in its values (`TotalIsMonotone`; a fold over a
  set is a recursive function, whose value and independence of the order are shown by a least
  counterexample), so what is counted or added up over worse evidence is no better, and each
  condition of a decision that worse evidence meets the better one meets too. One lemma for each
  program (`FixedTimeIsMonotone`, `ArenaIsMonotone`, `ProbcutIsMonotone`, `GrowthIsMonotone`,
  `MatrixIsMonotone`) says so of its whole report, with the tests before it that decide otherwise.
  Assumed: the tools report values of the shapes `ReportsOf` gives (`EvidenceAssumption`), thresholds are
  numbers (`ConstantsAssumption`), arenas of different comparisons have different names
  (`ArenaNamesAssumption`). TLC evaluates the three. The bootstrap is that of the model: two
  openings, whose percentiles are the extremes.
- `TrainingPipelineProofs`, of the cache: `CacheServesWholeTruth`, for any number of campaigns, roots,
  builds and restarts. The invariant (`CacheInv`) says that an entry is what some build says of its board
  (`CacheIsTrue`), and follows the rows from there: tables (`TablesAreWhole`), rows solved for missing
  roots (`SolvedAreTrue`, `MissingAreRoots`), entries still to be written (`TodoIsTrue`) and the
  temporary file (`TempInHand`). It assumes that a selection has a board once and that a root has
  moves (`RootsAndLabels`), which the selections and the generator check. That two writers may pass
  the second look at a path together does not matter to it: whoever comes last writes what some build
  says.
- `TrainingPipelineProofs`, of the pipeline: `TrainingIsFaithful`, whatever tools are run one after the
  other over the same files, refused, finished or killed. None of its parts is inductive: what a frozen
  phase is worth in a new artifact depends on an import, a training and an export, each of which
  others may follow. The invariant (`PipelineInv`) carries it from one to the next: imported weights are
  those of the artifact at its scale (`ArtifactsAreWhole`); a training has no key of a frozen phase, and
  a weight that is no key is where it began, in the running weights and in the best ones
  (`FrozenKeys`, `UnmovedWeights`, `InitialOfArtifact`); its best epoch is the first best of its history
  (`HistoryIsSound`); every key is read by a train row (`TrainingHasItsRows`); the weights file holds
  the last training's until another one starts (`TrainingsEnd`), and an export under way or finished
  is of that file (`ExportsAreOfWeights`). `QuantizeDequantize` closes the circle: a whole weight
  divided by its scale is rounded back to itself. `FrozenPhasesStand` speaks of the artifact the
  training's own initial weights came from (`trainer.artifact`), as another one may be imported
  before the export. The runs are `RunsAreWhole`: whatever is in the directory was written by a run that
  looked and found none, as only those go on (`WritersAreFounders`), and as long as there is only one
  of them, the files of the stages behind it are its own, each made from the one before
  (`OneRunOnly`). `RunsAreWhole` and `CacheInv` hold beside the pipeline, as
  nothing else touches the directory and the cache.
  Assumed: nothing is begun with labels or an artifact in hand (`StartsAssumption`), command lines are what
  `argparse` lets through and scales divide `Unit` (`CommandLinesAssumption`), and of the numbers that losses
  are whole (`NumbersAssumption`).
- `TrainingPipelineProofs`, of the importers: `SamplesAreLeast`, for every corpus, seed, limit and order
  of reading. That a sample is the least of what was considered is inductive only with what is known of
  the rest. The invariant (`ImportsAreSound`) says for games (`SummaryOf`) that rows are numbered by
  ordinals without gaps, that a full heap holds exactly its capacity and a heap that is not full holds
  everything (`LeastOf`), and that all rows of a held position are retained; then it may be replaced as
  a whole. For boards (`BucketIsSound`) it says that each retained row has the least record of its
  board and an entry on the heap. Stale entries lie there too, and a stale entry has the key of its
  board; what is on top after they are swept belongs to the retained row with the greatest key
  (`SweptHeap`), which is what makes replacing the top right. The set defined by counting, which the property names,
  is the one that was kept (`KeptIsLeast`). The rows of one game are a recursive function of the
  snapshots; that it has a value and keeps the invariant is shown by a least counterexample
  (`ConsiderRowsUnfolds`, `ConsiderRowsKeeps`), and so is that the union-find ends with the game and the
  board of every row under one root (`ComponentsJoin`), from which `SplitsAreIsolated` follows.
  Assumed of the command lines (`Legal`): limits are positive, a digest is a number and keeps what it
  is given apart (`KeysApart`; SHA-256 over at most millions of rows), lines differ by their records,
  and the snapshots of a transcript are a sequence (`ReplayAssumption`).
- `TrainingPipelineProofs`, of the labels: `OneLabelPerChild`, for all rules, scores, roots and orders of
  the tools. That a table is consistent when a tool has finished is not inductive: overlay and join
  rely on the tables of earlier tools, which other tools have run between. The invariant
  (`PairsAreWhole`) says that each table of moves has, with its table of children, every move of every
  root and a row with the right label for every child (`WholeTables`), also the exact one, whose
  children may share a board. A child with one row has one label (`OneRowOneLabel`), so what is left is
  what each tool checks: search refuses a child in two splits, the join refuses two rows for a child
  (`SideBySide`), and the overlay leaves out whole roots, which is why those it retains keep all their
  moves (`RetainedRows`), and the child rows it prefers, those of the deeper search, have the labels of
  the retained rows (`MergedChildren`).
  Assumed: a teacher writes its children beside its moves (`ChildTable`).

- `TrainingPipelineProofs`, of the selection with a cap: `SelectionIsMaximal`, for all rows, quotas, caps
  and seeds. It is the theorem of maximal flow and minimal cut, for the code's algorithm. The invariant
  (`SelectionInv`) says that a flow under way keeps to what is there, the quotas and the cap
  (`KeepsTo`), which sending along a shortest path preserves because its phases and games are
  distinct (`AugmentKeeps`). When no path is left, the phases that can be reached from one with quota
  to spare make a cut: phases not reached have their quota, games reached have their cap, and the
  other cells are sent whole, so no flow that keeps to the limits is larger (`NothingMoreToSend`).
  That the rows written are as many as were sent, and those of their cells (`SelectionHasMost`), rests on
  keys that tell boards apart, and on rows numbered as they were read (`RowsInv`), carried through
  the importers.
  Assumed: phases are finitely many (`PhasesAssumption`), rows a plan starts with are numbered as
  importers number them (`NormalizedAssumption`), quotas and caps are positive, as `argparse` checks,
  and keys keep boards apart (`KeysApart`, in `Legal`).

Only model-checked: `SelectionReachesTraining` (that a join finds labels for the whole selection and a
trainer takes what it is given is true of tools run in an order that makes sense, which is what the
plans of `MCTrainingPipeline` are, and not of any order the theorems speak of), and the liveness
property `SearchReturns` (liveness and ENABLED are out of the prover's reach). No module that a
theorem depends on has a RECURSIVE operator.

## Findings

- `depth_generations`: `docs/architecture/search.md` (1172-1174) says iterative deepening advances
  the table generation before each depth after the first. The code advances it in `begin_root`
  only, once per root, so entries of shallower depths of the same search count as current.
- `evaluator_reuse`: a comment in `evaluator.h` (19-21) says that a session binds the address of
  the evaluator, so that immutable evaluators can keep the default revision. If the session
  outlives an evaluator and another is built at its address, the fingerprints are equal and
  values of the first answer for the second. The property holds (and is proved) as long as
  every change of behaviour at an address changes the revision.

- `cross_split_children`: `docs/architecture/pattern-learning.md` (256-258) says child identities are
  those of the board, not of root and move, and that a child board in two splits is refused. The exact
  generator names a child by root and move and compares nothing, so a board reached from a train root
  and from a validation root is written into both splits. The search generator does refuse it
  (`OneLabelPerChild`).

## Observations

Behaviour met while translating that is modelled as it is and contradicts no document, or lies
outside the model:

- Full-phase cycle: the assessment of the late-game matrix is looked up under a key its report does
  not have, so it never counts against a candidate (`run_full_phase_growth_cycle.py:520`), and the
  regret is read under a name the evaluator does not write (381), so it is always 0. A late root
  without a move is passed over by the exact teacher, and the join then refuses the run. The join
  compares the exact teacher's own child names across splits.
- Decision campaign: the arena report is quoted whenever the file is there, also if this session did
  not play it; `ReportIsCurrent` is about the stages a session takes, not about such quotes.
- Multi-ProbCut campaign: a report that was rejected has no sidecar and is refused from then on until
  somebody removes it. The fixed-time and matrix programs, too, refuse leftovers of a crash.
- The decision campaign, the matrix and the growth cycle do not fingerprint the arena executable.
  The proofs are about the inputs that are fingerprinted (`prints`).
- Failed runs leave the denominators of the matrix programs, and a comparison of which no run
  completed counts as passed in the growth cycle.
- Cache: a campaign whose missing roots another campaign solves between its look and its probe fails
  with "no missing roots". A kill between two entries of a merge makes `--resume` be refused.
- Importers: the last game that `--max-games N` allows emits no rows
  (`import_egaroucid_sequences.py:983`). The board-score importer replaces its table before its report, so a
  kill between leaves the old report.
- Overlay: the merged table mixes two search configurations, which the trainer refuses; retained and
  deeper rows have to be passed as two files. Whole base roots are dropped for one conflicting child.
- `apply_teacher_labels` leaves a part of its output when a label is missing. `select_hard` may write
  an empty selection, which the search generator refuses.
- Trainer: with v0c, v0d and v0e the best epoch is restored only when the patience ran out. The
  compact data set may hold a record twice. A kill between payload and manifest of an export leaves
  a pair that the import of weights refuses by checksum.
- Board-score runs: the check that the directory does not exist and its making are two steps
  (`run_egaroucid_board_score_training.py:376`, 381-387), and the making does not mind a directory. Two
  runs started at the same moment under one id both go on, and a complete report may then stand over
  files of both. `CompleteRunIsOneRun` therefore promises one run's files only while one run has found
  no directory, and of several that nobody else ever writes there.
- Egaroucid importer: `--max-files` is a limit on all files in a streaming run; in a bounded-dev run it
  is applied to each `--input` anew, and not at all to an input that is a plain file
  (`import_egaroucid_sequences.py:565-580`, 1079-1109).

## Not modelled, and why

Move ordering (pure sorting, covered by "any order"), board serialization and option validation
(pure data), ProbCut and shadow calibration (statistical promises), the native pre-trainers, replay,
audits, calibration tools, benchmarks and build files (batch programs from files to files), the
arena's matches (sequential loops over pure games), the smoke tests beside the tools (they are
tests). Gradients, losses, scores and bootstrap samples are data here: that training makes anything
better is not stated. What is planned is next.

## Plan

In this order; each item is a module, its `MC` module and the properties named.

1. `EndgameSearch`: the exact solver (`endgame_search.cc`, `endgame_tt.cc`, `endgame_root.cc`,
   stability cutoffs) over small games; its answers and its entries are exact, also with stops
   between two moves (`endgame_root.cc:153`) or a child and a store (`endgame_search.cc:225`).
2. `EngineWorker`: `App.tsx`, `workerClient.ts` and `engine.worker.ts` as one composition: a CPU
   move is applied to the position it was asked for and on the CPU's turn, every request settles,
   a disposed client leaves none behind.
3. `WasmEngine`: handles, their reuse, and the session under a replaced evaluator, on top of
   `SearchSession`.
4. `NBoardSession` over `PersistentProcess`: late answers, end of file and full pipes.
5. `GameTreeSearch` in a warm session (entries of mixed depths) and with ProbCut as an option with
   its own promise.
6. Quotes of reports that no stage of the session made.
