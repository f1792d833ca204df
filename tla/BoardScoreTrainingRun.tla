------------------------- MODULE BoardScoreTrainingRun -------------------------
(***************************************************************************)
(* run_egaroucid_board_score_training.py: import, dataset and training in  *)
(* one output directory, with a run report that is replaced after every    *)
(* stage.  Runs are processes of their own: each may be started at any     *)
(* time, also beside others, and may fail or be killed anywhere.  There is *)
(* no resume: a directory that exists is refused.                          *)
(***************************************************************************)
EXTENDS Naturals, Sequences

CONSTANTS None,
          Runs      \* bound: how many runs are started

VARIABLES directory,  \* the output directory
          runner      \* for each run, where it is and what it has in memory

runVars == <<directory, runner>>

Stages == <<"import", "dataset", "train">>
StageNames == {"import", "dataset", "train"}

\* A file is made of the run that wrote it and the file it read.
NoDirectory ==
    [exists |-> FALSE, manifest |-> None, report |-> None,
     files |-> [s \in StageNames |-> None]]

\* found is a history variable: what the run saw where its output is to go.
NotStarted ==
    [pc |-> "idle", found |-> None, stage |-> 1, read |-> None,
     stages |-> [s \in StageNames |-> "pending"]]
Ended(id) == [NotStarted EXCEPT !.pc = "ended", !.found = runner[id].found]

InitRuns ==
    /\ directory = NoDirectory
    /\ runner = [id \in 1..Runs |-> NotStarted]

At(id, pc) == runner[id].pc = pc
Goes(id, pc) == runner' = [runner EXCEPT ![id].pc = pc]
Stage(id) == Stages[runner[id].stage]

\* output_dir.exists(): what is made afterwards was looked at only now.
look(id) ==
    /\ At(id, "idle")
    /\ runner' = [runner EXCEPT
           ![id] = IF directory.exists
                   THEN [NotStarted EXCEPT !.pc = "ended", !.found = "directory"]
                   ELSE [NotStarted EXCEPT !.pc = "making", !.found = "nothing"]]
    /\ UNCHANGED directory

\* mkdir(exist_ok=True): files that are there stay.
make_directories(id) ==
    /\ At(id, "making") /\ Goes(id, "copying")
    /\ directory' = [directory EXCEPT !.exists = TRUE]

\* The manifest of this run, whatever becomes of the original.
copy_manifest(id) ==
    /\ At(id, "copying") /\ Goes(id, "starting")
    /\ directory' = [directory EXCEPT !.manifest = id]

\* atomic_write_json: the report this run has in memory replaces what is there.
Report(id, stages, status) == [id |-> id, status |-> status, stages |-> stages]

report_start(id) ==
    /\ At(id, "starting") /\ Goes(id, "stage")
    /\ directory' = [directory EXCEPT !.report = Report(id, runner[id].stages, "running")]

\* run_logged_stage starts a tool, which reads what the stage before left.
stage_begins(id) ==
    /\ At(id, "stage")
    /\ runner' = [runner EXCEPT
           ![id].pc = "tool",
           ![id].read = CASE Stage(id) = "import" -> directory.manifest
                          [] Stage(id) = "dataset" -> directory.files["import"]
                          [] Stage(id) = "train" -> directory.files["dataset"]]
    /\ UNCHANGED directory

\* Of two tools that write the same file the last one's stays.
Leaves(id) == directory' = [directory EXCEPT !.files[Stage(id)] = <<id, runner[id].read>>]

stage_succeeds(id) == At(id, "tool") /\ Goes(id, "report") /\ Leaves(id)

\* A tool may leave its file and still fail, or its report be unreadable.
stage_fails(id) ==
    /\ At(id, "tool") /\ Goes(id, "failing")
    /\ UNCHANGED directory \/ Leaves(id)

\* The report after a stage; the last one completes the run.
report_stage(id) ==
    LET stages == [runner[id].stages EXCEPT ![Stage(id)] = "complete"]
        last == Stage(id) = "train"
    IN  /\ At(id, "report")
        /\ \/ /\ directory' = [directory EXCEPT
                     !.report = Report(id, stages, IF last THEN "complete" ELSE "running")]
              /\ runner' = [runner EXCEPT
                     ![id] = IF last THEN Ended(id)
                             ELSE [@ EXCEPT !.pc = "stage", !.stages = stages,
                                            !.stage = runner[id].stage + 1]]
           \/ /\ runner' = [runner EXCEPT ![id].pc = "failing", ![id].stages = stages]
              /\ UNCHANGED directory

report_failure(id) ==
    /\ At(id, "failing")
    /\ directory' = [directory EXCEPT !.report = Report(id, runner[id].stages, "failed")]
    /\ runner' = [runner EXCEPT ![id] = Ended(id)]

\* Also an error before the first stage, which is not reported.
run_killed(id) ==
    /\ runner[id].pc \notin {"idle", "ended"}
    /\ runner' = [runner EXCEPT ![id] = Ended(id)]
    /\ UNCHANGED directory

RunNext ==
    \E id \in 1..Runs :
        \/ look(id) \/ make_directories(id) \/ copy_manifest(id) \/ report_start(id)
        \/ stage_begins(id) \/ stage_succeeds(id) \/ stage_fails(id)
        \/ report_stage(id) \/ report_failure(id) \/ run_killed(id)

\* The runs that saw no directory: the one that made it, and those that
\* looked before it was made.
Founders == {id \in 1..Runs : runner[id].found = "nothing"}

\* Existing runs are never overwritten: whatever a directory holds is of runs
\* that found none.  And while only one has, a complete report stands for
\* three files of that run, each made from the one before it.
CompleteRunIsOneRun ==
    /\ directory.manifest # None => directory.manifest \in Founders
    /\ directory.report # None => directory.report.id \in Founders
    /\ \A s \in StageNames :
          directory.files[s] # None => directory.files[s][1] \in Founders
    /\ \A id \in Founders :
          Founders = {id} /\ directory.report # None /\ directory.report.status = "complete" =>
              /\ directory.files["import"] = <<id, id>>
              /\ directory.files["dataset"] = <<id, directory.files["import"]>>
              /\ directory.files["train"] = <<id, directory.files["dataset"]>>
=============================================================================
