---------------------------- MODULE TeacherGeneration ----------------------------
(***************************************************************************)
(* The two smaller label campaigns under tools/pattern/labels:             *)
(* run_search_move_teacher_generation.py, one resumable run of the search  *)
(* teacher's generator, and run_exact_teacher_late_phase_campaign.py,      *)
(* which labels late positions exactly, trains on the observed and on the  *)
(* exact labels, and compares the two; it never resumes anything.          *)
(* Errors are in hundredths.                                               *)
(***************************************************************************)
EXTENDS CampaignStage

search_parse_args == [keep_going : {FALSE}, limits : {1, 2}]
search_sources == {"generator", "normalized_tsv", "teacher"}

\* expected_metadata records the generator too.
command == Fingerprinted("search_move_teacher", 3, search_sources, {"limits"})
search_main == <<command>>

\* Without --resume the generator writes over whatever is there.
search_resume(look) ==
    CASE ~look.resume \/ look.files = Absent -> "run"
      [] look.files = Some -> "refuse"
      [] OTHER -> IF look.matches THEN "reuse" ELSE "refuse"

-----------------------------------------------------------------------------
exact_parse_args == [keep_going : {FALSE}, selection : {1, 2}, training : {1}]
exact_sources == {"normalized_tsv", "tools"}

Step(name, files, inputs, flags) ==
    [Stage(name) EXCEPT !.files = files, !.reads = inputs \cup {"tools"},
                        !.flags = flags, !.sidecar = FALSE]
build_dataset(of, rows) == Step(of \o "_dataset", 2, {rows}, {})
train(of) == Step(of \o "_weights", 2, {of \o "_dataset"}, {"training", "selection"})

exact_main ==
    <<Step("selected_low_empty_rows", 1, {"normalized_tsv"}, {"selection"}),
      Step("exact_teacher_labels", 2, {"selected_low_empty_rows"}, {"selection"}),
      Step("teacher_overlay", 2, {"selected_low_empty_rows", "exact_teacher_labels"}, {}),
      build_dataset("observed", "selected_low_empty_rows"),
      build_dataset("exact", "teacher_overlay"),
      train("observed"),
      train("exact")>>

exact_resume(look) == "run"

\* Meaningful: the error falls by 0.2, or by one in a hundred of itself.
improvement(observed, exact) ==
    IF ~IsKnown(observed) \/ ~IsKnown(exact) THEN [meaningful |-> FALSE]
    ELSE [meaningful |-> \/ observed - exact >= 20
                         \/ observed > 0 /\ 100 * (observed - exact) >= observed]

exact_report(results) ==
    [decision |-> IF improvement(results["observed_weights"], results["exact_weights"]).meaningful
                  THEN "meaningful" ELSE "not_meaningful"]
=============================================================================
