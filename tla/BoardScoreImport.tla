--------------------------- MODULE BoardScoreImport ---------------------------
(***************************************************************************)
(* import_egaroucid_board_scores.py: an archive of boards with scores in,  *)
(* normalised rows out.  A board seen again while its row is retained      *)
(* replaces that row if its record is the smaller.                         *)
(***************************************************************************)
EXTENDS RowSample

CONSTANTS Phases,
          GroupSplit(_)   \* split_for_group of a board

VARIABLES args, unread, lines, summary,
          sample,         \* CandidateSampler: a bucket, one per phase, or rows
          outcome, files

boardScoreVars == <<args, unread, lines, summary, sample, outcome, files>>

\* A global limit or one per phase, not both.
board_score_parse_args(A) == {a \in A : a.max_positions = None \/ a.per_phase = None}

Enabled == args.max_positions # None \/ args.per_phase # None
BucketOf(row) == IF args.per_phase # None THEN row.phase ELSE "all"

\* The manifest names the data set, holds the checksum of the archive and
\* allows derived weights.
start_board_scores(a) ==
    /\ args' = a
    /\ unread' = a.sources
    /\ lines' = <<>>
    /\ summary' = [opened |-> 0, games |-> 0, candidates |-> 0, considered |-> {}]
    /\ outcome' = IF a.manifest = "matches" THEN None ELSE "manifest-refused"
    /\ sample' = CASE a.max_positions # None -> [b \in {"all"} |-> SampleBucket(a.max_positions)]
                   [] a.per_phase # None     -> [b \in Phases |-> SampleBucket(a.per_phase)]
                   [] OTHER                  -> {}
    /\ UNCHANGED files

all_read == args.max_files # None /\ summary.opened >= args.max_files

\* The members of the archive, in the order of their names.
open_member ==
    /\ outcome = None /\ lines = <<>> /\ ~all_read
    /\ \E source \in unread :
        /\ unread' = unread \ {source}
        /\ lines' = source
        /\ summary' = [summary EXCEPT !.opened = @ + 1]
    /\ UNCHANGED <<args, sample, outcome, files>>

\* parse_source_line, make_candidate: a line is a row or is rejected.
Candidate(line) ==
    [game |-> line.board, ply |-> 0, board |-> line.board, phase |-> line.phase,
     empty |-> line.empty, label |-> line.score, move |-> None,
     split |-> GroupSplit(line.board), record |-> line.record,
     ordinal |-> summary.candidates + 1]

consider_line ==
    /\ outcome = None /\ lines # <<>>
    /\ lines' = Tail(lines)
    /\ LET row == Candidate(Head(lines))
       IN  IF ~Head(lines).valid THEN UNCHANGED <<summary, sample>>
           ELSE /\ summary' = [summary EXCEPT !.candidates = @ + 1,
                                              !.considered = @ \cup {row}]
                /\ sample' = IF Enabled
                             THEN [sample EXCEPT ![BucketOf(row)] =
                                      consider_board(@, row, args.seed)]
                             ELSE sample \cup {row}
    /\ UNCHANGED <<args, unread, outcome, files>>

sampled_rows ==
    IF Enabled THEN UNION {sample[b].entries : b \in DOMAIN sample} ELSE sample

\* The rows are in a temporary file, which replaces the output ...
replace_output ==
    /\ outcome = None /\ lines = <<>>
    /\ unread = {} \/ all_read
    /\ files.normalized = None
    /\ IF sampled_rows = {}
       THEN outcome' = "no-positions-emitted" /\ UNCHANGED files
       ELSE files' = [files EXCEPT !.normalized = sampled_rows] /\ UNCHANGED outcome
    /\ UNCHANGED <<args, unread, lines, summary, sample>>

report_data == [emitted |-> Cardinality(sampled_rows), games |-> summary.opened]

\* ... and then the report is replaced.
write_report ==
    /\ outcome = None /\ files.normalized # None
    /\ files' = [files EXCEPT !.report = report_data]
    /\ outcome' = "ok"
    /\ UNCHANGED <<args, unread, lines, summary, sample>>

BoardScoreNext == open_member \/ consider_line \/ replace_output \/ write_report
=============================================================================
