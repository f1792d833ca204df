------------------------------ MODULE GameImport ------------------------------
(***************************************************************************)
(* import_egaroucid_sequences.py and import_wthor.py: game transcripts in, *)
(* labelled positions out.  The two share the sample, the identities and   *)
(* the split policies; WTHOR adds a sidecar of theoretical results and one *)
(* of played moves.                                                        *)
(*                                                                         *)
(* Legal replay is done by a helper process; Replay says what it answers.  *)
(* The order in which files are read comes from digests or names and is    *)
(* arbitrary here, and so is what a sample rate leaves out.                *)
(***************************************************************************)
EXTENDS RowSample

CONSTANTS Replay     \* of a transcript: what the helper answers

VARIABLES args,        \* the command line; args.sources: the files it names,
                       \* args.inputs: those of each directory or archive
          unread,      \* source files not yet read: sequences of transcripts
          lines,       \* what is left of the file being read
          summary,     \* counters of the run, and every row it considered
          sample,      \* TopKRows
          theoretical, \* board -> the result WTHOR computed for it
          outcome,     \* of the run: None, "ok" or what it failed with
          files        \* what is written: normalized, wld, policy, report

importVars == <<args, unread, lines, summary, sample, theoretical, outcome, files>>

\* The limits that argparse lets through together; WTHOR has fewer options.
parse_args(A) ==
    {a \in A : a.mode = "full-scan-topk" => a.max_games = None /\ a.max_files = None /\ ~a.sampled}
wthor_parse_args(A) ==
    {a \in A : a.mode = "full-scan-topk" /\ a.max_files = None /\ ~a.sampled}

start_import(a) ==
    /\ args' = a
    /\ unread' = a.sources
    /\ lines' = <<>>
    /\ summary' = [opened |-> {}, games |-> 0, candidates |-> 0, considered |-> {}]
    /\ sample' = TopKRows(a.max_positions,
                          IF a.mode = "streaming-target" THEN "streaming" ELSE "topk")
    /\ theoretical' = [b \in {} |-> None]
    /\ outcome' = None
    /\ UNCHANGED files

-----------------------------------------------------------------------------
replay_limit_reached(s) == args.max_games # None /\ s.games >= args.max_games

processing_limit_reached(s, kept) ==
    \/ replay_limit_reached(s)
    \/ args.mode = "streaming-target" /\ limit_reached(kept)

stopped == processing_limit_reached(summary, sample)

\* A file, or a member of an archive.
open_source(source) ==
    /\ lines' = source
    /\ summary' = [summary EXCEPT !.opened = @ \cup {source}]

\* The files that are listed, thinned and cut together: in a streaming run
\* all of them, otherwise those of one directory or archive.  A file that is
\* named itself is then read in any case.
listed_with(source) ==
    IF args.mode = "streaming-target" THEN args.sources
    ELSE UNION {input \in args.inputs : source \in input}

\* selected_sources: --max-files of each list.
cut(source) ==
    /\ args.max_files # None
    /\ Cardinality(summary.opened \cap listed_with(source)) >= args.max_files

\* Outside of a streaming run, an input is read before the next one.
in_turn(source) ==
    args.mode # "streaming-target" =>
        \A input \in args.inputs :
            source \in input \/ input \subseteq unread \/ input \cap unread = {}

\* process_input: open the next file, or leave it out.
process_input ==
    /\ args.kind = "egaroucid" /\ outcome = None /\ lines = <<>> /\ ~stopped
    /\ \E source \in unread :
        /\ in_turn(source)
        /\ unread' = unread \ {source}
        /\ \/ ~cut(source) /\ open_source(source)
           \/ /\ cut(source) \/ (args.sampled /\ source \in listed_with(source))
              /\ UNCHANGED <<lines, summary>>
    /\ UNCHANGED <<args, sample, theoretical, outcome, files>>

\* payloads_from_file, parse_header: the records of the next WTB file.
payloads_from_file ==
    /\ args.kind = "wthor" /\ outcome = None /\ lines = <<>> /\ ~stopped
    /\ \E source \in unread : unread' = unread \ {source} /\ open_source(source)
    /\ UNCHANGED <<args, sample, theoretical, outcome, files>>

\* The plies asked for, and the last one only on demand.
should_emit(game, snapshot) ==
    /\ snapshot.ply \in args.plies
    /\ snapshot.ply = game.snapshots[Len(game.snapshots)].ply => args.emit_terminal

CandidateRow(game, snapshot, move, ordinal) ==
    [game |-> game.game, ply |-> snapshot.ply, board |-> snapshot.board,
     phase |-> snapshot.phase, empty |-> snapshot.empty, label |-> snapshot.label,
     move |-> move, split |-> GameSplit(game.game), ordinal |-> ordinal]

make_row(game, snapshot, ordinal) == CandidateRow(game, snapshot, None, ordinal)

\* WTHOR keeps with each row the move that was played next.
make_candidate_row(game, snapshot, ordinal) ==
    CandidateRow(game, snapshot, snapshot.move, ordinal)

row_of(game, snapshot, ordinal) ==
    IF args.kind = "egaroucid" THEN make_row(game, snapshot, ordinal)
    ELSE make_candidate_row(game, snapshot, ordinal)

\* A row goes to the sample, numbered after those already considered.  The
\* Egaroucid importer asks before each of them whether it has reached a
\* limit, counting the game it is in.
consider_row(so_far, game, snapshot) ==
    IF \/ ~should_emit(game, snapshot)
       \/ args.kind = "egaroucid" /\ processing_limit_reached(so_far.summary, so_far.sample)
    THEN so_far
    ELSE LET row == row_of(game, snapshot, so_far.summary.candidates + 1)
         IN  [summary |-> [so_far.summary EXCEPT !.candidates = @ + 1,
                                                 !.considered = @ \cup {row}],
              sample |-> consider(so_far.sample, row, args.seed)]

Counted == [summary EXCEPT !.games = @ + 1]

\* The rows of one game, one after the other.
consider_rows(game) ==
    LET after[i \in 0..Len(game.snapshots)] ==
            IF i = 0 THEN [summary |-> Counted, sample |-> sample]
            ELSE consider_row(after[i - 1], game, game.snapshots[i])
    IN  after[Len(game.snapshots)]

\* add_theoretical_wld: a game's result at the file's cutoff.
conflicting_wld(game) ==
    /\ game.cutoff # None
    /\ game.cutoff.board \in DOMAIN theoretical
    /\ theoretical[game.cutoff.board] # game.cutoff.score

add_theoretical_wld(game) ==
    theoretical' =
        IF game.cutoff = None THEN theoretical
        ELSE [b \in DOMAIN theoretical \cup {game.cutoff.board} |->
                 IF b = game.cutoff.board THEN game.cutoff.score ELSE theoretical[b]]

Reading(kind) ==
    /\ args.kind = kind /\ outcome = None
    /\ lines # <<>> /\ ~processing_limit_reached(summary, sample)

\* A game is counted; it may have no rows.
Considered(game, has_rows) ==
    IF has_rows
    THEN summary' = consider_rows(game).summary /\ sample' = consider_rows(game).sample
    ELSE summary' = Counted /\ UNCHANGED sample

\* One transcript.  A game that the sample rate leaves out is not counted;
\* one the helper rejects has no rows.
process_text_stream ==
    /\ Reading("egaroucid")
    /\ lines' = Tail(lines)
    /\ LET game == Replay[Head(lines)]
       IN  \/ Considered(game, game.accepted)
           \/ args.sampled /\ UNCHANGED <<summary, sample>>
    /\ UNCHANGED <<args, unread, theoretical, outcome, files>>

\* One record: only a game played to its end has rows.
process_game ==
    /\ Reading("wthor")
    /\ lines' = Tail(lines)
    /\ LET game == Replay[Head(lines)]
       IN  /\ Considered(game, game.accepted /\ game.terminal)
           /\ CASE ~game.accepted -> UNCHANGED <<theoretical, outcome>>
                [] game.accepted /\ conflicting_wld(game) ->
                     outcome' = "conflicting-labels" /\ UNCHANGED theoretical
                [] game.accepted /\ ~conflicting_wld(game) ->
                     add_theoretical_wld(game) /\ UNCHANGED outcome
    /\ UNCHANGED <<args, unread, files>>

-----------------------------------------------------------------------------
\* write_policy: what was played on each board, counted by its outcome.
write_policy(rows) ==
    {LET same == {r \in rows : r.board = key[1] /\ r.move = key[2]}
     IN  [board |-> key[1], move |-> key[2],
          split |-> (CHOOSE r \in same : \A x \in same : r.ordinal <= x.ordinal).split,
          wins |-> Cardinality({r \in same : r.label > 0}),
          draws |-> Cardinality({r \in same : r.label = 0}),
          losses |-> Cardinality({r \in same : r.label < 0})] :
        key \in {<<r.board, r.move>> : r \in {x \in rows : x.move # None}}}

inconsistent_policy(rows) ==
    \E r, x \in rows : /\ r.move # None /\ r.move = x.move /\ r.board = x.board
                       /\ r.split # x.split

finished ==
    \/ lines = <<>> /\ (unread = {} \/ stopped)
    \/ processing_limit_reached(summary, sample)

split_rows == apply_split_policy(sample.rows, args.split_policy)
leaking_boards == BoardCollisions(split_rows) # {}
refuse(why) == outcome' = why /\ UNCHANGED files

\* What the reports say of the rows: their counts are those of the tables.
report_for(rows) == [emitted |-> Cardinality(rows), games |-> summary.games]
wthor_report_for(rows) ==
    [emitted |-> Cardinality(rows), games |-> summary.games,
     theoretical_wld_rows |-> Cardinality(DOMAIN theoretical)]

\* main of the Egaroucid importer, after the last game.
finish_sequences ==
    /\ args.kind = "egaroucid" /\ outcome = None /\ finished
    /\ IF split_rows = {} THEN refuse("no-positions-emitted")
       ELSE IF /\ args.split_policy = "connected-board-game"
               /\ leaking_boards \/ GameCollisions(split_rows) # {}
       THEN refuse("connected-board-game-failed")
       ELSE IF args.strict /\ leaking_boards THEN refuse("exact-board-leakage")
       ELSE /\ outcome' = "ok"
            /\ files' = [files EXCEPT !.normalized = split_rows,
                                       !.report = report_for(split_rows)]
    /\ UNCHANGED <<args, unread, lines, summary, sample, theoretical>>

write_normalized(left, rows) == [left EXCEPT !.normalized = rows]
write_theoretical_wld(left) == [left EXCEPT !.wld = theoretical]

\* main of the WTHOR importer: the policy is aggregated, and may be refused,
\* after two files have been written.
finish_wthor ==
    /\ args.kind = "wthor" /\ outcome = None /\ finished
    /\ LET written == write_theoretical_wld(write_normalized(files, split_rows))
       IN  IF args.strict /\ leaking_boards THEN refuse("exact-board-leakage")
           ELSE IF args.policy_out /\ inconsistent_policy(split_rows)
           THEN outcome' = "inconsistent-policy" /\ files' = written
           ELSE /\ outcome' = "ok"
                /\ files' = [written EXCEPT !.report = wthor_report_for(split_rows),
                      !.policy = IF args.policy_out THEN write_policy(split_rows) ELSE None]
    /\ UNCHANGED <<args, unread, lines, summary, sample, theoretical>>

ImportNext ==
    \/ process_input \/ payloads_from_file \/ process_text_stream \/ process_game
    \/ finish_sequences \/ finish_wthor
=============================================================================
