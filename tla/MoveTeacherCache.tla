-------------------------- MODULE MoveTeacherCache --------------------------
(***************************************************************************)
(* The cache of solved roots that move-teacher campaigns share:            *)
(* materialize_move_teacher_from_cache.py and the branch of                *)
(* run_move_teacher_decision_campaign.py that takes the labels from it.    *)
(*                                                                         *)
(* Campaigns run side by side, each in a directory of its own, with any of *)
(* the builds of the generator, over one cache directory.  A campaign may  *)
(* be killed anywhere and started again, with or without --resume.         *)
(***************************************************************************)
EXTENDS Integers

CONSTANTS None,
          Campaigns,
          RootsOf(_),   \* of a campaign: [board, record, split], one per board
          Build(_),     \* of a campaign: the build of its generator
          Solve(_, _),  \* of a build and a board: what it says of each move
          Restarts      \* bound: how often a campaign is started again

VARIABLES cache,        \* root_cache_path: the entry of a board, or None
          campaign      \* the process and the files of a campaign

cacheVars == <<cache, campaign>>

Boards == UNION {{root.board : root \in RootsOf(c)} : c \in Campaigns}

\* The selection has a board once, the generator refuses roots without a move.
RootsAndLabels ==
    /\ \A c \in Campaigns : \A r, s \in RootsOf(c) :
          /\ r.board \in Nat
          /\ r = [board |-> r.board, record |-> r.record, split |-> r.split]
          /\ r.board = s.board => r = s
    /\ \A c \in Campaigns : \A b \in Boards :
          LET f == Solve(Build(c), b) IN f = [m \in DOMAIN f |-> f[m]] /\ DOMAIN f # {}

\* --allow-cache-miss-solve needs both other options.
campaign_args ==
    {a \in [reuse : BOOLEAN, write : BOOLEAN, solve : BOOLEAN, resume : BOOLEAN] :
        a.solve => a.reuse /\ a.write}

NoFile == [rows |-> None, sealed |-> None]

\* rows of a file, and what its sidecar says they were made of.
InitCache ==
    /\ cache = [b \in Boards |-> None]
    /\ campaign \in [Campaigns ->
          [pc : {"begin"}, args : {a \in campaign_args : ~a.resume}, restarts : {0},
           table : {NoFile}, missing : {None}, solved : {NoFile},
           todo : {{}}, temp : {None}]]

With(record, fields) ==
    [x \in DOMAIN record |-> IF x \in DOMAIN fields THEN fields[x] ELSE record[x]]
Set(c, fields) == campaign' = [campaign EXCEPT ![c] = With(campaign[c], fields)]
Now(c, pc) == campaign[c].pc = pc

-----------------------------------------------------------------------------
(* Rows.  A root keeps its split and record; the labels are its board's.   *)

Rows(roots, Labels(_)) ==
    UNION {{[board |-> r.board, record |-> r.record, split |-> r.split,
             move |-> m, label |-> Labels(r.board)[m]] : m \in DOMAIN Labels(r.board)} :
           r \in roots}

solved_rows(c, roots) == Rows(roots, LAMBDA b : Solve(Build(c), b))

\* cache_entry_from_rows: all moves of one root, without record and split.
cache_entry_from_rows(rows) ==
    [m \in {row.move : row \in rows} |-> (CHOOSE row \in rows : row.move = m).label]

\* load_cache_entries: the hits and the misses among the selected roots.
misses(c) == {r \in RootsOf(c) : cache[r.board] = None}
hits(c) == RootsOf(c) \ misses(c)

materialized_rows(c) == Rows(hits(c), LAMBDA b : cache[b])

-----------------------------------------------------------------------------
(* write_cache_entry, for each root of a table in the order of the boards. *)

Entries(table) ==
    {<<b, cache_entry_from_rows({x \in table : x.board = b})>> : b \in {x.board : x \in table}}

Populating(c) == campaign[c].pc \in {"merge", "populate"}
NextEntry(c) == CHOOSE e \in campaign[c].todo : \A f \in campaign[c].todo : e[1] <= f[1]

\* An entry that is there already must be the same.
Existing(c) ==
    LET e == NextEntry(c)
    IN  Set(c, IF cache[e[1]] = e[2]
               THEN [todo |-> campaign[c].todo \ {e}, temp |-> None]
               ELSE [pc |-> "failed", temp |-> None])

\* Is there an entry?  If not, write and read back a temporary file.
write_cache_entry(c) ==
    /\ Populating(c) /\ campaign[c].temp = None /\ campaign[c].todo # {}
    /\ IF cache[NextEntry(c)[1]] # None THEN Existing(c)
       ELSE Set(c, [temp |-> [entry |-> NextEntry(c), checked |-> FALSE]])
    /\ UNCHANGED cache

\* Look again before the temporary file takes its place.
check_again(c) ==
    /\ campaign[c].temp # None /\ ~campaign[c].temp.checked
    /\ IF cache[NextEntry(c)[1]] # None THEN Existing(c)
       ELSE Set(c, [temp |-> [entry |-> NextEntry(c), checked |-> TRUE]])
    /\ UNCHANGED cache

replace_entry(c) ==
    /\ campaign[c].temp # None /\ campaign[c].temp.checked
    /\ cache' = [cache EXCEPT ![NextEntry(c)[1]] = NextEntry(c)[2]]
    /\ Set(c, [todo |-> campaign[c].todo \ {NextEntry(c)}, temp |-> None])

populated(c) ==
    /\ Populating(c) /\ campaign[c].todo = {}
    /\ Set(c, [pc |-> IF Now(c, "merge") THEN "final probe" ELSE "ok"])
    /\ UNCHANGED cache

-----------------------------------------------------------------------------
(* The campaign.  A stage that finds its outputs on --resume compares its  *)
(* sidecar and skips; a stage that runs writes its outputs, then the       *)
(* sidecar.                                                                *)

Step(c, from, fields) == Now(c, from) /\ Set(c, fields) /\ UNCHANGED cache

Sealed(c, stage) == <<stage, RootsOf(c)>>
Resumes(c, file) == campaign[c].args.resume /\ file.rows # None

\* Mutant of materialize: a table of the hits is good enough.
materialize_hits(c) ==
    /\ campaign[c].args.reuse
    /\ Step(c, "begin",
            IF Resumes(c, campaign[c].table)
            THEN [pc |-> IF campaign[c].table.sealed = Sealed(c, "materialize")
                         THEN "ok" ELSE "failed"]
            ELSE [pc |-> "seal", table |-> [rows |-> materialized_rows(c), sealed |-> None]])

\* run_cache_materialization_stage, and what main does after a miss.
materialize(c) ==
    LET table == campaign[c].table
    IN  /\ campaign[c].args.reuse
        /\ Step(c, "begin",
             CASE Resumes(c, table) ->
                    [pc |-> IF table.sealed = Sealed(c, "materialize") THEN "ok" ELSE "failed"]
               [] ~Resumes(c, table) /\ misses(c) = {} ->
                    [pc |-> "seal", table |-> [rows |-> materialized_rows(c), sealed |-> None]]
               [] ~Resumes(c, table) /\ misses(c) # {} ->
                    [pc |-> IF campaign[c].args.solve THEN "probe" ELSE "miss"])

seal_table(c) ==
    Step(c, "seal", [pc |-> "ok", table |-> [campaign[c].table EXCEPT !.sealed = Sealed(c, "materialize")]])

\* Without leave to solve, the probe tells what is missing and the run ends.
partial_hit(c) == Step(c, "miss", [pc |-> "failed", missing |-> misses(c)])

\* cache_probe_report: the roots missing now; another campaign may have
\* written them since, and then there is nothing left to solve.
probe(c) ==
    Step(c, "probe", [pc |-> IF misses(c) = {} THEN "failed" ELSE "solve",
                      missing |-> misses(c)])

\* Its command and its sidecar name the missing roots of this probe.
generate_missing_move_teacher(c) ==
    LET missing == campaign[c].missing
        solved == campaign[c].solved
    IN  Now(c, "solve") /\ UNCHANGED cache
        /\ IF Resumes(c, solved)
           THEN Set(c, IF solved.sealed = missing
                       THEN [pc |-> "merge", todo |-> Entries(solved.rows)]
                       ELSE [pc |-> "failed"])
           ELSE Set(c, [pc |-> "seal missing",
                        solved |-> [rows |-> solved_rows(c, missing), sealed |-> None]])

seal_missing(c) ==
    LET solved == campaign[c].solved
    IN  Step(c, "seal missing",
             [pc |-> "merge", todo |-> Entries(solved.rows),
              solved |-> [solved EXCEPT !.sealed = campaign[c].missing]])

final_probe(c) ==
    Step(c, "final probe", [pc |-> IF misses(c) = {} THEN "final" ELSE "failed"])

\* The stage again: its outputs were not there, or it had not missed.
materialize_again(c) ==
    Step(c, "final",
         IF misses(c) # {} THEN [pc |-> "failed"]
         ELSE [pc |-> "seal again", table |-> [rows |-> materialized_rows(c), sealed |-> None]])

seal_again(c) ==
    Step(c, "seal again", [pc |-> "augment",
                           table |-> [campaign[c].table EXCEPT !.sealed = Sealed(c, "materialize")]])

\* augment_partial_cache_report changes an output the sidecar describes,
\* rewrite_cache_materialization_resume_metadata brings it up to date.
augment_report(c) ==
    Step(c, "augment", [pc |-> "seal", table |-> [campaign[c].table EXCEPT !.sealed = None]])

\* No cache, or only to be filled: the generator solves every root.
generate(c) ==
    LET table == campaign[c].table
    IN  /\ ~campaign[c].args.reuse
        /\ Step(c, "begin",
             CASE Resumes(c, table) ->
                    [pc |-> IF table.sealed = Sealed(c, "generate") THEN "generated" ELSE "failed"]
               [] OTHER ->
                    [pc |-> "seal generated",
                     table |-> [rows |-> solved_rows(c, RootsOf(c)), sealed |-> None]])

seal_generated(c) ==
    Step(c, "seal generated", [pc |-> "generated",
                               table |-> [campaign[c].table EXCEPT !.sealed = Sealed(c, "generate")]])

\* populate_move_teacher_cache, on every run that was told to.
populate_move_teacher_cache(c) ==
    Step(c, "generated",
         IF campaign[c].args.write
         THEN [pc |-> "populate", todo |-> Entries(campaign[c].table.rows)]
         ELSE [pc |-> "ok"])

\* The process is killed; a temporary file it leaves is never read.
crash(c) ==
    /\ campaign[c].pc \notin {"ok", "failed", "down"}
    /\ Set(c, [pc |-> "down", todo |-> {}, temp |-> None])
    /\ UNCHANGED cache

restart(c) ==
    /\ campaign[c].pc \in {"failed", "down"} /\ campaign[c].restarts < Restarts
    /\ \E args \in campaign_args :
          Set(c, [pc |-> "begin", args |-> args, restarts |-> campaign[c].restarts + 1,
                  todo |-> {}, temp |-> None])
    /\ UNCHANGED cache

CacheNext ==
    \E c \in Campaigns :
        \/ write_cache_entry(c) \/ check_again(c) \/ replace_entry(c) \/ populated(c)
        \/ materialize(c) \/ seal_table(c) \/ partial_hit(c)
        \/ probe(c) \/ generate_missing_move_teacher(c) \/ seal_missing(c)
        \/ final_probe(c) \/ materialize_again(c) \/ seal_again(c) \/ augment_report(c)
        \/ generate(c) \/ seal_generated(c) \/ populate_move_teacher_cache(c)
        \/ crash(c) \/ restart(c)

CacheSpec == RootsAndLabels /\ InitCache /\ [][CacheNext]_cacheVars

-----------------------------------------------------------------------------
\* What a finished campaign trains on is complete and whole, whatever ran
\* beside it or was killed: its rows are exactly those of its own roots, and
\* all moves of a root are as one build solved them (materialize lines
\* 484-489, write_cache_entry).
CacheServesWholeTruth ==
    \A c \in Campaigns : Now(c, "ok") =>
        LET rows == campaign[c].table.rows
        IN  /\ {[board |-> x.board, record |-> x.record, split |-> x.split] : x \in rows} = RootsOf(c)
            /\ \A r \in RootsOf(c) : \E d \in Campaigns :
                  {x \in rows : x.board = r.board} = solved_rows(d, {r})
=============================================================================
