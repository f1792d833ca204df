---------------------------- MODULE TeacherLabels ----------------------------
(***************************************************************************)
(* Labels for the moves of selected roots, and what is made of them:       *)
(* generate_search_move_teacher_dataset and generate_exact_move_teacher_   *)
(* dataset (C++), overlay_search_move_teacher.py,                          *)
(* derive_exact_root_labels_from_move_teacher.py, apply_teacher_labels.py, *)
(* and the join of both teachers in run_full_phase_growth_cycle.py.        *)
(*                                                                         *)
(* A move row belongs to a root and a move and leads to a child; a child   *)
(* row is the normalised row of a child.  A label is seen by the side to   *)
(* move at the child, a move's score by the side to move at the root.      *)
(***************************************************************************)
EXTENDS Integers, FiniteSetsExt

CONSTANTS None,
          Moves(_),             \* of a board: <<move, child board>>
          SearchScore(_, _),    \* of a depth and a child board
          ExactScore(_),        \* of a child board
          BaselineScore(_)      \* the heuristic, of a child board

VARIABLES args, outcome, files

Refuse(why) == outcome' = why /\ UNCHANGED files
Write(written) == outcome' = "ok" /\ files' = written

LabelledRoots(moves) == {row.root : row \in moves}
RowsOf(moves, root) == {row \in moves : row.root = root}

\* child_map: a child has one row, however often it is written.
conflicting_children(rows) == \E x, y \in rows : x.record = y.record /\ x # y

-----------------------------------------------------------------------------
(* The generators.                                                         *)

Best(root, Score(_)) == Max({-Score(m[2]) : m \in Moves(root.board)})

\* evaluate_child, rank_root_moves: one row for each legal move.
move_rows(roots, provenance, Score(_), ChildId(_, _)) ==
    {[root |-> pair[1].board, record |-> pair[1].ordinal, split |-> pair[1].split,
      phase |-> pair[1].phase, move |-> pair[2][1],
      child |-> ChildId(pair[1], pair[2]), child_board |-> pair[2][2],
      child_label |-> Score(pair[2][2]), score |-> -Score(pair[2][2]),
      child_baseline |-> BaselineScore(pair[2][2]),
      margin |-> Best(pair[1], Score) + Score(pair[2][2]),
      provenance |-> provenance] :
        pair \in UNION {{<<root, m>> : m \in Moves(root.board)} : root \in roots}}

ChildRow(row) ==
    [record |-> row.child, board_id |-> row.child, board |-> row.child_board,
     split |-> row.split, label |-> row.child_label]

CanonicalId(root, m) == <<"board", m[2]>>
RootMoveId(root, m) == <<"root-move", root.board, m[1]>>

search_moves(roots, depth) ==
    move_rows(roots, <<"search", depth>>, LAMBDA b : SearchScore(depth, b), CanonicalId)

\* select_child_normalized_rows: one row for each child board, and none at
\* all if the roots that lead to a child are in different splits.
child_split_collisions(moves) ==
    \E x, y \in moves : x.child = y.child /\ x.split # y.split

\* A root without a move: refused by search, passed over by the exact teacher.
terminal(roots) == {root \in roots : Moves(root.board) = {}}

\* The rows go to the files that the command line names.
Labelled(moves) ==
    Write([files EXCEPT ![args.move_teacher_out] = moves,
                        ![args.child_normalized_out] = {ChildRow(row) : row \in moves}])

search_teacher ==
    /\ args.tool = "search_teacher" /\ outcome = None /\ files[args.normalized_tsv] # None
    /\ LET roots == files[args.normalized_tsv]
           moves == search_moves(roots, args.depth)
       IN  IF roots = {} \/ terminal(roots) # {} \/ child_split_collisions(moves)
           THEN Refuse("roots-refused") ELSE Labelled(moves)
    /\ UNCHANGED args

\* The exact generator names a child by its root and move, writes a row for
\* each and compares none of them.
exact_moves(roots) == move_rows(roots, <<"exact", 0>>, ExactScore, RootMoveId)

exact_teacher ==
    /\ args.tool = "exact_teacher" /\ outcome = None /\ files[args.normalized_tsv] # None
    /\ LET moves == exact_moves(files[args.normalized_tsv])
       IN  IF moves = {} THEN Refuse("no-rows") ELSE Labelled(moves)
    /\ UNCHANGED args

-----------------------------------------------------------------------------
(* The full phase cycle labels midgame roots by search and late ones       *)
(* exactly.  Its checks know a child by its id, which the exact teacher    *)
(* makes up: two late roots in different splits may share a child's board. *)

Midgame(rows) == {row \in rows : row.phase \in args.midgame_phases}

partition_selected ==
    /\ args.tool = "partition" /\ outcome = None
    /\ LET early == Midgame(files.roots)
           late == files.roots \ early
       IN  IF early = {} \/ late = {} THEN Refuse("no-roots-of-both-kinds")
           ELSE Write([files EXCEPT !.early_selected = early, !.late_selected = late])
    /\ UNCHANGED args

\* Mutant: only labels of roots that were not selected are looked for.
unselected_roots(roots, moves) == LabelledRoots(moves) \ {root.board : root \in roots}

unlabelled_roots(roots, moves) == {root.board : root \in roots} \ LabelledRoots(moves)
crossing_children(rows) == \E x, y \in rows : x.board_id = y.board_id /\ x.split # y.split

\* The children are written before the search rows are found to be of more
\* than one configuration.
merge_teacher_outputs ==
    /\ args.tool = "merge" /\ outcome = None
    /\ files.moves # None /\ files.exact_moves # None
    /\ LET early == files.moves
           late == files.exact_moves
           rows == files.children \cup files.exact_children
       IN  IF \/ early = {} \/ late = {}
              \/ Midgame(early) # early \/ Midgame(late) # {}
              \/ unlabelled_roots(files.early_selected, early) # {}
              \/ unlabelled_roots(files.late_selected, late) # {}
              \/ conflicting_children(rows) \/ crossing_children(rows)
              \/ {x.record : x \in rows} # {row.child : row \in early \cup late}
           THEN Refuse("teachers-not-merged")
           ELSE /\ files' = [files EXCEPT !.merged_children = rows]
                /\ outcome' = IF Cardinality({row.provenance : row \in early}) = 1
                              THEN "ok" ELSE "mixed-provenance"
    /\ UNCHANGED args

-----------------------------------------------------------------------------
(* overlay_search_move_teacher.py: deeper rows replace the rows of whole   *)
(* roots; a root left over, one of whose children has another label in the *)
(* overlay, is left out as a whole.                                        *)

conflicting_base_roots(candidates, overlay) ==
    LabelledRoots({row \in candidates :
        \E x \in overlay : x.child = row.child /\ x.child_label # row.child_label})

\* Mutant of retained_base_moves: only the conflicting rows are left out.
retained_agreeing_moves(base, overlay) ==
    {row \in base : /\ row.root \notin LabelledRoots(overlay)
                    /\ \A x \in overlay : x.child = row.child => x.child_label = row.child_label}

retained_base_moves(base, overlay) ==
    LET candidates == {row \in base : row.root \notin LabelledRoots(overlay)}
        conflicting == conflicting_base_roots(candidates, overlay)
    IN  {row \in candidates : row.root \notin conflicting}

inconsistent_overlay(base, overlay) ==
    \/ overlay = {} \/ {row.provenance[1] : row \in base \cup overlay} # {"search"}
    \/ \E x, y \in overlay : x.child = y.child /\ x.child_label # y.child_label
    \/ \E root \in LabelledRoots(overlay) :
          \/ {r.move : r \in RowsOf(overlay, root)} # {r.move : r \in RowsOf(base, root)}
          \/ \E x \in RowsOf(overlay, root), y \in RowsOf(base, root) :
                x.record # y.record \/ x.split # y.split \/ x.phase # y.phase

\* The merge of the children: those of the overlay win.
different_children(base, overlay) ==
    \E x \in base, y \in overlay : x.record = y.record /\ (x.board # y.board \/ x.split # y.split)

merged_children(moves, base, overlay) ==
    LET winners == overlay \cup {x \in base : \A y \in overlay : y.record # x.record}
    IN  {x \in winners : \E row \in moves : row.child = x.record}

missing_children(moves, base, overlay) ==
    {row.child : row \in moves} \ {x.record : x \in base \cup overlay}

\* The merged moves mix two search configurations: a trainer is to be given
\* the retained rows and the overlay, side by side.
overlay_search_move_teacher ==
    /\ args.tool = "overlay" /\ outcome = None
    /\ files.moves # None /\ files.deep_moves # None
    /\ LET retained == retained_base_moves(files.moves, files.deep_moves)
           merged == retained \cup files.deep_moves
           children == merged_children(merged, files.children, files.deep_children)
       IN  IF \/ inconsistent_overlay(files.moves, files.deep_moves)
              \/ conflicting_children(files.children)
              \/ conflicting_children(files.deep_children)
              \/ different_children(files.children, files.deep_children)
              \/ missing_children(merged, files.children, files.deep_children) # {}
           THEN Refuse("inconsistent-overlay")
           ELSE Write([files EXCEPT !.moves = merged, !.retained = retained,
                                    !.children = children])
    /\ UNCHANGED args

-----------------------------------------------------------------------------
(* derive_exact_root_labels_from_move_teacher.py: the label of a root is   *)
(* the score of its best move, in an exact table.                          *)

derive_label(rows) == Max({row.score : row \in rows})

mismatched(roots, moves) ==
    \E row \in moves : row.provenance[1] # "exact" \/ ~\E root \in roots :
        /\ root.board = row.root /\ root.ordinal = row.record
        /\ root.split = row.split /\ root.phase = row.phase

derive_exact_root_labels ==
    /\ args.tool = "derive" /\ outcome = None
    /\ LET labelled == LabelledRoots(files.moves)
           missing == {root.board : root \in files.roots} \ labelled
       IN  IF \/ files.roots = {} \/ mismatched(files.roots, files.moves)
              \/ missing # {} /\ args.missing = "fail"
           THEN Refuse("missing-roots")
           ELSE Write([files EXCEPT !.labels =
                          [root \in labelled |-> derive_label(RowsOf(files.moves, root))]])
    /\ UNCHANGED args

(* apply_teacher_labels.py: the labels replace those of the rows.          *)

relabel(rows, labels) ==
    {IF row.board \in DOMAIN labels THEN [row EXCEPT !.label = labels[row.board]] ELSE row :
        row \in IF args.missing = "drop"
                THEN {x \in rows : x.board \in DOMAIN labels} ELSE rows}

\* A row without a label fails the program when it comes to it, in the order
\* of the file: what was written by then stays, without a report.
apply_overlay ==
    /\ args.tool = "apply" /\ outcome = None
    /\ LET rows == files.roots
           labels == files.labels
           unlabelled == {row \in rows : row.board \notin DOMAIN labels}
           until == {row \in rows : \A x \in unlabelled : row.board < x.board}
           written == relabel(IF args.missing = "fail" THEN until ELSE rows, labels)
       IN  IF DOMAIN labels = {} THEN Refuse("no-labels")
           ELSE /\ files' = [files EXCEPT !.labelled = written]
                /\ outcome' = IF args.missing = "fail" /\ unlabelled # {} THEN "missing-label"
                              ELSE IF written = {} THEN "no-rows" ELSE "ok"
    /\ UNCHANGED args

LabelNext ==
    \/ search_teacher \/ exact_teacher
    \/ partition_selected \/ merge_teacher_outputs
    \/ overlay_search_move_teacher
    \/ derive_exact_root_labels \/ apply_overlay
=============================================================================
