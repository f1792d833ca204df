------------------------------ MODULE RowSample ------------------------------
(***************************************************************************)
(* The bounded samples the data importers keep while they read rows, and   *)
(* the splits they give to the rows that remain.                           *)
(*                                                                         *)
(* Identities that the programs make with SHA-256 are values here: a game, *)
(* a board and a record are numbers, a position is a game, a ply and a     *)
(* board.  A digest that orders or divides (the sample key, the bucket of  *)
(* a split) is an arbitrary function, a parameter of this module.          *)
(***************************************************************************)
EXTENDS Integers, FiniteSetsExt, SequencesExt

CONSTANTS None, SampleKey(_, _),   \* of a seed and a position, or a board alone: <<board>>
          GameSplit(_),            \* split_for_digest of a game group
          ComponentSplit(_)        \* component_split of its representative

position(row) == <<row.game, row.ply, row.board>>

Worst(keyed, Key(_)) == CHOOSE p \in keyed : \A q \in keyed : Key(q) <= Key(p)

-----------------------------------------------------------------------------
(* TopKRows: the game importers keep whole positions.                      *)

TopKRows(capacity, mode) ==
    [capacity |-> capacity, mode |-> mode, entries |-> {}, rows |-> {}]

Kept(sample) ==
    IF sample.mode = "streaming" \/ sample.capacity = None
    THEN Cardinality(sample.rows) ELSE Cardinality(sample.entries)

limit_reached(sample) == sample.capacity # None /\ Kept(sample) >= sample.capacity

\* A position already kept keeps all its rows; a new one takes a free place,
\* or that of the kept position with the greatest key if its own is smaller.
\* (A key depends on the position alone, so the heap never goes stale here.)
consider(sample, row, seed) ==
    LET Key(p) == SampleKey(seed, p)
        worst == Worst(sample.entries, Key)
        added == sample.rows \cup {row}
    IN  IF sample.mode = "streaming"
        THEN IF limit_reached(sample) THEN sample ELSE [sample EXCEPT !.rows = added]
        ELSE IF sample.capacity = None \/ position(row) \in sample.entries
        THEN [sample EXCEPT !.rows = added]
        ELSE IF ~limit_reached(sample)
        THEN [sample EXCEPT !.entries = @ \cup {position(row)}, !.rows = added]
        ELSE IF Key(position(row)) < Key(worst)
        THEN [sample EXCEPT !.entries = (@ \ {worst}) \cup {position(row)},
                            !.rows = {r \in added : position(r) # worst}]
        ELSE sample

-----------------------------------------------------------------------------
(* SampleBucket: the board-score importer keeps one row of each board.  An *)
(* entry of the heap is <<key, board, record>>; it is stale when the board *)
(* has been dropped or its row replaced.                                   *)

SampleBucket(capacity) == [capacity |-> capacity, entries |-> {}, heap |-> {}]

HeapEntry(row, seed) == <<SampleKey(seed, <<row.board>>), row.board, row.record>>

\* heap[0]: the greatest key; of entries with the same key, the least.
Top(heap) ==
    CHOOSE e \in heap : \A f \in heap \ {e} :
        \/ f[1] < e[1]
        \/ f[1] = e[1] /\ e[2] < f[2]
        \/ f[1] = e[1] /\ e[2] = f[2] /\ e[3] < f[3]

Live(bucket, seed) == {HeapEntry(row, seed) : row \in bucket.entries}

\* Mutant of DiscardStale: the heap is taken as it is.
TrustHeap(bucket, seed) == bucket

\* Entries above the topmost live one are popped.
DiscardStale(bucket, seed) ==
    LET live == bucket.heap \cap Live(bucket, seed)
    IN  [bucket EXCEPT !.heap = {e \in @ : \E f \in live : Top({e, f}) = f}]

consider_board(bucket, row, seed) ==
    LET same == {r \in bucket.entries : r.board = row.board}
        pushed == HeapEntry(row, seed)
        swept == DiscardStale(bucket, seed)
        worst == Top(swept.heap)
    IN  IF \E r \in same : r.record <= row.record THEN bucket
        ELSE IF same # {} \/ Cardinality(bucket.entries) < bucket.capacity
        THEN [bucket EXCEPT !.entries = (@ \ same) \cup {row}, !.heap = @ \cup {pushed}]
        ELSE IF pushed[1] < worst[1] \/ (pushed[1] = worst[1] /\ pushed[2] < worst[2])
        THEN [swept EXCEPT !.entries = {r \in @ : r.board # worst[2]} \cup {row},
                           !.heap = (@ \ {worst}) \cup {pushed}]
        ELSE swept

-----------------------------------------------------------------------------
(* The splits.  The nodes of the union-find are boards and games; a node  *)
(* "board:..." sorts before every "game:...".                              *)

BoardNode(row) == row.board
GameNode(row) == 100 + row.game

\* find says of each node which root its parent links lead to.  In a union
\* the lesser root becomes the parent of the other, and so the root of all
\* that the other was the root of.
union(find, left, right) ==
    LET joined == {find[left], find[right]}
    IN  [n \in DOMAIN find |-> IF find[n] \in joined THEN Min(joined) ELSE find[n]]

\* The rows are joined in the order of their ordinals.
Components(rows) ==
    LET nodes == {BoardNode(r) : r \in rows} \cup {GameNode(r) : r \in rows}
        last == Max({r.ordinal : r \in rows} \cup {0})
        find[n \in 0..last] ==
            IF n = 0 THEN [m \in nodes |-> m]
            ELSE IF \A r \in rows : r.ordinal # n THEN find[n - 1]
            ELSE LET row == CHOOSE r \in rows : r.ordinal = n
                 IN  union(find[n - 1], GameNode(row), BoardNode(row))
    IN  find[last]

\* Each component of games and boards that share rows gets one split, drawn
\* by its least node.
connected_board_game_resplit(rows) ==
    LET find == Components(rows)
        members(n) == {m \in DOMAIN find : find[m] = find[n]}
    IN  {[row EXCEPT !.split = ComponentSplit(Min(members(GameNode(row))))] : row \in rows}

apply_split_policy(rows, policy) ==
    IF policy = "game-group" THEN rows ELSE connected_board_game_resplit(rows)

\* cross_split_audit: what appears in more than one split.
BoardCollisions(rows) ==
    {b \in {r.board : r \in rows} :
        Cardinality({r.split : r \in {x \in rows : x.board = b}}) > 1}
GameCollisions(rows) ==
    {g \in {r.game : r \in rows} :
        Cardinality({r.split : r \in {x \in rows : x.game = g}}) > 1}
=============================================================================
