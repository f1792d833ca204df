------------------------------ MODULE BoardCore ------------------------------
(***************************************************************************)
(* The rules of engine/src/board_core: which squares a move flips, which   *)
(* moves are legal, when a side passes and when the game is over, how a    *)
(* position is advanced and taken back, and the Zobrist hash of a position *)
(* with its incremental update.                                            *)
(*                                                                         *)
(* A bitboard is the set of squares whose bit is set.  A ray is walked by  *)
(* applying one of the eight masked shifts repeatedly; At(s, d, n) is the  *)
(* square n shifts away, and it is off the board exactly when the mask has *)
(* dropped the bit.  The unrolled and the looping versions of the ray walk *)
(* are modelled step by step in RayKernels; here a walk is what both of    *)
(* them return.                                                            *)
(*                                                                         *)
(* The hash keys of board_core/hash.cc are 64-bit constants; here a key is *)
(* a token of its own and a hash is the set of tokens XORed into it, so    *)
(* distinct positions have distinct hashes (no collisions).                *)
(***************************************************************************)
EXTENDS Integers

CONSTANT BoardSize       \* kBoardSize: 8 in the code

ASSUME BoardSizeAssumption ==
  /\ BoardSize \in Nat
  /\ BoardSize >= 2
  /\ BoardSize % 2 = 0

Color == {"black", "white"}

opposite(color) == IF color = "black" THEN "white" ELSE "black"

Coordinate == 0 .. BoardSize - 1

\* A square is <<file, rank>>; its index in the code is rank * 8 + file.
Square == Coordinate \X Coordinate

Direction == ((-1 .. 1) \X (-1 .. 1)) \ {<<0, 0>>}

\* The square reached from s by shifting n times in direction d.
At(s, d, n) == <<s[1] + n * d[1], s[2] + n * d[2]>>

Position ==
  [player : SUBSET Square, opponent : SUBSET Square, side_to_move : Color]

is_valid(p) == p.player \cap p.opponent = {}

occupied(p) == p.player \cup p.opponent

black_discs(p) == IF p.side_to_move = "black" THEN p.player ELSE p.opponent
white_discs(p) == IF p.side_to_move = "white" THEN p.player ELSE p.opponent

\* Squares (3,4) and (4,3) are black, (4,4) and (3,3) white, on the 8 x 8 board.
initial_position ==
  LET hi == BoardSize \div 2
      lo == hi - 1
  IN  [player |-> {<<lo, hi>>, <<hi, lo>>},
       opponent |-> {<<hi, hi>>, <<lo, lo>>},
       side_to_move |-> "black"]

-----------------------------------------------------------------------------
(***************************************************************************)
(* Flips and legal moves.                                                  *)
(***************************************************************************)

\* The n - 1 squares strictly between s and its n-th neighbour along d are
\* all the opponent's, and there is at least one of them.
OpponentRun(p, s, d, n) ==
  /\ n >= 2
  /\ \A k \in 1 .. n - 1 : At(s, d, k) \in p.opponent

\* Number of shifts after which every bit has left the board.
Reach == 1 .. BoardSize

flips_in_direction(p, s, d) ==
  {t \in p.opponent :
     \E n \in Reach : /\ OpponentRun(p, s, d, n)
                      /\ At(s, d, n) \in p.player
                      /\ \E k \in 1 .. n - 1 : t = At(s, d, k)}

flips_for_move(p, s) ==
  IF ~is_valid(p) \/ s \notin Square \/ s \in occupied(p)
  THEN {}
  ELSE UNION {flips_in_direction(p, s, d) : d \in Direction}

\* Walks outwards from the player's discs: the first square behind a run of
\* opponent discs, if it is empty.
legal_moves_in_direction(p, d) ==
  {t \in Square \ occupied(p) :
     \E s \in p.player, n \in Reach : OpponentRun(p, s, d, n) /\ t = At(s, d, n)}

legal_moves(p) ==
  IF is_valid(p)
  THEN UNION {legal_moves_in_direction(p, d) : d \in Direction}
  ELSE {}

has_legal_move(p) ==
  /\ is_valid(p)
  /\ \E d \in Direction : legal_moves_in_direction(p, d) # {}

pass_position(p) ==
  [player |-> p.opponent, opponent |-> p.player,
   side_to_move |-> opposite(p.side_to_move)]

is_terminal(p) ==
  is_valid(p) /\ ~has_legal_move(p) /\ ~has_legal_move(pass_position(p))

-----------------------------------------------------------------------------
(***************************************************************************)
(* Moves, deltas, apply and undo.                                          *)
(***************************************************************************)

make_move(s) == [kind |-> "normal", square |-> s]
make_pass == [kind |-> "pass", square |-> <<-1, -1>>]

Move == {make_move(s) : s \in Square} \cup {make_pass}
MoveDelta == [move : Move, flipped : SUBSET Square]

\* The cases in which make_move_delta returns true.
is_legal(p, move) ==
  IF move.kind = "pass"
  THEN is_valid(p) /\ ~has_legal_move(p) /\ has_legal_move(pass_position(p))
  ELSE flips_for_move(p, move.square) # {}

\* The delta make_move_delta writes for a legal move.
make_move_delta(p, move) ==
  [move |-> move,
   flipped |-> IF move.kind = "pass" THEN {} ELSE flips_for_move(p, move.square)]

apply_move_delta(p, delta) ==
  IF delta.move.kind = "pass"
  THEN pass_position(p)
  ELSE [player |-> p.opponent \ delta.flipped,
        opponent |-> p.player \cup {delta.move.square} \cup delta.flipped,
        side_to_move |-> opposite(p.side_to_move)]

undo_move(p, delta) ==
  IF delta.move.kind = "pass"
  THEN pass_position(p)
  ELSE [player |-> p.opponent \ ({delta.move.square} \cup delta.flipped),
        opponent |-> p.player \cup delta.flipped,
        side_to_move |-> opposite(p.side_to_move)]

-----------------------------------------------------------------------------
(***************************************************************************)
(* Zobrist hashing.                                                        *)
(***************************************************************************)

\* XOR of two hashes, each the set of the keys XORed into it.
Xor(a, b) == (a \ b) \cup (b \ a)

piece_keys(color, squares) == {<<color, s>> : s \in squares}

\* The key of black to move is 0, the empty hash.
side_to_move_key(color) == IF color = "black" THEN {} ELSE {<<"side", <<-1, -1>>>>}

PositionHash == SUBSET (((Color \X Square)) \cup side_to_move_key("white"))

hash_position(p) ==
  Xor(Xor(side_to_move_key(p.side_to_move), piece_keys("black", black_discs(p))),
      piece_keys("white", white_discs(p)))

\* Mutant: a pass does not change the hash.
hash_after_move_ignoring_pass(before, hash, delta) ==
  LET mover == before.side_to_move
      turned == Xor(hash, side_to_move_key("white"))
  IN  IF delta.move.kind = "pass"
      THEN hash
      ELSE Xor(Xor(Xor(turned, piece_keys(mover, {delta.move.square})),
                   piece_keys(opposite(mover), delta.flipped)),
               piece_keys(mover, delta.flipped))

hash_after_move(before, hash, delta) ==
  LET mover == before.side_to_move
      turned == Xor(hash, side_to_move_key("white"))
  IN  IF delta.move.kind = "pass"
      THEN turned
      ELSE Xor(Xor(Xor(turned, piece_keys(mover, {delta.move.square})),
                   piece_keys(opposite(mover), delta.flipped)),
               piece_keys(mover, delta.flipped))
=============================================================================
