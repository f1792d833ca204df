------------------------------ MODULE RayKernels ------------------------------
(***************************************************************************)
(* The bit-parallel ray walks of engine/src/board_core/board.cc.  A        *)
(* bitboard is a set of square indices; the eight shifts drop the bits     *)
(* that would wrap to another rank and the bits that leave the word.       *)
(*                                                                         *)
(* The three loops (flips, legal moves, has a legal move) are modelled one *)
(* iteration per step; the hand-unrolled versions that production calls    *)
(* are operators with a fixed number of runs.  The properties say that all *)
(* of them compute the rules of BoardCore.                                 *)
(***************************************************************************)
EXTENDS BoardCore, FiniteSetsExt

CONSTANTS
  UnrolledRuns,          \* runs the unrolled kernels look at: 6 in the code
  Regions                \* sets of squares over which the discs are spread

\* Between two discs of a line are at most BoardSize - 2 squares.
ASSUME UnrolledRunsAssumption == UnrolledRuns \in Nat \ {0} /\ UnrolledRuns >= BoardSize - 2
ASSUME RegionsAssumption == \A region \in Regions : region \subseteq Square

VARIABLES
  kernel,                \* which of the three loops runs
  direction,             \* its Shift argument
  origin,                \* the move's square (flips only)
  player, opponent,      \* its bitboard arguments
  run, captured,         \* the loop's locals
  pc, result             \* "loop" or "done", and what it returned

vars == <<kernel, direction, origin, player, opponent, run, captured, pc, result>>

-----------------------------------------------------------------------------
SquareIndex == 0 .. BoardSize * BoardSize - 1

\* Square::index of a square, and back.
index_of(s) == s[2] * BoardSize + s[1]
square_of(i) == <<i % BoardSize, i \div BoardSize>>

Bits(squares) == {index_of(s) : s \in squares}
Squares(bits) == {square_of(i) : i \in bits}

kFileA == {i \in SquareIndex : i % BoardSize = 0}
kFileH == {i \in SquareIndex : i % BoardSize = BoardSize - 1}

\* << n, or >> -n, in a word of BoardSize * BoardSize bits.
ShiftBits(bits, n) == {i + n : i \in bits} \cap SquareIndex

\* Mutant: no file is masked, bits wrap to the next rank.
ShiftWrapping(d, bits) == ShiftBits(bits, d[1] + d[2] * BoardSize)

\* shift_east ... shift_south_west: eastward shifts mask file H first,
\* westward shifts file A, and one rank is BoardSize bits.
Shift(d, bits) ==
  LET kept == CASE d[1] = 1  -> bits \ kFileH
                [] d[1] = -1 -> bits \ kFileA
                [] OTHER     -> bits
  IN  ShiftBits(kept, d[1] + d[2] * BoardSize)

empty == SquareIndex \ (player \cup opponent)

-----------------------------------------------------------------------------
\* The runs of an unrolled kernel: the opponent discs 1, 2, ... steps behind
\* the source bits, through opponent discs only.
UnrolledRun(d, source, theirs) ==
  LET step[i \in 1 .. UnrolledRuns] ==
        Shift(d, IF i = 1 THEN source ELSE step[i - 1]) \cap theirs
  IN  step

legal_moves_in_direction_unrolled(d, mine, theirs, free) ==
  LET step == UnrolledRun(d, mine, theirs)
  IN  Shift(d, UNION {step[i] : i \in 1 .. UnrolledRuns}) \cap free

\* Mutant: the last run is not looked at.
flips_in_direction_one_run_short(d, move, mine, theirs) ==
  LET step == UnrolledRun(d, move, theirs)
      closed == {i \in 1 .. UnrolledRuns - 1 : Shift(d, step[i]) \cap mine # {}}
  IN  IF closed = {} THEN {} ELSE UNION {step[i] : i \in 1 .. Min(closed)}

flips_in_direction_unrolled(d, move, mine, theirs) ==
  LET step == UnrolledRun(d, move, theirs)
      closed == {i \in 1 .. UnrolledRuns : Shift(d, step[i]) \cap mine # {}}
  IN  IF closed = {} THEN {} ELSE UNION {step[i] : i \in 1 .. Min(closed)}

-----------------------------------------------------------------------------
(***************************************************************************)
(* The loops.  The first run is computed before the while statement.       *)
(***************************************************************************)
FirstRun == Shift(direction, IF kernel = "flips" THEN Bits({origin}) ELSE player) \cap opponent

Init ==
  /\ kernel \in {"flips", "legal_moves", "has_legal_move"}
  /\ direction \in Direction
  /\ \E region \in Regions :
       \E mine \in SUBSET region :
         \E theirs \in SUBSET (region \ mine) :
           /\ player = Bits(mine)
           /\ opponent = Bits(theirs)
           /\ origin \in (IF kernel = "flips" THEN region \ (mine \cup theirs)
                                            ELSE {<<-1, -1>>})
  /\ run = FirstRun
  /\ captured = FirstRun
  /\ pc = "loop"
  /\ result = {}

Return(bits) ==
  /\ pc' = "done"
  /\ result' = bits
  /\ UNCHANGED <<kernel, direction, origin, player, opponent, run, captured>>

Iterate(next) ==
  /\ run' = next
  /\ captured' = captured \cup next
  /\ UNCHANGED <<kernel, direction, origin, player, opponent, pc, result>>

FlipsLoop ==
  /\ kernel = "flips"
  /\ pc = "loop"
  /\ LET shifted == Shift(direction, run)
     IN  \/ run = {} /\ Return({})
         \/ run # {} /\ shifted \cap player # {} /\ Return(captured)
         \/ run # {} /\ shifted \cap player = {} /\ Iterate(shifted \cap opponent)

LegalMovesLoop ==
  /\ kernel = "legal_moves"
  /\ pc = "loop"
  /\ \/ run = {} /\ Return(Shift(direction, captured) \cap empty)
     \/ run # {} /\ Iterate(Shift(direction, run) \cap opponent)

\* true is returned as the squares that made the loop leave early.
HasLegalMoveLoop ==
  /\ kernel = "has_legal_move"
  /\ pc = "loop"
  /\ LET found == Shift(direction, captured) \cap empty
     IN  \/ run = {} /\ Return({})
         \/ run # {} /\ found # {} /\ Return(found)
         \/ run # {} /\ found = {} /\ Iterate(Shift(direction, run) \cap opponent)

Next == FlipsLoop \/ LegalMovesLoop \/ HasLegalMoveLoop

Spec == Init /\ [][Next]_vars

-----------------------------------------------------------------------------
(***************************************************************************)
(* Properties.                                                             *)
(***************************************************************************)
TypeOK ==
  /\ kernel \in {"flips", "legal_moves", "has_legal_move"}
  /\ direction \in Direction
  /\ origin \in Square \cup {<<-1, -1>>}
  /\ player \subseteq SquareIndex /\ opponent \subseteq SquareIndex
  /\ run \subseteq opponent /\ captured \subseteq opponent
  /\ pc \in {"loop", "done"}
  /\ result \subseteq SquareIndex

\* The position the bitboards stand for.
board ==
  [player |-> Squares(player), opponent |-> Squares(opponent), side_to_move |-> "black"]

\* The loops compute the rules: no bit wraps to the next rank or file, and no
\* run that is not closed by the player is flipped.
LoopsComputeTheRules ==
  pc = "done" =>
    CASE kernel = "flips" ->
           Squares(result) = flips_in_direction(board, origin, direction)
      [] kernel = "legal_moves" ->
           Squares(result) = legal_moves_in_direction(board, direction)
      [] kernel = "has_legal_move" ->
           (result # {}) <=> (legal_moves_in_direction(board, direction) # {})

\* The unrolled kernels that production calls return what the reference loops
\* return ("retained for differential testing", board.h), on runs of every
\* length the board has.
UnrolledMatchesReference ==
  pc = "done" =>
    /\ kernel = "flips" =>
         result = flips_in_direction_unrolled(direction, Bits({origin}), player, opponent)
    /\ kernel = "legal_moves" =>
         result = legal_moves_in_direction_unrolled(direction, player, opponent, empty)
=============================================================================
