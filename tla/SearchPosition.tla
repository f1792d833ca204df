---------------------------- MODULE SearchPosition ----------------------------
(***************************************************************************)
(* The mutable position a search walks over the game tree                  *)
(* (engine/src/search/search_position_internal.h): the board position, its *)
(* incrementally maintained hash key, and the lazily computed mask of      *)
(* legal moves.  A node applies a move on the way down, keeping on the     *)
(* per-ply stack frame the delta and what the undo must put back, and      *)
(* undoes it on the way up.                                                *)
(*                                                                         *)
(* The incremental evaluator state that travels with the position is not   *)
(* part of this module.                                                    *)
(***************************************************************************)
EXTENDS BoardCore, Sequences

CONSTANTS
  MaxPly,                \* kMaxPly: the number of stack frames
  RootPositions          \* the positions a search is started from

ASSUME MaxPlyAssumption == MaxPly \in Nat

ASSUME RootPositionsAssumption ==
  \A p \in RootPositions : p \in Position /\ is_valid(p)

VARIABLES
  position,              \* SearchPositionState::position
  key,                   \* SearchPositionState::key
  legal_mask,            \* SearchPositionState::legal_mask
  legal_mask_valid,      \* SearchPositionState::legal_mask_valid
  frames,                \* StackFrame delta and position_undo, one per ply walked
  walked                 \* history variable: the state each frame was entered with

vars == <<position, key, legal_mask, legal_mask_valid, frames, walked>>

SearchPositionUndo ==
  [key : PositionHash, legal_mask : SUBSET Square, legal_mask_valid : BOOLEAN]

Frame == [delta : MoveDelta, undo : SearchPositionUndo]

\* SearchPositionState as a whole.
State == [position : Position, key : PositionHash,
          legal_mask : SUBSET Square, legal_mask_valid : BOOLEAN]

current_state == [position |-> position, key |-> key,
                  legal_mask |-> legal_mask, legal_mask_valid |-> legal_mask_valid]

TypeOK ==
  /\ position \in Position
  /\ key \in PositionHash
  /\ legal_mask \in SUBSET Square
  /\ legal_mask_valid \in BOOLEAN
  /\ frames \in Seq(Frame)
  /\ walked \in Seq(State)
  /\ Len(frames) <= MaxPly

-----------------------------------------------------------------------------
\* make_search_position: the key is computed from scratch, the mask is not.
Init ==
  /\ position \in RootPositions
  /\ key = hash_position(position)
  /\ legal_mask = {}
  /\ legal_mask_valid = FALSE
  /\ frames = << >>
  /\ walked = << >>

(***************************************************************************)
(* legal_moves(state): fills the cached mask when it is not valid.  Every  *)
(* node does this before anything else.                                    *)
(***************************************************************************)
ComputeLegalMask ==
  /\ ~legal_mask_valid
  /\ legal_mask' = legal_moves(position)
  /\ legal_mask_valid' = TRUE
  /\ UNCHANGED <<position, key, frames, walked>>

\* Mutant: the frame saves that there is a mask, and not the mask.
current_undo_without_mask ==
  [key |-> key, legal_mask |-> {}, legal_mask_valid |-> legal_mask_valid]

current_undo ==
  [key |-> key, legal_mask |-> legal_mask, legal_mask_valid |-> legal_mask_valid]

\* Mutant: the parent's mask is taken for the child's.
apply_move_keeping_mask(delta) ==
  /\ Len(frames) < MaxPly
  /\ frames' = Append(frames, [delta |-> delta, undo |-> current_undo])
  /\ walked' = Append(walked, current_state)
  /\ key' = hash_after_move(position, key, delta)
  /\ position' = apply_move_delta(position, delta)
  /\ UNCHANGED <<legal_mask, legal_mask_valid>>

apply_move(delta) ==
  /\ Len(frames) < MaxPly
  /\ frames' = Append(frames, [delta |-> delta, undo |-> current_undo])
  /\ walked' = Append(walked, current_state)
  /\ key' = hash_after_move(position, key, delta)
  /\ position' = apply_move_delta(position, delta)
  /\ legal_mask' = {}
  /\ legal_mask_valid' = FALSE

(***************************************************************************)
(* search_full_window_child and search_null_window_child: a move of the    *)
(* prepared mask.  require_invariant(made_delta) aborts the process when   *)
(* the mask holds a square that flips nothing, see MaskMovesAreLegal.      *)
(***************************************************************************)
SearchMove(s) ==
  /\ legal_mask_valid
  /\ s \in legal_mask
  /\ apply_move(make_move_delta(position, make_move(s)))

\* Mutant: the opponent is not asked for a move.
SearchPassUnasked ==
  /\ legal_mask_valid
  /\ legal_mask = {}
  /\ apply_move([move |-> make_pass, flipped |-> {}])

(***************************************************************************)
(* search_pass_child: an empty mask at a node that is not terminal.  The   *)
(* pass delta is built without make_move_delta's checks.                   *)
(***************************************************************************)
SearchPass ==
  /\ legal_mask_valid
  /\ legal_mask = {}
  /\ legal_moves(pass_position(position)) # {}
  /\ apply_move([move |-> make_pass, flipped |-> {}])

\* Mutant: the child's mask stays when the parent's is put back.
UndoMoveKeepingMask ==
  /\ frames # << >>
  /\ LET last == frames[Len(frames)]
     IN  /\ position' = undo_move(position, last.delta)
         /\ key' = last.undo.key
         /\ UNCHANGED <<legal_mask, legal_mask_valid>>
  /\ frames' = SubSeq(frames, 1, Len(frames) - 1)
  /\ walked' = SubSeq(walked, 1, Len(walked) - 1)

\* undo_move: back to the parent, whatever the child left in the cache.
UndoMove ==
  /\ frames # << >>
  /\ LET last == frames[Len(frames)]
     IN  /\ position' = undo_move(position, last.delta)
         /\ key' = last.undo.key
         /\ legal_mask' = last.undo.legal_mask
         /\ legal_mask_valid' = last.undo.legal_mask_valid
  /\ frames' = SubSeq(frames, 1, Len(frames) - 1)
  /\ walked' = SubSeq(walked, 1, Len(walked) - 1)

Next ==
  \/ ComputeLegalMask
  \/ \E s \in Square : SearchMove(s)
  \/ SearchPass
  \/ UndoMove

Spec == Init /\ [][Next]_vars

-----------------------------------------------------------------------------
(***************************************************************************)
(* Properties.                                                             *)
(***************************************************************************)

\* The incremental key of hash_after_move, restored by undo, never drifts
\* from hash_position, which docs/architecture/search.md calls the source of
\* truth: a drifted key would make the transposition table answer for
\* another position.
KeyIsPositionHash == key = hash_position(position)

\* A mask that is marked valid is the mask of the position it is next to,
\* also right after an undo has put an older mask back.
LegalMaskIsFresh == legal_mask_valid => legal_mask = legal_moves(position)

\* Every square of a valid mask can be played: the mask, walked from the
\* player's discs, and the flips, walked from the square, agree, so the
\* require_invariant(made_delta) of the search never aborts.
MaskMovesAreLegal ==
  legal_mask_valid => \A s \in legal_mask : is_legal(position, make_move(s))

\* The two sides never share a square and a pass that the search takes is
\* one make_move_delta would have accepted, although nobody asked it.
WalkIsLegal ==
  /\ is_valid(position)
  /\ \A i \in 1 .. Len(frames) : is_legal(walked[i].position, frames[i].delta.move)

\* Position in which the i-th frame's move ended, while the walk is below it.
entered(i) == IF i = Len(walked) THEN position ELSE walked[i + 1].position

\* Every frame of the stack holds what its undo needs: the delta leads from
\* the position the frame was entered with to the next one, the saved key and
\* mask are the ones it was entered with, and they are those of that position.
FramesMatchWalk ==
  /\ Len(walked) = Len(frames)
  /\ \A i \in 1 .. Len(frames) :
       LET before == walked[i]
           frame == frames[i]
       IN  /\ is_valid(before.position)
           /\ frame.delta = make_move_delta(before.position, frame.delta.move)
           /\ entered(i) = apply_move_delta(before.position, frame.delta)
           /\ frame.undo = [key |-> before.key, legal_mask |-> before.legal_mask,
                            legal_mask_valid |-> before.legal_mask_valid]
           /\ before.key = hash_position(before.position)
           /\ before.legal_mask_valid => before.legal_mask = legal_moves(before.position)

\* Undo gives back exactly the state the frame was entered with, the position
\* together with its key, its mask and whether the mask is valid, however many
\* moves, passes, mask computations and undos were made below it.
UndoRestores ==
  [][Len(frames') < Len(frames) => current_state' = walked[Len(walked)]]_vars
=============================================================================
