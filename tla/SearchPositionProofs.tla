-------------------------- MODULE SearchPositionProofs --------------------------
(***************************************************************************)
(* Facts about the rules of the game that hold on a board of any size, and *)
(* the search position that stays consistent with them, from any set of    *)
(* valid roots and for any depth of the walk.                              *)
(***************************************************************************)
EXTENDS SearchPosition, TLAPS

-----------------------------------------------------------------------------
(***************************************************************************)
(* The rules (BoardCore).                                                  *)
(***************************************************************************)
\* Only discs of the opponent are flipped, and only on a valid position.
LEMMA FlipsAreOpponentDiscs ==
  ASSUME NEW p \in Position, NEW s
  PROVE  /\ flips_for_move(p, s) \subseteq p.opponent
         /\ flips_for_move(p, s) # {} =>
              /\ is_valid(p)
              /\ s \in Square
              /\ s \notin occupied(p)
  BY DEF flips_for_move, flips_in_direction

\* Walking n steps along d and then back along the opposite direction visits
\* the same squares.
LEMMA AtReversed ==
  ASSUME NEW s \in Int \X Int, NEW d \in Direction, NEW n \in Int, NEW k \in Int
  PROVE  /\ <<-d[1], -d[2]>> \in Direction
         /\ At(At(s, d, n), <<-d[1], -d[2]>>, k) = At(s, d, n - k)
         /\ At(s, d, n) \in Int \X Int
         /\ At(s, d, 0) = s
<1>1. d[1] \in -1 .. 1 /\ d[2] \in -1 .. 1 /\ d = <<d[1], d[2]>>
  BY DEF Direction
<1>2. PICK a, b \in Int : a = d[1] /\ b = d[2]
  BY <1>1
<1>3. PICK x, y \in Int : s = <<x, y>>
  OBVIOUS
<1>4. <<-d[1], -d[2]>> \in Direction
  BY <1>1, <1>2 DEF Direction
<1>5. At(s, d, n) = <<x + n * a, y + n * b>>
  BY <1>2, <1>3 DEF At
<1>6. /\ At(At(s, d, n), <<-d[1], -d[2]>>, k)
           = <<(x + n * a) + k * (-a), (y + n * b) + k * (-b)>>
      /\ At(s, d, n - k) = <<x + (n - k) * a, y + (n - k) * b>>
      /\ At(s, d, 0) = <<x + 0 * a, y + 0 * b>>
  BY <1>2, <1>3, <1>5 DEF At
<1>7. \A u \in Int, v \in {-1, 0, 1} : /\ (u + n * v) + k * (-v) = u + (n - k) * v
                                       /\ u + 0 * v = u
                                       /\ u + n * v \in Int
  OBVIOUS
<1>8. a \in {-1, 0, 1} /\ b \in {-1, 0, 1}
  BY <1>1, <1>2
<1>. QED
  BY <1>3, <1>4, <1>5, <1>6, <1>7, <1>8

\* A bracketed run of opponent discs, seen from its other end, is a bracketed
\* run of the same length in the opposite direction.
LEMMA RunReversed ==
  ASSUME NEW p \in Position, NEW s \in Square, NEW d \in Direction, NEW n \in Reach,
         OpponentRun(p, s, d, n)
  PROVE  LET back == <<-d[1], -d[2]>>
         IN  /\ back \in Direction
             /\ OpponentRun(p, At(s, d, n), back, n)
             /\ At(At(s, d, n), back, n) = s
<1>. DEFINE back == <<-d[1], -d[2]>>
            t == At(s, d, n)
<1>1. s \in Int \X Int /\ n \in Int
  BY BoardSizeAssumption DEF Square, Coordinate, Reach
<1>2. \A k \in Int : At(t, back, k) = At(s, d, n - k)
  BY <1>1, AtReversed
<1>3. back \in Direction /\ At(t, back, n) = s
  BY <1>1, <1>2, AtReversed
<1>4. ASSUME NEW k \in 1 .. n - 1
      PROVE  At(t, back, k) \in p.opponent
  <2>1. n - k \in 1 .. n - 1
    BY <1>1
  <2>2. At(s, d, n - k) \in p.opponent
    BY <2>1 DEF OpponentRun
  <2>. QED
    BY <1>2, <2>2
<1>5. n >= 2
  BY DEF OpponentRun
<1>. QED
  BY <1>3, <1>4, <1>5 DEF OpponentRun

\* The squares of legal_moves, found walking outwards from the player's discs,
\* are exactly the squares from which flips_for_move walks back to one.
THEOREM LegalMovesAreTheMovesThatFlip ==
  ASSUME NEW p \in Position, NEW s \in Square
  PROVE  s \in legal_moves(p) <=> flips_for_move(p, s) # {}
<1>1. ASSUME s \in legal_moves(p)
      PROVE  flips_for_move(p, s) # {}
  <2>1. PICK d \in Direction, u \in p.player, n \in Reach :
          OpponentRun(p, u, d, n) /\ s = At(u, d, n)
    BY <1>1 DEF legal_moves, legal_moves_in_direction
  <2>2. u \in Square
    BY DEF Position
  <2>. DEFINE back == <<-d[1], -d[2]>>
  <2>3. back \in Direction /\ OpponentRun(p, s, back, n) /\ At(s, back, n) \in p.player
    BY <2>1, <2>2, RunReversed
  <2>4. At(s, back, 1) \in p.opponent /\ 1 \in 1 .. n - 1
    BY <2>1, <2>3 DEF OpponentRun, Reach
  <2>5. At(s, back, 1) \in flips_in_direction(p, s, back)
    BY <2>3, <2>4 DEF flips_in_direction
  <2>6. is_valid(p) /\ s \notin occupied(p)
    BY <1>1 DEF legal_moves, legal_moves_in_direction
  <2>. QED
    BY <2>3, <2>5, <2>6 DEF flips_for_move
<1>2. ASSUME flips_for_move(p, s) # {}
      PROVE  s \in legal_moves(p)
  <2>1. is_valid(p) /\ s \notin occupied(p)
    BY <1>2 DEF flips_for_move
  <2>2. PICK d \in Direction, n \in Reach :
          OpponentRun(p, s, d, n) /\ At(s, d, n) \in p.player
    BY <1>2, <2>1 DEF flips_for_move, flips_in_direction
  <2>. DEFINE back == <<-d[1], -d[2]>>
              u == At(s, d, n)
  <2>3. back \in Direction /\ OpponentRun(p, u, back, n) /\ s = At(u, back, n)
    BY <2>2, RunReversed
  <2>4. s \in legal_moves_in_direction(p, back)
    BY <2>1, <2>2, <2>3 DEF legal_moves_in_direction
  <2>. QED
    BY <2>1, <2>3, <2>4 DEF legal_moves
<1>. QED
  BY <1>1, <1>2

-----------------------------------------------------------------------------
\* The deltas make_move_delta produces for a legal move.
LEMMA LegalDelta ==
  ASSUME NEW p \in Position, NEW m \in Move, is_legal(p, m)
  PROVE  LET delta == make_move_delta(p, m)
         IN  /\ is_valid(p)
             /\ delta \in MoveDelta
             /\ delta.move = m
             /\ delta.flipped \subseteq p.opponent
             /\ m # make_pass => /\ m.kind = "normal"
                                 /\ m.square \in Square
                                 /\ m.square \notin occupied(p)
                                 /\ delta.flipped # {}
             /\ m = make_pass => m.kind = "pass" /\ delta.flipped = {}
<1>1. CASE m = make_pass
  BY <1>1 DEF is_legal, make_move_delta, MoveDelta, make_pass
<1>2. CASE m # make_pass
  <2>1. PICK s \in Square : m = make_move(s)
    BY <1>2 DEF Move
  <2>2. m.kind = "normal" /\ m.square = s
    BY <2>1 DEF make_move
  <2>3. flips_for_move(p, s) # {}
    BY <2>2 DEF is_legal
  <2>. QED
    BY <1>2, <2>2, <2>3, FlipsAreOpponentDiscs DEF make_move_delta, MoveDelta, Position
<1>. QED
  BY <1>1, <1>2

\* A legal move leads to a valid position, adds exactly its own square, and
\* undo_move takes it back.
THEOREM UndoInvertsApply ==
  ASSUME NEW p \in Position, NEW m \in Move, is_legal(p, m)
  PROVE  LET delta == make_move_delta(p, m)
             after == apply_move_delta(p, delta)
         IN  /\ after \in Position
             /\ is_valid(after)
             /\ undo_move(after, delta) = p
             /\ occupied(after) = occupied(p)
                   \cup (IF m = make_pass THEN {} ELSE {m.square})
<1>. DEFINE delta == make_move_delta(p, m)
            after == apply_move_delta(p, delta)
<1>1. /\ p = [player |-> p.player, opponent |-> p.opponent, side_to_move |-> p.side_to_move]
      /\ p.player \subseteq Square
      /\ p.opponent \subseteq Square
      /\ p.side_to_move \in Color
  BY DEF Position
<1>2. opposite(opposite(p.side_to_move)) = p.side_to_move /\ opposite(p.side_to_move) \in Color
  BY <1>1 DEF opposite, Color
<1>3. CASE m = make_pass
  <2>1. delta.move.kind = "pass" /\ is_valid(p)
    BY <1>3, LegalDelta
  <2>2. after = pass_position(p) /\ undo_move(after, delta) = pass_position(after)
    BY <2>1 DEF apply_move_delta, undo_move
  <2>. QED
    BY <1>1, <1>2, <1>3, <2>1, <2>2 DEF pass_position, Position, is_valid, occupied
<1>4. CASE m # make_pass
  <2>1. /\ delta.move = m /\ m.kind = "normal" /\ is_valid(p)
        /\ delta.flipped \subseteq p.opponent
        /\ m.square \in Square /\ m.square \notin occupied(p)
    BY <1>4, LegalDelta
  <2>. DEFINE f == delta.flipped
              s == m.square
  <2>2. after = [player |-> p.opponent \ f,
                 opponent |-> p.player \cup {s} \cup f,
                 side_to_move |-> opposite(p.side_to_move)]
    BY <2>1 DEF apply_move_delta
  <2>3. undo_move(after, delta) = [player |-> (p.player \cup {s} \cup f) \ ({s} \cup f),
                                   opponent |-> (p.opponent \ f) \cup f,
                                   side_to_move |-> opposite(opposite(p.side_to_move))]
    BY <2>1, <2>2 DEF undo_move
  <2>4. p.player \cap p.opponent = {} /\ s \notin p.player /\ s \notin p.opponent
    BY <2>1 DEF is_valid, occupied
  <2>5. /\ (p.player \cup {s} \cup f) \ ({s} \cup f) = p.player
        /\ (p.opponent \ f) \cup f = p.opponent
        /\ (p.opponent \ f) \cap (p.player \cup {s} \cup f) = {}
        /\ (p.opponent \ f) \cup (p.player \cup {s} \cup f) = (p.player \cup p.opponent) \cup {s}
        /\ p.opponent \ f \subseteq Square /\ p.player \cup {s} \cup f \subseteq Square
    BY <1>1, <2>1, <2>4
  <2>6. after \in Position /\ is_valid(after)
    BY <1>2, <2>2, <2>5 DEF Position, is_valid
  <2>7. undo_move(after, delta) = p
    BY <1>1, <1>2, <2>3, <2>5
  <2>8. occupied(after) = occupied(p) \cup {s}
    BY <2>2, <2>5 DEF occupied
  <2>. QED
    BY <1>4, <2>6, <2>7, <2>8
<1>. QED
  BY <1>3, <1>4

-----------------------------------------------------------------------------
\* A hash holds the key of each disc once, and the side key when white moves:
\* the three parts of hash_position have no key in common.
LEMMA HashMembers ==
  ASSUME NEW p \in Position
  PROVE  /\ hash_position(p) = side_to_move_key(p.side_to_move)
                                 \cup piece_keys("black", black_discs(p))
                                 \cup piece_keys("white", white_discs(p))
         /\ hash_position(p) \in PositionHash
<1>1. /\ black_discs(p) \subseteq Square /\ white_discs(p) \subseteq Square
      /\ p.side_to_move \in {"black", "white"}
  BY DEF Position, black_discs, white_discs, Color
<1>2. piece_keys("black", black_discs(p)) \cap piece_keys("white", white_discs(p)) = {}
  BY DEF piece_keys
<1>3. \A c \in Color : side_to_move_key(p.side_to_move) \cap piece_keys(c, Square) = {}
  BY DEF side_to_move_key, piece_keys, Color
<1>4. \A c \in Color, S \in SUBSET Square : piece_keys(c, S) \subseteq piece_keys(c, Square)
  BY DEF piece_keys
<1>5. \A c \in Color : side_to_move_key(p.side_to_move) \cap piece_keys(c, black_discs(p)) = {}
                    /\ side_to_move_key(p.side_to_move) \cap piece_keys(c, white_discs(p)) = {}
  BY <1>1, <1>3, <1>4
<1>6. "black" \in Color /\ "white" \in Color
  BY DEF Color
<1>7. hash_position(p) = side_to_move_key(p.side_to_move)
                           \cup piece_keys("black", black_discs(p))
                           \cup piece_keys("white", white_discs(p))
  BY <1>2, <1>5, <1>6 DEF hash_position, Xor
<1>8. side_to_move_key(p.side_to_move) \subseteq side_to_move_key("white")
  BY <1>1 DEF side_to_move_key
<1>9. \A c \in Color, S \in SUBSET Square : piece_keys(c, S) \subseteq Color \X Square
  BY DEF piece_keys
<1>. QED
  BY <1>1, <1>6, <1>7, <1>8, <1>9 DEF PositionHash

\* The incremental hash of a legal move is the hash of the position it leads
\* to, for normal moves, any number of flips, and passes.
THEOREM HashAfterMoveIsHashOfResult ==
  ASSUME NEW p \in Position, NEW m \in Move, is_legal(p, m)
  PROVE  LET delta == make_move_delta(p, m)
         IN  hash_after_move(p, hash_position(p), delta)
               = hash_position(apply_move_delta(p, delta))
<1>. DEFINE delta == make_move_delta(p, m)
            after == apply_move_delta(p, delta)
            turned == Xor(hash_position(p), side_to_move_key("white"))
            pieces(q) == piece_keys("black", black_discs(q)) \cup piece_keys("white", white_discs(q))
            me == p.side_to_move
            you == opposite(me)
<1>1. p.side_to_move \in {"black", "white"} /\ p.player \subseteq Square /\ p.opponent \subseteq Square
  BY DEF Position, Color
<1>2. after \in Position /\ is_valid(after) /\ after.side_to_move = you /\ delta.move = m
  BY UndoInvertsApply, LegalDelta DEF apply_move_delta, pass_position
<1>3. /\ pieces(p) = piece_keys(me, p.player) \cup piece_keys(you, p.opponent)
      /\ pieces(after) = piece_keys(you, after.player) \cup piece_keys(me, after.opponent)
  BY <1>1, <1>2 DEF black_discs, white_discs, opposite
<1>4. pieces(p) \cap side_to_move_key("white") = {}
  <2>1. \A s \in Square : s # <<-1, -1>>
    BY DEF Square, Coordinate
  <2>. QED
    BY <1>1, <1>3, <2>1 DEF piece_keys, side_to_move_key
<1>5. turned = side_to_move_key(you) \cup pieces(p)
  <2>1. hash_position(p) = side_to_move_key(me) \cup pieces(p)
    BY HashMembers
  <2>2. CASE me = "black"
    <3>1. side_to_move_key(me) = {} /\ you = "white"
      BY <2>2 DEF side_to_move_key, opposite
    <3>. HIDE DEF pieces
    <3>. QED
      BY <1>4, <2>1, <3>1 DEF Xor
  <2>3. CASE me = "white"
    <3>1. side_to_move_key(you) = {}
      BY <2>3 DEF side_to_move_key, opposite
    <3>. HIDE DEF pieces
    <3>. QED
      BY <1>4, <2>1, <2>3, <3>1 DEF Xor
  <2>. QED
    BY <1>1, <2>2, <2>3
<1>6. hash_position(after) = side_to_move_key(you) \cup pieces(after)
  BY <1>2, HashMembers
<1>7. CASE m = make_pass
  <2>1. delta.move.kind = "pass"
    BY <1>7, LegalDelta
  <2>2. after = pass_position(p)
    BY <2>1 DEF apply_move_delta
  <2>3. pieces(after) = pieces(p)
    BY <1>3, <2>2 DEF pass_position
  <2>. QED
    BY <1>5, <1>6, <2>1, <2>3 DEF hash_after_move
<1>8. CASE m # make_pass
  <2>. DEFINE f == delta.flipped
              s == m.square
  <2>1. /\ m.kind = "normal" /\ is_valid(p) /\ f \subseteq p.opponent
        /\ s \in Square /\ s \notin occupied(p)
    BY <1>8, LegalDelta
  <2>2. after.player = p.opponent \ f /\ after.opponent = p.player \cup {s} \cup f
    BY <1>2, <2>1 DEF apply_move_delta
  <2>3. hash_after_move(p, hash_position(p), delta)
          = Xor(Xor(Xor(turned, piece_keys(me, {s})), piece_keys(you, f)), piece_keys(me, f))
    BY <1>2, <2>1 DEF hash_after_move
  <2>4. me # you
    BY <1>1 DEF opposite
  <2>5. p.player \cap p.opponent = {} /\ s \notin p.player /\ s \notin p.opponent
    BY <2>1 DEF is_valid, occupied
  <2>6. \A S, T : piece_keys(me, S) \cap piece_keys(you, T) = {}
    BY <2>4 DEF piece_keys
  <2>7. \A c : /\ \A S, T : piece_keys(c, S \cup T) = piece_keys(c, S) \cup piece_keys(c, T)
               /\ \A S, T : piece_keys(c, S \ T) = piece_keys(c, S) \ piece_keys(c, T)
               /\ \A S, T : S \cap T = {} => piece_keys(c, S) \cap piece_keys(c, T) = {}
               /\ \A S, T : S \subseteq T => piece_keys(c, S) \subseteq piece_keys(c, T)
    BY DEF piece_keys
  <2>8. side_to_move_key(you) \cap piece_keys(me, Square) = {}
        /\ side_to_move_key(you) \cap piece_keys(you, Square) = {}
    <3>1. \A x \in Square : x # <<-1, -1>>
      BY DEF Square, Coordinate
    <3>. QED
      BY <3>1 DEF piece_keys, side_to_move_key
  <2>. DEFINE P == piece_keys(me, p.player)
              O == piece_keys(you, p.opponent)
              S == piece_keys(me, {s})
              Fme == piece_keys(me, f)
              Fyou == piece_keys(you, f)
              K == side_to_move_key(you)
  <2>9. /\ Fyou \subseteq O
        /\ P \cap S = {} /\ P \cap Fme = {} /\ S \cap Fme = {}
        /\ P \cap O = {} /\ S \cap O = {} /\ Fme \cap O = {}
        /\ K \cap P = {} /\ K \cap O = {} /\ K \cap S = {} /\ K \cap Fme = {}
    <3>1. p.player \cap {s} = {} /\ p.player \cap f = {} /\ {s} \cap f = {}
      BY <2>1, <2>5
    <3>2. P \subseteq piece_keys(me, Square) /\ S \subseteq piece_keys(me, Square)
          /\ Fme \subseteq piece_keys(me, Square) /\ O \subseteq piece_keys(you, Square)
      BY <1>1, <2>1 DEF piece_keys
    <3>. QED
      BY <2>1, <2>6, <2>7, <2>8, <3>1, <3>2
  <2>10. pieces(after) = (O \ Fyou) \cup (P \cup S \cup Fme)
    <3>1. pieces(after) = piece_keys(you, p.opponent \ f)
                            \cup piece_keys(me, p.player \cup {s} \cup f)
      BY <1>3, <2>2
    <3>2. piece_keys(you, p.opponent \ f) = O \ Fyou
      BY <2>7
    <3>3. piece_keys(me, p.player \cup {s} \cup f) = P \cup S \cup Fme
      BY DEF piece_keys
    <3>. QED
      BY <3>1, <3>2, <3>3
  <2>11. Xor(Xor(Xor(K \cup (P \cup O), S), Fyou), Fme) = K \cup ((O \ Fyou) \cup (P \cup S \cup Fme))
    <3>. HIDE DEF P, O, S, Fme, Fyou, K
    <3>1. Xor(K \cup (P \cup O), S) = K \cup P \cup O \cup S
      BY <2>9 DEF Xor
    <3>2. Xor(K \cup P \cup O \cup S, Fyou) = K \cup P \cup (O \ Fyou) \cup S
      BY <2>9 DEF Xor
    <3>3. Xor(K \cup P \cup (O \ Fyou) \cup S, Fme) = K \cup P \cup (O \ Fyou) \cup S \cup Fme
      BY <2>9 DEF Xor
    <3>. QED
      BY <3>1, <3>2, <3>3
  <2>. QED
    BY <1>3, <1>5, <1>6, <2>3, <2>10, <2>11
<1>. QED
  BY <1>7, <1>8

-----------------------------------------------------------------------------
(***************************************************************************)
(* The search position.                                                    *)
(***************************************************************************)

\* The inductive invariant: what an undo will put back is correct for the
\* position it will be put back next to, for every frame of the stack.
IInv ==
  /\ TypeOK
  /\ KeyIsPositionHash
  /\ LegalMaskIsFresh
  /\ WalkIsLegal
  /\ FramesMatchWalk

\* has_legal_move and legal_moves agree, and the mask is a set of squares.
LEMMA MaskOfPosition ==
  ASSUME NEW p \in Position, is_valid(p)
  PROVE  /\ legal_moves(p) \subseteq Square
         /\ has_legal_move(p) <=> legal_moves(p) # {}
  BY DEF legal_moves, has_legal_move, legal_moves_in_direction

\* Applying a legal move, as both kinds of child search do, keeps the
\* invariant: the step shared by SearchMove and SearchPass.
LEMMA ApplyKeepsIInv ==
  ASSUME IInv, NEW m \in Move, is_legal(position, m),
         apply_move(make_move_delta(position, m))
  PROVE  IInv'
<1>. DEFINE delta == make_move_delta(position, m)
            n == Len(frames)
            frame == [delta |-> delta, undo |-> current_undo]
<1>1. /\ position \in Position /\ key \in PositionHash /\ legal_mask \in SUBSET Square
      /\ legal_mask_valid \in BOOLEAN /\ frames \in Seq(Frame) /\ walked \in Seq(State)
      /\ n \in Nat /\ n <= MaxPly /\ Len(walked) = n /\ is_valid(position)
  BY DEF IInv, TypeOK, FramesMatchWalk, WalkIsLegal
<1>2. /\ delta \in MoveDelta
      /\ delta.move = m
  BY <1>1, LegalDelta
<1>3. /\ position' = apply_move_delta(position, delta)
      /\ position' \in Position
      /\ is_valid(position')
  BY <1>1, UndoInvertsApply DEF apply_move
<1>4. key' = hash_position(position') /\ key' \in PositionHash
  BY <1>1, <1>3, HashAfterMoveIsHashOfResult, HashMembers DEF apply_move, IInv, KeyIsPositionHash
<1>5. frame \in Frame
  BY <1>1, <1>2 DEF Frame, current_undo, SearchPositionUndo
<1>5a. current_state \in State /\ current_state.position = position
  BY <1>1 DEF current_state, State
<1>6. /\ frames' = Append(frames, frame) /\ walked' = Append(walked, current_state)
      /\ Len(frames') = n + 1 /\ Len(walked') = n + 1
      /\ frames' \in Seq(Frame) /\ walked' \in Seq(State)
      /\ Len(frames') <= MaxPly
      /\ frames'[n + 1] = frame /\ walked'[n + 1] = current_state
      /\ \A i \in 1 .. n : frames'[i] = frames[i] /\ walked'[i] = walked[i]
  BY <1>1, <1>5, <1>5a, MaxPlyAssumption DEF apply_move
<1>7. legal_mask' = {} /\ legal_mask_valid' = FALSE
  BY DEF apply_move
<1>8. TypeOK' /\ KeyIsPositionHash' /\ LegalMaskIsFresh'
  BY <1>3, <1>4, <1>6, <1>7 DEF TypeOK, KeyIsPositionHash, LegalMaskIsFresh
<1>9. WalkIsLegal'
  <2>1. ASSUME NEW i \in 1 .. n + 1
        PROVE  is_legal(walked'[i].position, frames'[i].delta.move)
    <3>1. CASE i = n + 1
      BY <1>2, <1>5a, <1>6, <3>1
    <3>2. CASE i \in 1 .. n
      BY <1>6, <3>2 DEF IInv, WalkIsLegal
    <3>. QED
      BY <1>1, <3>1, <3>2
  <2>. QED
    BY <1>3, <1>6, <2>1 DEF WalkIsLegal
<1>10. FramesMatchWalk'
  <2>1. ASSUME NEW i \in 1 .. n + 1
        PROVE  /\ is_valid(walked'[i].position)
               /\ frames'[i].delta = make_move_delta(walked'[i].position, frames'[i].delta.move)
               /\ entered(i)' = apply_move_delta(walked'[i].position, frames'[i].delta)
               /\ frames'[i].undo = [key |-> walked'[i].key, legal_mask |-> walked'[i].legal_mask,
                                     legal_mask_valid |-> walked'[i].legal_mask_valid]
               /\ walked'[i].key = hash_position(walked'[i].position)
               /\ walked'[i].legal_mask_valid
                    => walked'[i].legal_mask = legal_moves(walked'[i].position)
    <3>1. CASE i = n + 1
      BY <1>1, <1>2, <1>3, <1>6, <3>1
         DEF entered, current_undo, current_state, IInv, KeyIsPositionHash, LegalMaskIsFresh
    <3>2. CASE i \in 1 .. n
      <4>1. entered(i)' = walked'[i + 1].position
        BY <1>1, <1>6, <3>2 DEF entered
      <4>2. walked'[i + 1].position = entered(i)
        BY <1>1, <1>5a, <1>6, <3>2 DEF entered
      <4>. QED
        BY <1>1, <1>6, <3>2, <4>1, <4>2 DEF IInv, FramesMatchWalk
    <3>. QED
      BY <1>1, <3>1, <3>2
  <2>. QED
    BY <1>6, <2>1 DEF FramesMatchWalk
<1>. QED
  BY <1>8, <1>9, <1>10 DEF IInv

\* Undoing the last frame keeps the invariant and gives back the state the
\* frame was entered with.
LEMMA UndoKeepsIInv ==
  ASSUME IInv, UndoMove
  PROVE  IInv' /\ current_state' = walked[Len(walked)]
<1>. DEFINE n == Len(frames)
            last == frames[n]
            before == walked[n]
<1>1. /\ frames \in Seq(Frame) /\ walked \in Seq(State)
      /\ n \in Nat /\ n >= 1 /\ n <= MaxPly /\ Len(walked) = n
      /\ last \in Frame /\ before \in State
  BY MaxPlyAssumption DEF IInv, TypeOK, FramesMatchWalk, UndoMove
<1>2. /\ is_valid(before.position)
      /\ is_legal(before.position, last.delta.move)
      /\ last.delta = make_move_delta(before.position, last.delta.move)
      /\ position = apply_move_delta(before.position, last.delta)
      /\ last.undo.key = before.key
      /\ last.undo.legal_mask = before.legal_mask
      /\ last.undo.legal_mask_valid = before.legal_mask_valid
      /\ before.key = hash_position(before.position)
      /\ before.legal_mask_valid => before.legal_mask = legal_moves(before.position)
  <2>1. n \in 1 .. n /\ entered(n) = position
    BY <1>1 DEF entered
  <2>2. is_legal(before.position, last.delta.move)
    BY <2>1 DEF IInv, WalkIsLegal
  <2>3. /\ is_valid(before.position)
        /\ last.delta = make_move_delta(before.position, last.delta.move)
        /\ entered(n) = apply_move_delta(before.position, last.delta)
        /\ last.undo = [key |-> before.key, legal_mask |-> before.legal_mask,
                        legal_mask_valid |-> before.legal_mask_valid]
        /\ before.key = hash_position(before.position)
        /\ before.legal_mask_valid => before.legal_mask = legal_moves(before.position)
    BY <2>1 DEF IInv, FramesMatchWalk
  <2>. HIDE DEF n, last, before
  <2>. QED
    BY <2>1, <2>2, <2>3
<1>3. last.delta.move \in Move /\ before.position \in Position
  BY <1>1 DEF Frame, MoveDelta, State
<1>4. position' = before.position
  BY <1>1, <1>2, <1>3, UndoInvertsApply DEF UndoMove
<1>5. /\ frames' = SubSeq(frames, 1, n - 1) /\ walked' = SubSeq(walked, 1, n - 1)
      /\ frames' \in Seq(Frame) /\ walked' \in Seq(State)
      /\ Len(frames') = n - 1 /\ Len(walked') = n - 1
      /\ \A i \in 1 .. n - 1 : frames'[i] = frames[i] /\ walked'[i] = walked[i]
  BY <1>1 DEF UndoMove
<1>6. /\ key' = last.undo.key /\ legal_mask' = last.undo.legal_mask
      /\ legal_mask_valid' = last.undo.legal_mask_valid
  BY DEF UndoMove
<1>7. TypeOK' /\ KeyIsPositionHash' /\ LegalMaskIsFresh'
  BY <1>1, <1>2, <1>4, <1>5, <1>6, MaxPlyAssumption
     DEF TypeOK, KeyIsPositionHash, LegalMaskIsFresh, Frame, SearchPositionUndo, State
<1>8. WalkIsLegal'
  BY <1>1, <1>2, <1>4, <1>5 DEF IInv, WalkIsLegal
<1>9. FramesMatchWalk'
  <2>1. \A i \in 1 .. n - 1 : entered(i)' = entered(i)
    BY <1>1, <1>4, <1>5 DEF entered
  <2>. QED
    BY <1>1, <1>5, <2>1 DEF IInv, FramesMatchWalk
<1>10. current_state' = before
  BY <1>1, <1>2, <1>4, <1>6 DEF current_state, State
<1>. QED
  BY <1>1, <1>7, <1>8, <1>9, <1>10 DEF IInv

LEMMA InitIInv == Init => IInv
<1>. SUFFICES ASSUME Init PROVE IInv
  OBVIOUS
<1>1. position \in Position /\ is_valid(position)
  BY RootPositionsAssumption DEF Init
<1>2. key \in PositionHash
  BY <1>1, HashMembers DEF Init
<1>3. frames = << >> /\ walked = << >> /\ legal_mask = {} /\ legal_mask_valid = FALSE
  BY DEF Init
<1>4. TypeOK
  <2>1. frames \in Seq(Frame) /\ walked \in Seq(State) /\ Len(frames) = 0
    BY <1>3
  <2>2. Len(frames) <= MaxPly
    BY <2>1, MaxPlyAssumption
  <2>. QED
    BY <1>1, <1>2, <1>3, <2>1, <2>2 DEF TypeOK
<1>5. KeyIsPositionHash /\ LegalMaskIsFresh
  BY <1>3 DEF Init, KeyIsPositionHash, LegalMaskIsFresh
<1>6. WalkIsLegal /\ FramesMatchWalk
  BY <1>1, <1>3 DEF WalkIsLegal, FramesMatchWalk
<1>. QED
  BY <1>4, <1>5, <1>6 DEF IInv

LEMMA NextIInv == IInv /\ [Next]_vars => IInv'
<1>. SUFFICES ASSUME IInv, [Next]_vars PROVE IInv'
  OBVIOUS
<1>0. position \in Position /\ is_valid(position)
  BY DEF IInv, TypeOK, WalkIsLegal
<1>1. CASE ComputeLegalMask
  <2>1. legal_moves(position) \subseteq Square
    BY <1>0, MaskOfPosition
  <2>2. TypeOK' /\ KeyIsPositionHash' /\ LegalMaskIsFresh'
    BY <1>1, <2>1 DEF ComputeLegalMask, IInv, TypeOK, KeyIsPositionHash, LegalMaskIsFresh
  <2>3. WalkIsLegal' /\ FramesMatchWalk'
    BY <1>1 DEF ComputeLegalMask, IInv, WalkIsLegal, FramesMatchWalk, entered
  <2>. QED
    BY <2>2, <2>3 DEF IInv
<1>2. ASSUME NEW s \in Square, SearchMove(s)
      PROVE  IInv'
  <2>1. flips_for_move(position, s) # {}
    BY <1>0, <1>2, LegalMovesAreTheMovesThatFlip DEF SearchMove, IInv, LegalMaskIsFresh
  <2>2. make_move(s) \in Move /\ is_legal(position, make_move(s))
    BY <2>1 DEF Move, make_move, is_legal
  <2>. QED
    BY <1>2, <2>2, ApplyKeepsIInv DEF SearchMove
<1>3. CASE SearchPass
  <2>1. ~has_legal_move(position)
    BY <1>0, <1>3, MaskOfPosition DEF SearchPass, IInv, LegalMaskIsFresh
  <2>2. pass_position(position) \in Position /\ is_valid(pass_position(position))
    BY <1>0 DEF pass_position, Position, is_valid, opposite, Color
  <2>3. has_legal_move(pass_position(position))
    BY <1>3, <2>2, MaskOfPosition DEF SearchPass
  <2>4. make_pass \in Move /\ is_legal(position, make_pass)
    BY <1>0, <2>1, <2>3 DEF Move, make_pass, is_legal
  <2>5. make_move_delta(position, make_pass) = [move |-> make_pass, flipped |-> {}]
    BY DEF make_move_delta, make_pass
  <2>. QED
    BY <1>3, <2>4, <2>5, ApplyKeepsIInv DEF SearchPass
<1>4. CASE UndoMove
  BY <1>4, UndoKeepsIInv
<1>5. CASE UNCHANGED vars
  BY <1>5 DEF vars, IInv, TypeOK, KeyIsPositionHash, LegalMaskIsFresh, WalkIsLegal,
              FramesMatchWalk, entered
<1>. QED
  BY <1>1, <1>2, <1>3, <1>4, <1>5 DEF Next

THEOREM SpecIInv == Spec => []IInv
  BY InitIInv, NextIInv, PTL DEF Spec

\* Every variable keeps its type and the stack its bound.
THEOREM TypeCorrect == Spec => []TypeOK
  BY SpecIInv, PTL DEF IInv

\* The incremental key is the hash of the position at every step.
THEOREM KeyCorrect == Spec => []KeyIsPositionHash
  BY SpecIInv, PTL DEF IInv

\* A mask marked valid is that of the position, also right after an undo.
THEOREM MaskCorrect == Spec => []LegalMaskIsFresh
  BY SpecIInv, PTL DEF IInv

\* The walk is a legal one, and every frame below it holds what its undo needs.
THEOREM WalkCorrect == Spec => [](WalkIsLegal /\ FramesMatchWalk)
  BY SpecIInv, PTL DEF IInv

\* A valid mask holds only moves that can be made: the search never aborts on
\* require_invariant(made_delta).
THEOREM MaskMovesCorrect == Spec => []MaskMovesAreLegal
<1>1. IInv => MaskMovesAreLegal
  <2>. SUFFICES ASSUME IInv, legal_mask_valid, NEW s \in legal_mask
                PROVE  is_legal(position, make_move(s))
    BY DEF MaskMovesAreLegal
  <2>1. position \in Position /\ s \in Square /\ s \in legal_moves(position)
    BY DEF IInv, TypeOK, LegalMaskIsFresh
  <2>. QED
    BY <2>1, LegalMovesAreTheMovesThatFlip DEF is_legal, make_move
<1>. QED
  BY <1>1, SpecIInv, PTL

\* An undo gives back the position, the key and the mask its frame was entered
\* with.
THEOREM UndoCorrect == Spec => UndoRestores
<1>1. IInv /\ [Next]_vars => [Len(frames') < Len(frames) => current_state' = walked[Len(walked)]]_vars
  <2>. SUFFICES ASSUME IInv, Next, Len(frames') < Len(frames)
                PROVE  current_state' = walked[Len(walked)]
    BY DEF vars
  <2>1. frames \in Seq(Frame)
    BY DEF IInv, TypeOK
  <2>2. ASSUME NEW delta, apply_move(delta)
        PROVE  FALSE
    BY <2>1, <2>2 DEF apply_move
  <2>3. UndoMove
    BY <2>1, <2>2 DEF Next, ComputeLegalMask, SearchMove, SearchPass
  <2>. QED
    BY <2>3, UndoKeepsIInv
<1>. QED
  BY <1>1, SpecIInv, PTL DEF Spec, UndoRestores
=============================================================================
