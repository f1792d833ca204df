--------------------------- MODULE RayKernelsProofs ---------------------------
(***************************************************************************)
(* The bit-parallel loops and the unrolled kernels compute the rules of    *)
(* BoardCore, for boards of every size, every position and every direction.*)
(*                                                                         *)
(* First that a masked shift of bits is a step of squares; then what the   *)
(* loops have walked after k iterations.                                   *)
(***************************************************************************)
EXTENDS RayKernels, WellFoundedInduction, TLAPS

-----------------------------------------------------------------------------
(***************************************************************************)
(* Squares and their indices.                                              *)
(***************************************************************************)

less == OpToRel(<, Nat)

\* A set of natural numbers has a least element.
LEMMA LeastNumber ==
  ASSUME NEW T \in SUBSET Nat, T # {}
  PROVE  \E x \in T : \A y \in T : x <= y
<1>1. PICK x \in T : \A y \in T : ~ (<<y, x>> \in less)
  <2>1. IsWellFoundedOn(less, Nat)
    BY NatLessThanWellFounded DEF less
  <2> QED BY <2>1, WFMin
<1>2. ASSUME NEW y \in T PROVE ~ (y < x)
  <2>1. y \in Nat /\ x \in Nat /\ (y < x => <<y, x>> \in less)
    BY DEF less, OpToRel
  <2> QED BY <1>1, <2>1, Zenon
<1> QED BY <1>2

LEMMA SmallMultiple ==
  ASSUME NEW n \in Nat, n > 0, NEW a \in Int, a * n < n, -n < a * n
  PROVE  a = 0
<1>1. CASE a >= 1
  BY <1>1, a * n >= n
<1>2. CASE a <= -1
  BY <1>2, a * n <= -n
<1> QED BY <1>1, <1>2

\* A rank and a file determine an index.
LEMMA OneSquarePerIndex ==
  ASSUME NEW x \in Coordinate, NEW u \in Coordinate, NEW y \in Int, NEW v \in Int,
         y * BoardSize + x = v * BoardSize + u
  PROVE  x = u /\ y = v
<1>1. BoardSize \in Nat /\ BoardSize > 0 /\ x \in 0 .. BoardSize - 1 /\ u \in 0 .. BoardSize - 1
  BY BoardSizeAssumption DEF Coordinate
<1>2. (y - v) * BoardSize = u - x
  BY <1>1
<1>3. u - x < BoardSize /\ -BoardSize < u - x
  BY <1>1
<1>4. y - v = 0
  BY <1>1, <1>2, <1>3, SmallMultiple
<1> QED BY <1>1, <1>4

\* An index on the board has its rank on the board.
LEMMA RankOnBoard ==
  ASSUME NEW x \in Coordinate, NEW y \in Int
  PROVE  y * BoardSize + x \in SquareIndex <=> y \in Coordinate
<1> DEFINE n == BoardSize
<1>1. n \in Nat /\ n > 0 /\ x \in 0 .. n - 1
  BY BoardSizeAssumption DEF Coordinate
<1>2. Coordinate = 0 .. n - 1 /\ SquareIndex = 0 .. n * n - 1
  BY DEF Coordinate, SquareIndex
<1> HIDE DEF n
<1>3. CASE y \in 0 .. n - 1
  <2>1. y * n <= (n - 1) * n /\ y * n >= 0
    BY <1>1, <1>3
  <2> QED BY <1>1, <1>2, <1>3, <2>1 DEF n
<1>4. CASE y >= n
  <2>1. y * n >= n * n
    BY <1>1, <1>4
  <2> QED BY <1>1, <1>2, <1>4, <2>1 DEF n
<1>5. CASE y <= -1
  <2>1. y * n <= -n
    BY <1>1, <1>5
  <2> QED BY <1>1, <1>2, <1>5, <2>1 DEF n
<1> QED BY <1>1, <1>3, <1>4, <1>5

LEMMA Parts ==
  ASSUME NEW s \in Square
  PROVE  s[1] \in Coordinate /\ s[2] \in Coordinate /\ s = <<s[1], s[2]>>
         /\ s[1] \in Int /\ s[2] \in Int
  BY BoardSizeAssumption DEF Square, Coordinate

LEMMA IndexOnBoard ==
  ASSUME NEW s \in Square
  PROVE  index_of(s) \in SquareIndex
  BY Parts, RankOnBoard DEF index_of

LEMMA SquareOnBoard ==
  ASSUME NEW i \in SquareIndex
  PROVE  square_of(i) \in Square /\ index_of(square_of(i)) = i
<1> DEFINE x == i % BoardSize
           y == i \div BoardSize
<1>1. BoardSize \in Nat /\ BoardSize > 0 /\ i \in Int
  BY BoardSizeAssumption DEF SquareIndex
<1>2. x \in 0 .. BoardSize - 1 /\ y \in Int /\ i = y * BoardSize + x
  <2>1. x \in 0 .. BoardSize - 1
    BY <1>1
  <2>2. y \in Int
    BY <1>1
  <2>3. i = BoardSize * y + x
    BY <1>1
  <2>4. BoardSize * y = y * BoardSize
    BY <1>1, <2>2
  <2> QED BY <2>1, <2>2, <2>3, <2>4
<1>3. x \in Coordinate
  BY <1>2 DEF Coordinate
<1> HIDE DEF x, y
<1>4. y \in Coordinate
  BY <1>2, <1>3, RankOnBoard
<1>5. square_of(i) = <<x, y>>
  BY DEF square_of, x, y
<1> QED BY <1>2, <1>3, <1>4, <1>5 DEF Square, index_of

LEMMA IndexInjective ==
  ASSUME NEW s \in Square, NEW t \in Square, index_of(s) = index_of(t)
  PROVE  s = t
<1>1. s[2] * BoardSize + s[1] = t[2] * BoardSize + t[1]
  BY DEF index_of
<1>2. s[1] = t[1] /\ s[2] = t[2]
  BY <1>1, Parts, OneSquarePerIndex
<1> QED BY <1>2, Parts

LEMMA SquareOfIndex ==
  ASSUME NEW s \in Square
  PROVE  square_of(index_of(s)) = s
  BY IndexOnBoard, SquareOnBoard, IndexInjective

\* Bitboards and sets of squares stand for each other.
LEMMA BitsOfSquares ==
  ASSUME NEW B \in SUBSET SquareIndex
  PROVE  Squares(B) \in SUBSET Square /\ Bits(Squares(B)) = B
  BY SquareOnBoard DEF Squares, Bits

LEMMA SquaresOfBits ==
  ASSUME NEW Q \in SUBSET Square
  PROVE  Bits(Q) \in SUBSET SquareIndex /\ Squares(Bits(Q)) = Q
<1>1. Bits(Q) \in SUBSET SquareIndex
  BY IndexOnBoard DEF Bits
<1>2. Squares(Bits(Q)) = Q
  BY SquareOfIndex DEF Squares, Bits
<1> QED BY <1>1, <1>2

LEMMA BitOfSquare ==
  ASSUME NEW Q \in SUBSET Square, NEW s \in Square
  PROVE  index_of(s) \in Bits(Q) <=> s \in Q
  BY IndexInjective DEF Bits

LEMMA SquareOfBit ==
  ASSUME NEW B \in SUBSET SquareIndex, NEW s \in Square
  PROVE  s \in Squares(B) <=> index_of(s) \in B
  BY SquareOnBoard, SquareOfIndex DEF Squares

-----------------------------------------------------------------------------
(***************************************************************************)
(* Shifts.                                                                 *)
(***************************************************************************)

LEMMA Directions ==
  ASSUME NEW d \in Direction
  PROVE  d[1] \in {-1, 0, 1} /\ d[2] \in {-1, 0, 1} /\ (d[1] # 0 \/ d[2] # 0)
<1>1. d[1] \in -1 .. 1 /\ d[2] \in -1 .. 1 /\ d = <<d[1], d[2]>> /\ d # <<0, 0>>
  BY DEF Direction
<1> QED BY <1>1

\* The files that the masks drop: those from which the step leaves the board.
LEMMA MaskedFiles ==
  ASSUME NEW s \in Square
  PROVE  /\ index_of(s) \in kFileA <=> s[1] = 0
         /\ index_of(s) \in kFileH <=> s[1] = BoardSize - 1
<1>1. index_of(s) \in SquareIndex /\ square_of(index_of(s)) = s
  BY IndexOnBoard, SquareOfIndex
<1>2. index_of(s) % BoardSize = s[1]
  BY <1>1 DEF square_of
<1> QED BY <1>1, <1>2 DEF kFileA, kFileH

\* A bit that is not masked moves as its square does.
LEMMA StepOfBit ==
  ASSUME NEW s \in Square, NEW d \in Direction
  PROVE  LET kept == CASE d[1] = 1  -> index_of(s) \notin kFileH
                       [] d[1] = -1 -> index_of(s) \notin kFileA
                       [] OTHER     -> TRUE
             to == index_of(s) + (d[1] + d[2] * BoardSize)
         IN  /\ kept /\ to \in SquareIndex <=> At(s, d, 1) \in Square
             /\ At(s, d, 1) \in Square => to = index_of(At(s, d, 1))
<1> DEFINE n == BoardSize
           x == s[1]
           y == s[2]
           kept == CASE d[1] = 1  -> index_of(s) \notin kFileH
                     [] d[1] = -1 -> index_of(s) \notin kFileA
                     [] OTHER     -> TRUE
           to == index_of(s) + (d[1] + d[2] * BoardSize)
<1>1. n \in Nat /\ n >= 2 /\ x \in 0 .. n - 1 /\ y \in 0 .. n - 1 /\ Coordinate = 0 .. n - 1
  BY Parts, BoardSizeAssumption DEF Coordinate
<1>2. d[1] \in {-1, 0, 1} /\ d[2] \in {-1, 0, 1}
  BY Directions
<1>3. kept <=> x + d[1] \in Coordinate
  <2>1. kept <=> CASE d[1] = 1  -> x # n - 1
                   [] d[1] = -1 -> x # 0
                   [] OTHER     -> TRUE
    BY MaskedFiles
  <2> HIDE DEF kept, x, n
  <2>2. CASE d[1] = 1
    BY <1>1, <2>1, <2>2
  <2>3. CASE d[1] = -1
    BY <1>1, <2>1, <2>3
  <2>4. CASE d[1] = 0
    BY <1>1, <2>1, <2>4
  <2> QED BY <1>2, <2>2, <2>3, <2>4
<1>4. to = (y + d[2]) * n + (x + d[1])
  <2>1. to = y * n + x + (d[1] + d[2] * n)
    BY DEF index_of
  <2>2. d[2] * n \in Int /\ y * n \in Int /\ (y + d[2]) * n = y * n + d[2] * n
    BY <1>1, <1>2
  <2> HIDE DEF to, x, y, n
  <2> QED BY <1>1, <1>2, <2>1, <2>2
<1>5. At(s, d, 1) = <<x + d[1], y + d[2]>>
  BY <1>1, <1>2 DEF At
<1>6. At(s, d, 1) \in Square <=> x + d[1] \in Coordinate /\ y + d[2] \in Coordinate
  BY <1>5 DEF Square
<1>7. x + d[1] \in Coordinate => (to \in SquareIndex <=> y + d[2] \in Coordinate)
  <2>1. y + d[2] \in Int
    BY <1>1, <1>2
  <2> HIDE DEF to
  <2> QED BY <1>4, <2>1, RankOnBoard
<1>8. to = index_of(At(s, d, 1))
  BY <1>4, <1>5 DEF index_of
<1> HIDE DEF to, kept
<1>9. kept /\ to \in SquareIndex <=> At(s, d, 1) \in Square
  BY <1>3, <1>6, <1>7
<1> QED BY <1>8, <1>9 DEF to, kept

\* A shift moves every square one step and loses those that leave the board.
LEMMA ShiftIsStep ==
  ASSUME NEW d \in Direction, NEW Q \in SUBSET Square, NEW t \in Square
  PROVE  index_of(t) \in Shift(d, Bits(Q)) <=> \E s \in Q : t = At(s, d, 1)
<1> DEFINE kept(i) == CASE d[1] = 1  -> i \notin kFileH
                        [] d[1] = -1 -> i \notin kFileA
                        [] OTHER     -> TRUE
           distance == d[1] + d[2] * BoardSize
<1>1. Shift(d, Bits(Q)) = {i + distance : i \in {j \in Bits(Q) : kept(j)}} \cap SquareIndex
  <2>1. CASE d[1] = 1
    BY <2>1 DEF Shift, ShiftBits
  <2>2. CASE d[1] = -1
    BY <2>2 DEF Shift, ShiftBits
  <2>3. CASE d[1] # 1 /\ d[1] # -1
    BY <2>3 DEF Shift, ShiftBits
  <2> QED BY <2>1, <2>2, <2>3
<1>2. index_of(t) \in Shift(d, Bits(Q)) <=>
        \E s \in Q : kept(index_of(s)) /\ index_of(t) = index_of(s) + distance
  <2>1. index_of(t) \in SquareIndex
    BY IndexOnBoard
  <2> HIDE DEF kept, distance
  <2> QED BY <1>1, <2>1 DEF Bits
<1>3. ASSUME NEW s \in Q
      PROVE  kept(index_of(s)) /\ index_of(t) = index_of(s) + distance <=> t = At(s, d, 1)
  <2>1. /\ kept(index_of(s)) /\ index_of(s) + distance \in SquareIndex <=> At(s, d, 1) \in Square
        /\ At(s, d, 1) \in Square => index_of(s) + distance = index_of(At(s, d, 1))
    BY StepOfBit
  <2>2. index_of(t) \in SquareIndex
    BY IndexOnBoard
  <2> HIDE DEF kept, distance
  <2>3. ASSUME kept(index_of(s)), index_of(t) = index_of(s) + distance PROVE t = At(s, d, 1)
    BY <2>1, <2>2, <2>3, IndexInjective
  <2>4. ASSUME t = At(s, d, 1) PROVE kept(index_of(s)) /\ index_of(t) = index_of(s) + distance
    BY <2>1, <2>4
  <2> QED BY <2>3, <2>4
<1> HIDE DEF kept, distance
<1> QED BY <1>2, <1>3

LEMMA ShiftOnBoard ==
  ASSUME NEW d \in Direction, NEW B
  PROVE  Shift(d, B) \in SUBSET SquareIndex
  BY DEF Shift, ShiftBits

\* A shift of bits and a mask, as squares.
LEMMA MaskedShift ==
  ASSUME NEW d \in Direction, NEW Q \in SUBSET Square, NEW R \in SUBSET Square
  PROVE  Shift(d, Bits(Q)) \cap Bits(R) = Bits({t \in R : \E s \in Q : t = At(s, d, 1)})
<1> DEFINE T == {t \in R : \E s \in Q : t = At(s, d, 1)}
<1>1. T \in SUBSET Square
  OBVIOUS
<1>2. \A t \in Square : t \in T <=> t \in R /\ \E s \in Q : t = At(s, d, 1)
  OBVIOUS
<1> HIDE DEF T
<1>3. \A i \in SquareIndex : i \in Shift(d, Bits(Q)) \cap Bits(R) <=> i \in Bits(T)
  <2> TAKE i \in SquareIndex
  <2>1. PICK t \in Square : i = index_of(t)
    BY SquareOnBoard
  <2>2. i \in Shift(d, Bits(Q)) <=> \E s \in Q : t = At(s, d, 1)
    BY <2>1, ShiftIsStep
  <2>3. i \in Bits(R) <=> t \in R
    BY <2>1, BitOfSquare
  <2>4. i \in Bits(T) <=> t \in T
    BY <1>1, <2>1, BitOfSquare
  <2> QED BY <1>2, <2>2, <2>3, <2>4
<1>4. Bits(R) \in SUBSET SquareIndex /\ Bits(T) \in SUBSET SquareIndex
  BY <1>1, SquaresOfBits
<1> QED BY <1>3, <1>4 DEF T

-----------------------------------------------------------------------------
(***************************************************************************)
(* Walks.                                                                  *)
(***************************************************************************)

\* The first k squares from s in direction d are theirs.
Path(theirs, s, d, k) == \A j \in 1 .. k : At(s, d, j) \in theirs

\* Where the walks are after k steps that have not left their discs.
Ends(sources, theirs, d, k) == {t \in theirs : \E s \in sources : Path(theirs, s, d, k) /\ t = At(s, d, k)}

\* All squares they have passed.
Passed(sources, theirs, d, k) == UNION {Ends(sources, theirs, d, j) : j \in 1 .. k}

LEMMA OneStepOn ==
  ASSUME NEW s \in Square, NEW d \in Direction, NEW k \in Nat
  PROVE  At(At(s, d, k), d, 1) = At(s, d, k + 1)
<1>1. s[1] \in Int /\ s[2] \in Int /\ d[1] \in {-1, 0, 1} /\ d[2] \in {-1, 0, 1}
  BY Parts, Directions
<1>2. \A a \in {-1, 0, 1} : k * a \in Int /\ (k + 1) * a = k * a + a
  OBVIOUS
<1> QED BY <1>1, <1>2 DEF At

\* A walk along k more squares of the board has less than BoardSize steps.
LEMMA WalkEnds ==
  ASSUME NEW s \in Square, NEW d \in Direction, NEW k \in Nat, At(s, d, k) \in Square
  PROVE  k <= BoardSize - 1
<1>1. /\ s[1] \in 0 .. BoardSize - 1 /\ s[2] \in 0 .. BoardSize - 1
      /\ s[1] + k * d[1] \in 0 .. BoardSize - 1 /\ s[2] + k * d[2] \in 0 .. BoardSize - 1
      /\ BoardSize \in Nat
  BY Parts, BoardSizeAssumption DEF At, Square, Coordinate
<1>2. d[1] \in {-1, 0, 1} /\ d[2] \in {-1, 0, 1} /\ (d[1] # 0 \/ d[2] # 0)
  BY Directions
<1>3. CASE d[1] # 0
  BY <1>1, <1>2, <1>3
<1>4. CASE d[2] # 0
  BY <1>1, <1>2, <1>4
<1> QED BY <1>2, <1>3, <1>4

LEMMA PathGoesOn ==
  ASSUME NEW theirs, NEW s, NEW d, NEW k \in Nat
  PROVE  Path(theirs, s, d, k + 1) <=> Path(theirs, s, d, k) /\ At(s, d, k + 1) \in theirs
<1>1. \A j : j \in 1 .. k + 1 <=> j \in 1 .. k \/ j = k + 1
  OBVIOUS
<1> QED BY <1>1 DEF Path

LEMMA PathIsPrefix ==
  ASSUME NEW theirs, NEW s, NEW d, NEW k \in Nat, NEW j \in Nat, j <= k, Path(theirs, s, d, k)
  PROVE  Path(theirs, s, d, j) /\ (j # 0 => At(s, d, j) \in theirs)
<1>1. \A i \in 1 .. j : i \in 1 .. k
  OBVIOUS
<1>2. j # 0 => j \in 1 .. k
  OBVIOUS
<1> QED BY <1>1, <1>2 DEF Path

LEMMA EndsAreTheirs ==
  ASSUME NEW sources, NEW theirs \in SUBSET Square, NEW d, NEW k
  PROVE  /\ Ends(sources, theirs, d, k) \in SUBSET theirs
         /\ Passed(sources, theirs, d, k) \in SUBSET theirs
  BY DEF Ends, Passed

\* The first run, and the run after it: one masked shift each.
LEMMA FirstRunOfBits ==
  ASSUME NEW d \in Direction, NEW sources \in SUBSET Square, NEW theirs \in SUBSET Square
  PROVE  Shift(d, Bits(sources)) \cap Bits(theirs) = Bits(Ends(sources, theirs, d, 1))
<1>1. {t \in theirs : \E s \in sources : t = At(s, d, 1)} = Ends(sources, theirs, d, 1)
  <2>1. 1 .. 1 = {1}
    OBVIOUS
  <2> QED BY <2>1 DEF Ends, Path
<1> QED BY <1>1, MaskedShift

OneStepFrom(Q, d, t) == \E e \in Q : t = At(e, d, 1)
BehindPath(sources, theirs, d, k, t) ==
  \E s \in sources : Path(theirs, s, d, k) /\ t = At(s, d, k + 1)

\* The squares one step behind the ends of the walks.
LEMMA BehindEnds ==
  ASSUME NEW d \in Direction, NEW sources \in SUBSET Square, NEW theirs \in SUBSET Square,
         NEW k \in Nat \ {0}, NEW t \in Square
  PROVE  OneStepFrom(Ends(sources, theirs, d, k), d, t) <=> BehindPath(sources, theirs, d, k, t)
<1>1. \A s \in sources : Path(theirs, s, d, k) => At(s, d, k) \in theirs
  BY PathIsPrefix
<1>2. \A s \in sources : At(At(s, d, k), d, 1) = At(s, d, k + 1)
  BY OneStepOn
<1> QED BY <1>1, <1>2 DEF Ends, OneStepFrom, BehindPath

LEMMA NextRunOfBits ==
  ASSUME NEW d \in Direction, NEW sources \in SUBSET Square, NEW theirs \in SUBSET Square,
         NEW k \in Nat \ {0}
  PROVE  Shift(d, Bits(Ends(sources, theirs, d, k))) \cap Bits(theirs)
           = Bits(Ends(sources, theirs, d, k + 1))
<1> DEFINE E == Ends(sources, theirs, d, k)
<1>1. {t \in theirs : \E e \in E : t = At(e, d, 1)} = Ends(sources, theirs, d, k + 1)
  <2>1. \A t \in theirs : (\E e \in E : t = At(e, d, 1)) <=>
          \E s \in sources : Path(theirs, s, d, k + 1) /\ t = At(s, d, k + 1)
    <3> TAKE t \in theirs
    <3>1. OneStepFrom(E, d, t) <=> BehindPath(sources, theirs, d, k, t)
      BY BehindEnds
    <3>2. \A s \in sources : t = At(s, d, k + 1) =>
            (Path(theirs, s, d, k + 1) <=> Path(theirs, s, d, k))
      BY PathGoesOn
    <3> HIDE DEF E
    <3> QED BY <3>1, <3>2 DEF OneStepFrom, BehindPath
  <2> HIDE DEF E
  <2> QED BY <2>1 DEF Ends
<1>2. E \in SUBSET Square
  BY EndsAreTheirs
<1> HIDE DEF E
<1> QED BY <1>1, <1>2, MaskedShift DEF E

LEMMA PassedGoesOn ==
  ASSUME NEW sources, NEW theirs, NEW d, NEW k \in Nat
  PROVE  Passed(sources, theirs, d, k + 1)
           = Passed(sources, theirs, d, k) \cup Ends(sources, theirs, d, k + 1)
<1>1. \A j : j \in 1 .. k + 1 <=> j \in 1 .. k \/ j = k + 1
  OBVIOUS
<1> QED BY <1>1 DEF Passed

LEMMA PassedFirst ==
  ASSUME NEW sources, NEW theirs, NEW d
  PROVE  Passed(sources, theirs, d, 1) = Ends(sources, theirs, d, 1)
<1>1. 1 .. 1 = {1}
  OBVIOUS
<1> QED BY <1>1 DEF Passed

LEMMA BitsOfUnion ==
  ASSUME NEW A, NEW B
  PROVE  Bits(A \cup B) = Bits(A) \cup Bits(B)
  BY DEF Bits

\* Free squares one step behind a walk of at most k steps.
Behind(mine, theirs, free, d, k) ==
  {t \in free : \E s \in mine, j \in 1 .. k : Path(theirs, s, d, j) /\ t = At(s, d, j + 1)}

\* One masked shift of all that the walks have passed finds them.
LEMMA BehindPassed ==
  ASSUME NEW d \in Direction, NEW sources \in SUBSET Square, NEW theirs \in SUBSET Square,
         NEW k \in Nat, NEW R \in SUBSET Square
  PROVE  Shift(d, Bits(Passed(sources, theirs, d, k))) \cap Bits(R)
           = Bits(Behind(sources, theirs, R, d, k))
<1> DEFINE W == Passed(sources, theirs, d, k)
<1>1. W \in SUBSET Square
  BY EndsAreTheirs
<1>2. \A t \in R : (\E e \in W : t = At(e, d, 1)) <=>
        \E s \in sources, j \in 1 .. k : Path(theirs, s, d, j) /\ t = At(s, d, j + 1)
  <2> TAKE t \in R
  <2>1. OneStepFrom(W, d, t) <=> \E j \in 1 .. k : OneStepFrom(Ends(sources, theirs, d, j), d, t)
    BY DEF Passed, OneStepFrom
  <2>2. \A j \in 1 .. k :
          OneStepFrom(Ends(sources, theirs, d, j), d, t) <=> BehindPath(sources, theirs, d, j, t)
    <3> TAKE j \in 1 .. k
    <3>1. j \in Nat \ {0}
      OBVIOUS
    <3> QED BY <3>1, BehindEnds
  <2> HIDE DEF W
  <2>3. OneStepFrom(W, d, t) <=> \E j \in 1 .. k : BehindPath(sources, theirs, d, j, t)
    BY <2>1, <2>2
  <2> QED BY <2>3 DEF OneStepFrom, BehindPath
<1> HIDE DEF W
<1>3. {t \in R : \E e \in W : t = At(e, d, 1)} = Behind(sources, theirs, R, d, k)
  BY <1>2 DEF Behind
<1> QED BY <1>1, <1>3, MaskedShift DEF W

LEMMA NoBits ==
  ASSUME NEW Q
  PROVE  Bits(Q) = {} <=> Q = {}
  BY DEF Bits

-----------------------------------------------------------------------------
(***************************************************************************)
(* Flips: the walk of one disc, origin, between a player's discs mine and  *)
(* their discs.                                                            *)
(***************************************************************************)

\* The walk goes on at k.
LEMMA OneWalk ==
  ASSUME NEW o \in Square, NEW theirs \in SUBSET Square, NEW d \in Direction, NEW k \in Nat \ {0}
  PROVE  Ends({o}, theirs, d, k) # {} <=> Path(theirs, o, d, k)
<1>1. Path(theirs, o, d, k) => At(o, d, k) \in theirs
  BY PathIsPrefix
<1> QED BY <1>1 DEF Ends

\* The test of the loop: the walk has come to a disc of the player.
LEMMA ClosingTest ==
  ASSUME NEW o \in Square, NEW mine \in SUBSET Square, NEW theirs \in SUBSET Square,
         NEW d \in Direction, NEW k \in Nat \ {0}
  PROVE  Shift(d, Bits(Ends({o}, theirs, d, k))) \cap Bits(mine) # {}
           <=> Path(theirs, o, d, k) /\ At(o, d, k + 1) \in mine
<1> DEFINE E == Ends({o}, theirs, d, k)
           T == {t \in mine : \E e \in E : t = At(e, d, 1)}
<1>1. E \in SUBSET Square /\ {o} \in SUBSET Square
  BY EndsAreTheirs
<1> HIDE DEF E
<1>2. Shift(d, Bits(E)) \cap Bits(mine) = Bits(T)
  BY <1>1, MaskedShift
<1>3. \A t \in mine : OneStepFrom(E, d, t) <=> BehindPath({o}, theirs, d, k, t)
  BY <1>1, BehindEnds DEF E
<1>4. T # {} <=> Path(theirs, o, d, k) /\ At(o, d, k + 1) \in mine
  BY <1>3 DEF OneStepFrom, BehindPath
<1> HIDE DEF T
<1> QED BY <1>2, <1>4, NoBits DEF E

LEMMA RunIsPath ==
  ASSUME NEW p, NEW s, NEW d, NEW n \in Nat
  PROVE  OpponentRun(p, s, d, n) <=> n >= 2 /\ Path(p.opponent, s, d, n - 1)
  BY DEF OpponentRun, Path

\* Before the k-th step no disc of the player has closed the walk.
OpenBefore(mine, theirs, o, d, k) ==
  \A j \in 1 .. k - 1 : Path(theirs, o, d, j) /\ At(o, d, j + 1) \notin mine

LEMMA ClosedOnce ==
  ASSUME NEW o \in Square, NEW mine \in SUBSET Square, NEW theirs \in SUBSET Square,
         mine \cap theirs = {}, NEW d \in Direction, NEW k \in Nat \ {0},
         OpenBefore(mine, theirs, o, d, k),
         NEW j \in Nat \ {0}, Path(theirs, o, d, j), At(o, d, j + 1) \in mine
  PROVE  Path(theirs, o, d, k) /\ (At(o, d, k + 1) \in mine => j = k)
<1>1. ~(j < k)
  BY DEF OpenBefore
<1>2. Path(theirs, o, d, k)
  BY <1>1, PathIsPrefix
<1>3. ASSUME j > k PROVE At(o, d, k + 1) \in theirs
  <2>1. k + 1 \in Nat /\ k + 1 <= j /\ k + 1 # 0
    BY <1>3
  <2> QED BY <2>1, PathIsPrefix
<1> QED BY <1>1, <1>2, <1>3

\* The walk was closed: what it passed is flipped.
LEMMA ClosedWalkFlips ==
  ASSUME NEW p, NEW o \in Square, NEW d \in Direction, NEW k \in Nat \ {0},
         p.player \in SUBSET Square, p.opponent \in SUBSET Square, p.player \cap p.opponent = {},
         OpenBefore(p.player, p.opponent, o, d, k),
         Path(p.opponent, o, d, k), At(o, d, k + 1) \in p.player
  PROVE  flips_in_direction(p, o, d) = Passed({o}, p.opponent, d, k)
<1> DEFINE theirs == p.opponent
           mine == p.player
           closes(n) == OpponentRun(p, o, d, n) /\ At(o, d, n) \in mine
<1>1. k + 1 \in Reach
  <2>1. k + 1 <= BoardSize - 1
    BY WalkEnds
  <2> QED BY <2>1, BoardSizeAssumption DEF Reach
<1>2. closes(k + 1)
  <2>1. OpponentRun(p, o, d, k + 1) <=> k + 1 >= 2 /\ Path(theirs, o, d, k + 1 - 1)
    BY RunIsPath
  <2> QED BY <2>1
<1>3. ASSUME NEW n \in Reach, closes(n) PROVE n = k + 1
  <2>1. n \in Nat /\ n >= 2 /\ Path(theirs, o, d, n - 1)
    BY <1>3, RunIsPath, BoardSizeAssumption DEF Reach
  <2>2. n - 1 \in Nat \ {0} /\ n - 1 + 1 = n
    BY <2>1
  <2>3. At(o, d, n - 1 + 1) \in mine
    BY <1>3, <2>2
  <2>4. n - 1 = k
    BY <2>1, <2>2, <2>3, ClosedOnce
  <2> QED BY <2>1, <2>4
<1>4. flips_in_direction(p, o, d)
        = {t \in theirs : \E n \in Reach : closes(n) /\ \E j \in 1 .. n - 1 : t = At(o, d, j)}
  BY DEF flips_in_direction
<1>5. flips_in_direction(p, o, d) = {t \in theirs : \E j \in 1 .. k : t = At(o, d, j)}
  <2> HIDE DEF closes
  <2>1. k + 1 - 1 = k
    OBVIOUS
  <2> QED BY <1>1, <1>2, <1>3, <1>4, <2>1
<1>6. \A j \in 1 .. k : Ends({o}, theirs, d, j) = {At(o, d, j)}
  <2> TAKE j \in 1 .. k
  <2>1. Path(theirs, o, d, j) /\ At(o, d, j) \in theirs
    BY PathIsPrefix
  <2> QED BY <2>1 DEF Ends
<1>7. \A j \in 1 .. k : At(o, d, j) \in theirs
  BY <1>6 DEF Ends
<1>8. Passed({o}, theirs, d, k) = {t \in theirs : \E j \in 1 .. k : t = At(o, d, j)}
  <2>1. \A t : t \in Passed({o}, theirs, d, k) <=> \E j \in 1 .. k : t \in Ends({o}, theirs, d, j)
    BY DEF Passed
  <2> HIDE DEF theirs
  <2>2. \A t : t \in Passed({o}, theirs, d, k) <=> \E j \in 1 .. k : t = At(o, d, j)
    <3>1. \A t : \A j \in 1 .. k : t \in Ends({o}, theirs, d, j) <=> t = At(o, d, j)
      BY <1>6
    <3> QED BY <2>1, <3>1, Zenon
  <2>3. \A t : t \in Passed({o}, theirs, d, k) <=>
                 t \in {u \in theirs : \E j \in 1 .. k : u = At(o, d, j)}
    BY <1>7, <2>2
  <2> QED BY <2>3
<1> QED BY <1>5, <1>8

\* The walk ended without the player: nothing is flipped.
LEMMA OpenWalkFlipsNothing ==
  ASSUME NEW p, NEW o \in Square, NEW d \in Direction, NEW k \in Nat \ {0},
         p.player \in SUBSET Square, p.opponent \in SUBSET Square, p.player \cap p.opponent = {},
         OpenBefore(p.player, p.opponent, o, d, k), ~Path(p.opponent, o, d, k)
  PROVE  flips_in_direction(p, o, d) = {}
<1>1. ASSUME NEW n \in Reach, OpponentRun(p, o, d, n), At(o, d, n) \in p.player PROVE FALSE
  <2>1. n \in Nat /\ n >= 2 /\ Path(p.opponent, o, d, n - 1)
    BY <1>1, RunIsPath, BoardSizeAssumption DEF Reach
  <2>2. n - 1 \in Nat \ {0} /\ At(o, d, n - 1 + 1) \in p.player
    BY <1>1, <2>1
  <2> QED BY <2>1, <2>2, ClosedOnce
<1> QED BY <1>1 DEF flips_in_direction

-----------------------------------------------------------------------------
(***************************************************************************)
(* The unrolled kernels.                                                   *)
(***************************************************************************)

LEMMA UnrolledUnfolds ==
  ASSUME NEW d \in Direction, NEW sources \in SUBSET Square, NEW theirs \in SUBSET Square
  PROVE  LET step == UnrolledRun(d, Bits(sources), Bits(theirs))
         IN  \A i \in 1 .. UnrolledRuns :
               step[i] = Shift(d, IF i = 1 THEN Bits(sources) ELSE step[i - 1]) \cap Bits(theirs)
<1> DEFINE solves(f) == f = [i \in 1 .. UnrolledRuns |->
                               Shift(d, IF i = 1 THEN Bits(sources) ELSE f[i - 1]) \cap Bits(theirs)]
           v == CHOOSE f : solves(f)
           w == [i \in 1 .. UnrolledRuns |-> Bits(Ends(sources, theirs, d, i))]
<1>1. UnrolledRuns \in Nat
  BY UnrolledRunsAssumption
<1>2. solves(w)
  <2>1. ASSUME NEW i \in 1 .. UnrolledRuns
        PROVE  Bits(Ends(sources, theirs, d, i))
                 = Shift(d, IF i = 1 THEN Bits(sources) ELSE w[i - 1]) \cap Bits(theirs)
    <3>1. CASE i = 1
      BY <3>1, FirstRunOfBits
    <3>2. CASE i # 1
      <4>1. i - 1 \in Nat \ {0} /\ i - 1 \in 1 .. UnrolledRuns /\ i - 1 + 1 = i
        BY <1>1, <3>2
      <4>2. w[i - 1] = Bits(Ends(sources, theirs, d, i - 1))
        BY <4>1
      <4>3. Shift(d, Bits(Ends(sources, theirs, d, i - 1))) \cap Bits(theirs)
              = Bits(Ends(sources, theirs, d, i - 1 + 1))
        BY <4>1, NextRunOfBits
      <4> QED BY <3>2, <4>1, <4>2, <4>3
    <3> QED BY <3>1, <3>2
  <2> QED BY <2>1
<1>3. solves(v)
  <2> HIDE DEF solves
  <2> QED BY <1>2
<1>4. UnrolledRun(d, Bits(sources), Bits(theirs)) = v
  BY DEF UnrolledRun
<1> HIDE DEF v
<1> QED BY <1>3, <1>4

\* The i-th unrolled run is the i-th run of the loop.
LEMMA UnrolledIsLoop ==
  ASSUME NEW d \in Direction, NEW sources \in SUBSET Square, NEW theirs \in SUBSET Square
  PROVE  \A i \in 1 .. UnrolledRuns :
           UnrolledRun(d, Bits(sources), Bits(theirs))[i] = Bits(Ends(sources, theirs, d, i))
<1> DEFINE step == UnrolledRun(d, Bits(sources), Bits(theirs))
           wrong == {i \in 1 .. UnrolledRuns : step[i] # Bits(Ends(sources, theirs, d, i))}
<1>1. \A i \in 1 .. UnrolledRuns :
        step[i] = Shift(d, IF i = 1 THEN Bits(sources) ELSE step[i - 1]) \cap Bits(theirs)
  BY UnrolledUnfolds
<1> HIDE DEF step
<1> SUFFICES ASSUME wrong # {} PROVE FALSE
  BY DEF step
<1>2. PICK i \in wrong : \A j \in wrong : i <= j
  <2>1. wrong \in SUBSET Nat
    BY UnrolledRunsAssumption
  <2> HIDE DEF wrong
  <2> QED BY <2>1, LeastNumber
<1>3. i # 1
  <2>1. 1 \in 1 .. UnrolledRuns
    BY UnrolledRunsAssumption
  <2>2. step[1] = Bits(Ends(sources, theirs, d, 1))
    BY <1>1, <2>1, FirstRunOfBits
  <2> QED BY <1>2, <2>2
<1>4. i - 1 \in Nat \ {0} /\ i - 1 \in 1 .. UnrolledRuns /\ ~(i <= i - 1) /\ i - 1 + 1 = i
  BY <1>3, UnrolledRunsAssumption
<1>5. step[i - 1] = Bits(Ends(sources, theirs, d, i - 1))
  BY <1>2, <1>4
<1>6. Shift(d, Bits(Ends(sources, theirs, d, i - 1))) \cap Bits(theirs)
        = Bits(Ends(sources, theirs, d, i - 1 + 1))
  BY <1>4, NextRunOfBits
<1> QED BY <1>1, <1>3, <1>4, <1>5, <1>6

\* What the unrolled flips look at: the runs whose walk comes to the player.
LEMMA UnrolledTest ==
  ASSUME NEW o \in Square, NEW mine \in SUBSET Square, NEW theirs \in SUBSET Square,
         NEW d \in Direction
  PROVE  LET step == UnrolledRun(d, Bits({o}), Bits(theirs))
         IN  {i \in 1 .. UnrolledRuns : Shift(d, step[i]) \cap Bits(mine) # {}}
               = {i \in 1 .. UnrolledRuns : Path(theirs, o, d, i) /\ At(o, d, i + 1) \in mine}
<1> DEFINE step == UnrolledRun(d, Bits({o}), Bits(theirs))
<1>1. {o} \in SUBSET Square
  OBVIOUS
<1>2. \A i \in 1 .. UnrolledRuns : step[i] = Bits(Ends({o}, theirs, d, i)) /\ i \in Nat \ {0}
  BY <1>1, UnrolledIsLoop, UnrolledRunsAssumption
<1> HIDE DEF step
<1>3. \A i \in 1 .. UnrolledRuns : Shift(d, step[i]) \cap Bits(mine) # {} <=>
        Path(theirs, o, d, i) /\ At(o, d, i + 1) \in mine
  <2> TAKE i \in 1 .. UnrolledRuns
  <2>1. i \in Nat \ {0} /\ step[i] = Bits(Ends({o}, theirs, d, i))
    BY <1>2
  <2>2. Shift(d, Bits(Ends({o}, theirs, d, i))) \cap Bits(mine) # {} <=>
          Path(theirs, o, d, i) /\ At(o, d, i + 1) \in mine
    BY <2>1, ClosingTest
  <2> QED BY <2>1, <2>2
<1> QED BY <1>3 DEF step

LEMMA BitsOfPassed ==
  ASSUME NEW sources, NEW theirs, NEW d, NEW k
  PROVE  Bits(Passed(sources, theirs, d, k)) = UNION {Bits(Ends(sources, theirs, d, j)) : j \in 1 .. k}
  BY DEF Bits, Passed

LEMMA UnrolledFlipsClosed ==
  ASSUME NEW o \in Square, NEW mine \in SUBSET Square, NEW theirs \in SUBSET Square,
         mine \cap theirs = {}, NEW d \in Direction, NEW k \in Nat \ {0},
         OpenBefore(mine, theirs, o, d, k), Path(theirs, o, d, k), At(o, d, k + 1) \in mine
  PROVE  flips_in_direction_unrolled(d, Bits({o}), Bits(mine), Bits(theirs))
           = Bits(Passed({o}, theirs, d, k))
<1> DEFINE step == UnrolledRun(d, Bits({o}), Bits(theirs))
           closed == {i \in 1 .. UnrolledRuns : Shift(d, step[i]) \cap Bits(mine) # {}}
<1>1. closed = {i \in 1 .. UnrolledRuns : Path(theirs, o, d, i) /\ At(o, d, i + 1) \in mine}
  BY UnrolledTest
<1>2. k \in 1 .. UnrolledRuns
  <2>1. k + 1 <= BoardSize - 1
    BY WalkEnds
  <2> QED BY <2>1, UnrolledRunsAssumption, BoardSizeAssumption
<1>3. \A i \in 1 .. UnrolledRuns : Path(theirs, o, d, i) /\ At(o, d, i + 1) \in mine => i = k
  <2> TAKE i \in 1 .. UnrolledRuns
  <2>1. i \in Nat \ {0}
    BY UnrolledRunsAssumption
  <2> QED BY <2>1, ClosedOnce
<1> HIDE DEF closed
<1>4. closed = {k}
  BY <1>1, <1>2, <1>3
<1>5. Min(closed) = k
  BY <1>4 DEF Min
<1>6. flips_in_direction_unrolled(d, Bits({o}), Bits(mine), Bits(theirs))
        = UNION {step[i] : i \in 1 .. k}
  BY <1>4, <1>5 DEF flips_in_direction_unrolled, closed
<1>7. \A i \in 1 .. k : step[i] = Bits(Ends({o}, theirs, d, i))
  <2>1. \A i \in 1 .. k : i \in 1 .. UnrolledRuns
    BY <1>2, UnrolledRunsAssumption
  <2> QED BY <2>1, UnrolledIsLoop
<1> HIDE DEF step
<1>8. UNION {step[i] : i \in 1 .. k} = UNION {Bits(Ends({o}, theirs, d, i)) : i \in 1 .. k}
  BY <1>7
<1> QED BY <1>6, <1>8, BitsOfPassed

LEMMA UnrolledFlipsOpen ==
  ASSUME NEW o \in Square, NEW mine \in SUBSET Square, NEW theirs \in SUBSET Square,
         mine \cap theirs = {}, NEW d \in Direction, NEW k \in Nat \ {0},
         OpenBefore(mine, theirs, o, d, k), ~Path(theirs, o, d, k)
  PROVE  flips_in_direction_unrolled(d, Bits({o}), Bits(mine), Bits(theirs)) = {}
<1> DEFINE step == UnrolledRun(d, Bits({o}), Bits(theirs))
           closed == {i \in 1 .. UnrolledRuns : Shift(d, step[i]) \cap Bits(mine) # {}}
<1>1. closed = {i \in 1 .. UnrolledRuns : Path(theirs, o, d, i) /\ At(o, d, i + 1) \in mine}
  BY UnrolledTest
<1>2. \A i \in 1 .. UnrolledRuns : ~(Path(theirs, o, d, i) /\ At(o, d, i + 1) \in mine)
  <2> TAKE i \in 1 .. UnrolledRuns
  <2>1. i \in Nat \ {0}
    BY UnrolledRunsAssumption
  <2> QED BY <2>1, ClosedOnce
<1> HIDE DEF closed
<1>3. closed = {}
  BY <1>1, <1>2
<1> QED BY <1>3 DEF flips_in_direction_unrolled, closed

-----------------------------------------------------------------------------
(***************************************************************************)
(* Legal moves: the walks of all of a player's discs.                      *)
(***************************************************************************)

\* No walk is longer than k: the board is too small, or all of them have ended.
Exhausted(mine, theirs, d, k) ==
  k >= BoardSize - 2 \/ (k # 0 /\ Ends(mine, theirs, d, k) = {})

\* Once all walks have ended, longer ones find nothing more; and so do walks
\* that are longer than the board.
LEMMA AllBehind ==
  ASSUME NEW mine \in SUBSET Square, NEW theirs \in SUBSET Square, NEW free \in SUBSET Square,
         NEW d \in Direction, NEW k \in Nat,
         Exhausted(mine, theirs, d, k),
         NEW s \in mine, NEW j \in Nat \ {0}, Path(theirs, s, d, j), At(s, d, j + 1) \in free
  PROVE  j \in 1 .. k
<1>1. CASE k >= BoardSize - 2
  <2>1. j + 1 <= BoardSize - 1
    BY WalkEnds
  <2> QED BY <1>1, <2>1, BoardSizeAssumption
<1>2. CASE k # 0 /\ Ends(mine, theirs, d, k) = {}
  <2>1. ASSUME k <= j PROVE FALSE
    <3>1. Path(theirs, s, d, k) /\ At(s, d, k) \in theirs
      BY <1>2, <2>1, PathIsPrefix
    <3> QED BY <1>2, <3>1 DEF Ends
  <2> QED BY <2>1
<1> QED BY <1>1, <1>2 DEF Exhausted

LEMMA BehindIsLegal ==
  ASSUME NEW mine \in SUBSET Square, NEW theirs \in SUBSET Square, NEW free \in SUBSET Square,
         NEW p, p.player = mine, p.opponent = theirs, free = Square \ occupied(p),
         NEW d \in Direction, NEW k \in Nat,
         Exhausted(mine, theirs, d, k)
  PROVE  legal_moves_in_direction(p, d) = Behind(mine, theirs, free, d, k)
<1>1. ASSUME NEW t \in free, NEW s \in mine, NEW n \in Reach,
             OpponentRun(p, s, d, n), t = At(s, d, n)
      PROVE  \E j \in 1 .. k : Path(theirs, s, d, j) /\ t = At(s, d, j + 1)
  <2>1. n \in Nat /\ n >= 2 /\ Path(theirs, s, d, n - 1)
    BY <1>1, RunIsPath, BoardSizeAssumption DEF Reach
  <2>2. n - 1 \in Nat \ {0} /\ n - 1 + 1 = n
    BY <2>1
  <2>3. At(s, d, n - 1 + 1) \in free
    BY <1>1, <2>2
  <2>4. n - 1 \in 1 .. k
    BY <2>1, <2>2, <2>3, AllBehind
  <2> QED BY <1>1, <2>1, <2>2, <2>4
<1>2. ASSUME NEW t \in free, NEW s \in mine, NEW j \in 1 .. k,
             Path(theirs, s, d, j), t = At(s, d, j + 1)
      PROVE  \E n \in Reach : OpponentRun(p, s, d, n) /\ t = At(s, d, n)
  <2>1. j \in Nat /\ j + 1 \in Nat /\ j + 1 >= 2 /\ j + 1 - 1 = j
    OBVIOUS
  <2>2. j + 1 <= BoardSize - 1
    BY <1>2, <2>1, WalkEnds
  <2>3. j + 1 \in Reach
    BY <2>1, <2>2, BoardSizeAssumption DEF Reach
  <2>4. OpponentRun(p, s, d, j + 1)
    BY <1>2, <2>1, RunIsPath
  <2> QED BY <1>2, <2>3, <2>4
<1>3. \A t \in free :
        (\E s \in mine, n \in Reach : OpponentRun(p, s, d, n) /\ t = At(s, d, n)) <=>
        (\E s \in mine, j \in 1 .. k : Path(theirs, s, d, j) /\ t = At(s, d, j + 1))
  BY <1>1, <1>2
<1> QED BY <1>3 DEF legal_moves_in_direction, Behind

LEMMA UnrolledMovesAreBits ==
  ASSUME NEW mine \in SUBSET Square, NEW theirs \in SUBSET Square, NEW free \in SUBSET Square,
         NEW d \in Direction
  PROVE  legal_moves_in_direction_unrolled(d, Bits(mine), Bits(theirs), Bits(free))
           = Bits(Behind(mine, theirs, free, d, UnrolledRuns))
<1> DEFINE step == UnrolledRun(d, Bits(mine), Bits(theirs))
<1>1. \A i \in 1 .. UnrolledRuns : step[i] = Bits(Ends(mine, theirs, d, i))
  BY UnrolledIsLoop
<1> HIDE DEF step
<1>2. UNION {step[i] : i \in 1 .. UnrolledRuns}
        = UNION {Bits(Ends(mine, theirs, d, i)) : i \in 1 .. UnrolledRuns}
  BY <1>1
<1>3. UNION {step[i] : i \in 1 .. UnrolledRuns} = Bits(Passed(mine, theirs, d, UnrolledRuns))
  BY <1>2, BitsOfPassed
<1>4. legal_moves_in_direction_unrolled(d, Bits(mine), Bits(theirs), Bits(free))
        = Shift(d, Bits(Passed(mine, theirs, d, UnrolledRuns))) \cap Bits(free)
  BY <1>3 DEF legal_moves_in_direction_unrolled, step
<1> QED BY <1>4, BehindPassed, UnrolledRunsAssumption

-----------------------------------------------------------------------------
(***************************************************************************)
(* The loops.                                                              *)
(***************************************************************************)
Mine == Squares(player)
Theirs == Squares(opponent)
Sources == IF kernel = "flips" THEN {origin} ELSE Mine
Free == Square \ (Mine \cup Theirs)

\* After k runs: where the walks are, what they have passed, and that the
\* loops that may leave early have found no reason to.
Walked(k) ==
  /\ run = Bits(Ends(Sources, Theirs, direction, k))
  /\ captured = Bits(Passed(Sources, Theirs, direction, k))
  /\ kernel = "flips" => OpenBefore(Mine, Theirs, origin, direction, k)
  /\ kernel = "has_legal_move" => Behind(Mine, Theirs, Free, direction, k - 1) = {}

IInv ==
  /\ TypeOK
  /\ player \cap opponent = {}
  /\ kernel = "flips" => origin \in Square
  /\ pc = "loop" => \E k \in Nat \ {0} : Walked(k)
  /\ LoopsComputeTheRules
  /\ UnrolledMatchesReference

\* The bitboards as squares.
LEMMA Discs ==
  ASSUME TypeOK, player \cap opponent = {}
  PROVE  /\ Mine \in SUBSET Square /\ Theirs \in SUBSET Square /\ Mine \cap Theirs = {}
         /\ player = Bits(Mine) /\ opponent = Bits(Theirs)
         /\ Free \in SUBSET Square /\ empty = Bits(Free)
         /\ Free = Square \ occupied(board)
<1>1. player \in SUBSET SquareIndex /\ opponent \in SUBSET SquareIndex
  BY DEF TypeOK
<1>2. /\ Mine \in SUBSET Square /\ Theirs \in SUBSET Square
      /\ player = Bits(Mine) /\ opponent = Bits(Theirs)
  BY <1>1, BitsOfSquares DEF Mine, Theirs
<1>3. \A t \in Square : /\ t \in Mine <=> index_of(t) \in player
                        /\ t \in Theirs <=> index_of(t) \in opponent
  BY <1>1, SquareOfBit DEF Mine, Theirs
<1>4. Mine \cap Theirs = {}
  BY <1>2, <1>3
<1>5. Free \in SUBSET Square
  BY DEF Free
<1>6. \A i \in SquareIndex : i \in empty <=> i \in Bits(Free)
  <2> TAKE i \in SquareIndex
  <2>1. PICK t \in Square : i = index_of(t)
    BY SquareOnBoard
  <2>2. i \in Bits(Free) <=> t \in Free
    BY <1>5, <2>1, BitOfSquare
  <2>3. i \in empty <=> i \notin player /\ i \notin opponent
    BY DEF empty
  <2>4. t \in Free <=> t \notin Mine /\ t \notin Theirs
    BY DEF Free
  <2> QED BY <1>3, <2>1, <2>2, <2>3, <2>4
<1>7. empty = Bits(Free)
  <2>1. empty \in SUBSET SquareIndex /\ Bits(Free) \in SUBSET SquareIndex
    BY <1>5, SquaresOfBits DEF empty
  <2> QED BY <1>6, <2>1
<1>8. Free = Square \ occupied(board)
  BY DEF Free, occupied, board, Mine, Theirs
<1> QED BY <1>2, <1>4, <1>5, <1>7, <1>8

LEMMA EndsAreBits ==
  ASSUME TypeOK, player \cap opponent = {}, NEW k
  PROVE  /\ Bits(Ends(Sources, Theirs, direction, k)) \in SUBSET opponent
         /\ Bits(Passed(Sources, Theirs, direction, k)) \in SUBSET opponent
<1>1. Theirs \in SUBSET Square /\ opponent = Bits(Theirs)
  BY Discs
<1>2. \A Q : Q \in SUBSET Theirs => Bits(Q) \in SUBSET opponent
  BY <1>1 DEF Bits
<1> QED BY <1>1, <1>2, EndsAreTheirs

LEMMA InitIInv == Init => IInv
<1> SUFFICES ASSUME Init PROVE IInv
  OBVIOUS
<1>1. PICK region \in Regions : \E a \in SUBSET region : \E b \in SUBSET (region \ a) :
        /\ player = Bits(a) /\ opponent = Bits(b)
        /\ origin \in IF kernel = "flips" THEN region \ (a \cup b) ELSE {<<-1, -1>>}
  BY DEF Init
<1>2. PICK a \in SUBSET region, b \in SUBSET region :
        /\ a \cap b = {} /\ player = Bits(a) /\ opponent = Bits(b)
        /\ origin \in IF kernel = "flips" THEN region \ (a \cup b) ELSE {<<-1, -1>>}
  BY <1>1
<1>3. region \in SUBSET Square
  BY RegionsAssumption
<1>4. a \in SUBSET Square /\ b \in SUBSET Square /\ a \cap b = {}
  BY <1>2, <1>3
<1>5. player \in SUBSET SquareIndex /\ opponent \in SUBSET SquareIndex
  BY <1>2, <1>4, SquaresOfBits
<1>6. player \cap opponent = {}
  BY <1>2, <1>4, IndexInjective DEF Bits
<1>7. kernel \in {"flips", "legal_moves", "has_legal_move"} /\ direction \in Direction
  BY DEF Init
<1>8. origin \in Square \cup {<<-1, -1>>} /\ (kernel = "flips" => origin \in Square)
  BY <1>2, <1>3
<1>9. run = FirstRun /\ captured = FirstRun /\ pc = "loop" /\ result = {}
  BY DEF Init
<1>10. TypeOK
  BY <1>5, <1>7, <1>8, <1>9 DEF TypeOK, FirstRun
<1>11. Walked(1)
  <2>1. Sources \in SUBSET Square /\ Theirs \in SUBSET Square /\ Mine \in SUBSET Square
        /\ player = Bits(Mine) /\ opponent = Bits(Theirs)
    BY <1>6, <1>8, <1>10, Discs DEF Sources
  <2>2. FirstRun = Shift(direction, Bits(Sources)) \cap Bits(Theirs)
    BY <2>1 DEF FirstRun, Sources
  <2>3. FirstRun = Bits(Ends(Sources, Theirs, direction, 1))
    BY <1>7, <2>1, <2>2, FirstRunOfBits
  <2>4. OpenBefore(Mine, Theirs, origin, direction, 1)
    BY DEF OpenBefore
  <2>5. Behind(Mine, Theirs, Free, direction, 1 - 1) = {}
    BY DEF Behind
  <2> QED BY <1>9, <2>3, <2>4, <2>5, PassedFirst DEF Walked
<1> QED BY <1>6, <1>8, <1>9, <1>10, <1>11 DEF IInv, LoopsComputeTheRules, UnrolledMatchesReference

\* One more run.
LEMMA WalksGoOn ==
  ASSUME IInv, NEW k \in Nat \ {0}, Walked(k)
  PROVE  /\ Shift(direction, run) \cap opponent = Bits(Ends(Sources, Theirs, direction, k + 1))
         /\ captured \cup (Shift(direction, run) \cap opponent)
              = Bits(Passed(Sources, Theirs, direction, k + 1))
<1>1. Sources \in SUBSET Square /\ Theirs \in SUBSET Square /\ opponent = Bits(Theirs)
      /\ direction \in Direction
  BY Discs DEF IInv, TypeOK, Sources
<1>2. Shift(direction, run) \cap opponent = Bits(Ends(Sources, Theirs, direction, k + 1))
  BY <1>1, NextRunOfBits DEF Walked
<1>3. Bits(Passed(Sources, Theirs, direction, k + 1))
        = captured \cup Bits(Ends(Sources, Theirs, direction, k + 1))
  BY PassedGoesOn, BitsOfUnion DEF Walked
<1> QED BY <1>2, <1>3

\* The variables that a loop only reads.
Arguments == <<kernel, direction, origin, player, opponent>>

\* An iteration keeps the invariant if it makes one more run.
LEMMA IterationIInv ==
  ASSUME IInv, UNCHANGED Arguments, pc' = pc, pc = "loop", result' = result,
         NEW k \in Nat \ {0}, Walked(k),
         run' = Shift(direction, run) \cap opponent,
         captured' = captured \cup run',
         kernel = "flips" => OpenBefore(Mine, Theirs, origin, direction, k + 1),
         kernel = "has_legal_move" => Behind(Mine, Theirs, Free, direction, k) = {}
  PROVE  IInv'
<1>1. /\ kernel' = kernel /\ direction' = direction /\ origin' = origin
      /\ player' = player /\ opponent' = opponent
  BY DEF Arguments
<1>2. Sources' = Sources /\ Theirs' = Theirs /\ Mine' = Mine /\ Free' = Free
  BY <1>1 DEF Sources, Theirs, Mine, Free
<1>3. /\ run' = Bits(Ends(Sources, Theirs, direction, k + 1))
      /\ captured' = Bits(Passed(Sources, Theirs, direction, k + 1))
  BY WalksGoOn
<1>4. Walked(k + 1)'
  BY <1>1, <1>2, <1>3 DEF Walked
<1>5. TypeOK'
  <2>1. run' \in SUBSET opponent /\ captured' \in SUBSET opponent
    BY <1>3, EndsAreBits DEF IInv
  <2> QED BY <1>1, <2>1 DEF IInv, TypeOK
<1> QED BY <1>1, <1>4, <1>5 DEF IInv, LoopsComputeTheRules, UnrolledMatchesReference

\* What the rules say of a returned value, and what the unrolled kernels do.
Computes(bits) ==
  CASE kernel = "flips" ->
         Squares(bits) = flips_in_direction(board, origin, direction)
    [] kernel = "legal_moves" ->
         Squares(bits) = legal_moves_in_direction(board, direction)
    [] kernel = "has_legal_move" ->
         (bits # {}) <=> (legal_moves_in_direction(board, direction) # {})

Agrees(bits) ==
  /\ kernel = "flips" =>
       bits = flips_in_direction_unrolled(direction, Bits({origin}), player, opponent)
  /\ kernel = "legal_moves" =>
       bits = legal_moves_in_direction_unrolled(direction, player, opponent, empty)

\* A return keeps the invariant if it returns the right value.
LEMMA ReturnIInv ==
  ASSUME IInv, NEW bits \in SUBSET SquareIndex, Return(bits), Computes(bits), Agrees(bits)
  PROVE  IInv'
<1>1. /\ kernel' = kernel /\ direction' = direction /\ origin' = origin
      /\ player' = player /\ opponent' = opponent
      /\ run' = run /\ captured' = captured /\ pc' = "done" /\ result' = bits
  BY DEF Return
<1>2. TypeOK'
  BY <1>1 DEF IInv, TypeOK
<1>3. board' = board /\ empty' = empty
  BY <1>1 DEF board, empty
<1>4. LoopsComputeTheRules'
  BY <1>1, <1>3 DEF LoopsComputeTheRules, Computes
<1>5. UnrolledMatchesReference'
  BY <1>1, <1>3 DEF UnrolledMatchesReference, Agrees
<1> QED BY <1>1, <1>2, <1>4, <1>5 DEF IInv

LEMMA BoardSides ==
  board.player = Mine /\ board.opponent = Theirs
  BY DEF board, Mine, Theirs

LEMMA FlipsLoopIInv == IInv /\ FlipsLoop => IInv'
<1> SUFFICES ASSUME IInv, FlipsLoop PROVE IInv'
  OBVIOUS
<1>1. kernel = "flips" /\ pc = "loop" /\ origin \in Square /\ direction \in Direction
  BY DEF IInv, TypeOK, FlipsLoop
<1>2. PICK k \in Nat \ {0} : Walked(k)
  BY <1>1 DEF IInv
<1>3. /\ Mine \in SUBSET Square /\ Theirs \in SUBSET Square /\ Mine \cap Theirs = {}
      /\ player = Bits(Mine) /\ opponent = Bits(Theirs) /\ Sources = {origin}
  BY <1>1, Discs DEF IInv, Sources
<1>4. OpenBefore(Mine, Theirs, origin, direction, k)
  BY <1>1, <1>2 DEF Walked
<1>5. run = Bits(Ends({origin}, Theirs, direction, k))
      /\ captured = Bits(Passed({origin}, Theirs, direction, k))
  BY <1>2, <1>3 DEF Walked
<1>6. run # {} <=> Path(Theirs, origin, direction, k)
  BY <1>1, <1>3, <1>5, OneWalk, NoBits
<1>7. Shift(direction, run) \cap player # {} <=>
        Path(Theirs, origin, direction, k) /\ At(origin, direction, k + 1) \in Mine
  <2>1. Shift(direction, Bits(Ends({origin}, Theirs, direction, k))) \cap Bits(Mine) # {} <=>
          Path(Theirs, origin, direction, k) /\ At(origin, direction, k + 1) \in Mine
    BY <1>1, <1>3, ClosingTest
  <2> QED BY <1>3, <1>5, <2>1
<1>8. CASE run = {} /\ Return({})
  <2>1. ~Path(Theirs, origin, direction, k)
    BY <1>6, <1>8
  <2>2. flips_in_direction(board, origin, direction) = {}
    BY <1>1, <1>3, <1>4, <2>1, BoardSides, OpenWalkFlipsNothing
  <2>3. Computes({})
    BY <1>1, <2>2 DEF Computes, Squares
  <2>4. Agrees({})
    <3>1. flips_in_direction_unrolled(direction, Bits({origin}), Bits(Mine), Bits(Theirs)) = {}
      BY <1>1, <1>3, <1>4, <2>1, UnrolledFlipsOpen
    <3> QED BY <1>1, <1>3, <3>1 DEF Agrees
  <2> QED BY <1>8, <2>3, <2>4, ReturnIInv
<1>9. CASE Shift(direction, run) \cap player # {} /\ Return(captured)
  <2>1. Path(Theirs, origin, direction, k) /\ At(origin, direction, k + 1) \in Mine
    BY <1>7, <1>9
  <2>2. flips_in_direction(board, origin, direction) = Passed({origin}, Theirs, direction, k)
    BY <1>1, <1>3, <1>4, <2>1, BoardSides, ClosedWalkFlips
  <2>3. Passed({origin}, Theirs, direction, k) \in SUBSET Square
    BY <1>3, EndsAreTheirs
  <2>4. captured \in SUBSET SquareIndex /\ Squares(captured) = Passed({origin}, Theirs, direction, k)
    BY <1>5, <2>3, SquaresOfBits
  <2>5. Computes(captured)
    BY <1>1, <2>2, <2>4 DEF Computes
  <2>6. Agrees(captured)
    <3>1. flips_in_direction_unrolled(direction, Bits({origin}), Bits(Mine), Bits(Theirs))
            = Bits(Passed({origin}, Theirs, direction, k))
      BY <1>1, <1>3, <1>4, <2>1, UnrolledFlipsClosed
    <3> QED BY <1>1, <1>3, <1>5, <3>1 DEF Agrees
  <2> QED BY <1>9, <2>4, <2>5, <2>6, ReturnIInv
<1>10. CASE /\ run # {} /\ Shift(direction, run) \cap player = {}
            /\ Iterate(Shift(direction, run) \cap opponent)
  <2>1. Path(Theirs, origin, direction, k) /\ At(origin, direction, k + 1) \notin Mine
    BY <1>6, <1>7, <1>10
  <2>2. OpenBefore(Mine, Theirs, origin, direction, k + 1)
    <3>1. \A j : j \in 1 .. k + 1 - 1 <=> j \in 1 .. k - 1 \/ j = k
      OBVIOUS
    <3> QED BY <1>4, <2>1, <3>1 DEF OpenBefore
  <2>3. /\ UNCHANGED Arguments /\ pc' = pc /\ result' = result
        /\ run' = Shift(direction, run) \cap opponent /\ captured' = captured \cup run'
    BY <1>10 DEF Iterate, Arguments
  <2> QED BY <1>1, <1>2, <2>2, <2>3, IterationIInv
<1> QED BY <1>8, <1>9, <1>10 DEF FlipsLoop

\* The free squares behind all walks are the legal moves, once the walks have ended.
LEMMA LegalBehind ==
  ASSUME IInv, kernel # "flips", NEW k \in Nat \ {0}, Walked(k), run = {}
  PROVE  legal_moves_in_direction(board, direction) = Behind(Mine, Theirs, Free, direction, k)
<1>1. /\ Mine \in SUBSET Square /\ Theirs \in SUBSET Square /\ Free \in SUBSET Square
      /\ direction \in Direction /\ Sources = Mine /\ Free = Square \ occupied(board)
  BY Discs DEF IInv, TypeOK, Sources
<1>2. Exhausted(Mine, Theirs, direction, k)
  BY <1>1, NoBits DEF Walked, Exhausted
<1> QED BY <1>1, <1>2, BoardSides, BehindIsLegal

LEMMA LegalBehindLongWalks ==
  ASSUME IInv
  PROVE  legal_moves_in_direction(board, direction)
           = Behind(Mine, Theirs, Free, direction, UnrolledRuns)
<1>1. /\ Mine \in SUBSET Square /\ Theirs \in SUBSET Square /\ Free \in SUBSET Square
      /\ direction \in Direction /\ Free = Square \ occupied(board)
  BY Discs DEF IInv, TypeOK
<1> DEFINE k == UnrolledRuns
<1>2. k \in Nat /\ Exhausted(Mine, Theirs, direction, k)
  BY UnrolledRunsAssumption DEF Exhausted
<1> HIDE DEF k
<1>3. legal_moves_in_direction(board, direction) = Behind(Mine, Theirs, Free, direction, k)
  BY <1>1, <1>2, BoardSides, BehindIsLegal
<1> QED BY <1>3 DEF k

LEMMA LegalMovesLoopIInv == IInv /\ LegalMovesLoop => IInv'
<1> SUFFICES ASSUME IInv, LegalMovesLoop PROVE IInv'
  OBVIOUS
<1>1. kernel = "legal_moves" /\ pc = "loop" /\ direction \in Direction
  BY DEF IInv, TypeOK, LegalMovesLoop
<1>2. PICK k \in Nat \ {0} : Walked(k)
  BY <1>1 DEF IInv
<1>3. /\ Mine \in SUBSET Square /\ Theirs \in SUBSET Square /\ Free \in SUBSET Square
      /\ player = Bits(Mine) /\ opponent = Bits(Theirs) /\ empty = Bits(Free)
      /\ Sources = Mine /\ Free = Square \ occupied(board)
  BY <1>1, Discs DEF IInv, Sources
<1>4. CASE run = {} /\ Return(Shift(direction, captured) \cap empty)
  <2> DEFINE found == Shift(direction, captured) \cap empty
             moves == Behind(Mine, Theirs, Free, direction, k)
  <2>1. found = Bits(moves)
    BY <1>1, <1>2, <1>3, BehindPassed DEF Walked
  <2>2. legal_moves_in_direction(board, direction) = moves
    BY <1>1, <1>2, <1>4, LegalBehind
  <2>3. moves \in SUBSET Square
    BY <1>3 DEF Behind
  <2>4. legal_moves_in_direction_unrolled(direction, player, opponent, empty) = Bits(moves)
    <3>1. legal_moves_in_direction_unrolled(direction, Bits(Mine), Bits(Theirs), Bits(Free))
            = Bits(Behind(Mine, Theirs, Free, direction, UnrolledRuns))
      BY <1>1, <1>3, UnrolledMovesAreBits
    <3>2. legal_moves_in_direction(board, direction)
            = Behind(Mine, Theirs, Free, direction, UnrolledRuns)
      BY LegalBehindLongWalks
    <3> QED BY <1>3, <2>2, <3>1, <3>2
  <2> HIDE DEF found, moves
  <2>5. found \in SUBSET SquareIndex /\ Squares(found) = moves
    BY <2>1, <2>3, SquaresOfBits
  <2>6. Computes(found) /\ Agrees(found)
    BY <1>1, <2>1, <2>2, <2>4, <2>5 DEF Computes, Agrees
  <2>7. Return(found)
    BY <1>4 DEF found
  <2> QED BY <2>5, <2>6, <2>7, ReturnIInv
<1>5. CASE run # {} /\ Iterate(Shift(direction, run) \cap opponent)
  <2>1. /\ UNCHANGED Arguments /\ pc' = pc /\ result' = result
        /\ run' = Shift(direction, run) \cap opponent /\ captured' = captured \cup run'
    BY <1>5 DEF Iterate, Arguments
  <2> QED BY <1>1, <1>2, <2>1, IterationIInv
<1> QED BY <1>4, <1>5 DEF LegalMovesLoop

LEMMA HasLegalMoveLoopIInv == IInv /\ HasLegalMoveLoop => IInv'
<1> SUFFICES ASSUME IInv, HasLegalMoveLoop PROVE IInv'
  OBVIOUS
<1>1. kernel = "has_legal_move" /\ pc = "loop" /\ direction \in Direction
  BY DEF IInv, TypeOK, HasLegalMoveLoop
<1>2. PICK k \in Nat \ {0} : Walked(k)
  BY <1>1 DEF IInv
<1>3. /\ Mine \in SUBSET Square /\ Theirs \in SUBSET Square /\ Free \in SUBSET Square
      /\ empty = Bits(Free) /\ Sources = Mine /\ Free = Square \ occupied(board)
  BY <1>1, Discs DEF IInv, Sources
<1> DEFINE found == Shift(direction, captured) \cap empty
           legal == legal_moves_in_direction(board, direction)
<1>4. found = Bits(Behind(Mine, Theirs, Free, direction, k))
  BY <1>1, <1>2, <1>3, BehindPassed DEF Walked
<1>5. CASE run = {} /\ Return({})
  <2>1. Behind(Mine, Theirs, Free, direction, k) = {}
    <3>1. Ends(Mine, Theirs, direction, k) = {}
      BY <1>2, <1>3, <1>5, NoBits DEF Walked
    <3>2. \A s \in Mine : ~Path(Theirs, s, direction, k)
      <4>1. \A s \in Mine : Path(Theirs, s, direction, k) => At(s, direction, k) \in Theirs
        BY PathIsPrefix
      <4> QED BY <3>1, <4>1 DEF Ends
    <3>3. \A j : j \in 1 .. k <=> j \in 1 .. k - 1 \/ j = k
      OBVIOUS
    <3>4. Behind(Mine, Theirs, Free, direction, k - 1) = {}
      BY <1>1, <1>2 DEF Walked
    <3> QED BY <3>2, <3>3, <3>4 DEF Behind
  <2>2. legal = {}
    BY <1>1, <1>2, <1>5, <2>1, LegalBehind
  <2> HIDE DEF legal
  <2>3. Computes({}) /\ Agrees({})
    BY <1>1, <2>2 DEF Computes, Agrees, legal
  <2> QED BY <1>5, <2>3, ReturnIInv
<1>6. CASE found # {} /\ Return(found)
  <2>1. Behind(Mine, Theirs, Free, direction, k) # {}
    BY <1>4, <1>6, NoBits
  <2>2. legal # {}
    <3>1. PICK t \in Free, s \in Mine, j \in 1 .. k :
            Path(Theirs, s, direction, j) /\ t = At(s, direction, j + 1)
      BY <2>1 DEF Behind
    <3>2. j \in Nat \ {0} /\ j + 1 - 1 = j /\ j + 1 \in Nat /\ j + 1 >= 2
      OBVIOUS
    <3>3. j + 1 <= BoardSize - 1
      BY <1>1, <1>3, <3>1, <3>2, WalkEnds
    <3>4. j + 1 \in Reach
      BY <3>2, <3>3, BoardSizeAssumption DEF Reach
    <3>5. OpponentRun(board, s, direction, j + 1)
      BY <3>1, <3>2, RunIsPath, BoardSides
    <3>6. t \in legal
      BY <1>3, <3>1, <3>4, <3>5, BoardSides DEF legal_moves_in_direction
    <3> QED BY <3>6
  <2>3. found \in SUBSET SquareIndex
    <3>1. Shift(direction, captured) \in SUBSET SquareIndex
      BY <1>1, ShiftOnBoard
    <3> QED BY <3>1
  <2> HIDE DEF found, legal
  <2>4. Computes(found) /\ Agrees(found)
    BY <1>1, <1>6, <2>2 DEF Computes, Agrees, legal
  <2> QED BY <1>6, <2>3, <2>4, ReturnIInv
<1>7. CASE found = {} /\ Iterate(Shift(direction, run) \cap opponent)
  <2>1. Behind(Mine, Theirs, Free, direction, k) = {}
    BY <1>4, <1>7, NoBits
  <2>2. /\ UNCHANGED Arguments /\ pc' = pc /\ result' = result
        /\ run' = Shift(direction, run) \cap opponent /\ captured' = captured \cup run'
    BY <1>7 DEF Iterate, Arguments
  <2> QED BY <1>1, <1>2, <2>1, <2>2, IterationIInv
<1> QED BY <1>5, <1>6, <1>7 DEF HasLegalMoveLoop

LEMMA NextIInv == IInv /\ [Next]_vars => IInv'
<1>1. IInv /\ UNCHANGED vars => IInv'
  BY DEF vars, IInv, TypeOK, Walked, Mine, Theirs, Sources, Free, LoopsComputeTheRules,
         UnrolledMatchesReference, board, empty
<1> QED BY <1>1, FlipsLoopIInv, LegalMovesLoopIInv, HasLegalMoveLoopIInv DEF Next

-----------------------------------------------------------------------------
\* Runs and captured discs are the opponent's, and no loop leaves the board.
THEOREM KernelTypes == Spec => []TypeOK
<1>1. IInv => TypeOK
  BY DEF IInv
<1> QED BY <1>1, InitIInv, NextIInv, PTL DEF Spec

\* The three loops of board.cc compute what the rules say, on boards of every
\* size, for every position and direction: the masks keep bits from wrapping
\* to another rank, and leaving early finds no less.
THEOREM LoopsAreCorrect == Spec => []LoopsComputeTheRules
<1>1. IInv => LoopsComputeTheRules
  BY DEF IInv
<1> QED BY <1>1, InitIInv, NextIInv, PTL DEF Spec

\* The unrolled kernels that production calls return what the loops return,
\* as soon as they look at two runs less than the board has files.
THEOREM UnrolledIsCorrect == Spec => []UnrolledMatchesReference
<1>1. IInv => UnrolledMatchesReference
  BY DEF IInv
<1> QED BY <1>1, InitIInv, NextIInv, PTL DEF Spec
=============================================================================
