----------------------------- MODULE BoardProofs -----------------------------
(***************************************************************************)
(* Proofs about BoardWalk, for any start positions and lines of any        *)
(* length: the keys that do_move updates are those of the board, take-     *)
(* backs bring back the board that was left, a move does what the rules of *)
(* chess say, and the ways to list moves or to test one agree.             *)
(***************************************************************************)
EXTENDS BoardWalk, FiniteSetTheorems, TLAPS

-----------------------------------------------------------------------------
(* Attacks lead to other squares of the board. *)

\* The walk along a ray has not left the board after n steps.
OnBoard(s, d, n) == \A k \in 1 .. n :
    /\ s + k * d \in Square
    /\ SquareDistance[s + (k - 1) * d][s + k * d] = 1

\* A set of small numbers that holds all below each of its own is an interval.
LEMMA Downward ==
  ASSUME NEW A \in SUBSET (1 .. 7), \A n \in A : \A k \in 1 .. n : k \in A
  PROVE  A = 1 .. Cardinality(A)
<1>1. \A k \in 1 .. 7 : k \notin A => \A n \in A : n < k
  <2> SUFFICES ASSUME NEW k \in 1 .. 7, k \notin A, NEW n \in A, n >= k PROVE FALSE
    BY DEF Int
  <2>1. k \in 1 .. n
    OBVIOUS
  <2> QED BY <2>1
<1>2. PICK m \in 0 .. 7 : (\A n \in A : n <= m) /\ (m = 0 \/ m \in A)
  <2>1. CASE 1 \notin A
    <3>1. \A n \in A : n <= 0
      BY <1>1, <2>1
    <3> QED BY <2>1, <3>1
  <2>2. CASE 1 \in A /\ 2 \notin A
    <3>1. \A n \in A : n <= 1
      BY <1>1, <2>2
    <3> QED BY <2>2, <3>1
  <2>3. CASE 2 \in A /\ 3 \notin A
    <3>1. \A n \in A : n <= 2
      BY <1>1, <2>3
    <3> QED BY <2>3, <3>1
  <2>4. CASE 3 \in A /\ 4 \notin A
    <3>1. \A n \in A : n <= 3
      BY <1>1, <2>4
    <3> QED BY <2>4, <3>1
  <2>5. CASE 4 \in A /\ 5 \notin A
    <3>1. \A n \in A : n <= 4
      BY <1>1, <2>5
    <3> QED BY <2>5, <3>1
  <2>6. CASE 5 \in A /\ 6 \notin A
    <3>1. \A n \in A : n <= 5
      BY <1>1, <2>6
    <3> QED BY <2>6, <3>1
  <2>7. CASE 6 \in A /\ 7 \notin A
    <3>1. \A n \in A : n <= 6
      BY <1>1, <2>7
    <3> QED BY <2>7, <3>1
  <2>8. CASE 7 \in A
    BY <2>8
  <2> QED BY <2>1, <2>2, <2>3, <2>4, <2>5, <2>6, <2>7, <2>8
<1>3. A = 1 .. m
  <2>1. m # 0 => \A k \in 1 .. m : k \in A
    BY <1>2
  <2>2. A \subseteq 1 .. m
    BY <1>2
  <2>3. 1 .. m \subseteq A
    BY <2>1
  <2> QED BY <2>2, <2>3
<1>4. Cardinality(1 .. m) = m
  <2>1. m \in Nat /\ 1 \in Int /\ m \in Int
    OBVIOUS
  <2>2. Cardinality(1 .. m) = IF 1 > m THEN 0 ELSE m - 1 + 1
    BY <2>1, FS_Interval
  <2> QED BY <2>1, <2>2
<1> QED BY <1>3, <1>4

\* A ray has the squares up to where the walk leaves the board.
LEMMA RaySquares ==
  ASSUME NEW s \in Square, NEW d \in Directions(QUEEN)
  PROVE  /\ DOMAIN Ray[s][d] = {n \in 1 .. 7 : OnBoard(s, d, n)}
         /\ \A n \in DOMAIN Ray[s][d] : Ray[s][d][n] = s + n * d
<1> DEFINE A == {n \in 1 .. 7 : OnBoard(s, d, n)}
<1>1. Ray[s][d] = [n \in 1 .. Cardinality(A) |-> s + n * d]
  <2>1. Ray[s][d] = [n \in 1 .. Cardinality({n \in 1 .. 7 : \A k \in 1 .. n :
                              /\ s + k * d \in Square
                              /\ SquareDistance[s + (k - 1) * d][s + k * d] = 1}) |-> s + n * d]
    BY DEF Ray
  <2>2. A = {n \in 1 .. 7 : \A k \in 1 .. n :
                              /\ s + k * d \in Square
                              /\ SquareDistance[s + (k - 1) * d][s + k * d] = 1}
    BY DEF OnBoard
  <2> QED BY <2>1, <2>2
<1>2. A = 1 .. Cardinality(A)
  <2>1. A \in SUBSET (1 .. 7)
    OBVIOUS
  <2>2. \A n \in A : \A k \in 1 .. n : k \in A
    <3> SUFFICES ASSUME NEW n \in 1 .. 7, OnBoard(s, d, n), NEW k \in 1 .. n
                 PROVE  k \in 1 .. 7 /\ OnBoard(s, d, k)
      OBVIOUS
    <3>1. 1 .. k \subseteq 1 .. n /\ k \in 1 .. 7
      OBVIOUS
    <3> QED BY <3>1 DEF OnBoard
  <2> HIDE DEF A
  <2> QED BY <2>1, <2>2, Downward
<1> HIDE DEF A
<1>3. DOMAIN Ray[s][d] = A /\ \A n \in A : Ray[s][d][n] = s + n * d
  BY <1>1, <1>2
<1> QED BY <1>3 DEF A

\* A slider attacks squares of the board, and not its own.
LEMMA SlidingOnBoard ==
  ASSUME NEW pt, NEW s \in Square, NEW occ, NEW t \in sliding_attack(pt, s, occ)
  PROVE  t \in Square \ {s}
<1>1. PICK d \in Directions(pt) : \E n \in DOMAIN Ray[s][d] : t = Ray[s][d][n]
  BY DEF sliding_attack
<1>2. d \in Directions(QUEEN)
  BY <1>1 DEF Directions, QUEEN, BISHOP, ROOK
<1>3. PICK n \in 1 .. 7 : OnBoard(s, d, n) /\ t = s + n * d
  BY <1>1, <1>2, RaySquares
<1>4. t \in Square
  <2>1. n \in 1 .. n
    BY <1>3
  <2> QED BY <1>3, <2>1 DEF OnBoard
<1>5. d \in {8, -8, 1, -1, 9, -7, 7, -9}
  BY <1>2 DEF Directions, QUEEN, BISHOP, ROOK, NORTH, EAST
<1>6. n * d # 0
  BY <1>5
<1>7. s \in Int /\ n * d \in Int
  BY <1>5 DEF Square
<1> QED BY <1>3, <1>4, <1>6, <1>7

\* A leaper attacks squares of the board, and not its own; a king none two files away.
LEMMA LeaperOnBoard ==
  ASSUME NEW pt, NEW s \in Square, NEW t \in leaper_attacks(pt, s)
  PROVE  t \in Square \ {s} /\ (pt = KING => Gap(s, t) # 2)
<1>1. PICK d \in leaper_steps(pt) : t = s + d /\ t \in Square
  BY DEF leaper_attacks
<1>2. d \in Int /\ d # 0 /\ (pt = KING => d # 2 /\ d # -2)
  BY <1>1 DEF leaper_steps, KING, KNIGHT
<1>3. s \in Int
  BY DEF Square
<1> QED BY <1>1, <1>2, <1>3 DEF Gap

\* So does any piece but a pawn.
LEMMA AttacksOnBoard ==
  ASSUME NEW pt, NEW s \in Square, NEW occ, NEW t \in attacks_bb(pt, s, occ)
  PROVE  t \in Square \ {s} /\ (pt = KING => Gap(s, t) # 2)
<1>1. CASE pt \in {KNIGHT, KING}
  BY <1>1, LeaperOnBoard DEF attacks_bb
<1>2. CASE pt \notin {KNIGHT, KING}
  BY <1>2, SlidingOnBoard DEF attacks_bb
<1> QED BY <1>1, <1>2

\* A pawn attacks the two squares ahead of it, on the files next to its own.
LEMMA PawnAttackSquares ==
  ASSUME NEW c \in Color, NEW s \in Square
  PROVE  PawnAttacks[c][s] =
           {t \in Square : /\ t = s + Up(c) + 1 \/ t = s + Up(c) - 1
                           /\ SquareDistance[s][t] = 1}
<1>1. PawnAttacks[c] = [q \in Square |->
          {t \in {q + Up(c) + EAST, q + Up(c) - EAST} \cap Square : SquareDistance[q][t] = 1}]
  BY DEF PawnAttacks
<1>2. \A t : t \in PawnAttacks[c][s] <=>
        /\ t \in {s + Up(c) + EAST, s + Up(c) - EAST}
        /\ t \in Square /\ SquareDistance[s][t] = 1
  BY <1>1
<1> QED BY <1>2 DEF EAST

\* A square is its file and rank.
LEMMA Coordinates ==
  ASSUME NEW s \in Square
  PROVE  /\ file_of(s) \in 0 .. 7 /\ rank_of(s) \in 0 .. 7
         /\ s = 8 * rank_of(s) + file_of(s)
<1>1. s \in 0 .. 63
  BY DEF Square
<1> QED BY <1>1 DEF file_of, rank_of

\* Squares at distance one are on the same or neighboring files and ranks.
LEMMA NextTo ==
  ASSUME NEW s \in Square, NEW t \in Square
  PROVE  SquareDistance[s][t] = 1 <=>
           /\ s # t
           /\ file_of(t) <= file_of(s) + 1 /\ file_of(s) <= file_of(t) + 1
           /\ rank_of(t) <= rank_of(s) + 1 /\ rank_of(s) <= rank_of(t) + 1
<1> DEFINE x == file_of(s)  y == rank_of(s)  u == file_of(t)  v == rank_of(t)
<1>1. x \in 0 .. 7 /\ y \in 0 .. 7 /\ s = 8 * y + x
  BY Coordinates
<1>2. u \in 0 .. 7 /\ v \in 0 .. 7 /\ t = 8 * v + u
  BY Coordinates
<1>3. SquareDistance[s][t] = IF Gap(x, u) > Gap(y, v) THEN Gap(x, u) ELSE Gap(y, v)
  BY DEF SquareDistance
<1> HIDE DEF x, y, u, v
<1>4. SquareDistance[s][t] = 1 <=>
        s # t /\ u <= x + 1 /\ x <= u + 1 /\ v <= y + 1 /\ y <= v + 1
  <2>1. s = t <=> x = u /\ y = v
    BY <1>1, <1>2
  <2>2. (IF Gap(x, u) > Gap(y, v) THEN Gap(x, u) ELSE Gap(y, v)) = 1
          <=> ~(x = u /\ y = v) /\ u <= x + 1 /\ x <= u + 1 /\ v <= y + 1 /\ y <= v + 1
    BY <1>1, <1>2 DEF Gap
  <2> QED BY <1>3, <2>1, <2>2
<1> QED BY <1>4 DEF x, y, u, v

\* A pawn of one color attacks what a pawn of the other attacks it from.
LEMMA PawnAttacksBack ==
  ASSUME NEW c \in Color, NEW s \in Square, NEW t \in Square
  PROVE  t \in PawnAttacks[c][s] <=> s \in PawnAttacks[Opposite(c)][t]
<1>1. c \in {0, 1} /\ s \in Int /\ t \in Int /\ Opposite(c) \in Color
  BY DEF Color, WHITE, BLACK, Opposite, Square
<1>2. Up(Opposite(c)) = -Up(c) /\ Up(c) \in Int
  BY <1>1 DEF Up, WHITE, Opposite, NORTH
<1>3. SquareDistance[s][t] = 1 <=> SquareDistance[t][s] = 1
  <2> DEFINE x == file_of(s)  y == rank_of(s)  u == file_of(t)  v == rank_of(t)
  <2>1. x \in Int /\ u \in Int /\ y \in Int /\ v \in Int
    BY Coordinates
  <2>2. SquareDistance[s][t] = 1 <=> s # t /\ u <= x + 1 /\ x <= u + 1 /\ v <= y + 1 /\ y <= v + 1
    BY NextTo
  <2>3. SquareDistance[t][s] = 1 <=> t # s /\ x <= u + 1 /\ u <= x + 1 /\ y <= v + 1 /\ v <= y + 1
    BY NextTo
  <2> HIDE DEF x, y, u, v
  <2> QED BY <2>1, <2>2, <2>3
<1>4. PawnAttacks[c][s] =
           {q \in Square : /\ q = s + Up(c) + 1 \/ q = s + Up(c) - 1
                           /\ SquareDistance[s][q] = 1}
  BY PawnAttackSquares
<1>5. PawnAttacks[Opposite(c)][t] =
           {q \in Square : /\ q = t + Up(Opposite(c)) + 1 \/ q = t + Up(Opposite(c)) - 1
                           /\ SquareDistance[t][q] = 1}
  BY <1>1, PawnAttackSquares
<1>6. (t = s + Up(c) + 1 \/ t = s + Up(c) - 1)
        <=> (s = t + Up(Opposite(c)) + 1 \/ s = t + Up(Opposite(c)) - 1)
  <2> DEFINE up == Up(c)
  <2>1. up \in Int /\ Up(Opposite(c)) = -up
    BY <1>2
  <2> HIDE DEF up
  <2>2. (t = s + up + 1 \/ t = s + up - 1) <=> (s = t + (-up) + 1 \/ s = t + (-up) - 1)
    BY <1>1, <2>1
  <2> QED BY <2>1, <2>2 DEF up
<1> QED BY <1>3, <1>4, <1>5, <1>6

\* The file changes by one, the rank by one forward.
LEMMA PawnTakesAhead ==
  ASSUME NEW c \in Color, NEW s \in Square, NEW t \in PawnAttacks[c][s]
  PROVE  /\ t \in Square
         /\ file_of(t) = file_of(s) + 1 \/ file_of(s) = file_of(t) + 1
         /\ IF c = WHITE THEN rank_of(t) = rank_of(s) + 1 ELSE rank_of(s) = rank_of(t) + 1
<1>1. PawnAttacks[c][s] =
           {q \in Square : /\ q = s + Up(c) + 1 \/ q = s + Up(c) - 1
                           /\ SquareDistance[s][q] = 1}
  BY PawnAttackSquares
<1>2. t \in Square /\ (t = s + Up(c) + 1 \/ t = s + Up(c) - 1) /\ SquareDistance[s][t] = 1
  BY <1>1
<1> DEFINE x == file_of(s)  y == rank_of(s)  u == file_of(t)  v == rank_of(t)  d == Up(c)
<1>3. (d = 8 /\ c = WHITE) \/ (d = -8 /\ c # WHITE)
  BY DEF Up, NORTH
<1>4. x \in 0 .. 7 /\ y \in 0 .. 7 /\ s = 8 * y + x
  BY Coordinates
<1>5. u \in 0 .. 7 /\ v \in 0 .. 7 /\ t = 8 * v + u
  BY <1>2, Coordinates
<1>6. u <= x + 1 /\ x <= u + 1 /\ v <= y + 1 /\ y <= v + 1
  BY <1>2, NextTo
<1>7. t = s + d + 1 \/ t = s + d - 1
  BY <1>2
<1> HIDE DEF x, y, u, v, d
<1>8. (u = x + 1 \/ x = u + 1) /\ (IF c = WHITE THEN v = y + 1 ELSE y = v + 1)
  <2>1. 8 * v + u = 8 * y + x + d + 1 \/ 8 * v + u = 8 * y + x + d - 1
    BY <1>4, <1>5, <1>7
  <2>2. CASE d = 8
    BY <1>3, <1>4, <1>5, <1>6, <2>1, <2>2
  <2>3. CASE d = -8
    BY <1>3, <1>4, <1>5, <1>6, <2>1, <2>3
  <2> QED BY <1>3, <2>2, <2>3
<1> QED BY <1>2, <1>8 DEF x, y, u, v

\* Two squares of a rank with nothing between them: a rook goes from one to the other,
\* to the east ...
LEMMA RookEast ==
  ASSUME NEW s \in Square, NEW t \in Square, s < t, rank_of(s) = rank_of(t),
         NEW occ, \A q \in occ : ~(s < q /\ q < t)
  PROVE  t \in attacks_bb(ROOK, s, occ)
<1> DEFINE n == t - s
<1>1. s \in 0 .. 63 /\ t \in 0 .. 63
  BY DEF Square
<1>2. n \in 1 .. 7 /\ s + n * 1 = t
  <2> DEFINE x == file_of(s)  y == rank_of(s)  u == file_of(t)
  <2>1. x \in 0 .. 7 /\ y \in 0 .. 7 /\ s = 8 * y + x
    BY Coordinates
  <2>2. u \in 0 .. 7 /\ t = 8 * y + u
    BY Coordinates
  <2> HIDE DEF x, y, u
  <2> QED BY <1>1, <2>1, <2>2
<1> HIDE DEF n
<1>3. OnBoard(s, 1, n)
  <2> SUFFICES ASSUME NEW k \in 1 .. n
               PROVE  s + k * 1 \in Square /\ SquareDistance[s + (k - 1) * 1][s + k * 1] = 1
    BY DEF OnBoard
  <2> DEFINE p == s + (k - 1)  q == s + k
  <2>1. p \in Square /\ q \in Square /\ q = p + 1 /\ s <= p /\ q <= t
    BY <1>1, <1>2 DEF Square
  <2>2. s + k * 1 = q /\ s + (k - 1) * 1 = p
    BY <1>1, <1>2
  <2> HIDE DEF p, q
  <2>3. file_of(q) = file_of(p) + 1 /\ rank_of(q) = rank_of(p)
    <3> DEFINE x == file_of(s)  y == rank_of(s)  u == file_of(t)
               v == file_of(p)  w == rank_of(p)  f == file_of(q)  g == rank_of(q)
    <3>1. x \in 0 .. 7 /\ y \in 0 .. 7 /\ s = 8 * y + x
      BY Coordinates
    <3>2. u \in 0 .. 7 /\ t = 8 * y + u
      BY Coordinates
    <3>3. v \in 0 .. 7 /\ w \in 0 .. 7 /\ p = 8 * w + v
      BY <2>1, Coordinates
    <3>4. f \in 0 .. 7 /\ g \in 0 .. 7 /\ q = 8 * g + f
      BY <2>1, Coordinates
    <3> HIDE DEF x, y, u, v, w, f, g
    <3>5. f = v + 1 /\ g = w
      BY <2>1, <3>1, <3>2, <3>3, <3>4
    <3> QED BY <3>5 DEF v, w, f, g
  <2>4. file_of(p) \in Int /\ rank_of(p) \in Int /\ p \in Int
    BY <2>1, Coordinates DEF Square
  <2>5. SquareDistance[p][q] = 1
    BY <2>1, <2>3, <2>4, NextTo
  <2> QED BY <2>1, <2>2, <2>5
<1>4. 1 \in Directions(QUEEN) /\ 1 \in Directions(ROOK) /\ ROOK \notin {KNIGHT, KING}
  BY DEF Directions, QUEEN, BISHOP, ROOK, EAST, KNIGHT, KING
<1>5. n \in DOMAIN Ray[s][1] /\ Ray[s][1][n] = t
  BY <1>2, <1>3, <1>4, RaySquares
<1>6. \A k \in 1 .. n - 1 : Ray[s][1][k] \notin occ
  <2> SUFFICES ASSUME NEW k \in 1 .. n - 1 PROVE Ray[s][1][k] \notin occ
    OBVIOUS
  <2>1. k \in 1 .. 7 /\ OnBoard(s, 1, k)
    <3>1. 1 .. k \subseteq 1 .. n /\ k \in 1 .. 7
      BY <1>2
    <3> QED BY <1>3, <3>1 DEF OnBoard
  <2>2. Ray[s][1][k] = s + k * 1
    BY <1>4, <2>1, RaySquares
  <2>3. s < s + k * 1 /\ s + k * 1 < t
    BY <1>1, <1>2
  <2> QED BY <2>2, <2>3
<1>7. t \in sliding_attack(ROOK, s, occ)
  BY <1>4, <1>5, <1>6 DEF sliding_attack
<1> QED BY <1>4, <1>7 DEF attacks_bb

\* ... and to the west.
LEMMA RookWest ==
  ASSUME NEW s \in Square, NEW t \in Square, t < s, rank_of(s) = rank_of(t),
         NEW occ, \A q \in occ : ~(t < q /\ q < s)
  PROVE  t \in attacks_bb(ROOK, s, occ)
<1> DEFINE n == s - t
<1>1. s \in 0 .. 63 /\ t \in 0 .. 63
  BY DEF Square
<1>2. n \in 1 .. 7 /\ s + n * (-1) = t
  <2> DEFINE x == file_of(s)  y == rank_of(s)  u == file_of(t)
  <2>1. x \in 0 .. 7 /\ y \in 0 .. 7 /\ s = 8 * y + x
    BY Coordinates
  <2>2. u \in 0 .. 7 /\ t = 8 * y + u
    BY Coordinates
  <2> HIDE DEF x, y, u
  <2> QED BY <1>1, <2>1, <2>2
<1> HIDE DEF n
<1>3. OnBoard(s, -1, n)
  <2> SUFFICES ASSUME NEW k \in 1 .. n
               PROVE  s + k * (-1) \in Square /\ SquareDistance[s + (k - 1) * (-1)][s + k * (-1)] = 1
    BY DEF OnBoard
  <2> DEFINE p == s - (k - 1)  q == s - k
  <2>1. p \in Square /\ q \in Square /\ q = p - 1 /\ p <= s /\ t <= q
    BY <1>1, <1>2 DEF Square
  <2>2. s + k * (-1) = q /\ s + (k - 1) * (-1) = p
    BY <1>1, <1>2
  <2> HIDE DEF p, q
  <2>3. file_of(p) = file_of(q) + 1 /\ rank_of(q) = rank_of(p)
    <3> DEFINE x == file_of(s)  y == rank_of(s)  u == file_of(t)
               v == file_of(p)  w == rank_of(p)  f == file_of(q)  g == rank_of(q)
    <3>1. x \in 0 .. 7 /\ y \in 0 .. 7 /\ s = 8 * y + x
      BY Coordinates
    <3>2. u \in 0 .. 7 /\ t = 8 * y + u
      BY Coordinates
    <3>3. v \in 0 .. 7 /\ w \in 0 .. 7 /\ p = 8 * w + v
      BY <2>1, Coordinates
    <3>4. f \in 0 .. 7 /\ g \in 0 .. 7 /\ q = 8 * g + f
      BY <2>1, Coordinates
    <3> HIDE DEF x, y, u, v, w, f, g
    <3>5. v = f + 1 /\ g = w
      BY <2>1, <3>1, <3>2, <3>3, <3>4
    <3> QED BY <3>5 DEF v, w, f, g
  <2>4. file_of(q) \in Int /\ rank_of(q) \in Int /\ q \in Int
    BY <2>1, Coordinates DEF Square
  <2>5. SquareDistance[p][q] = 1
    BY <2>1, <2>3, <2>4, NextTo
  <2> QED BY <2>1, <2>2, <2>5
<1>4. -1 \in Directions(QUEEN) /\ -1 \in Directions(ROOK) /\ ROOK \notin {KNIGHT, KING}
  BY DEF Directions, QUEEN, BISHOP, ROOK, EAST, KNIGHT, KING
<1>5. n \in DOMAIN Ray[s][-1] /\ Ray[s][-1][n] = t
  BY <1>2, <1>3, <1>4, RaySquares
<1>6. \A k \in 1 .. n - 1 : Ray[s][-1][k] \notin occ
  <2> SUFFICES ASSUME NEW k \in 1 .. n - 1 PROVE Ray[s][-1][k] \notin occ
    OBVIOUS
  <2>1. k \in 1 .. 7 /\ OnBoard(s, -1, k)
    <3>1. 1 .. k \subseteq 1 .. n /\ k \in 1 .. 7
      BY <1>2
    <3> QED BY <1>3, <3>1 DEF OnBoard
  <2>2. Ray[s][-1][k] = s + k * (-1)
    BY <1>4, <2>1, RaySquares
  <2>3. t < s + k * (-1) /\ s + k * (-1) < s
    BY <1>1, <1>2
  <2> QED BY <2>2, <2>3
<1>7. t \in sliding_attack(ROOK, s, occ)
  BY <1>4, <1>5, <1>6 DEF sliding_attack
<1> QED BY <1>4, <1>7 DEF attacks_bb

\* What lies between two squares of a rank.
LEMMA BetweenOnRank ==
  ASSUME NEW a \in Square, NEW t \in Square, NEW b \in Square,
         a < t, t < b, rank_of(a) = rank_of(t), rank_of(t) = rank_of(b)
  PROVE  t \in BetweenBB[a][b] /\ t \in BetweenBB[b][a]
<1>1. a \in Int /\ t \in Int /\ b \in Int /\ a < b /\ rank_of(a) = rank_of(b)
  BY DEF Square
<1>2. t \in attacks_bb(ROOK, a, {b}) /\ b \in attacks_bb(ROOK, a, {})
  BY <1>1, RookEast
<1>3. t \in attacks_bb(ROOK, b, {a}) /\ a \in attacks_bb(ROOK, b, {})
  BY <1>1, RookWest
<1>4. ROOK \in PieceType \ {PAWN}
  BY DEF PieceType, ROOK, PAWN
<1>5. ROOK \in SliderJoining(a, b) /\ ROOK \in SliderJoining(b, a)
  BY <1>2, <1>3, <1>4 DEF SliderJoining, PseudoAttacks
<1>6. BetweenBB[a] = [q \in Square |->
        UNION {attacks_bb(pt, a, {q}) \cap attacks_bb(pt, q, {a}) : pt \in SliderJoining(a, q)}]
  BY DEF BetweenBB
<1>7. BetweenBB[b] = [q \in Square |->
        UNION {attacks_bb(pt, b, {q}) \cap attacks_bb(pt, q, {b}) : pt \in SliderJoining(b, q)}]
  BY DEF BetweenBB
<1>8. BetweenBB[a][b] =
        UNION {attacks_bb(pt, a, {b}) \cap attacks_bb(pt, b, {a}) : pt \in SliderJoining(a, b)}
  BY <1>6
<1>9. BetweenBB[b][a] =
        UNION {attacks_bb(pt, b, {a}) \cap attacks_bb(pt, a, {b}) : pt \in SliderJoining(b, a)}
  BY <1>7
<1>10. \E pt \in SliderJoining(a, b) : t \in attacks_bb(pt, a, {b}) \cap attacks_bb(pt, b, {a})
  BY <1>2, <1>3, <1>5
<1>11. \E pt \in SliderJoining(b, a) : t \in attacks_bb(pt, b, {a}) \cap attacks_bb(pt, a, {b})
  BY <1>2, <1>3, <1>5
<1>12. t \in BetweenBB[a][b]
  BY <1>8, <1>10
<1>13. t \in BetweenBB[b][a]
  BY <1>9, <1>11
<1> QED BY <1>12, <1>13

\* The squares of castling, and that king and rook arrive where the path must be empty.
LEMMA CastlingSquares ==
  ASSUME NEW cr \in CastlingRight
  PROVE  /\ cr = <<cr[1], cr[2]>> /\ cr[1] \in Color /\ cr[2] \in CastlingSide
         /\ king_home(cr[1]) \in Square /\ rook_home(cr) \in Square
         /\ king_home(cr[1]) = (IF cr[1] = WHITE THEN 4 ELSE 60)
         /\ IF cr[2] = "king"
            THEN /\ rook_home(cr) = king_home(cr[1]) + 3
                 /\ king_to(cr) = king_home(cr[1]) + 2
                 /\ rook_to(cr) = king_home(cr[1]) + 1
            ELSE /\ rook_home(cr) = king_home(cr[1]) - 4
                 /\ king_to(cr) = king_home(cr[1]) - 2
                 /\ rook_to(cr) = king_home(cr[1]) - 1
<1>1. cr = <<cr[1], cr[2]>> /\ cr[1] \in Color /\ cr[2] \in CastlingSide
  BY DEF CastlingRight
<1>2. cr[1] \in {0, 1} /\ cr[2] \in {"king", "queen"}
  BY <1>1 DEF Color, WHITE, BLACK, CastlingSide
<1> QED BY <1>1, <1>2 DEF king_home, rook_home, king_to, rook_to, relative_square, relative_rank,
                  rank_of, file_of, WHITE, Square

\* King and rook arrive on squares that castling_impeded wants empty.
LEMMA CastlingPathEnds ==
  ASSUME NEW cr \in CastlingRight
  PROVE  king_to(cr) \in castlingPath(cr) /\ rook_to(cr) \in castlingPath(cr)
<1> DEFINE kh == king_home(cr[1])  rh == rook_home(cr)  kt == king_to(cr)  rt == rook_to(cr)
<1>1. kh \in {4, 60}
  BY CastlingSquares
<1>2. (rh = kh + 3 /\ kt = kh + 2 /\ rt = kh + 1) \/ (rh = kh - 4 /\ kt = kh - 2 /\ rt = kh - 1)
  BY CastlingSquares
<1> HIDE DEF kh, rh, kt, rt
<1>3. /\ kh \in Square /\ rh \in Square /\ kt \in Square /\ rt \in Square
      /\ kt # kh /\ kt # rh /\ rt # kh /\ rt # rh
      /\ rank_of(kh) = rank_of(rh) /\ rank_of(kt) = rank_of(rh) /\ rank_of(rt) = rank_of(rh)
      /\ (kh < rt /\ rt < kt /\ kt < rh) \/ (rh < kt /\ kt < rt /\ rt < kh)
  BY <1>1, <1>2 DEF Square, rank_of
<1>4. kt \in BetweenBB[rh][rt]
  BY <1>3, BetweenOnRank
<1>5. rt \in BetweenBB[kh][kt]
  BY <1>3, BetweenOnRank
<1>6. castlingPath(cr) = (BetweenBB[rh][rt] \cup BetweenBB[kh][kt]) \ {kh, rh}
  BY DEF castlingPath, kh, rh, kt, rt
<1> QED BY <1>3, <1>4, <1>5, <1>6 DEF kt, rt

-----------------------------------------------------------------------------
(* What generated moves look like. *)

MoveRecord == [from : Square, to : Square, type : {NORMAL, PROMOTION, EN_PASSANT, CASTLING},
               promotion : PieceType]

\* A pawn of the side to move captures, goes a step, or two.
Takes(s, t) == t \in PawnAttacks[us][s] /\ t \in DOMAIN board
Pushes(s, t) == t = s + Up(us) /\ t \notin DOMAIN board
Jumps(s, t) ==
  /\ relative_rank(us, s) = 1 /\ s + Up(us) \in Square \ DOMAIN board
  /\ t = s + 2 * Up(us) /\ t \notin DOMAIN board

FitsNormal(m) ==
  /\ m.type = NORMAL
  /\ board[m.from][2] = KING => Gap(m.from, m.to) # 2
  /\ board[m.from][2] = PAWN =>
       Takes(m.from, m.to) \/ Pushes(m.from, m.to) \/ Jumps(m.from, m.to)

FitsPromotion(m) ==
  /\ m.type = PROMOTION /\ m.promotion \in {QUEEN, ROOK, BISHOP, KNIGHT}
  /\ board[m.from][2] = PAWN
  /\ Takes(m.from, m.to) \/ Pushes(m.from, m.to)

FitsEnPassant(m) ==
  /\ m.type = EN_PASSANT /\ board[m.from][2] = PAWN
  /\ m.to = st.epSquare /\ st.epSquare # SQ_NONE /\ m.to \in PawnAttacks[us][m.from]

FitsCastling(m) ==
  /\ m.type = CASTLING
  /\ \E cr \in st.castlingRights :
       /\ cr[1] = us /\ castlingPath(cr) \cap DOMAIN board = {}
       /\ m.from = king_home(us) /\ m.to = king_to(cr)

\* A move of the side to move that the rules of each piece allow, kings apart.
Fits(m) ==
  /\ m \in MoveRecord /\ m.from # m.to
  /\ m.from \in DOMAIN board /\ board[m.from][1] = us
  /\ FitsNormal(m) \/ FitsPromotion(m) \/ FitsEnPassant(m) \/ FitsCastling(m)

-----------------------------------------------------------------------------
(* A sound position: what board, side to move and StateInfo have to agree on. *)

StateFields == {"key", "pawnKey", "nonPawnMaterial", "castlingRights", "rule50",
                "pliesFromNull", "epSquare", "checkersBB", "capturedPiece",
                "blockersForKing", "checkSquares", "repetition"}

Agrees(b, c, s) ==
  /\ RightsAtHome(b, s.castlingRights)
  /\ EpFits(b, c, s.epSquare)
  /\ s.checkersBB \subseteq DOMAIN b

Sound(b, c, s) ==
  /\ c \in Color
  /\ IsBoard(b)
  /\ s = [f \in StateFields |-> s[f]]
  /\ Agrees(b, c, s)
  /\ s.key = PositionKey(b, c, s.castlingRights, s.epSquare)
  /\ s.pawnKey = PawnKey(b)
  /\ s.blockersForKing = blockersForKing(b)

\* A step of a piece stays on the board and leaves its square.
LEMMA PieceMovesFit ==
  ASSUME Sound(board, us, st), NEW types \in SUBSET (PieceType \ {PAWN}), NEW target,
         NEW m \in generate_moves(types, target)
  PROVE  Fits(m)
<1>0. PICK s \in PiecesOf(board, us) \cap PiecesOfType(board, types) :
        \E t \in attacks_bb(board[s][2], s, pieces(board)) \cap target : m = Move(s, t)
  BY DEF generate_moves
<1>1. PICK t \in attacks_bb(board[s][2], s, pieces(board)) \cap target : m = Move(s, t)
  BY <1>0
<1>2. s \in DOMAIN board /\ board[s][1] = us /\ board[s][2] \in types
  BY <1>0 DEF PiecesOf, PiecesOfType
<1>3. s \in Square
  BY <1>2 DEF Sound, IsBoard
<1>4. t \in Square /\ t # s /\ (board[s][2] = KING => Gap(s, t) # 2)
  BY <1>1, <1>3, AttacksOnBoard
<1>5. m.from = s /\ m.to = t /\ m.type = NORMAL /\ m \in MoveRecord
  BY <1>1, <1>3, <1>4 DEF Move, MoveRecord, PieceType
<1>6. FitsNormal(m)
  BY <1>2, <1>4, <1>5 DEF FitsNormal
<1> QED BY <1>2, <1>4, <1>5, <1>6 DEF Fits

\* The king that may castle is at home.
LEMMA KingIsAtHome ==
  ASSUME NEW b, NEW rights, IsBoard(b), RightsAtHome(b, rights), NEW cr \in rights
  PROVE  /\ cr \in CastlingRight
         /\ StandsOn(b, make_piece(cr[1], KING), king_home(cr[1]))
         /\ StandsOn(b, make_piece(cr[1], ROOK), rook_home(cr))
         /\ king_square(b, cr[1]) = king_home(cr[1])
<1>1. /\ cr \in CastlingRight
      /\ StandsOn(b, make_piece(cr[1], KING), king_home(cr[1]))
      /\ StandsOn(b, make_piece(cr[1], ROOK), rook_home(cr))
  BY DEF RightsAtHome
<1> DEFINE king == make_piece(cr[1], KING)  kh == king_home(cr[1])
<1>2. king[2] = KING
  BY DEF make_piece
<1>3. kh \in DOMAIN b /\ b[kh] = king
  BY <1>1 DEF StandsOn
<1>4. \A s \in DOMAIN b : b[s] = king => s = kh
  BY <1>2, <1>3 DEF IsBoard
<1>5. (CHOOSE s \in DOMAIN b : b[s] = king) = kh
  <2> HIDE DEF king, kh
  <2> QED BY <1>3, <1>4
<1> QED BY <1>1, <1>5 DEF king_square

\* Castling is generated with its right, and with a free path.
LEMMA CastlingMovesFit ==
  ASSUME Sound(board, us, st), NEW m \in generate_castling
  PROVE  Fits(m)
<1>1. PICK cr \in {us} \X CastlingSide :
        /\ can_castle(cr) /\ ~castling_impeded(cr)
        /\ m = MakeMove(CASTLING, king_square(board, us), king_to(cr), KNIGHT)
  BY DEF generate_castling
<1>2. cr[1] = us /\ cr \in st.castlingRights /\ castlingPath(cr) \cap DOMAIN board = {}
  BY <1>1 DEF can_castle, castling_impeded, pieces
<1>3. /\ cr \in CastlingRight /\ king_square(board, us) = king_home(us)
      /\ StandsOn(board, make_piece(us, KING), king_home(us))
  BY <1>2, KingIsAtHome DEF Sound, Agrees
<1> DEFINE kh == king_home(us)  kt == king_to(cr)
<1>4. kh \in {4, 60} /\ (kt = kh + 2 \/ kt = kh - 2)
  BY <1>2, <1>3, CastlingSquares
<1>5. m = MakeMove(CASTLING, kh, kt, KNIGHT)
  BY <1>1, <1>3
<1> HIDE DEF kh, kt
<1>6. kh \in Square /\ kt \in Square /\ kh # kt
  BY <1>4 DEF Square
<1>7. m.from = kh /\ m.to = kt /\ m.type = CASTLING /\ m \in MoveRecord
  BY <1>5, <1>6 DEF MakeMove, Move, MoveRecord, PieceType
<1>8. kh \in DOMAIN board /\ board[kh][1] = us
  BY <1>3 DEF StandsOn, make_piece, kh
<1>9. FitsCastling(m)
  BY <1>2, <1>7 DEF FitsCastling, kh, kt
<1> QED BY <1>6, <1>7, <1>8, <1>9 DEF Fits

\* A pawn captures what is there, or goes where nothing is.
LEMMA PawnMovesFit ==
  ASSUME Sound(board, us, st), NEW type, NEW target, NEW m \in generate_pawn_moves(type, target)
  PROVE  Fits(m)
<1> DEFINE up == Up(us)
           enemies == IF type = EVASIONS THEN st.checkersBB ELSE PiecesOf(board, them)
           pawns == PiecesOf(board, us) \cap PiecesOfType(board, {PAWN})
           Promotes(s, t) == /\ Takes(s, t) \/ (Pushes(s, t) /\ t \in Square)
                             /\ \E pt \in promotion_pieces(type) : m = MakeMove(PROMOTION, s, t, pt)
           Plain(s, t) == /\ Takes(s, t) \/ (Pushes(s, t) /\ t \in Square) \/ (Jumps(s, t) /\ t \in Square)
                          /\ m = Move(s, t)
           EnPassant(s) == /\ st.epSquare # SQ_NONE /\ s \in PawnAttacks[them][st.epSquare]
                           /\ m = MakeMove(EN_PASSANT, s, st.epSquare, KNIGHT)
<1>1. enemies \subseteq DOMAIN board
  BY DEF Sound, Agrees, PiecesOf
<1>2. PICK s \in pawns : (\E t : Promotes(s, t)) \/ (\E t : Plain(s, t)) \/ EnPassant(s)
  <2> DEFINE empty == Square \ pieces(board)
             pawnsOn7 == {s \in pawns : relative_rank(us, s) = 6}
             pawnsNotOn7 == pawns \ pawnsOn7
             wanted(q) == type = EVASIONS => q \in target
             single == {s \in pawnsNotOn7 : s + up \in empty}
             double == {s \in single : relative_rank(us, s) = 1 /\ s + 2 * up \in empty}
             captures == UNION {{Move(s, t) : t \in PawnAttacks[us][s] \cap enemies} : s \in pawnsNotOn7}
             pushes == {Move(s, s + up) : s \in {p \in single : wanted(p + up)}}
                         \cup {Move(s, s + 2 * up) : s \in {p \in double : wanted(p + 2 * up)}}
             promoting == UNION {{Move(s, t) : t \in (PawnAttacks[us][s] \cap enemies)
                                      \cup {q \in {s + up} \cap empty : wanted(q)}} : s \in pawnsOn7}
             promotions == UNION {{MakeMove(PROMOTION, n.from, n.to, pt) : pt \in promotion_pieces(type)} :
                                     n \in promoting}
             ep == st.epSquare
             enPassant == IF ep = SQ_NONE \/ (type = EVASIONS /\ ep - up \notin target) THEN {}
                          ELSE {MakeMove(EN_PASSANT, s, ep, KNIGHT) : s \in pawnsNotOn7 \cap PawnAttacks[them][ep]}
  <2>1. m \in promotions \/ m \in pushes \/ m \in captures \/ m \in enPassant
    <3>1. m \in promotions \cup (IF type = CAPTURES THEN {} ELSE pushes)
                           \cup (IF type = QUIETS THEN {} ELSE captures \cup enPassant)
      BY Zenon DEF generate_pawn_moves
    <3> HIDE DEF promotions, pushes, captures, enPassant
    <3> QED BY <3>1
  <2>2. CASE m \in promotions
    <3>1. PICK n \in promoting : \E pt \in promotion_pieces(type) :
            m = MakeMove(PROMOTION, n.from, n.to, pt)
      BY <2>2
    <3>2. PICK q \in pawnsOn7 : \E t \in (PawnAttacks[us][q] \cap enemies)
                                      \cup {r \in {q + up} \cap empty : wanted(r)} : n = Move(q, t)
      OBVIOUS
    <3>3. PICK t \in (PawnAttacks[us][q] \cap enemies) \cup {r \in {q + up} \cap empty : wanted(r)} :
            n = Move(q, t)
      BY <3>2
    <3>4. n.from = q /\ n.to = t
      BY <3>3 DEF Move
    <3>5. Takes(q, t) \/ (Pushes(q, t) /\ t \in Square)
      BY <1>1, <3>3 DEF Takes, Pushes, pieces
    <3>6. Promotes(q, t)
      BY <3>1, <3>4, <3>5
    <3> QED BY <3>6
  <2>3. CASE m \in pushes
    <3>1. PICK q \in single : m = Move(q, q + up) \/ (q \in double /\ m = Move(q, q + 2 * up))
      BY <2>3
    <3>2. q \in pawns
      BY <3>1
    <3>3. q + up \in Square \ DOMAIN board
      BY <3>1 DEF pieces
    <3>4. CASE m = Move(q, q + up)
      <4>1. Pushes(q, q + up)
        BY <3>3 DEF Pushes
      <4>2. Plain(q, q + up)
        BY <3>3, <3>4, <4>1
      <4> QED BY <3>2, <4>2
    <3>5. CASE q \in double /\ m = Move(q, q + 2 * up)
      <4>1. q + 2 * up \in Square \ DOMAIN board /\ relative_rank(us, q) = 1
        BY <3>5 DEF pieces
      <4>2. Jumps(q, q + 2 * up)
        BY <3>3, <4>1 DEF Jumps
      <4>3. Plain(q, q + 2 * up)
        BY <3>5, <4>1, <4>2
      <4> QED BY <3>2, <4>3
    <3> QED BY <3>1, <3>4, <3>5
  <2>4. CASE m \in captures
    <3>1. PICK q \in pawnsNotOn7 : \E t \in PawnAttacks[us][q] \cap enemies : m = Move(q, t)
      BY <2>4
    <3>2. PICK t \in PawnAttacks[us][q] \cap enemies : m = Move(q, t)
      BY <3>1
    <3>3. Plain(q, t)
      BY <1>1, <3>2 DEF Takes
    <3> QED BY <3>1, <3>3
  <2>5. CASE m \in enPassant
    <3>1. PICK q \in pawnsNotOn7 \cap PawnAttacks[them][ep] :
            ep # SQ_NONE /\ m = MakeMove(EN_PASSANT, q, ep, KNIGHT)
      BY <2>5
    <3>2. EnPassant(q)
      BY <3>1
    <3> QED BY <3>1, <3>2
  <2> QED BY <2>1, <2>2, <2>3, <2>4, <2>5
<1>3. s \in DOMAIN board /\ board[s][1] = us /\ board[s][2] = PAWN
  BY DEF PiecesOf, PiecesOfType
<1>4. s \in Square /\ us \in Color /\ them \in Color /\ Opposite(them) = us /\ them = Opposite(us)
  BY <1>3 DEF Sound, IsBoard, Opposite, them, us, Color, WHITE, BLACK
<1>5. \A t : Takes(s, t) => t \in Square /\ t # s
  BY <1>4, PawnAttackSquares, NextTo DEF Takes
<1>6. \A t \in Square : Pushes(s, t) \/ Jumps(s, t) => t # s
  BY <1>4 DEF Pushes, Jumps, Up, NORTH, Square
<1>7. CASE \E t : Promotes(s, t)
  <2>0. PICK t : Promotes(s, t)
    BY <1>7
  <2>1. PICK pt \in promotion_pieces(type) :
          /\ Takes(s, t) \/ (Pushes(s, t) /\ t \in Square)
          /\ m = MakeMove(PROMOTION, s, t, pt)
    BY <2>0
  <2>2. pt \in {QUEEN, ROOK, BISHOP, KNIGHT}
    BY DEF promotion_pieces
  <2>3. t \in Square /\ t # s
    BY <1>5, <1>6, <2>1
  <2>4. m.from = s /\ m.to = t /\ m.type = PROMOTION /\ m.promotion = pt /\ m \in MoveRecord
    BY <1>4, <2>1, <2>2, <2>3 DEF MakeMove, Move, MoveRecord, PieceType
  <2>5. FitsPromotion(m)
    BY <1>3, <2>1, <2>2, <2>4 DEF FitsPromotion
  <2> QED BY <1>3, <2>3, <2>4, <2>5 DEF Fits
<1>8. CASE \E t : Plain(s, t)
  <2>1. PICK t : Plain(s, t)
    BY <1>8
  <2>2. t \in Square /\ t # s
    BY <1>5, <1>6, <2>1
  <2>3. m.from = s /\ m.to = t /\ m.type = NORMAL /\ m \in MoveRecord
    BY <1>4, <2>1, <2>2 DEF Move, MoveRecord, PieceType
  <2>4. PAWN # KING
    BY DEF PAWN, KING
  <2>5. FitsNormal(m)
    BY <1>3, <2>1, <2>3, <2>4 DEF FitsNormal
  <2> QED BY <1>3, <2>2, <2>3, <2>5 DEF Fits
<1>9. CASE EnPassant(s)
  <2>1. st.epSquare \in Square /\ s \in PawnAttacks[them][st.epSquare]
    BY <1>9 DEF Sound, Agrees, EpFits
  <2>2. st.epSquare \in PawnAttacks[us][s]
    BY <1>4, <2>1, PawnAttacksBack
  <2>3. st.epSquare # s
    BY <1>4, <2>2, PawnAttackSquares, NextTo
  <2>4. m.from = s /\ m.to = st.epSquare /\ m.type = EN_PASSANT /\ m \in MoveRecord
    BY <1>4, <1>9, <2>1 DEF MakeMove, Move, MoveRecord, PieceType
  <2>5. FitsEnPassant(m)
    BY <1>3, <1>9, <2>2, <2>4 DEF FitsEnPassant
  <2> QED BY <1>3, <2>3, <2>4, <2>5 DEF Fits
<1> QED BY <1>2, <1>7, <1>8, <1>9

\* generate<LEGAL> lists such moves only.
LEMMA LegalMovesFit ==
  ASSUME Sound(board, us, st), NEW m \in LegalMoves
  PROVE  Fits(m)
<1>1. PICK type : m \in generate_all(type)
  BY DEF LegalMoves
<1>2. \/ m \in generate_castling
      \/ \E target : \/ m \in generate_moves({KING}, target)
                     \/ m \in generate_moves({KNIGHT, BISHOP, ROOK, QUEEN}, target)
                     \/ m \in generate_pawn_moves(type, target)
  BY <1>1 DEF generate_all
<1>3. {KING} \in SUBSET (PieceType \ {PAWN})
      /\ {KNIGHT, BISHOP, ROOK, QUEEN} \in SUBSET (PieceType \ {PAWN})
  BY DEF PieceType, KING, KNIGHT, BISHOP, ROOK, QUEEN, PAWN
<1> QED BY <1>2, <1>3, PieceMovesFit, PawnMovesFit, CastlingMovesFit

-----------------------------------------------------------------------------
(* The board after a move. *)

\* A square is empty when it has no piece.
LEMMA EmptySquares ==
  ASSUME IsBoard(board), NEW s
  PROVE  /\ piece_on(s) = NO_PIECE <=> s \notin DOMAIN board
         /\ s \in DOMAIN board => piece_on(s) = board[s] /\ board[s] \in Piece
<1>1. \A x \in Color, y \in PieceType : <<x, y>> # <<>>
  OBVIOUS
<1>2. ASSUME s \in DOMAIN board
      PROVE  board[s] \in Piece /\ board[s] # NO_PIECE
  <2>1. board[s] \in Piece
    BY <1>2 DEF IsBoard
  <2> QED BY <1>1, <2>1 DEF Piece, NO_PIECE
<1> QED BY <1>2 DEF piece_on

\* What arrives, and the squares that are left.
Arrives(m) == IF m.type = PROMOTION THEN make_piece(us, m.promotion) ELSE board[m.from]
Left(m) == {m.from} \cup (IF m.type = EN_PASSANT THEN {ep_capture_square(m)} ELSE {})

Moved(m) ==
  [q \in (DOMAIN board \ Left(m)) \cup {m.to} |-> IF q = m.to THEN Arrives(m) ELSE board[q]]

Castled(cr) ==
  [q \in (DOMAIN board \ {king_home(cr[1]), rook_home(cr)}) \cup {king_to(cr), rook_to(cr)} |->
     IF q = rook_to(cr) THEN make_piece(cr[1], ROOK)
     ELSE IF q = king_to(cr) THEN make_piece(cr[1], KING) ELSE board[q]]

\* Castling, and where its pieces come from and go to.
LEMMA CastlingShape ==
  ASSUME Sound(board, us, st), NEW m, Fits(m), m.type = CASTLING,
         NEW cr, cr = <<us, Side(m.from, m.to)>>
  PROVE  /\ cr \in st.castlingRights /\ cr \in CastlingRight /\ cr[1] = us
         /\ m.from = king_home(us) /\ m.to = king_to(cr)
         /\ StandsOn(board, make_piece(us, KING), m.from)
         /\ StandsOn(board, make_piece(us, ROOK), rook_home(cr))
         /\ m.to \notin DOMAIN board /\ rook_to(cr) \notin DOMAIN board
         /\ m.from # rook_home(cr) /\ m.to # rook_to(cr) /\ rook_to(cr) \in Square
<1>1. FitsCastling(m)
  BY DEF Fits, FitsNormal, FitsPromotion, FitsEnPassant, CASTLING, NORMAL, PROMOTION, EN_PASSANT
<1>2. PICK r \in st.castlingRights :
        /\ r[1] = us /\ castlingPath(r) \cap DOMAIN board = {}
        /\ m.from = king_home(us) /\ m.to = king_to(r)
  BY <1>1 DEF FitsCastling
<1>3. /\ r \in CastlingRight
      /\ StandsOn(board, make_piece(us, KING), king_home(us))
      /\ StandsOn(board, make_piece(us, ROOK), rook_home(r))
  BY <1>2, KingIsAtHome DEF Sound, Agrees
<1>4. king_to(r) \notin DOMAIN board /\ rook_to(r) \notin DOMAIN board
  BY <1>2, <1>3, CastlingPathEnds
<1> DEFINE kh == king_home(us)  rh == rook_home(r)  kt == king_to(r)  rt == rook_to(r)
<1>5. /\ r = <<us, r[2]>> /\ r[2] \in {"king", "queen"}
      /\ kh \in {4, 60}
      /\ IF r[2] = "king" THEN rh = kh + 3 /\ kt = kh + 2 /\ rt = kh + 1
                          ELSE rh = kh - 4 /\ kt = kh - 2 /\ rt = kh - 1
  BY <1>2, <1>3, CastlingSquares DEF CastlingSide
<1> HIDE DEF kh, rh, kt, rt
<1>6. kh # rh /\ kt # rt /\ rt \in Square
  BY <1>5 DEF Square
<1>7. r[2] = (IF kt > kh THEN "king" ELSE "queen")
  BY <1>5
<1>8. r = cr
  BY <1>2, <1>5, <1>7 DEF Side, kh, kt
<1> QED BY <1>2, <1>3, <1>4, <1>6, <1>8 DEF kh, rh, kt, rt

\* Castling takes both pieces off before it puts either down.
LEMMA BoardAfterCastling ==
  ASSUME Sound(board, us, st), NEW m, Fits(m), m.type = CASTLING,
         NEW cr, cr = <<us, Side(m.from, m.to)>>
  PROVE  BoardAfter(m) = Castled(cr)
<1>1. cr[1] = us /\ m.to # rook_to(cr) /\ m.to = king_to(cr)
  BY CastlingShape
<1>2. captured_by(m) = NO_PIECE
  BY DEF captured_by, CASTLING, EN_PASSANT
<1>3. BoardAfter(m) = do_castling(board, cr)
  BY <1>2 DEF BoardAfter, CASTLING, PROMOTION
<1> QED BY <1>1, <1>3 DEF do_castling, Castled, put_piece, Restrict

\* The pawn that is taken in passing is on a square of its own.
LEMMA EnPassantShape ==
  ASSUME Sound(board, us, st), NEW m, Fits(m), m.type = EN_PASSANT
  PROVE  /\ m.to = st.epSquare /\ m.to \in Square /\ m.to \notin DOMAIN board
         /\ StandsOn(board, make_piece(us, PAWN), m.from)
         /\ StandsOn(board, make_piece(them, PAWN), ep_capture_square(m))
         /\ make_piece(them, PAWN) # NO_PIECE
         /\ ep_capture_square(m) # m.from /\ ep_capture_square(m) # m.to
         /\ m.to \in PawnAttacks[us][m.from]
<1>1. FitsEnPassant(m)
  BY DEF Fits, FitsNormal, FitsPromotion, FitsCastling, CASTLING, NORMAL, PROMOTION, EN_PASSANT
<1>2. us \in Color /\ them = Opposite(us) /\ them # us
  BY DEF Sound, us, them, Opposite, Color, WHITE, BLACK
<1>3. /\ m.to = st.epSquare /\ m.to \in Square /\ m.to \notin DOMAIN board
      /\ StandsOn(board, make_piece(them, PAWN), ep_capture_square(m))
  BY <1>1, <1>2 DEF FitsEnPassant, Sound, Agrees, EpFits, ep_capture_square
<1>4. board[m.from] = <<us, PAWN>> /\ m.from \in DOMAIN board
  <2>1. m.from \in DOMAIN board /\ board[m.from][1] = us /\ board[m.from][2] = PAWN
    BY <1>1 DEF Fits, FitsEnPassant
  <2>2. board[m.from] \in Piece
    BY <2>1 DEF Sound, IsBoard
  <2> QED BY <2>1, <2>2 DEF Piece
<1>5. StandsOn(board, make_piece(us, PAWN), m.from)
  BY <1>4 DEF StandsOn, make_piece
<1>6. ep_capture_square(m) \in DOMAIN board /\ board[ep_capture_square(m)] = <<them, PAWN>>
  BY <1>3 DEF StandsOn, make_piece
<1>7. <<them, PAWN>> # <<us, PAWN>> /\ <<them, PAWN>> # <<>>
  BY <1>2
<1> QED BY <1>1, <1>3, <1>4, <1>5, <1>6, <1>7 DEF make_piece, NO_PIECE, FitsEnPassant

\* A move but castling takes its piece from one square to another.
LEMMA BoardAfterMove ==
  ASSUME Sound(board, us, st), NEW m, Fits(m), m.type # CASTLING
  PROVE  BoardAfter(m) = Moved(m)
<1>1. m.from # m.to /\ m.from \in DOMAIN board /\ IsBoard(board)
  BY DEF Fits, Sound
<1> DEFINE cleared == IF captured_by(m) = NO_PIECE THEN board
                      ELSE remove_piece(board, capture_square(m))
           walked == move_piece(cleared, m.from, m.to)
<1>2. BoardAfter(m) = IF m.type = PROMOTION
                      THEN put_piece(walked, make_piece(us, m.promotion), m.to) ELSE walked
  BY DEF BoardAfter
<1>3. /\ DOMAIN cleared \ {m.to} = DOMAIN board \ ({m.to} \cup (Left(m) \ {m.from}))
      /\ \A q \in DOMAIN cleared : q \in DOMAIN board /\ cleared[q] = board[q]
      /\ m.from \in DOMAIN cleared
  <2>1. CASE m.type = EN_PASSANT
    <3>1. /\ captured_by(m) # NO_PIECE /\ capture_square(m) = ep_capture_square(m)
          /\ ep_capture_square(m) # m.from
      BY <2>1, EnPassantShape DEF captured_by, capture_square
    <3>2. cleared = [q \in DOMAIN board \ {ep_capture_square(m)} |-> board[q]]
      BY <3>1 DEF remove_piece, Restrict
    <3> HIDE DEF cleared
    <3> QED BY <1>1, <2>1, <3>1, <3>2 DEF Left
  <2>2. CASE m.type # EN_PASSANT
    <3>1. captured_by(m) = piece_on(m.to) /\ capture_square(m) = m.to /\ Left(m) = {m.from}
      BY <2>2 DEF captured_by, capture_square, Left
    <3>2. CASE m.to \in DOMAIN board
      <4>1. cleared = [q \in DOMAIN board \ {m.to} |-> board[q]]
        BY <1>1, <3>1, <3>2, EmptySquares DEF remove_piece, Restrict
      <4> HIDE DEF cleared
      <4> QED BY <1>1, <3>1, <4>1
    <3>3. CASE m.to \notin DOMAIN board
      <4>1. cleared = board
        BY <1>1, <3>1, <3>3, EmptySquares
      <4> HIDE DEF cleared
      <4> QED BY <1>1, <3>1, <4>1
    <3> QED BY <3>2, <3>3
  <2> QED BY <2>1, <2>2
<1> HIDE DEF cleared
<1>4. walked = [q \in (DOMAIN cleared \ {m.from}) \cup {m.to} |->
                  IF q = m.to THEN cleared[m.from] ELSE cleared[q]]
  BY <1>1 DEF move_piece, put_piece, remove_piece, Restrict
<1>5. (DOMAIN cleared \ {m.from}) \cup {m.to} = (DOMAIN board \ Left(m)) \cup {m.to}
  BY <1>3 DEF Left
<1>6. walked = [q \in (DOMAIN board \ Left(m)) \cup {m.to} |->
                  IF q = m.to THEN board[m.from] ELSE board[q]]
  BY <1>3, <1>4, <1>5
<1> HIDE DEF walked
<1>7. CASE m.type = PROMOTION
  <2>1. BoardAfter(m) = put_piece(walked, make_piece(us, m.promotion), m.to)
    BY <1>2, <1>7
  <2> QED BY <1>6, <1>7, <2>1 DEF put_piece, Moved, Arrives
<1>8. CASE m.type # PROMOTION
  BY <1>2, <1>6, <1>8 DEF Moved, Arrives
<1> QED BY <1>7, <1>8

-----------------------------------------------------------------------------
(* Keys.  XOR is associative and commutative, and what comes twice goes. *)

\* A word is in the XOR of two keys when it is in one of them.
LEMMA InXor ==
  ASSUME NEW a, NEW b, NEW x
  PROVE  x \in a ++ b <=> ~(x \in a <=> x \in b)
BY DEF ++, SymDiff

\* The laws of XOR.
LEMMA XorLaws ==
  ASSUME NEW a, NEW b, NEW c
  PROVE  a ++ b = b ++ a /\ (a ++ b) ++ c = a ++ (b ++ c) /\ a ++ a = {} /\ a ++ {} = a
<1>1. \A x : x \in a ++ b <=> x \in b ++ a
  BY InXor
<1>2. \A x : x \in (a ++ b) ++ c <=> x \in a ++ (b ++ c)
  BY InXor
<1>3. \A x : x \in a ++ a <=> x \in {}
  BY InXor
<1>4. \A x : x \in a ++ {} <=> x \in a
  BY InXor
<1>5. a ++ b = b ++ a
  <2> DEFINE l == a ++ b  r == b ++ a
  <2> HIDE DEF l, r
  <2>1. \A x : x \in l <=> x \in r
    BY <1>1 DEF l, r
  <2>2. l = r
    BY <2>1
  <2> QED BY <2>2 DEF l, r
<1>6. (a ++ b) ++ c = a ++ (b ++ c)
  <2> DEFINE l == (a ++ b) ++ c  r == a ++ (b ++ c)
  <2> HIDE DEF l, r
  <2>1. \A x : x \in l <=> x \in r
    BY <1>2 DEF l, r
  <2>2. l = r
    BY <2>1
  <2> QED BY <2>2 DEF l, r
<1>7. a ++ a = {}
  <2> DEFINE l == a ++ a
  <2> HIDE DEF l
  <2>1. \A x : x \in l <=> x \in {}
    BY <1>3 DEF l
  <2>2. l = {}
    BY <2>1
  <2> QED BY <2>2 DEF l
<1>8. a ++ {} = a
  <2> DEFINE l == a ++ {}
  <2> HIDE DEF l
  <2>1. \A x : x \in l <=> x \in a
    BY <1>4 DEF l
  <2>2. l = a
    BY <2>1
  <2> QED BY <2>2 DEF l
<1> QED BY <1>5, <1>6, <1>7, <1>8

\* The words of the pieces of some types, on some squares of a board.
TermsIn(b, types, D) == {psq(b[s], s) : s \in {q \in DOMAIN b \cap D : b[q][2] \in types}}
Terms(b, types) == {psq(b[s], s) : s \in {q \in DOMAIN b : b[q][2] \in types}}
Term(pc, s, types) == IF pc # NO_PIECE /\ pc[2] \in types THEN {psq(pc, s)} ELSE {}
At(b, s) == IF s \in DOMAIN b THEN b[s] ELSE NO_PIECE
Proper(b) == \A s \in DOMAIN b : b[s] # NO_PIECE

\* A word of a set of them says what stands where.
LEMMA InTerms ==
  ASSUME NEW b, NEW types, NEW D, NEW x
  PROVE  /\ x \in TermsIn(b, types, D) <=>
              \E s \in DOMAIN b \cap D : b[s][2] \in types /\ x = psq(b[s], s)
         /\ x \in Terms(b, types) <=>
              \E s \in DOMAIN b : b[s][2] \in types /\ x = psq(b[s], s)
BY DEF TermsIn, Terms

\* Two boards that agree off some squares have keys that differ by what is on those.
LEMMA TermsChange ==
  ASSUME NEW b, NEW b2, NEW types, NEW D,
         \A q : q \notin D => /\ q \in DOMAIN b <=> q \in DOMAIN b2
                              /\ q \in DOMAIN b => b[q] = b2[q]
  PROVE  Terms(b2, types) = Terms(b, types) ++ (TermsIn(b, types, D) ++ TermsIn(b2, types, D))
<1>1. \A p, q, s, t : psq(p, s) = psq(q, t) => p = q /\ s = t
  BY DEF psq
<1> DEFINE old == Terms(b, types)  new == Terms(b2, types)
           gone == TermsIn(b, types, D)  come == TermsIn(b2, types, D)
<1>2. ASSUME NEW x PROVE x \in new <=> ~(x \in old <=> ~(x \in gone <=> x \in come))
  <2>1. x \in gone => x \in old
    BY InTerms
  <2>2. x \in come => x \in new
    BY InTerms
  <2>3. x \in old /\ x \notin gone => x \in new /\ x \notin come
    <3> SUFFICES ASSUME x \in old, x \notin gone PROVE x \in new /\ x \notin come
      OBVIOUS
    <3>1. PICK s \in DOMAIN b : b[s][2] \in types /\ x = psq(b[s], s)
      BY InTerms
    <3>2. s \notin D
      BY <3>1, InTerms
    <3>3. s \in DOMAIN b2 /\ b2[s] = b[s]
      BY <3>2
    <3>4. \A t \in DOMAIN b2 \cap D : x # psq(b2[t], t)
      BY <1>1, <3>1, <3>2
    <3> HIDE DEF old, gone
    <3> QED BY <3>1, <3>3, <3>4, InTerms
  <2>4. x \in new /\ x \notin come => x \in old /\ x \notin gone
    <3> SUFFICES ASSUME x \in new, x \notin come PROVE x \in old /\ x \notin gone
      OBVIOUS
    <3>1. PICK s \in DOMAIN b2 : b2[s][2] \in types /\ x = psq(b2[s], s)
      BY InTerms
    <3>2. s \notin D
      BY <3>1, InTerms
    <3>3. s \in DOMAIN b /\ b[s] = b2[s]
      BY <3>2
    <3>4. \A t \in DOMAIN b \cap D : x # psq(b[t], t)
      BY <1>1, <3>1, <3>2
    <3>5. b[s][2] \in types /\ x = psq(b[s], s)
      BY <3>1, <3>3
    <3>6. x \in old
      BY <3>3, <3>5, InTerms
    <3>7. x \notin gone
      BY <3>4, InTerms
    <3> QED BY <3>6, <3>7
  <2> HIDE DEF old, new, gone, come
  <2> QED BY <2>1, <2>2, <2>3, <2>4
<1> DEFINE all == old ++ (gone ++ come)
<1> HIDE DEF old, new, gone, come
<1>3. ASSUME NEW x PROVE x \in new <=> x \in all
  BY <1>2, InXor
<1> HIDE DEF all
<1>4. new = all
  BY <1>3
<1> QED BY <1>4 DEF all, old, new, gone, come

\* The words on some squares, square by square.
LEMMA TermsSplit ==
  ASSUME NEW b, Proper(b), NEW types, NEW D, NEW s, s \notin D
  PROVE  /\ TermsIn(b, types, {}) = {}
         /\ TermsIn(b, types, D \cup {s}) = TermsIn(b, types, D) ++ Term(At(b, s), s, types)
<1>1. \A p, q, u, v : psq(p, u) = psq(q, v) => p = q /\ u = v
  BY DEF psq
<1> DEFINE more == TermsIn(b, types, D \cup {s})  less == TermsIn(b, types, D)
           one == Term(At(b, s), s, types)
<1>2. ASSUME NEW x PROVE x \in one <=> s \in DOMAIN b /\ b[s][2] \in types /\ x = psq(b[s], s)
  BY DEF Term, At, Proper
<1>3. ASSUME NEW x PROVE x \in more <=> ~(x \in less <=> x \in one)
  <2>1. x \in more <=> \E q \in DOMAIN b \cap (D \cup {s}) : b[q][2] \in types /\ x = psq(b[q], q)
    BY InTerms
  <2>2. x \in less <=> \E q \in DOMAIN b \cap D : b[q][2] \in types /\ x = psq(b[q], q)
    BY InTerms
  <2>3. x \in more <=> x \in less \/ x \in one
    <3> HIDE DEF more, less, one
    <3> QED BY <1>2, <2>1, <2>2
  <2>4. ~(x \in less /\ x \in one)
    <3> HIDE DEF more, less, one
    <3> QED BY <1>1, <1>2, <2>2
  <2> HIDE DEF more, less, one
  <2> QED BY <2>3, <2>4
<1> DEFINE both == less ++ one
<1> HIDE DEF more, less, one
<1>4. ASSUME NEW x PROVE x \in more <=> x \in both
  BY <1>3, InXor
<1> HIDE DEF both
<1>5. more = both
  BY <1>4
<1>6. TermsIn(b, types, {}) = {}
  BY DEF TermsIn
<1> QED BY <1>5, <1>6 DEF both, more, less, one

SideTerm(c) == IF c = BLACK THEN side_feature ELSE {}

\* The full key is made of words of four kinds.
LEMMA FullKey ==
  ASSUME NEW b, IsBoard(b), NEW c, NEW rights, NEW ep
  PROVE  PositionKey(b, c, rights, ep) =
           Terms(b, PieceType) ++ (ep_feature(ep) ++ (castling_feature(rights) ++ SideTerm(c)))
<1> DEFINE P == Terms(b, PieceType)  E == ep_feature(ep)
           C == castling_feature(rights)  S == SideTerm(c)
<1>1. \A s \in DOMAIN b : b[s][2] \in PieceType
  BY DEF IsBoard, Piece
<1>2. P = {psq(b[s], s) : s \in DOMAIN b}
  BY <1>1 DEF Terms
<1>3. PositionKey(b, c, rights, ep) = P \cup E \cup C \cup S
  BY <1>2 DEF PositionKey, SideTerm
<1>4. /\ \A x \in P : x[1] = "psq"
      /\ \A x \in E : x[1] = "enpassant"
      /\ \A x \in C : x[1] = "castling"
      /\ \A x \in S : x[1] = "side"
  BY DEF Terms, psq, ep_feature, castling_feature, SideTerm, side_feature
<1> DEFINE x1 == C ++ S  x2 == E ++ x1  x3 == P ++ x2  u == P \cup E \cup C \cup S
<1>5. ASSUME NEW x PROVE x \in u <=> x \in x3
  <2>1. ~(x \in P /\ x \in E) /\ ~(x \in P /\ x \in C) /\ ~(x \in P /\ x \in S)
    BY <1>4
  <2>2. ~(x \in E /\ x \in C) /\ ~(x \in E /\ x \in S) /\ ~(x \in C /\ x \in S)
    BY <1>4
  <2> HIDE DEF P, E, C, S
  <2>3. x \in x1 <=> ~(x \in C <=> x \in S)
    BY InXor
  <2>4. x \in x2 <=> ~(x \in E <=> x \in x1)
    BY InXor
  <2>5. x \in x3 <=> ~(x \in P <=> x \in x2)
    BY InXor
  <2> HIDE DEF x1, x2, x3
  <2> QED BY <2>1, <2>2, <2>3, <2>4, <2>5
<1> HIDE DEF P, E, C, S, u, x3
<1>6. u = x3
  BY <1>5
<1> QED BY <1>3, <1>6 DEF u, x3, x2, x1, P, E, C, S

-----------------------------------------------------------------------------
(* The words that a move changes. *)

Change(m, types) ==
  Term(captured_by(m), capture_square(m), types)
    ++ (IF m.type = PROMOTION
        THEN Term(board[m.from], m.to, types) ++ Term(make_piece(us, m.promotion), m.to, types)
        ELSE {})
    ++ (Term(board[m.from], m.from, types) ++ Term(board[m.from], m.to, types))
    ++ (IF m.type = CASTLING
        THEN Term(make_piece(us, ROOK), rook_home(<<us, Side(m.from, m.to)>>), types)
               ++ Term(make_piece(us, ROOK), rook_to(<<us, Side(m.from, m.to)>>), types)
        ELSE {})

\* No square of a board holds the piece that is none, before or after a move.
LEMMA ProperBoards ==
  ASSUME Sound(board, us, st), NEW m, Fits(m)
  PROVE  Proper(board) /\ (m.type # CASTLING => Proper(Moved(m)))
<1>1. ASSUME NEW q \in DOMAIN board PROVE board[q] # NO_PIECE
  <2>1. IsBoard(board)
    BY DEF Sound
  <2> QED BY <2>1, EmptySquares
<1>2. Proper(board)
  BY <1>1 DEF Proper
<1>3. make_piece(us, m.promotion) # NO_PIECE
  BY DEF make_piece, NO_PIECE
<1>4. Arrives(m) # NO_PIECE
  BY <1>1, <1>3 DEF Arrives, Fits
<1>5. Proper(Moved(m))
  BY <1>1, <1>4 DEF Proper, Moved
<1> QED BY <1>2, <1>5

\* A move but castling takes out the words of the pieces it removes and brings in
\* those of the piece that arrives: the XORs of do_move.
LEMMA TermsAfterMove ==
  ASSUME Sound(board, us, st), NEW m, Fits(m), m.type # CASTLING, NEW types
  PROVE  Terms(Moved(m), types) = Terms(board, types) ++ Change(m, types)
<1> DEFINE b2 == Moved(m)  from == m.from  to == m.to  cap == capture_square(m)
           pc == board[m.from]  captured == captured_by(m)
           promoted == make_piece(us, m.promotion)
           T == Terms(board, types)
           F == Term(pc, from, types)  C == Term(captured, cap, types)
           L == Term(pc, to, types)  N == Term(Arrives(m), to, types)
<1>1. Proper(board) /\ Proper(b2)
  BY ProperBoards
<1>2. from # to /\ from \in DOMAIN board /\ IsBoard(board)
  BY DEF Fits, Sound
<1>3. At(board, from) = pc /\ At(b2, to) = Arrives(m) /\ At(b2, from) = NO_PIECE
  BY <1>2 DEF At, Moved, Left
<1>4. Term(NO_PIECE, from, types) = {} /\ Term(NO_PIECE, cap, types) = {}
  BY DEF Term
<1>5. Terms(b2, types) = T ++ ((F ++ C) ++ N)
  <2>1. CASE m.type = EN_PASSANT
    <3>1. /\ cap \in DOMAIN board /\ board[cap] = captured /\ cap # from /\ cap # to
          /\ to \notin DOMAIN board /\ cap = ep_capture_square(m)
      BY <2>1, EnPassantShape DEF StandsOn, captured_by, capture_square
    <3> DEFINE D == (({} \cup {from}) \cup {cap}) \cup {to}
    <3>2. b2 = [q \in (DOMAIN board \ {from, cap}) \cup {to} |->
                  IF q = to THEN Arrives(m) ELSE board[q]]
      BY <2>1, <3>1 DEF Moved, Left
    <3>3. \A q : q \notin D => /\ q \in DOMAIN board <=> q \in DOMAIN b2
                               /\ q \in DOMAIN board => board[q] = b2[q]
      <4> HIDE DEF b2
      <4> QED BY <3>2
    <3>4. At(board, cap) = captured /\ At(board, to) = NO_PIECE /\ At(b2, cap) = NO_PIECE
      <4> HIDE DEF b2
      <4> QED BY <3>1, <3>2 DEF At
    <3>5. Term(NO_PIECE, to, types) = {}
      BY DEF Term
    <3> HIDE DEF b2, from, to, cap, pc, captured
    <3>6. TermsIn(board, types, D) = (({} ++ F) ++ C) ++ {}
      <4>1. TermsIn(board, types, {}) = {}
        BY DEF TermsIn
      <4>2. TermsIn(board, types, {} \cup {from})
              = TermsIn(board, types, {})
                  ++ Term(At(board, from), from, types)
        BY <1>1, <1>2, <3>1, TermsSplit
      <4>3. TermsIn(board, types, ({} \cup {from}) \cup {cap})
              = TermsIn(board, types, ({} \cup {from}))
                  ++ Term(At(board, cap), cap, types)
        BY <1>1, <1>2, <3>1, TermsSplit
      <4>4. TermsIn(board, types, (({} \cup {from}) \cup {cap}) \cup {to})
              = TermsIn(board, types, (({} \cup {from}) \cup {cap}))
                  ++ Term(At(board, to), to, types)
        BY <1>1, <1>2, <3>1, TermsSplit
      <4> QED BY <4>1, <4>2, <4>3, <4>4, <1>3, <3>4, <3>5 DEF D, F, C, N
    <3>7. TermsIn(b2, types, D) = (({} ++ {}) ++ {}) ++ N
      <4>1. TermsIn(b2, types, {}) = {}
        BY DEF TermsIn
      <4>2. TermsIn(b2, types, {} \cup {from})
              = TermsIn(b2, types, {})
                  ++ Term(At(b2, from), from, types)
        BY <1>1, <1>2, <3>1, TermsSplit
      <4>3. TermsIn(b2, types, ({} \cup {from}) \cup {cap})
              = TermsIn(b2, types, ({} \cup {from}))
                  ++ Term(At(b2, cap), cap, types)
        BY <1>1, <1>2, <3>1, TermsSplit
      <4>4. TermsIn(b2, types, (({} \cup {from}) \cup {cap}) \cup {to})
              = TermsIn(b2, types, (({} \cup {from}) \cup {cap}))
                  ++ Term(At(b2, to), to, types)
        BY <1>1, <1>2, <3>1, TermsSplit
      <4> QED BY <4>1, <4>2, <4>3, <4>4, <1>3, <1>4, <3>4 DEF D, F, C, N
    <3>8. Terms(b2, types) = T ++ (TermsIn(board, types, D) ++ TermsIn(b2, types, D))
      <4> HIDE DEF D
      <4> QED BY <3>3, TermsChange
    <3> HIDE DEF D, F, C, N, T
    <3>9. T ++ (((({} ++ F) ++ C) ++ {}) ++ ((({} ++ {}) ++ {}) ++ N)) = T ++ ((F ++ C) ++ N)
      BY XorLaws
    <3> QED BY <3>6, <3>7, <3>8, <3>9
  <2>2. CASE m.type # EN_PASSANT
    <3>1. cap = to /\ captured = At(board, to)
      BY <2>2 DEF capture_square, captured_by, piece_on, At
    <3> DEFINE D == ({} \cup {from}) \cup {to}
    <3>2. b2 = [q \in (DOMAIN board \ {from}) \cup {to} |->
                  IF q = to THEN Arrives(m) ELSE board[q]]
      BY <2>2 DEF Moved, Left
    <3>3. \A q : q \notin D => /\ q \in DOMAIN board <=> q \in DOMAIN b2
                               /\ q \in DOMAIN board => board[q] = b2[q]
      <4> HIDE DEF b2
      <4> QED BY <3>2
    <3> HIDE DEF b2, from, to, cap, pc, captured
    <3>6. TermsIn(board, types, D) = ({} ++ F) ++ C
      <4>1. TermsIn(board, types, {}) = {}
        BY DEF TermsIn
      <4>2. TermsIn(board, types, {} \cup {from})
              = TermsIn(board, types, {})
                  ++ Term(At(board, from), from, types)
        BY <1>1, <1>2, TermsSplit
      <4>3. TermsIn(board, types, ({} \cup {from}) \cup {to})
              = TermsIn(board, types, ({} \cup {from}))
                  ++ Term(At(board, to), to, types)
        BY <1>1, <1>2, TermsSplit
      <4> QED BY <4>1, <4>2, <4>3, <1>3, <3>1 DEF D, F, C, N
    <3>7. TermsIn(b2, types, D) = ({} ++ {}) ++ N
      <4>1. TermsIn(b2, types, {}) = {}
        BY DEF TermsIn
      <4>2. TermsIn(b2, types, {} \cup {from})
              = TermsIn(b2, types, {})
                  ++ Term(At(b2, from), from, types)
        BY <1>1, <1>2, TermsSplit
      <4>3. TermsIn(b2, types, ({} \cup {from}) \cup {to})
              = TermsIn(b2, types, ({} \cup {from}))
                  ++ Term(At(b2, to), to, types)
        BY <1>1, <1>2, TermsSplit
      <4> QED BY <4>1, <4>2, <4>3, <1>3, <1>4, <3>1 DEF D, F, C, N
    <3>8. Terms(b2, types) = T ++ (TermsIn(board, types, D) ++ TermsIn(b2, types, D))
      <4> HIDE DEF D
      <4> QED BY <3>3, TermsChange
    <3> HIDE DEF D, F, C, N, T
    <3>9. T ++ ((({} ++ F) ++ C) ++ (({} ++ {}) ++ N)) = T ++ ((F ++ C) ++ N)
      BY XorLaws
    <3> QED BY <3>6, <3>7, <3>8, <3>9
  <2> QED BY <2>1, <2>2
<1>6. CASE m.type = PROMOTION
  <2>1. Change(m, types) = ((C ++ (L ++ N)) ++ (F ++ L)) ++ {}
    BY <1>6 DEF Change, Arrives, CASTLING, PROMOTION
  <2> HIDE DEF T, F, C, L, N, b2
  <2>2. \A x : x \in (F ++ C) ++ N <=> x \in ((C ++ (L ++ N)) ++ (F ++ L)) ++ {}
    BY DEF ++, SymDiff
  <2>3. (F ++ C) ++ N = ((C ++ (L ++ N)) ++ (F ++ L)) ++ {}
    BY <2>2
  <2> QED BY <1>5, <2>1, <2>3 DEF T, b2
<1>7. CASE m.type # PROMOTION
  <2>1. Change(m, types) = ((C ++ {}) ++ (F ++ N)) ++ {}
    BY <1>7 DEF Change, Arrives
  <2> HIDE DEF T, F, C, L, N, b2
  <2>2. \A x : x \in (F ++ C) ++ N <=> x \in ((C ++ {}) ++ (F ++ N)) ++ {}
    BY DEF ++, SymDiff
  <2>3. (F ++ C) ++ N = ((C ++ {}) ++ (F ++ N)) ++ {}
    BY <2>2
  <2> QED BY <1>5, <2>1, <2>3 DEF T, b2
<1> QED BY <1>6, <1>7

\* Castling moves the words of its king and of its rook.
LEMMA TermsAfterCastling ==
  ASSUME Sound(board, us, st), NEW m, Fits(m), m.type = CASTLING, NEW types,
         NEW cr, cr = <<us, Side(m.from, m.to)>>
  PROVE  Terms(Castled(cr), types) = Terms(board, types) ++ Change(m, types)
<1> DEFINE b2 == Castled(cr)  from == m.from  to == m.to
           rh == rook_home(cr)  rt == rook_to(cr)
           king == make_piece(us, KING)  rook == make_piece(us, ROOK)
           T == Terms(board, types)
           F == Term(king, from, types)  N == Term(king, to, types)
           R == Term(rook, rh, types)  S == Term(rook, rt, types)
           D == ((({} \cup {from}) \cup {rh}) \cup {to}) \cup {rt}
<1>2. /\ cr[1] = us /\ from = king_home(us) /\ to = king_to(cr)
      /\ from \in DOMAIN board /\ board[from] = king
      /\ rh \in DOMAIN board /\ board[rh] = rook
      /\ to \notin DOMAIN board /\ rt \notin DOMAIN board
      /\ from # rh /\ to # rt
  BY CastlingShape DEF StandsOn
<1>3. b2 = [q \in (DOMAIN board \ {from, rh}) \cup {to, rt} |->
              IF q = rt THEN rook ELSE IF q = to THEN king ELSE board[q]]
  BY <1>2 DEF Castled
<1>4. king # NO_PIECE /\ rook # NO_PIECE
  BY DEF make_piece, NO_PIECE
<1>1. Proper(board) /\ Proper(b2)
  <2>1. Proper(board)
    BY ProperBoards
  <2> HIDE DEF b2, from, to, rh, rt, king, rook
  <2> QED BY <1>3, <1>4, <2>1 DEF Proper
<1> HIDE DEF b2, from, to, rh, rt, king, rook
<1>5. /\ At(board, from) = king /\ At(board, rh) = rook
      /\ At(board, to) = NO_PIECE /\ At(board, rt) = NO_PIECE
      /\ At(b2, from) = NO_PIECE /\ At(b2, rh) = NO_PIECE
      /\ At(b2, to) = king /\ At(b2, rt) = rook
  BY <1>2, <1>3 DEF At
<1>6. /\ Term(NO_PIECE, from, types) = {} /\ Term(NO_PIECE, rh, types) = {}
      /\ Term(NO_PIECE, to, types) = {} /\ Term(NO_PIECE, rt, types) = {}
  BY DEF Term
<1>7. \A q : q \notin D => /\ q \in DOMAIN board <=> q \in DOMAIN b2
                           /\ q \in DOMAIN board => board[q] = b2[q]
  BY <1>3
<1>8. Terms(b2, types) = T ++ (TermsIn(board, types, D) ++ TermsIn(b2, types, D))
  <2> HIDE DEF D
  <2> QED BY <1>7, TermsChange
<1>9. TermsIn(board, types, D) = ((({} ++ F) ++ R) ++ {}) ++ {}
  <2>1. from \notin {} /\ rh \notin ({} \cup {from}) /\ to \notin (({} \cup {from}) \cup {rh})
        /\ rt \notin ((({} \cup {from}) \cup {rh}) \cup {to})
    BY <1>2
  <2>2. TermsIn(board, types, D) = ((({} ++ F) ++ R) ++ {}) ++ {}
    <3>1. TermsIn(board, types, {}) = {}
      BY DEF TermsIn
    <3>2. TermsIn(board, types, {} \cup {from})
            = TermsIn(board, types, {})
                ++ Term(At(board, from), from, types)
      BY <1>1, <2>1, TermsSplit
    <3>3. TermsIn(board, types, ({} \cup {from}) \cup {rh})
            = TermsIn(board, types, ({} \cup {from}))
                ++ Term(At(board, rh), rh, types)
      BY <1>1, <2>1, TermsSplit
    <3>4. TermsIn(board, types, (({} \cup {from}) \cup {rh}) \cup {to})
            = TermsIn(board, types, (({} \cup {from}) \cup {rh}))
                ++ Term(At(board, to), to, types)
      BY <1>1, <2>1, TermsSplit
    <3>5. TermsIn(board, types, ((({} \cup {from}) \cup {rh}) \cup {to}) \cup {rt})
            = TermsIn(board, types, ((({} \cup {from}) \cup {rh}) \cup {to}))
                ++ Term(At(board, rt), rt, types)
      BY <1>1, <2>1, TermsSplit
    <3> QED BY <3>1, <3>2, <3>3, <3>4, <3>5, <1>5, <1>6 DEF D, F, R, N, S
  <2> QED BY <2>2
<1>10. TermsIn(b2, types, D) = ((({} ++ {}) ++ {}) ++ N) ++ S
  <2>1. from \notin {} /\ rh \notin ({} \cup {from}) /\ to \notin (({} \cup {from}) \cup {rh})
        /\ rt \notin ((({} \cup {from}) \cup {rh}) \cup {to})
    BY <1>2
  <2>2. TermsIn(b2, types, D) = ((({} ++ {}) ++ {}) ++ N) ++ S
    <3>1. TermsIn(b2, types, {}) = {}
      BY DEF TermsIn
    <3>2. TermsIn(b2, types, {} \cup {from})
            = TermsIn(b2, types, {})
                ++ Term(At(b2, from), from, types)
      BY <1>1, <2>1, TermsSplit
    <3>3. TermsIn(b2, types, ({} \cup {from}) \cup {rh})
            = TermsIn(b2, types, ({} \cup {from}))
                ++ Term(At(b2, rh), rh, types)
      BY <1>1, <2>1, TermsSplit
    <3>4. TermsIn(b2, types, (({} \cup {from}) \cup {rh}) \cup {to})
            = TermsIn(b2, types, (({} \cup {from}) \cup {rh}))
                ++ Term(At(b2, to), to, types)
      BY <1>1, <2>1, TermsSplit
    <3>5. TermsIn(b2, types, ((({} \cup {from}) \cup {rh}) \cup {to}) \cup {rt})
            = TermsIn(b2, types, ((({} \cup {from}) \cup {rh}) \cup {to}))
                ++ Term(At(b2, rt), rt, types)
      BY <1>1, <2>1, TermsSplit
    <3> QED BY <3>1, <3>2, <3>3, <3>4, <3>5, <1>5, <1>6 DEF D, F, R, N, S
  <2> QED BY <2>2
<1>11. Change(m, types) = (({} ++ {}) ++ (F ++ N)) ++ (R ++ S)
  <2>1. captured_by(m) = NO_PIECE /\ Term(NO_PIECE, capture_square(m), types) = {}
    BY DEF captured_by, Term, CASTLING, EN_PASSANT
  <2> QED BY <1>2, <2>1 DEF Change, CASTLING, PROMOTION, F, N, R, S, from, to, rh, rt, king, rook
<1> HIDE DEF D, F, N, R, S, T
<1>12. \A x : x \in T ++ (((((({} ++ F) ++ R) ++ {}) ++ {})) ++ (((({} ++ {}) ++ {}) ++ N) ++ S))
              <=> x \in T ++ ((({} ++ {}) ++ (F ++ N)) ++ (R ++ S))
  BY DEF ++, SymDiff
<1>13. T ++ (((((({} ++ F) ++ R) ++ {}) ++ {})) ++ (((({} ++ {}) ++ {}) ++ N) ++ S))
         = T ++ ((({} ++ {}) ++ (F ++ N)) ++ (R ++ S))
  BY <1>12
<1> QED BY <1>8, <1>9, <1>10, <1>11, <1>13 DEF T, b2

\* The words of the pieces after any move.
LEMMA TermsAfter ==
  ASSUME Sound(board, us, st), NEW m, Fits(m), NEW types
  PROVE  Terms(BoardAfter(m), types) = Terms(board, types) ++ Change(m, types)
<1> DEFINE cr == <<us, Side(m.from, m.to)>>
<1>1. CASE m.type = CASTLING
  <2>1. BoardAfter(m) = Castled(cr)
    BY <1>1, BoardAfterCastling
  <2>2. Terms(Castled(cr), types) = Terms(board, types) ++ Change(m, types)
    BY <1>1, TermsAfterCastling
  <2> QED BY <2>1, <2>2
<1>2. CASE m.type # CASTLING
  BY <1>2, BoardAfterMove, TermsAfterMove
<1> QED BY <1>1, <1>2

\* Two words make the XOR of them when they differ.
LEMMA TwoWords ==
  ASSUME NEW x, NEW y, x # y
  PROVE  {x, y} = {x} ++ {y}
BY DEF ++, SymDiff

\* Whose moves are whose: what is moved, taken and promoted to is a piece.
LEMMA PiecesOfMoves ==
  ASSUME Sound(board, us, st), NEW m, Fits(m)
  PROVE  /\ us \in Color /\ them \in Color /\ them # us
         /\ m.from # m.to /\ board[m.from] \in Piece
         /\ captured_by(m) # NO_PIECE => captured_by(m) \in Piece
         /\ m.type = PROMOTION => /\ board[m.from] = make_piece(us, PAWN)
                                  /\ m.promotion \in PieceType \ {PAWN, KING}
         /\ make_piece(us, m.promotion)[2] = m.promotion
<1>1. us \in Color /\ them \in Color /\ them # us
  BY DEF Sound, us, them, Opposite, Color, WHITE, BLACK
<1>2. m.from # m.to /\ m.from \in DOMAIN board /\ board[m.from][1] = us
  BY DEF Fits
<1>3. IsBoard(board)
  BY DEF Sound
<1>4. board[m.from] \in Piece
  BY <1>2, <1>3 DEF IsBoard
<1>5. captured_by(m) # NO_PIECE => captured_by(m) \in Piece
  <2>1. make_piece(them, PAWN) \in Piece
    BY <1>1 DEF make_piece, Piece, PieceType
  <2>2. piece_on(m.to) # NO_PIECE => piece_on(m.to) \in Piece
    BY <1>3, EmptySquares
  <2> QED BY <2>1, <2>2 DEF captured_by
<1>6. ASSUME m.type = PROMOTION
      PROVE  board[m.from] = make_piece(us, PAWN) /\ m.promotion \in PieceType \ {PAWN, KING}
  <2>1. board[m.from][2] = PAWN /\ m.promotion \in {QUEEN, ROOK, BISHOP, KNIGHT}
    BY <1>6 DEF Fits, FitsNormal, FitsPromotion, FitsEnPassant, FitsCastling,
                PROMOTION, NORMAL, EN_PASSANT, CASTLING
  <2>2. board[m.from] = <<us, PAWN>>
    BY <1>2, <1>4, <2>1 DEF Piece
  <2>3. m.promotion \in PieceType \ {PAWN, KING}
    BY <2>1 DEF PieceType, PAWN, KING, QUEEN, ROOK, BISHOP, KNIGHT
  <2> QED BY <2>2, <2>3 DEF make_piece
<1>7. make_piece(us, m.promotion)[2] = m.promotion
  BY DEF make_piece
<1> QED BY <1>1, <1>2, <1>4, <1>5, <1>6, <1>7

\* The key do_move computes by XORs is the key of the position it makes.
LEMMA KeyAfter ==
  ASSUME Sound(board, us, st), NEW m, Fits(m), IsBoard(BoardAfter(m)), NEW rights, NEW ep
  PROVE  key_after(m, rights, ep) = PositionKey(BoardAfter(m), them, rights, ep)
<1> DEFINE pc == board[m.from]  captured == captured_by(m)
           cr == <<us, Side(m.from, m.to)>>
           rook == make_piece(us, ROOK)  promoted == make_piece(us, m.promotion)
           T == Terms(board, PieceType)  C == Term(captured, capture_square(m), PieceType)
           E == ep_feature(st.epSquare)  G == castling_feature(st.castlingRights)
           E2 == ep_feature(ep)  G2 == castling_feature(rights)
           K == IF m.type = CASTLING
                THEN {psq(rook, rook_home(cr)), psq(rook, rook_to(cr))} ELSE {}
           X == IF captured = NO_PIECE THEN {} ELSE {psq(captured, capture_square(m))}
           R == IF m.type = PROMOTION THEN {psq(pc, m.to), psq(promoted, m.to)} ELSE {}
           V == {psq(pc, m.from), psq(pc, m.to)}
           S == SideTerm(us)  S2 == SideTerm(them)
<1>1. st.key = T ++ (E ++ (G ++ S))
  <2>1. IsBoard(board) /\ st.key = PositionKey(board, us, st.castlingRights, st.epSquare)
    BY DEF Sound
  <2> QED BY <2>1, FullKey
<1>2. PositionKey(BoardAfter(m), them, rights, ep)
        = (T ++ Change(m, PieceType)) ++ (E2 ++ (G2 ++ S2))
  BY FullKey, TermsAfter
<1>3. S2 = S ++ side_feature
  <2>1. us \in {0, 1} /\ them = 1 - us
    BY DEF Sound, us, them, Opposite, Color, WHITE, BLACK
  <2>2. {} ++ side_feature = side_feature /\ side_feature ++ side_feature = {}
    BY DEF ++, SymDiff
  <2> QED BY <2>1, <2>2 DEF SideTerm, BLACK
<1>4. \A p, q, s, t : psq(p, s) = psq(q, t) => p = q /\ s = t
  BY DEF psq
<1>5. /\ m.from # m.to /\ pc \in Piece
      /\ captured # NO_PIECE => captured \in Piece
      /\ m.type = PROMOTION => pc = make_piece(us, PAWN) /\ m.promotion \in PieceType \ {PAWN, KING}
      /\ promoted[2] = m.promotion /\ us \in Color
  BY PiecesOfMoves
<1>6. \A p \in Piece : \A s : Term(p, s, PieceType) = {psq(p, s)}
  BY DEF Term, Piece, NO_PIECE
<1>7. C = X
  BY <1>5, <1>6 DEF Term
<1>8. Term(pc, m.from, PieceType) ++ Term(pc, m.to, PieceType) = V
  <2>1. psq(pc, m.from) # psq(pc, m.to)
    BY <1>4, <1>5
  <2>2. {psq(pc, m.from), psq(pc, m.to)} = {psq(pc, m.from)} ++ {psq(pc, m.to)}
    BY <2>1, TwoWords
  <2> QED BY <1>5, <1>6, <2>2
<1>9. ASSUME m.type = PROMOTION
      PROVE  Term(pc, m.to, PieceType) ++ Term(promoted, m.to, PieceType) = R
  <2>1. promoted \in Piece /\ pc[2] = PAWN /\ promoted[2] # PAWN
    BY <1>5, <1>9 DEF make_piece, Piece
  <2>2. psq(pc, m.to) # psq(promoted, m.to)
    BY <1>4, <2>1
  <2>3. Term(pc, m.to, PieceType) = {psq(pc, m.to)}
        /\ Term(promoted, m.to, PieceType) = {psq(promoted, m.to)}
    BY <1>5, <1>6, <2>1
  <2>4. {psq(pc, m.to), psq(promoted, m.to)} = {psq(pc, m.to)} ++ {psq(promoted, m.to)}
    BY <2>2, TwoWords
  <2> QED BY <1>9, <2>3, <2>4
<1>10. ASSUME m.type = CASTLING
       PROVE  Term(rook, rook_home(cr), PieceType) ++ Term(rook, rook_to(cr), PieceType) = K
  <2>1. rook_home(cr) # rook_to(cr)
    BY <1>10, CastlingShape DEF StandsOn
  <2>2. rook \in Piece
    BY <1>5 DEF make_piece, Piece, PieceType
  <2>3. psq(rook, rook_home(cr)) # psq(rook, rook_to(cr))
    BY <1>4, <2>1
  <2>4. Term(rook, rook_home(cr), PieceType) = {psq(rook, rook_home(cr))}
        /\ Term(rook, rook_to(cr), PieceType) = {psq(rook, rook_to(cr))}
    BY <1>6, <2>2
  <2>5. {psq(rook, rook_home(cr)), psq(rook, rook_to(cr))}
          = {psq(rook, rook_home(cr))} ++ {psq(rook, rook_to(cr))}
    BY <2>3, TwoWords
  <2> QED BY <1>10, <2>4, <2>5
<1>11. Change(m, PieceType) = ((X ++ R) ++ V) ++ K
  BY <1>7, <1>8, <1>9, <1>10 DEF Change
<1>12. key_after(m, rights, ep)
         = (((((((((T ++ (E ++ (G ++ S))) ++ side_feature) ++ K) ++ X) ++ G) ++ G2)
              ++ (E ++ E2)) ++ R) ++ V)
  BY <1>1 DEF key_after, ep_change
<1> DEFINE W == side_feature
           l == (((((((((T ++ (E ++ (G ++ S))) ++ W) ++ K) ++ X) ++ G) ++ G2)
                    ++ (E ++ E2)) ++ R) ++ V)
           r == (T ++ (((X ++ R) ++ V) ++ K)) ++ (E2 ++ (G2 ++ (S ++ W)))
<1>13. key_after(m, rights, ep) = l /\ PositionKey(BoardAfter(m), them, rights, ep) = r
  BY <1>2, <1>3, <1>11, <1>12
<1> HIDE DEF T, E, G, S, W, K, X, G2, E2, R, V
<1>14. ASSUME NEW x PROVE x \in l <=> x \in r
  <2> DEFINE a == E ++ (G ++ S)  b == E ++ E2  c == E2 ++ (G2 ++ (S ++ W))
             d == (((((((T ++ a) ++ W) ++ K) ++ X) ++ G) ++ G2) ++ b)
             e == ((X ++ R) ++ V) ++ K
  <2>1. x \in a <=> ~(x \in E <=> ~(x \in G <=> x \in S))
    BY InXor
  <2>2. x \in b <=> ~(x \in E <=> x \in E2)
    BY InXor
  <2>3. x \in c <=> ~(x \in E2 <=> ~(x \in G2 <=> ~(x \in S <=> x \in W)))
    BY InXor
  <2>4. x \in e <=> ~(~(~(x \in X <=> x \in R) <=> x \in V) <=> x \in K)
    BY InXor
  <2>5. x \in (T ++ a) ++ W <=> ~(~(x \in T <=> x \in a) <=> x \in W)
    <3> HIDE DEF a
    <3> QED BY InXor
  <2>6. x \in d <=> ~(~(~(~(~(x \in (T ++ a) ++ W <=> x \in K) <=> x \in X)
                           <=> x \in G) <=> x \in G2) <=> x \in b)
    <3> DEFINE f == (T ++ a) ++ W
    <3> HIDE DEF b, f
    <3>1. x \in (((((f ++ K) ++ X) ++ G) ++ G2) ++ b)
            <=> ~(~(~(~(~(x \in f <=> x \in K) <=> x \in X)
                           <=> x \in G) <=> x \in G2) <=> x \in b)
      BY InXor
    <3> QED BY <3>1 DEF f
  <2>7. x \in l <=> ~(~(x \in d <=> x \in R) <=> x \in V)
    <3> HIDE DEF d
    <3>1. x \in (d ++ R) ++ V <=> ~(~(x \in d <=> x \in R) <=> x \in V)
      BY InXor
    <3> QED BY <3>1 DEF d
  <2>8. x \in r <=> ~(~(x \in T <=> x \in e) <=> x \in c)
    <3> HIDE DEF e, c
    <3>1. x \in (T ++ e) ++ c <=> ~(~(x \in T <=> x \in e) <=> x \in c)
      BY InXor
    <3> QED BY <3>1 DEF e, c
  <2> HIDE DEF a, b, c, d, e, l, r
  <2> QED BY <2>1, <2>2, <2>3, <2>4, <2>5, <2>6, <2>7, <2>8
<1> HIDE DEF l, r
<1>15. l = r
  BY <1>14
<1> QED BY <1>13, <1>15

\* And so is the key of the pawns.
LEMMA PawnKeyAfter ==
  ASSUME Sound(board, us, st), NEW m, Fits(m)
  PROVE  pawn_key_after(m) = PawnKey(BoardAfter(m))
<1> DEFINE pc == board[m.from]  captured == captured_by(m)
           cr == <<us, Side(m.from, m.to)>>
           rook == make_piece(us, ROOK)  promoted == make_piece(us, m.promotion)
           T == Terms(board, {PAWN})
           X == Term(captured, capture_square(m), {PAWN})
           R == IF m.type = PROMOTION THEN {psq(pc, m.to)} ELSE {}
           V == IF pc # NO_PIECE /\ pc[2] = PAWN THEN {psq(pc, m.from), psq(pc, m.to)} ELSE {}
<1>1. \A b : PawnKey(b) = Terms(b, {PAWN})
  BY DEF PawnKey, Terms, PiecesOfType
<1>2. st.pawnKey = T
  BY <1>1 DEF Sound
<1>3. PawnKey(BoardAfter(m)) = T ++ Change(m, {PAWN})
  BY <1>1, TermsAfter
<1>4. \A p, q, s, t : psq(p, s) = psq(q, t) => p = q /\ s = t
  BY DEF psq
<1>5. /\ m.from # m.to /\ pc \in Piece
      /\ m.type = PROMOTION => pc = make_piece(us, PAWN) /\ m.promotion \in PieceType \ {PAWN, KING}
      /\ promoted[2] = m.promotion
  BY PiecesOfMoves
<1>6. Term(rook, rook_home(cr), {PAWN}) ++ Term(rook, rook_to(cr), {PAWN}) = {}
  <2>1. rook[2] # PAWN
    BY DEF make_piece, ROOK, PAWN
  <2>2. Term(rook, rook_home(cr), {PAWN}) = {} /\ Term(rook, rook_to(cr), {PAWN}) = {}
    BY <2>1 DEF Term
  <2> QED BY <2>2, XorLaws
<1>7. Term(pc, m.from, {PAWN}) ++ Term(pc, m.to, {PAWN}) = V
  <2>1. psq(pc, m.from) # psq(pc, m.to)
    BY <1>4, <1>5
  <2>2. CASE pc # NO_PIECE /\ pc[2] = PAWN
    <3>1. Term(pc, m.from, {PAWN}) = {psq(pc, m.from)} /\ Term(pc, m.to, {PAWN}) = {psq(pc, m.to)}
      BY <2>2 DEF Term
    <3>2. {psq(pc, m.from), psq(pc, m.to)} = {psq(pc, m.from)} ++ {psq(pc, m.to)}
      BY <2>1, TwoWords
    <3> QED BY <2>2, <3>1, <3>2
  <2>3. CASE ~(pc # NO_PIECE /\ pc[2] = PAWN)
    <3>1. Term(pc, m.from, {PAWN}) = {} /\ Term(pc, m.to, {PAWN}) = {}
      BY <2>3 DEF Term
    <3> QED BY <2>3, <3>1, XorLaws
  <2> QED BY <2>2, <2>3
<1>8. ASSUME m.type = PROMOTION
      PROVE  Term(pc, m.to, {PAWN}) ++ Term(promoted, m.to, {PAWN}) = R
  <2>1. pc # NO_PIECE /\ pc[2] = PAWN /\ promoted[2] # PAWN
    BY <1>5, <1>8 DEF make_piece, NO_PIECE
  <2>2. Term(pc, m.to, {PAWN}) = R /\ Term(promoted, m.to, {PAWN}) = {}
    BY <1>8, <2>1 DEF Term
  <2> QED BY <2>2, XorLaws
<1>9. Change(m, {PAWN}) = ((X ++ R) ++ V) ++ {}
  BY <1>6, <1>7, <1>8 DEF Change
<1>10. pawn_key_after(m) = ((T ++ X) ++ R) ++ V
  BY <1>2 DEF pawn_key_after, Term
<1> HIDE DEF T, X, R, V
<1>11. T ++ (((X ++ R) ++ V) ++ {}) = ((T ++ X) ++ R) ++ V
  BY XorLaws
<1> QED BY <1>3, <1>9, <1>10, <1>11

-----------------------------------------------------------------------------
(* A move leaves a sound position. *)

\* No color gets a second king, and nothing leaves the board.
LEMMA BoardStaysBoard ==
  ASSUME Sound(board, us, st), NEW m, Fits(m)
  PROVE  IsBoard(BoardAfter(m))
<1>1. /\ \A s \in DOMAIN board : board[s] \in Piece
      /\ DOMAIN board \subseteq Square
      /\ \A s, t \in DOMAIN board : board[s] = board[t] /\ board[s][2] = KING => s = t
  BY DEF Sound, IsBoard
<1>2. CASE m.type = CASTLING
  <2> DEFINE cr == <<us, Side(m.from, m.to)>>  b == Castled(cr)
             rh == rook_home(cr)  rt == rook_to(cr)  from == m.from  to == m.to
             king == make_piece(us, KING)  rook == make_piece(us, ROOK)
  <2>1. /\ cr[1] = us /\ from = king_home(us) /\ to = king_to(cr)
        /\ from \in DOMAIN board /\ board[from] = king
        /\ rh \in DOMAIN board /\ board[rh] = rook
        /\ to # rt /\ rt \in Square
    BY <1>2, CastlingShape DEF StandsOn
  <2>2. b = [q \in (DOMAIN board \ {from, rh}) \cup {to, rt} |->
              IF q = rt THEN rook ELSE IF q = to THEN king ELSE board[q]]
    BY <2>1 DEF Castled
  <2>3. to \in Square
    BY DEF Fits, MoveRecord
  <2>4. king[2] = KING /\ rook[2] # KING
    BY DEF make_piece, KING, ROOK
  <2> HIDE DEF b, from, to, rh, rt, king, rook
  <2>5. DOMAIN b \subseteq Square /\ \A q \in DOMAIN b : b[q] \in Piece
    BY <1>1, <2>1, <2>2, <2>3
  <2>6. \A s, t \in DOMAIN b : b[s] = b[t] /\ b[s][2] = KING => s = t
    BY <1>1, <2>1, <2>2, <2>4
  <2>7. IsBoard(b)
    BY <2>2, <2>5, <2>6 DEF IsBoard
  <2>8. BoardAfter(m) = b
    BY <1>2, BoardAfterCastling DEF b
  <2> QED BY <2>7, <2>8
<1>3. CASE m.type # CASTLING
  <2> DEFINE b == Moved(m)
  <2>1. b = [q \in (DOMAIN board \ Left(m)) \cup {m.to} |->
              IF q = m.to THEN Arrives(m) ELSE board[q]]
    BY DEF Moved
  <2>2. m.from \in DOMAIN board /\ m.from \in Left(m) /\ m.to \in Square
    BY DEF Fits, MoveRecord, Left
  <2>3. Arrives(m) \in Piece /\ (Arrives(m)[2] = KING => Arrives(m) = board[m.from])
    <3>1. CASE m.type = PROMOTION
      <4>1. m.promotion \in PieceType \ {PAWN, KING} /\ us \in Color
        BY <3>1, PiecesOfMoves
      <4> QED BY <3>1, <4>1 DEF Arrives, make_piece, Piece
    <3>2. CASE m.type # PROMOTION
      BY <1>1, <2>2, <3>2 DEF Arrives
    <3> QED BY <3>1, <3>2
  <2> HIDE DEF b
  <2>4. DOMAIN b \subseteq Square /\ \A q \in DOMAIN b : b[q] \in Piece
    BY <1>1, <2>1, <2>2, <2>3
  <2>5. \A s, t \in DOMAIN b : b[s] = b[t] /\ b[s][2] = KING => s = t
    BY <1>1, <2>1, <2>2, <2>3
  <2>6. IsBoard(b)
    BY <2>1, <2>4, <2>5 DEF IsBoard
  <2>7. BoardAfter(m) = b
    BY <1>3, BoardAfterMove DEF b
  <2> QED BY <2>6, <2>7
<1> QED BY <1>2, <1>3

\* A square that holds no pawn and that a move neither leaves nor enters keeps its piece.
LEMMA UntouchedStays ==
  ASSUME Sound(board, us, st), NEW m, Fits(m), NEW pc, NEW s, StandsOn(board, pc, s),
         s # m.from, s # m.to, pc[2] # PAWN,
         m.type = CASTLING => s # rook_home(<<us, Side(m.from, m.to)>>)
  PROVE  StandsOn(BoardAfter(m), pc, s)
<1>1. CASE m.type = CASTLING
  <2> DEFINE cr == <<us, Side(m.from, m.to)>>
  <2>1. /\ cr[1] = us /\ m.from = king_home(us) /\ m.to = king_to(cr)
        /\ rook_to(cr) \notin DOMAIN board
    BY <1>1, CastlingShape
  <2>2. s # rook_to(cr) /\ s # king_to(cr) /\ s # king_home(cr[1]) /\ s # rook_home(cr)
    BY <1>1, <2>1 DEF StandsOn
  <2>3. StandsOn(Castled(cr), pc, s)
    BY <2>2 DEF StandsOn, Castled
  <2>4. BoardAfter(m) = Castled(cr)
    BY <1>1, BoardAfterCastling
  <2> QED BY <2>3, <2>4
<1>2. CASE m.type # CASTLING
  <2>1. s \notin Left(m)
    <3>1. CASE m.type = EN_PASSANT
      <4>1. StandsOn(board, make_piece(them, PAWN), ep_capture_square(m))
        BY <3>1, EnPassantShape
      <4>2. s # ep_capture_square(m)
        BY <4>1 DEF StandsOn, make_piece
      <4> QED BY <3>1, <4>2 DEF Left
    <3>2. CASE m.type # EN_PASSANT
      BY <3>2 DEF Left
    <3> QED BY <3>1, <3>2
  <2>2. StandsOn(Moved(m), pc, s)
    BY <2>1 DEF StandsOn, Moved
  <2> QED BY <1>2, <2>2, BoardAfterMove
<1> QED BY <1>1, <1>2

\* The rights that a move leaves are those of a king and a rook still at home.
LEMMA RightsAfterMove ==
  ASSUME Sound(board, us, st), NEW m, Fits(m)
  PROVE  RightsAtHome(BoardAfter(m),
                      st.castlingRights \ (castlingRightsMask(m.from) \cup castlingRightsMask(m.to)))
<1> DEFINE left == st.castlingRights \ (castlingRightsMask(m.from) \cup castlingRightsMask(m.to))
<1>1. left \subseteq CastlingRight
  BY DEF Sound, Agrees, RightsAtHome
<1>2. ASSUME NEW cr \in left
      PROVE  /\ StandsOn(BoardAfter(m), make_piece(cr[1], KING), king_home(cr[1]))
             /\ StandsOn(BoardAfter(m), make_piece(cr[1], ROOK), rook_home(cr))
  <2>1. /\ StandsOn(board, make_piece(cr[1], KING), king_home(cr[1]))
        /\ StandsOn(board, make_piece(cr[1], ROOK), rook_home(cr))
        /\ cr \in CastlingRight
    BY <1>1, <1>2 DEF Sound, Agrees, RightsAtHome
  <2>2. /\ king_home(cr[1]) # m.from /\ king_home(cr[1]) # m.to
        /\ rook_home(cr) # m.from /\ rook_home(cr) # m.to
    BY <1>2, <2>1 DEF castlingRightsMask
  <2>3. make_piece(cr[1], KING)[2] # PAWN /\ make_piece(cr[1], ROOK)[2] # PAWN
    BY DEF make_piece, KING, ROOK, PAWN
  <2>4. ASSUME m.type = CASTLING
        PROVE  /\ king_home(cr[1]) # rook_home(<<us, Side(m.from, m.to)>>)
               /\ rook_home(cr) # rook_home(<<us, Side(m.from, m.to)>>)
    <3>1. /\ m.from = king_home(us)
          /\ StandsOn(board, make_piece(us, ROOK), rook_home(<<us, Side(m.from, m.to)>>))
      BY <2>4, CastlingShape
    <3>2. cr[1] # us
      BY <2>2, <3>1
    <3>3. /\ make_piece(cr[1], KING) # make_piece(us, ROOK)
          /\ make_piece(cr[1], ROOK) # make_piece(us, ROOK)
      BY <3>2 DEF make_piece
    <3> QED BY <2>1, <3>1, <3>3 DEF StandsOn
  <2> HIDE DEF left
  <2>5. StandsOn(BoardAfter(m), make_piece(cr[1], KING), king_home(cr[1]))
    BY <2>1, <2>2, <2>3, <2>4, UntouchedStays
  <2>6. StandsOn(BoardAfter(m), make_piece(cr[1], ROOK), rook_home(cr))
    BY <2>1, <2>2, <2>3, <2>4, UntouchedStays
  <2> QED BY <2>5, <2>6
<1> QED BY <1>1, <1>2 DEF RightsAtHome

\* Only a pawn that jumps goes sixteen squares on.
LEMMA SixteenIsAJump ==
  ASSUME Sound(board, us, st), NEW m, Fits(m), board[m.from][2] = PAWN
  PROVE  /\ Gap(m.from, m.to) = 16 <=> m.type = NORMAL /\ Jumps(m.from, m.to)
         /\ rank_of(m.from) \in 0 .. 7 /\ rank_of(m.to) \in 0 .. 7
         /\ Gap(m.from, m.to) = 16 <=> Gap(rank_of(m.from), rank_of(m.to)) = 2
<1>1. us \in {0, 1} /\ m.from \in 0 .. 63 /\ m.to \in 0 .. 63
  BY DEF Sound, Color, WHITE, BLACK, Fits, MoveRecord, Square
<1>2. Up(us) = (IF us = 0 THEN 8 ELSE -8)
  BY <1>1 DEF Up, WHITE, NORTH
<1>3. m.type # CASTLING
  <2>1. m.type = CASTLING => board[m.from] = make_piece(us, KING)
    BY CastlingShape DEF StandsOn
  <2> QED BY <2>1 DEF make_piece, KING, PAWN
<1>4. m.type \in {NORMAL, PROMOTION, EN_PASSANT, CASTLING}
  BY DEF Fits, MoveRecord
<1>5. \/ Takes(m.from, m.to) \/ Pushes(m.from, m.to) \/ (m.type = NORMAL /\ Jumps(m.from, m.to))
      \/ m.to \in PawnAttacks[us][m.from]
  BY <1>3 DEF Fits, FitsNormal, FitsPromotion, FitsEnPassant, FitsCastling
<1>6. ASSUME m.to \in PawnAttacks[us][m.from]
      PROVE  /\ Gap(m.from, m.to) # 16 /\ ~Jumps(m.from, m.to)
             /\ Gap(rank_of(m.from), rank_of(m.to)) = 1
  <2>1. m.from \in Square /\ us \in Color
    BY <1>1 DEF Square, Color, WHITE, BLACK
  <2>2. m.to = m.from + Up(us) + 1 \/ m.to = m.from + Up(us) - 1
    BY <1>6, <2>1, PawnAttackSquares
  <2>3. IF us = WHITE THEN rank_of(m.to) = rank_of(m.from) + 1
                      ELSE rank_of(m.from) = rank_of(m.to) + 1
    BY <1>6, <2>1, PawnTakesAhead
  <2> QED BY <1>1, <1>2, <2>2, <2>3 DEF Gap, Jumps, rank_of
<1>7. ASSUME Pushes(m.from, m.to)
      PROVE  /\ Gap(m.from, m.to) # 16 /\ ~Jumps(m.from, m.to)
             /\ Gap(rank_of(m.from), rank_of(m.to)) = 1
  BY <1>1, <1>2, <1>7 DEF Gap, Pushes, Jumps, rank_of
<1>8. ASSUME Jumps(m.from, m.to)
      PROVE  Gap(m.from, m.to) = 16 /\ Gap(rank_of(m.from), rank_of(m.to)) = 2
  BY <1>1, <1>2, <1>8 DEF Gap, Jumps, rank_of
<1>9. rank_of(m.from) \in 0 .. 7 /\ rank_of(m.to) \in 0 .. 7
  BY <1>1 DEF rank_of
<1> QED BY <1>5, <1>6, <1>7, <1>8, <1>9 DEF Takes

\* The en passant square that a move leaves is behind the pawn that crossed it.
LEMMA EpAfterMove ==
  ASSUME Sound(board, us, st), NEW m, Fits(m)
  PROVE  EpFits(BoardAfter(m), them, ep_square_after(m, BoardAfter(m)))
<1> DEFINE b == BoardAfter(m)  ep == ep_square_after(m, b)
<1>1. SUFFICES ASSUME ep # SQ_NONE
               PROVE  /\ ep \in Square \ DOMAIN b /\ relative_rank(them, ep) = 5
                      /\ StandsOn(b, make_piece(Opposite(them), PAWN), ep - Up(them))
                      /\ \E s \in PawnAttacks[Opposite(them)][ep] : StandsOn(b, make_piece(them, PAWN), s)
  BY DEF EpFits
<1>2. /\ board[m.from][2] = PAWN /\ Gap(m.from, m.to) = 16
      /\ ep = m.to - Up(us)
  BY <1>1 DEF ep_square_after
<1>3. m.type = NORMAL /\ Jumps(m.from, m.to)
  BY <1>2, SixteenIsAJump
<1>4. us \in {0, 1} /\ them = 1 - us /\ Opposite(them) = us
  BY DEF Sound, Color, WHITE, BLACK, us, them, Opposite
<1>5. m.from \in 0 .. 63 /\ m.to \in 0 .. 63
  BY DEF Fits, MoveRecord, Square
<1>6. Up(us) = (IF us = 0 THEN 8 ELSE -8) /\ Up(them) = -Up(us)
  BY <1>4 DEF Up, WHITE, NORTH
<1>7. /\ relative_rank(us, m.from) = 1 /\ m.from + Up(us) \in Square \ DOMAIN board
      /\ m.to = m.from + 2 * Up(us)
  BY <1>3 DEF Jumps
<1>8. ep = m.from + Up(us) /\ ep - Up(them) = m.to /\ ep # m.to
  BY <1>2, <1>4, <1>5, <1>6, <1>7
<1>9. b = Moved(m) /\ Left(m) = {m.from} /\ Arrives(m) = board[m.from]
  BY <1>3, BoardAfterMove DEF Left, Arrives, NORMAL, CASTLING, EN_PASSANT, PROMOTION
<1>10. ep \in Square \ DOMAIN b
  BY <1>7, <1>8, <1>9 DEF Moved
<1>11. relative_rank(them, ep) = 5
  BY <1>4, <1>5, <1>6, <1>7, <1>8 DEF relative_rank, rank_of, WHITE
<1>12. board[m.from] = make_piece(us, PAWN)
  <2>1. m.from \in DOMAIN board /\ board[m.from][1] = us /\ board[m.from] \in Piece
    BY PiecesOfMoves DEF Fits
  <2> QED BY <1>2, <2>1 DEF Piece, make_piece
<1>13. StandsOn(b, make_piece(us, PAWN), m.to)
  BY <1>9, <1>12 DEF StandsOn, Moved
<1>14. \E s \in PawnAttacks[us][ep] : StandsOn(b, make_piece(them, PAWN), s)
  BY <1>1, <1>2 DEF ep_square_after, StandsOn
<1> HIDE DEF b, ep
<1> QED BY <1>4, <1>8, <1>10, <1>11, <1>13, <1>14

\* Attackers stand on the board.
LEMMA CheckersOnBoard ==
  ASSUME NEW b, NEW c, NEW A
  PROVE  A \cap PiecesOf(b, c) \subseteq DOMAIN b
BY DEF PiecesOf

\* The checkers do_move computes, or leaves empty when it was told of no check.
CheckersAfter(m, check) ==
  IF ~check THEN {}
  ELSE attackers_to(BoardAfter(m), king_square(BoardAfter(m), them), pieces(BoardAfter(m)))
         \cap PiecesOf(BoardAfter(m), us)

\* What do_move links to the chain, and what it is linked to.
LEMMA MoveLinks ==
  ASSUME Sound(board, us, st), NEW m, Fits(m), NEW check, do_move(m, check)
  PROVE  \E new : /\ chain' = Append(chain, new)
                  /\ board' = BoardAfter(m) /\ sideToMove' = them
                  /\ new.capturedPiece = captured_by(m)
                  /\ new.castlingRights = st.castlingRights
                       \ (castlingRightsMask(m.from) \cup castlingRightsMask(m.to))
                  /\ new.epSquare = ep_square_after(m, BoardAfter(m))
                  /\ new.checkersBB = CheckersAfter(m, check)
                  /\ new.nonPawnMaterial = material_after(m)
                  /\ new.checkSquares = checkSquares(BoardAfter(m), them)
                  /\ Sound(BoardAfter(m), them, new)
<1> DEFINE b == BoardAfter(m)
           rights == st.castlingRights \ (castlingRightsMask(m.from) \cup castlingRightsMask(m.to))
           ep == ep_square_after(m, b)
           irreversible == captured_by(m) # NO_PIECE \/ board[m.from][2] = PAWN
           rule50 == IF irreversible THEN 0 ELSE st.rule50 + 1
           checkers == IF ~check THEN {}
                       ELSE attackers_to(b, king_square(b, them), pieces(b)) \cap PiecesOf(b, us)
           fresh == [key |-> key_after(m, rights, ep),
                     pawnKey |-> pawn_key_after(m),
                     nonPawnMaterial |-> material_after(m),
                     castlingRights |-> rights,
                     rule50 |-> rule50,
                     pliesFromNull |-> st.pliesFromNull + 1,
                     epSquare |-> ep,
                     checkersBB |-> checkers,
                     capturedPiece |-> captured_by(m),
                     blockersForKing |-> blockersForKing(b),
                     checkSquares |-> checkSquares(b, them),
                     repetition |-> 0]
           new == [fresh EXCEPT !.repetition = Repetition(chain, fresh)]
<1>1. /\ board' = b /\ sideToMove' = them
      /\ chain' = Append(chain, new)
  BY DEF do_move
<1>2. IsBoard(b) /\ them \in Color
  BY BoardStaysBoard, PiecesOfMoves
<1>3. key_after(m, rights, ep) = PositionKey(b, them, rights, ep)
  BY <1>2, KeyAfter
<1>4. pawn_key_after(m) = PawnKey(b)
  BY PawnKeyAfter
<1>5. RightsAtHome(b, rights)
  BY RightsAfterMove
<1>6. EpFits(b, them, ep)
  BY EpAfterMove
<1>7. checkers \subseteq DOMAIN b
  BY CheckersOnBoard
<1> DEFINE key == key_after(m, rights, ep)  pawnKey == pawn_key_after(m)
           material == material_after(m)  plies == st.pliesFromNull + 1
           captured == captured_by(m)  blockers == blockersForKing(b)
           squares == checkSquares(b, them)  repeated == Repetition(chain, fresh)
<1>8. fresh = [key |-> key, pawnKey |-> pawnKey, nonPawnMaterial |-> material,
               castlingRights |-> rights, rule50 |-> rule50, pliesFromNull |-> plies,
               epSquare |-> ep, checkersBB |-> checkers, capturedPiece |-> captured,
               blockersForKing |-> blockers, checkSquares |-> squares, repetition |-> 0]
  OBVIOUS
<1>9. new = [fresh EXCEPT !.repetition = repeated]
  OBVIOUS
<1> HIDE DEF fresh, new, key, pawnKey, material, rights, rule50, plies, ep, checkers, captured,
             blockers, squares, repeated
<1>10. /\ new = [f \in StateFields |-> new[f]]
       /\ new.key = key /\ new.pawnKey = pawnKey /\ new.castlingRights = rights
       /\ new.epSquare = ep /\ new.checkersBB = checkers /\ new.capturedPiece = captured
       /\ new.blockersForKing = blockers /\ new.checkSquares = squares
       /\ new.nonPawnMaterial = material
  BY <1>8, <1>9 DEF StateFields
<1>11. Sound(b, them, new)
  BY <1>2, <1>3, <1>4, <1>5, <1>6, <1>7, <1>10 DEF Sound, Agrees, key, pawnKey, blockers
<1> QED BY <1>1, <1>10, <1>11 DEF rights, ep, captured, checkers, squares, material, CheckersAfter

\* What do_null_move links.
LEMMA PassLinks ==
  ASSUME Sound(board, us, st), do_null_move
  PROVE  \E new : /\ chain' = Append(chain, new)
                  /\ board' = board /\ sideToMove' = them
                  /\ new.castlingRights = st.castlingRights /\ new.epSquare = SQ_NONE
                  /\ new.checkersBB = st.checkersBB /\ new.checkSquares = checkSquares(board, them)
                  /\ new.nonPawnMaterial = st.nonPawnMaterial
                  /\ Sound(board, them, new)
<1> DEFINE key == st.key ++ side_feature ++ ep_feature(st.epSquare)
           blockers == blockersForKing(board)  squares == checkSquares(board, them)
           fifty == st.rule50 + 1
           new == [st EXCEPT !.key = key, !.epSquare = SQ_NONE, !.rule50 = fifty,
                             !.pliesFromNull = 0, !.blockersForKing = blockers,
                             !.checkSquares = squares, !.repetition = 0]
<1>1. board' = board /\ sideToMove' = them /\ chain' = Append(chain, new)
  BY DEF do_null_move
<1>2. /\ us \in Color /\ IsBoard(board) /\ st = [f \in StateFields |-> st[f]]
      /\ RightsAtHome(board, st.castlingRights) /\ st.checkersBB \subseteq DOMAIN board
      /\ st.key = PositionKey(board, us, st.castlingRights, st.epSquare)
      /\ st.pawnKey = PawnKey(board)
  BY DEF Sound, Agrees
<1>3. us \in {0, 1} /\ them \in Color /\ them = 1 - us
  BY <1>2 DEF us, them, Opposite, Color, WHITE, BLACK
<1>4. key = PositionKey(board, them, st.castlingRights, SQ_NONE)
  <2> DEFINE T == Terms(board, PieceType)  E == ep_feature(st.epSquare)
             G == castling_feature(st.castlingRights)  S == SideTerm(us)  W == side_feature
  <2>1. st.key = T ++ (E ++ (G ++ S))
    BY <1>2, FullKey
  <2>2. PositionKey(board, them, st.castlingRights, SQ_NONE)
          = T ++ (ep_feature(SQ_NONE) ++ (G ++ SideTerm(them)))
    BY <1>2, FullKey
  <2>3. ep_feature(SQ_NONE) = {}
    BY DEF ep_feature
  <2>4. SideTerm(them) = S ++ W
    <3>1. {} ++ W = W /\ W ++ W = {}
      BY DEF ++, SymDiff
    <3> QED BY <1>3, <3>1 DEF SideTerm, BLACK
  <2> DEFINE l == ((T ++ (E ++ (G ++ S))) ++ W) ++ E  r == T ++ ({} ++ (G ++ (S ++ W)))
  <2>5. key = l
    BY <2>1
  <2> HIDE DEF T, E, G, S, W
  <2>6. \A x : x \in l <=> x \in r
    BY DEF ++, SymDiff
  <2> HIDE DEF l, r
  <2>7. l = r
    BY <2>6
  <2> QED BY <2>2, <2>3, <2>4, <2>5, <2>7 DEF r
<1>5. new = [st EXCEPT !.key = key, !.epSquare = SQ_NONE, !.rule50 = fifty,
                       !.pliesFromNull = 0, !.blockersForKing = blockers,
                       !.checkSquares = squares, !.repetition = 0]
  OBVIOUS
<1> HIDE DEF new, key, blockers, squares, fifty
<1>6. /\ new = [f \in StateFields |-> new[f]]
      /\ new.key = key /\ new.pawnKey = st.pawnKey
      /\ new.castlingRights = st.castlingRights
      /\ new.epSquare = SQ_NONE /\ new.checkersBB = st.checkersBB
      /\ new.blockersForKing = blockers /\ new.checkSquares = squares
      /\ new.nonPawnMaterial = st.nonPawnMaterial
  <2> DEFINE s == st
  <2> HIDE DEF s
  <2>1. s = [f \in StateFields |-> s[f]]
    BY <1>2 DEF s
  <2>2. new = [s EXCEPT !.key = key, !.epSquare = SQ_NONE, !.rule50 = fifty,
                       !.pliesFromNull = 0, !.blockersForKing = blockers,
                       !.checkSquares = squares, !.repetition = 0]
    BY <1>5 DEF s
  <2>3. /\ new = [f \in StateFields |-> new[f]]
        /\ new.key = key /\ new.pawnKey = s.pawnKey
        /\ new.castlingRights = s.castlingRights
        /\ new.epSquare = SQ_NONE /\ new.checkersBB = s.checkersBB
        /\ new.blockersForKing = blockers /\ new.checkSquares = squares
        /\ new.nonPawnMaterial = s.nonPawnMaterial
    BY <2>1, <2>2 DEF StateFields
  <2> QED BY <2>3 DEF s
<1>7. EpFits(board, them, SQ_NONE)
  BY DEF EpFits
<1>8. Sound(board, them, new)
  BY <1>2, <1>3, <1>4, <1>6, <1>7 DEF Sound, Agrees, blockers
<1> QED BY <1>1, <1>6, <1>8 DEF squares

-----------------------------------------------------------------------------
(* Taking back. *)

\* The board that undo_move(m) makes of b.
Undone(b, mover, captured, m) ==
  LET pc == IF m.type = PROMOTION THEN make_piece(mover, PAWN) ELSE b[m.to]
      back == put_piece(remove_piece(b, m.to), pc, m.from)
      capsq == IF m.type = EN_PASSANT THEN m.to - Up(mover) ELSE m.to
  IN  CASE m.type = CASTLING -> undo_castling(b, <<mover, Side(m.from, m.to)>>)
        [] m.type # CASTLING /\ captured # NO_PIECE -> put_piece(back, captured, capsq)
        [] OTHER -> back

\* The board before a move is what undo_move makes of the board after it.
LEMMA UndoneAfter ==
  ASSUME Sound(board, us, st), NEW m, Fits(m)
  PROVE  Undone(BoardAfter(m), us, captured_by(m), m) = board
<1> DEFINE b == BoardAfter(m)  from == m.from  to == m.to
<1>0. board = [q \in DOMAIN board |-> board[q]] /\ IsBoard(board)
  BY DEF Sound, IsBoard
<1>1. CASE m.type = CASTLING
  <2> DEFINE cr == <<us, Side(m.from, m.to)>>  rh == rook_home(cr)  rt == rook_to(cr)
             king == make_piece(us, KING)  rook == make_piece(us, ROOK)
  <2>1. /\ cr[1] = us /\ from = king_home(us) /\ to = king_to(cr)
        /\ from \in DOMAIN board /\ board[from] = king
        /\ rh \in DOMAIN board /\ board[rh] = rook
        /\ to \notin DOMAIN board /\ rt \notin DOMAIN board
        /\ from # rh /\ to # rt
    BY <1>1, CastlingShape DEF StandsOn
  <2>2. b = [q \in (DOMAIN board \ {from, rh}) \cup {to, rt} |->
              IF q = rt THEN rook ELSE IF q = to THEN king ELSE board[q]]
    BY <1>1, <2>1, BoardAfterCastling DEF Castled
  <2>3. Undone(b, us, captured_by(m), m) =
          put_piece(put_piece(Restrict(b, DOMAIN b \ {to, rt}), king, from), rook, rh)
    BY <1>1, <2>1 DEF Undone, undo_castling
  <2> HIDE DEF b, from, to, rh, rt, king, rook
  <2> DEFINE b1 == Restrict(b, DOMAIN b \ {to, rt})  b2 == put_piece(b1, king, from)
             b3 == put_piece(b2, rook, rh)
  <2>4. b1 = [q \in DOMAIN b \ {to, rt} |-> b[q]]
    BY DEF Restrict
  <2>5. b2 = [q \in DOMAIN b1 \cup {from} |-> IF q = from THEN king ELSE b1[q]]
    BY DEF put_piece
  <2>6. b3 = [q \in DOMAIN b2 \cup {rh} |-> IF q = rh THEN rook ELSE b2[q]]
    BY DEF put_piece
  <2> HIDE DEF b1, b2, b3
  <2>7. DOMAIN b1 = DOMAIN board \ {from, rh} /\ \A q \in DOMAIN b1 : b1[q] = board[q]
    BY <2>1, <2>2, <2>4
  <2>8. DOMAIN b3 = DOMAIN board /\ \A q \in DOMAIN b3 : b3[q] = board[q]
    BY <2>1, <2>5, <2>6, <2>7
  <2>9. b3 = board
    BY <1>0, <2>6, <2>8
  <2> QED BY <2>3, <2>9 DEF b3, b2, b1, b
<1>2. CASE m.type # CASTLING
  <2> DEFINE mover == us  captured == captured_by(m)
             capsq == IF m.type = EN_PASSANT THEN m.to - Up(mover) ELSE m.to
             pc == IF m.type = PROMOTION THEN make_piece(mover, PAWN) ELSE b[m.to]
             b1 == remove_piece(b, to)  b2 == put_piece(b1, pc, from)
  <2>1. from # to /\ from \in DOMAIN board
    BY DEF Fits
  <2>2. b = [q \in (DOMAIN board \ Left(m)) \cup {to} |->
              IF q = to THEN Arrives(m) ELSE board[q]]
    BY <1>2, BoardAfterMove DEF Moved
  <2>3. pc = board[from]
    <3>1. CASE m.type = PROMOTION
      BY <3>1, PiecesOfMoves
    <3>2. CASE m.type # PROMOTION
      <4> HIDE DEF b
      <4> QED BY <2>2, <3>2 DEF Arrives
    <3> QED BY <3>1, <3>2
  <2>4. Undone(b, us, captured, m) = IF captured # NO_PIECE THEN put_piece(b2, captured, capsq) ELSE b2
    BY <1>2 DEF Undone
  <2>5. b1 = [q \in DOMAIN b \ {to} |-> b[q]]
    BY DEF remove_piece, Restrict
  <2>6. b2 = [q \in DOMAIN b1 \cup {from} |-> IF q = from THEN pc ELSE b1[q]]
    BY DEF put_piece
  <2> DEFINE b3 == put_piece(b2, captured, capsq)
  <2>7. b3 = [q \in DOMAIN b2 \cup {capsq} |-> IF q = capsq THEN captured ELSE b2[q]]
    BY DEF put_piece
  <2>8. CASE m.type = EN_PASSANT
    <3>1. /\ capsq \in DOMAIN board /\ board[capsq] = captured /\ captured # NO_PIECE
          /\ capsq # from /\ capsq # to /\ to \notin DOMAIN board /\ Left(m) = {from, capsq}
      <4>1. capsq = ep_capture_square(m) /\ captured = make_piece(them, PAWN)
            /\ Left(m) = {from, ep_capture_square(m)}
        <5>1. capsq = ep_capture_square(m)
          BY <2>8 DEF ep_capture_square
        <5>2. captured = make_piece(them, PAWN)
          BY <2>8 DEF captured_by, EN_PASSANT, CASTLING
        <5>3. Left(m) = {from, ep_capture_square(m)}
          BY <2>8 DEF Left
        <5> QED BY <5>1, <5>2, <5>3
      <4> HIDE DEF capsq, captured
      <4> QED BY <2>8, <4>1, EnPassantShape DEF StandsOn
    <3> HIDE DEF b, b1, b2, b3, pc, capsq, captured, from, to
    <3>2. DOMAIN b2 = DOMAIN board \ {capsq} /\ \A q \in DOMAIN b2 : b2[q] = board[q]
      BY <2>1, <2>2, <2>3, <2>5, <2>6, <3>1
    <3>3. DOMAIN b3 = DOMAIN board /\ \A q \in DOMAIN b3 : b3[q] = board[q]
      BY <2>7, <3>1, <3>2
    <3>4. b3 = board
      BY <1>0, <2>7, <3>3
    <3> QED BY <2>4, <3>1, <3>4 DEF b3, b, captured
  <2>9. CASE m.type # EN_PASSANT
    <3>1. capsq = to /\ Left(m) = {from} /\ captured = piece_on(to)
      BY <1>2, <2>9 DEF Left, captured_by
    <3>2. /\ captured = NO_PIECE <=> to \notin DOMAIN board
          /\ to \in DOMAIN board => captured = board[to]
      BY <1>0, <3>1, EmptySquares
    <3> HIDE DEF b, b1, b2, b3, pc, capsq, captured, from, to
    <3>3. DOMAIN b2 = DOMAIN board \ {to} /\ \A q \in DOMAIN b2 : b2[q] = board[q]
      BY <2>1, <2>2, <2>3, <2>5, <2>6, <3>1
    <3>4. CASE captured = NO_PIECE
      <4>1. DOMAIN b2 = DOMAIN board
        BY <3>2, <3>3, <3>4
      <4>2. b2 = board
        BY <1>0, <2>6, <3>3, <4>1
      <4> QED BY <2>4, <3>4, <4>2 DEF b2, b, captured
    <3>5. CASE captured # NO_PIECE
      <4>1. DOMAIN b3 = DOMAIN board /\ \A q \in DOMAIN b3 : b3[q] = board[q]
        BY <2>7, <3>1, <3>2, <3>3, <3>5
      <4>2. b3 = board
        BY <1>0, <2>7, <4>1
      <4> QED BY <2>4, <3>5, <4>2 DEF b3, b, captured
    <3> QED BY <3>4, <3>5
  <2> QED BY <2>8, <2>9
<1> QED BY <1>1, <1>2

-----------------------------------------------------------------------------
(* The walk.  The boards and sides of the line are explained by its StateInfos: *)
(* each is sound, and each is what taking back its move makes of the next.      *)

TakesBack(b, c, b2, c2, m, captured) ==
  /\ c = Opposite(c2)
  /\ b = IF m = NullMove THEN b2 ELSE Undone(b2, c, captured, m)

Explains(boards, sides, b, c, states, moves) ==
  /\ b = boards[Len(states)] /\ c = sides[Len(states)]
  /\ \A n \in 1 .. Len(states) : Sound(boards[n], sides[n], states[n])
  /\ \A n \in 1 .. Len(moves) :
       TakesBack(boards[n], sides[n], boards[n + 1], sides[n + 1], moves[n],
                 states[n + 1].capturedPiece)

WalkInv ==
  /\ chain \in Seq(Range(chain)) /\ line \in Seq(MoveRecord)
  /\ Len(chain) = Len(line) + 1
  /\ \E boards, sides : Explains(boards, sides, board, sideToMove, chain, line)

\* All but the last of a sequence.
LEMMA FrontFacts ==
  ASSUME NEW S, NEW s \in Seq(S), Len(s) > 0
  PROVE  /\ Front(s) \in Seq(S) /\ Len(Front(s)) = Len(s) - 1
         /\ \A n \in 1 .. Len(s) - 1 : Front(s)[n] = s[n]
<1>1. Len(s) \in Nat /\ DOMAIN s = 1 .. Len(s) /\ \A n \in 1 .. Len(s) : s[n] \in S
  OBVIOUS
<1> DEFINE k == Len(s) - 1  f == SubSeq(s, 1, k)
<1>2. k \in Nat /\ k <= Len(s)
  BY <1>1
<1>3. f = [n \in 1 .. k |-> s[n]]
  <2> HIDE DEF k
  <2> QED BY <1>1, <1>2
<1>4. Front(s) = f
  BY DEF Front
<1> HIDE DEF k, f
<1>5. f \in Seq(S) /\ Len(f) = k
  BY <1>1, <1>2, <1>3
<1> QED BY <1>3, <1>4, <1>5 DEF k

\* A sequence of anything is one of its own elements, longer or shorter.
LEMMA OwnElements ==
  ASSUME NEW s, s \in Seq(Range(s))
  PROVE  /\ \A e : Append(s, e) \in Seq(Range(Append(s, e)))
         /\ Len(s) > 0 => Front(s) \in Seq(Range(Front(s))) /\ Len(Front(s)) = Len(s) - 1
                          /\ \A n \in 1 .. Len(s) - 1 : Front(s)[n] = s[n]
<1>1. Len(s) \in Nat /\ DOMAIN s = 1 .. Len(s)
  OBVIOUS
<1>2. ASSUME NEW e PROVE Append(s, e) \in Seq(Range(Append(s, e)))
  <2> DEFINE R == Range(s) \cup {e}  a == Append(s, e)
  <2>1. s \in Seq(R)
    OBVIOUS
  <2>2. a \in Seq(R) /\ Len(a) = Len(s) + 1 /\ \A n \in 1 .. Len(s) : a[n] = s[n]
    BY <2>1
  <2> HIDE DEF a
  <2>3. \A n \in 1 .. Len(a) : a[n] \in Range(a)
    BY <2>2 DEF Range
  <2>4. a \in Seq(Range(a))
    BY <2>2, <2>3
  <2> QED BY <2>4 DEF a
<1>3. ASSUME Len(s) > 0
      PROVE  /\ Front(s) \in Seq(Range(Front(s))) /\ Len(Front(s)) = Len(s) - 1
             /\ \A n \in 1 .. Len(s) - 1 : Front(s)[n] = s[n]
  <2> DEFINE f == Front(s)
  <2>1. f \in Seq(Range(s)) /\ Len(f) = Len(s) - 1 /\ \A n \in 1 .. Len(s) - 1 : f[n] = s[n]
    BY <1>1, <1>3 DEF Front
  <2> HIDE DEF f
  <2>2. \A n \in 1 .. Len(f) : f[n] \in Range(f)
    BY <2>1 DEF Range
  <2>3. f \in Seq(Range(f))
    BY <2>1, <2>2
  <2> QED BY <2>1, <2>3 DEF f
<1> QED BY <1>2, <1>3

\* The position the walk is at is sound.
LEMMA CurrentIsSound ==
  ASSUME WalkInv
  PROVE  Sound(board, us, st)
<1>1. PICK boards : \E sides : Explains(boards, sides, board, sideToMove, chain, line)
  BY DEF WalkInv
<1>2. PICK sides : Explains(boards, sides, board, sideToMove, chain, line)
  BY <1>1
<1>3. Len(chain) \in 1 .. Len(chain)
  BY DEF WalkInv
<1> QED BY <1>2, <1>3 DEF Explains, us, st

\* A walk starts from a sound position.
LEMMA InitWalks ==
  ASSUME Init
  PROVE  WalkInv
<1>1. PICK f \in StartPositions :
        board = f.board /\ sideToMove = f.side /\ chain = <<SetUp(f)>> /\ line = <<>>
  BY DEF Init
<1> DEFINE first == SetUp(f)
<1>2. /\ f.side \in Color /\ IsBoard(f.board) /\ RightsAtHome(f.board, f.rights)
      /\ EpFits(f.board, f.side, f.ep)
  BY StartsAssumption
<1>3. /\ first = [x \in StateFields |-> first[x]]
      /\ first.key = PositionKey(f.board, f.side, f.rights, f.ep)
      /\ first.pawnKey = PawnKey(f.board) /\ first.castlingRights = f.rights
      /\ first.epSquare = f.ep /\ first.blockersForKing = blockersForKing(f.board)
      /\ first.checkersBB = attackers_to(f.board, king_square(f.board, f.side), pieces(f.board))
                              \cap PiecesOf(f.board, Opposite(f.side))
  BY DEF SetUp, StateFields
<1>4. first.checkersBB \subseteq DOMAIN f.board
  BY <1>3, CheckersOnBoard
<1> HIDE DEF first
<1>5. Sound(board, sideToMove, first)
  BY <1>1, <1>2, <1>3, <1>4 DEF Sound, Agrees
<1>6. chain = <<first>>
  BY <1>1 DEF first
<1>7. chain \in Seq(Range(chain)) /\ Len(chain) = 1 /\ chain[1] = first
  BY <1>6 DEF Range
<1>8. Explains([n \in 1 .. 1 |-> board], [n \in 1 .. 1 |-> sideToMove],
               board, sideToMove, chain, line)
  BY <1>1, <1>5, <1>7 DEF Explains
<1>9. line \in Seq(MoveRecord) /\ Len(line) = 0
  BY <1>1
<1> QED BY <1>7, <1>8, <1>9 DEF WalkInv

\* A list of n things with one more at its end.
Longer(f, n, x) == [i \in 1 .. n + 1 |-> IF i = n + 1 THEN x ELSE f[i]]

\* A position linked to the chain by a move or a pass that can be taken back.
LEMMA LinkIsExplained ==
  ASSUME WalkInv, NEW boards, NEW sides, Explains(boards, sides, board, sideToMove, chain, line),
         NEW m \in MoveRecord, NEW new,
         chain' = Append(chain, new), line' = Append(line, m),
         Sound(board', sideToMove', new),
         TakesBack(board, sideToMove, board', sideToMove', m, new.capturedPiece)
  PROVE  LET k == Len(chain)
         IN  /\ chain' \in Seq(Range(chain')) /\ line' \in Seq(MoveRecord)
             /\ Len(chain') = k + 1 /\ Len(line') = k /\ k \in Nat
             /\ chain'[k + 1] = new /\ \A n \in 1 .. k : chain'[n] = chain[n]
             /\ Explains(Longer(boards, k, board'), Longer(sides, k, sideToMove'),
                         board', sideToMove', chain', line')
<1> DEFINE k == Len(chain)
           boards2 == Longer(boards, k, board')
           sides2 == Longer(sides, k, sideToMove')
<1>1. /\ \A n \in 1 .. k + 1 : boards2[n] = (IF n = k + 1 THEN board' ELSE boards[n])
      /\ \A n \in 1 .. k + 1 : sides2[n] = (IF n = k + 1 THEN sideToMove' ELSE sides[n])
  BY DEF Longer
<1>3. chain \in Seq(Range(chain)) /\ line \in Seq(MoveRecord) /\ k = Len(line) + 1 /\ k \in Nat
  BY DEF WalkInv
<1>4. /\ Len(chain') = k + 1 /\ chain'[k + 1] = new /\ \A n \in 1 .. k : chain'[n] = chain[n]
      /\ chain' \in Seq(Range(chain'))
  <2>1. chain \in Seq(Range(chain) \cup {new})
    BY <1>3
  <2>2. Len(chain') = k + 1 /\ chain'[k + 1] = new /\ \A n \in 1 .. k : chain'[n] = chain[n]
    BY <2>1
  <2> QED BY <1>3, <2>2, OwnElements
<1>5. /\ line' \in Seq(MoveRecord) /\ Len(line') = k /\ line'[k] = m
      /\ \A n \in 1 .. k - 1 : line'[n] = line[n]
  BY <1>3
<1>6. /\ board = boards[k] /\ sideToMove = sides[k]
      /\ \A n \in 1 .. k : Sound(boards[n], sides[n], chain[n])
      /\ \A n \in 1 .. k - 1 : TakesBack(boards[n], sides[n], boards[n + 1], sides[n + 1], line[n],
                                         chain[n + 1].capturedPiece)
  BY <1>3 DEF Explains
<1> HIDE DEF k, boards2, sides2
<1>11. ASSUME NEW n \in 1 .. k PROVE boards2[n] = boards[n] /\ sides2[n] = sides[n]
  <2>1. n \in 1 .. k + 1 /\ n # k + 1
    BY <1>3
  <2> QED BY <1>1, <2>1
<1>7. \A n \in 1 .. k + 1 : Sound(boards2[n], sides2[n], chain'[n])
  BY <1>1, <1>3, <1>4, <1>6
<1>8. \A n \in 1 .. k : TakesBack(boards2[n], sides2[n], boards2[n + 1], sides2[n + 1], line'[n],
                                  chain'[n + 1].capturedPiece)
  <2> SUFFICES ASSUME NEW n \in 1 .. k
               PROVE  TakesBack(boards2[n], sides2[n], boards2[n + 1], sides2[n + 1], line'[n],
                                chain'[n + 1].capturedPiece)
    OBVIOUS
  <2>1. CASE n = k
    BY <1>1, <1>3, <1>4, <1>5, <1>6, <2>1
  <2>2. CASE n # k
    <3>1. n \in 1 .. k - 1 /\ n + 1 \in 1 .. k
      BY <1>3, <2>2
    <3>2. /\ boards2[n] = boards[n] /\ boards2[n + 1] = boards[n + 1]
          /\ sides2[n] = sides[n] /\ sides2[n + 1] = sides[n + 1]
      BY <1>11, <3>1, <2>2
    <3>3. line'[n] = line[n] /\ chain'[n + 1] = chain[n + 1]
      BY <1>4, <1>5, <3>1
    <3> QED BY <1>6, <3>1, <3>2, <3>3
  <2> QED BY <2>1, <2>2
<1>9. boards2[k + 1] = board' /\ sides2[k + 1] = sideToMove'
  BY <1>1, <1>3
<1>10. Explains(boards2, sides2, board', sideToMove', chain', line')
  BY <1>4, <1>5, <1>7, <1>8, <1>9 DEF Explains
<1> QED BY <1>3, <1>4, <1>5, <1>10 DEF k, boards2, sides2

\* So a move or a pass keeps the walk explained.
LEMMA LinkKeepsWalking ==
  ASSUME WalkInv, NEW m \in MoveRecord, NEW new,
         chain' = Append(chain, new), line' = Append(line, m),
         Sound(board', sideToMove', new),
         TakesBack(board, sideToMove, board', sideToMove', m, new.capturedPiece)
  PROVE  WalkInv'
<1>1. PICK boards : \E sides : Explains(boards, sides, board, sideToMove, chain, line)
  BY DEF WalkInv
<1>2. PICK sides : Explains(boards, sides, board, sideToMove, chain, line)
  BY <1>1
<1>3. /\ chain' \in Seq(Range(chain')) /\ line' \in Seq(MoveRecord)
      /\ Len(chain') = Len(line') + 1
      /\ \E bs, ss : Explains(bs, ss, board', sideToMove', chain', line')
  BY <1>2, LinkIsExplained
<1> QED BY <1>3 DEF WalkInv

\* What is taken back is what was there.
LEMMA TakingBackIsExplained ==
  ASSUME WalkInv, NEW boards, NEW sides, Explains(boards, sides, board, sideToMove, chain, line),
         line # <<>>, chain' = Front(chain), line' = Front(line), sideToMove' = them,
         board' = IF Last(line) = NullMove THEN board
                  ELSE Undone(board, them, st.capturedPiece, Last(line))
  PROVE  /\ chain' \in Seq(Range(chain')) /\ line' \in Seq(MoveRecord)
         /\ Len(chain') = Len(chain) - 1 /\ Len(chain') = Len(line') + 1 /\ Len(chain') \in Nat
         /\ \A n \in 1 .. Len(chain') : chain'[n] = chain[n]
         /\ Explains(boards, sides, board', sideToMove', chain', line')
<1> DEFINE k == Len(line)
<1>3. /\ chain \in Seq(Range(chain)) /\ line \in Seq(MoveRecord) /\ Len(chain) = k + 1
      /\ k \in Nat /\ k > 0
  BY DEF WalkInv
<1>4. /\ Len(chain') = k /\ \A n \in 1 .. k : chain'[n] = chain[n]
      /\ chain' \in Seq(Range(chain'))
  <2>1. /\ Front(chain) \in Seq(Range(Front(chain))) /\ Len(Front(chain)) = Len(chain) - 1
        /\ \A n \in 1 .. Len(chain) - 1 : Front(chain)[n] = chain[n]
    <3>1. chain \in Seq(Range(chain)) /\ Len(chain) > 0
      BY <1>3
    <3> QED BY ONLY <3>1, OwnElements
  <2> QED BY <1>3, <2>1
<1>5. /\ line' \in Seq(MoveRecord) /\ Len(line') = k - 1
      /\ \A n \in 1 .. k - 1 : line'[n] = line[n]
  <2>1. /\ Front(line) \in Seq(MoveRecord) /\ Len(Front(line)) = Len(line) - 1
        /\ \A n \in 1 .. Len(line) - 1 : Front(line)[n] = line[n]
    BY <1>3, FrontFacts
  <2> QED BY <1>3, <2>1
<1>6. /\ board = boards[k + 1] /\ sideToMove = sides[k + 1]
      /\ \A n \in 1 .. k + 1 : Sound(boards[n], sides[n], chain[n])
      /\ \A n \in 1 .. k : TakesBack(boards[n], sides[n], boards[n + 1], sides[n + 1], line[n],
                                     chain[n + 1].capturedPiece)
  BY <1>3 DEF Explains
<1>7. TakesBack(boards[k], sides[k], board, sideToMove, line[k], st.capturedPiece)
  BY <1>3, <1>6 DEF st
<1>8. board' = boards[k] /\ sideToMove' = sides[k]
  BY <1>7 DEF TakesBack, them, us, Last
<1> HIDE DEF k
<1>9. \A n \in 1 .. k : Sound(boards[n], sides[n], chain'[n])
  BY <1>3, <1>4, <1>6
<1>10. \A n \in 1 .. k - 1 : TakesBack(boards[n], sides[n], boards[n + 1], sides[n + 1], line'[n],
                                       chain'[n + 1].capturedPiece)
  <2> SUFFICES ASSUME NEW n \in 1 .. k - 1
               PROVE  TakesBack(boards[n], sides[n], boards[n + 1], sides[n + 1], line'[n],
                                chain'[n + 1].capturedPiece)
    OBVIOUS
  <2>1. n \in 1 .. k /\ n + 1 \in 1 .. k
    BY <1>3
  <2> QED BY <1>4, <1>5, <1>6, <2>1
<1>11. Explains(boards, sides, board', sideToMove', chain', line')
  BY <1>4, <1>5, <1>8, <1>9, <1>10 DEF Explains
<1> QED BY <1>3, <1>4, <1>5, <1>11

\* So a take-back keeps the walk explained.
LEMMA TakingBackKeepsWalking ==
  ASSUME WalkInv, line # <<>>, chain' = Front(chain), line' = Front(line), sideToMove' = them,
         board' = IF Last(line) = NullMove THEN board
                  ELSE Undone(board, them, st.capturedPiece, Last(line))
  PROVE  WalkInv'
<1>1. PICK boards : \E sides : Explains(boards, sides, board, sideToMove, chain, line)
  BY DEF WalkInv
<1>2. PICK sides : Explains(boards, sides, board, sideToMove, chain, line)
  BY <1>1
<1>3. /\ chain' \in Seq(Range(chain')) /\ line' \in Seq(MoveRecord)
      /\ Len(chain') = Len(line') + 1
      /\ Explains(boards, sides, board', sideToMove', chain', line')
  BY <1>2, TakingBackIsExplained
<1> QED BY <1>3 DEF WalkInv

\* Every step of the walk keeps it explained.
LEMMA StepsWalk ==
  ASSUME WalkInv, [Next]_vars
  PROVE  WalkInv'
<1>1. us \in Color /\ sideToMove = us /\ Opposite(them) = us
  <2>1. us \in {0, 1}
    BY CurrentIsSound DEF Sound, Color, WHITE, BLACK
  <2> QED BY <2>1 DEF us, them, Opposite, Color, WHITE, BLACK
<1>2. ASSUME NEW m \in LegalMoves, Make(m) PROVE WalkInv'
  <2>1. Sound(board, us, st) /\ Fits(m)
    BY CurrentIsSound, LegalMovesFit
  <2>2. do_move(m, gives_check(m)) /\ line' = Append(line, m)
    BY <1>2 DEF Make
  <2>3. PICK new : /\ chain' = Append(chain, new)
                   /\ board' = BoardAfter(m) /\ sideToMove' = them
                   /\ new.capturedPiece = captured_by(m)
                   /\ Sound(BoardAfter(m), them, new)
    BY <2>1, <2>2, MoveLinks
  <2>4. m # NullMove /\ m \in MoveRecord
    <3>1. m.from # m.to /\ m \in MoveRecord
      BY <2>1 DEF Fits
    <3>2. NullMove.from = NullMove.to
      BY DEF NullMove, Move
    <3> QED BY <3>1, <3>2
  <2>5. Undone(board', us, new.capturedPiece, m) = board
    BY <2>1, <2>3, UndoneAfter
  <2>6. TakesBack(board, sideToMove, board', sideToMove', m, new.capturedPiece)
    BY <1>1, <2>3, <2>4, <2>5 DEF TakesBack
  <2>7. Sound(board', sideToMove', new)
    BY <2>3
  <2> QED BY <2>2, <2>3, <2>4, <2>6, <2>7, LinkKeepsWalking
<1>3. ASSUME Pass PROVE WalkInv'
  <2>1. do_null_move /\ line' = Append(line, NullMove)
    BY <1>3 DEF Pass
  <2>2. PICK new : /\ chain' = Append(chain, new) /\ board' = board /\ sideToMove' = them
                   /\ Sound(board, them, new)
    BY <2>1, CurrentIsSound, PassLinks
  <2>3. NullMove \in MoveRecord
    BY DEF NullMove, Move, MoveRecord, Square, PieceType, KNIGHT
  <2>4. TakesBack(board, sideToMove, board', sideToMove', NullMove, new.capturedPiece)
    BY <1>1, <2>2 DEF TakesBack
  <2>5. Sound(board', sideToMove', new)
    BY <2>2
  <2> QED BY <2>1, <2>2, <2>3, <2>4, <2>5, LinkKeepsWalking
<1>4. ASSUME Unmake PROVE WalkInv'
  <2>1. /\ line # <<>> /\ Last(line) # NullMove /\ line' = Front(line)
        /\ chain' = Front(chain) /\ sideToMove' = them
    BY <1>4 DEF Unmake, undo_move
  <2>2. board' = Undone(board, them, st.capturedPiece, Last(line))
    BY <1>4 DEF Unmake, undo_move, Undone
  <2> QED BY <2>1, <2>2, TakingBackKeepsWalking
<1>5. ASSUME Unpass PROVE WalkInv'
  <2>1. /\ line # <<>> /\ Last(line) = NullMove /\ line' = Front(line)
        /\ chain' = Front(chain) /\ sideToMove' = them /\ board' = board
    BY <1>5 DEF Unpass, undo_null_move
  <2> QED BY <2>1, TakingBackKeepsWalking
<1>6. ASSUME UNCHANGED vars PROVE WalkInv'
  BY <1>6 DEF vars, WalkInv
<1> QED BY <1>2, <1>3, <1>4, <1>5, <1>6 DEF Next

\* Whatever moves, passes and take-backs led to it, every position of the line is sound,
\* and taking back the moves after it brings it back (do_move, undo_move, do_null_move,
\* undo_null_move).
THEOREM WalkInvariant == Spec => []WalkInv
<1>1. Init => WalkInv
  BY InitWalks
<1>2. WalkInv /\ [Next]_vars => WalkInv'
  BY StepsWalk
<1> QED BY <1>1, <1>2, PTL DEF Spec

\* The keys that do_move and do_null_move update word by word are those that set_state
\* would compute from the board, after any line of play and take-backs.
THEOREM HashKeysAlwaysExact == Spec => []HashKeysExact
<1>1. WalkInv => HashKeysExact
  BY CurrentIsSound DEF Sound, HashKeysExact, us
<1> QED BY <1>1, WalkInvariant, PTL

-----------------------------------------------------------------------------
(* The rules of chess. *)

\* The rules and the code name the same squares.
LEMMA SameSquares ==
  ASSUME NEW c \in Color
  PROVE  /\ Rules!Other(c) = Opposite(c) /\ 8 * Rules!Forward(c) = Up(c)
         /\ Rules!KingHome(c) = king_home(c)
         /\ \A w \in CastlingSide : Rules!WingRook(c, w) = rook_home(<<c, w>>)
<1>1. c \in {0, 1}
  BY DEF Color, WHITE, BLACK
<1>2. Rules!Other(c) = Opposite(c) /\ 8 * Rules!Forward(c) = Up(c)
  BY <1>1 DEF Rules!Other, Opposite, Rules!Forward, Up, WHITE, NORTH
<1>3. Rules!KingHome(c) = king_home(c)
  BY <1>1 DEF Rules!KingHome, Rules!HomeRank, king_home, relative_square, relative_rank,
              rank_of, file_of, WHITE
<1>4. ASSUME NEW w \in CastlingSide PROVE Rules!WingRook(c, w) = rook_home(<<c, w>>)
  BY <1>1, <1>4 DEF Rules!WingRook, Rules!HomeRank, rook_home, relative_square, relative_rank,
                    rank_of, file_of, WHITE, CastlingSide
<1> QED BY <1>2, <1>3, <1>4

\* The rules tell castling from the king's step, as the type of the move does.
LEMMA SameCastling ==
  ASSUME Sound(board, us, st), NEW m, Fits(m)
  PROVE  Rules!IsCastling(Seen, AsPlayed(m)) <=> m.type = CASTLING
<1> DEFINE castles == board[m.from][2] = "king" /\ Rules!Abs(m.to - m.from) = 2
<1>1. Rules!IsCastling(Seen, AsPlayed(m)) <=> castles
  BY DEF Rules!IsCastling, Seen, AsPlayed
<1>2. m.from \in Int /\ m.to \in Int
  BY DEF Fits, MoveRecord, Square
<1>3. Rules!Abs(m.to - m.from) = Gap(m.from, m.to)
  BY <1>2 DEF Rules!Abs, Gap
<1>4. CASE m.type = CASTLING
  <2> DEFINE cr == <<us, Side(m.from, m.to)>>
  <2>1. cr \in CastlingRight /\ cr[1] = us /\ m.from = king_home(us) /\ m.to = king_to(cr)
        /\ board[m.from] = make_piece(us, KING)
    BY <1>4, CastlingShape DEF StandsOn
  <2>2. m.to = m.from + 2 \/ m.to = m.from - 2
    BY <2>1, CastlingSquares
  <2>3. Gap(m.from, m.to) = 2
    BY <1>2, <2>2 DEF Gap
  <2> QED BY <1>1, <1>3, <1>4, <2>1, <2>3 DEF make_piece, KING
<1>5. CASE m.type # CASTLING
  <2>1. board[m.from][2] = KING => Gap(m.from, m.to) # 2
    BY <1>5 DEF Fits, FitsNormal, FitsPromotion, FitsEnPassant, FitsCastling, KING, PAWN
  <2> QED BY <1>1, <1>3, <1>5, <2>1 DEF KING
<1> QED BY <1>4, <1>5

\* And an en passant capture from the other moves of a pawn.
LEMMA SameEnPassant ==
  ASSUME Sound(board, us, st), NEW m, Fits(m)
  PROVE  Rules!IsEnPassant(Seen, AsPlayed(m)) <=> m.type = EN_PASSANT
<1> DEFINE passes == board[m.from][2] = "pawn" /\ m.to = st.epSquare /\ m.to % 8 # m.from % 8
<1>1. Rules!IsEnPassant(Seen, AsPlayed(m)) <=> passes
  BY DEF Rules!IsEnPassant, Rules!X, Seen, AsPlayed
<1>2. us \in Color /\ m.from \in Square /\ m.to \in Square
  BY DEF Sound, Fits, MoveRecord
<1>3. us \in {0, 1} /\ m.from \in 0 .. 63 /\ m.to \in 0 .. 63
  BY <1>2 DEF Color, WHITE, BLACK, Square
<1>4. CASE m.type = EN_PASSANT
  <2>1. /\ m.to = st.epSquare /\ m.to \in PawnAttacks[us][m.from]
        /\ board[m.from] = make_piece(us, PAWN)
    BY <1>4, EnPassantShape DEF StandsOn
  <2>2. file_of(m.to) = file_of(m.from) + 1 \/ file_of(m.from) = file_of(m.to) + 1
    BY <1>2, <2>1, PawnTakesAhead
  <2>3. m.to % 8 # m.from % 8
    BY <1>3, <2>2 DEF file_of
  <2> QED BY <1>1, <1>4, <2>1, <2>3 DEF make_piece, PAWN
<1>5. CASE m.type # EN_PASSANT
  <2> SUFFICES ASSUME passes PROVE FALSE
    BY <1>1, <1>5
  <2>1. m.to \notin DOMAIN board
    <3>1. m.to # SQ_NONE
      BY <1>3 DEF SQ_NONE
    <3> QED BY <3>1 DEF Sound, Agrees, EpFits
  <2>2. Pushes(m.from, m.to) \/ Jumps(m.from, m.to)
    <3>1. m.type # CASTLING
      <4>1. m.type = CASTLING => board[m.from] = make_piece(us, KING)
        BY CastlingShape DEF StandsOn
      <4> QED BY <4>1 DEF make_piece, KING
    <3> QED BY <1>5, <2>1, <3>1 DEF Fits, FitsNormal, FitsPromotion, FitsEnPassant, FitsCastling,
                                    Takes, PAWN
  <2>3. Up(us) = 8 \/ Up(us) = -8
    BY <1>3 DEF Up, WHITE, NORTH
  <2>4. m.to % 8 = m.from % 8
    BY <1>3, <2>2, <2>3 DEF Pushes, Jumps
  <2> QED BY <2>4
<1> QED BY <1>4, <1>5

\* The rights that the rules leave are those the code leaves.
LEMMA SameRights ==
  ASSUME Sound(board, us, st), NEW m, Fits(m)
  PROVE  {r \in st.castlingRights :
            {m.from, m.to} \cap {Rules!KingHome(r[1]), Rules!WingRook(r[1], r[2])} = {}}
           = st.castlingRights \ (castlingRightsMask(m.from) \cup castlingRightsMask(m.to))
<1>1. ASSUME NEW r \in st.castlingRights
      PROVE  /\ Rules!KingHome(r[1]) = king_home(r[1])
             /\ Rules!WingRook(r[1], r[2]) = rook_home(r)
             /\ r \in CastlingRight
  <2>1. r \in CastlingRight
    BY DEF Sound, Agrees, RightsAtHome
  <2>2. r[1] \in Color /\ r[2] \in CastlingSide /\ r = <<r[1], r[2]>>
    BY <2>1, CastlingSquares
  <2> QED BY <2>1, <2>2, SameSquares
<1>2. \A r \in st.castlingRights :
        {m.from, m.to} \cap {Rules!KingHome(r[1]), Rules!WingRook(r[1], r[2])} = {}
          <=> r \notin castlingRightsMask(m.from) \cup castlingRightsMask(m.to)
  BY <1>1 DEF castlingRightsMask
<1> QED BY <1>2

\* The board the rules make of a move.
LEMMA SameBoard ==
  ASSUME Sound(board, us, st), NEW m, Fits(m)
  PROVE  Rules!Play(Seen, AsPlayed(m)).board = BoardAfter(m)
<1> DEFINE from == m.from  to == m.to  cap == m.to - 8 * Rules!Forward(us)
           cleared == IF m.type = EN_PASSANT THEN Rules!Without(board, cap) ELSE board
           lands == IF AsPlayed(m).promotion = "" THEN board[from] ELSE <<us, AsPlayed(m).promotion>>
           landed == Rules!Displace(cleared, from, to, lands)
           wing == IF to > from THEN Rules!WingRook(us, "king") ELSE Rules!WingRook(us, "queen")
<1>1. Rules!Play(Seen, AsPlayed(m)).board
        = IF m.type = CASTLING
          THEN Rules!Displace(landed, wing, (from + to) \div 2, <<us, "rook">>) ELSE landed
  <2> DEFINE p == Seen  a == AsPlayed(m)
  <2>1. /\ p.board = board /\ p.side = us /\ a.from = from /\ a.to = to
        /\ Rules!IsCastling(p, a) <=> m.type = CASTLING
        /\ Rules!IsEnPassant(p, a) <=> m.type = EN_PASSANT
    BY SameCastling, SameEnPassant DEF Seen, AsPlayed, us
  <2>2. Rules!Play(p, a).board
          = LET pc == p.board[a.from]
                rook == IF a.to > a.from THEN Rules!WingRook(p.side, "king")
                                         ELSE Rules!WingRook(p.side, "queen")
                onto == Rules!Displace(IF Rules!IsEnPassant(p, a)
                           THEN Rules!Without(p.board, a.to - 8 * Rules!Forward(p.side))
                           ELSE p.board,
                           a.from, a.to,
                           IF a.promotion = "" THEN pc ELSE <<p.side, a.promotion>>)
            IN  IF Rules!IsCastling(p, a)
                THEN Rules!Displace(onto, rook, (a.from + a.to) \div 2, <<p.side, "rook">>)
                ELSE onto
    <3> HIDE DEF p, a
    <3> QED BY DEF Rules!Play
  <2> HIDE DEF p
  <2>3. a.promotion = AsPlayed(m).promotion
    OBVIOUS
  <2> HIDE DEF a
  <2>4. Rules!Play(p, a).board
          = IF m.type = CASTLING
            THEN Rules!Displace(landed, wing, (from + to) \div 2, <<us, "rook">>) ELSE landed
    BY <2>1, <2>2, <2>3
  <2> QED BY <2>4 DEF p, a
<1>2. us \in Color
  BY DEF Sound
<1>3. lands = Arrives(m)
  <2>1. AsPlayed(m).promotion = IF m.type = PROMOTION THEN m.promotion ELSE ""
    BY DEF AsPlayed
  <2>2. m.type = PROMOTION => m.promotion # ""
    BY PiecesOfMoves DEF PieceType, PAWN, KNIGHT, BISHOP, ROOK, QUEEN, KING
  <2> QED BY <2>1, <2>2 DEF Arrives, make_piece
<1>4. cap = ep_capture_square(m)
  BY <1>2, SameSquares DEF ep_capture_square
<1> HIDE DEF lands, cap
<1>5. from # to /\ from \in DOMAIN board
  BY DEF Fits
<1>6. CASE m.type = CASTLING
  <2> DEFINE cr == <<us, Side(m.from, m.to)>>  rh == rook_home(cr)  rt == rook_to(cr)
             king == make_piece(us, KING)  rook == make_piece(us, ROOK)
  <2>1. /\ cr \in CastlingRight /\ cr[1] = us /\ from = king_home(us) /\ to = king_to(cr)
        /\ board[from] = king /\ rh \in DOMAIN board /\ to \notin DOMAIN board
        /\ to # rt /\ from # rh
    BY <1>6, CastlingShape DEF StandsOn
  <2>2. wing = rh
    BY <1>2, SameSquares DEF Side, CastlingSide
  <2>3. (from + to) \div 2 = rt
    <3>1. from = 4 \/ from = 60
      BY <2>1, CastlingSquares
    <3>2. (to = from + 2 /\ rt = from + 1) \/ (to = from - 2 /\ rt = from - 1)
      BY <2>1, CastlingSquares
    <3> HIDE DEF from, to, rt
    <3> QED BY <3>1, <3>2
  <2>4. <<us, "rook">> = rook /\ cleared = board /\ lands = king
    BY <1>3, <1>6, <2>1 DEF make_piece, ROOK, Arrives, CASTLING, EN_PASSANT, PROMOTION
  <2>5. landed = [q \in (DOMAIN board \ {from}) \cup {to} |-> IF q = to THEN king ELSE board[q]]
    BY <2>4 DEF Rules!Displace
  <2>6. Rules!Displace(landed, rh, rt, rook)
          = [q \in (DOMAIN landed \ {rh}) \cup {rt} |-> IF q = rt THEN rook ELSE landed[q]]
    BY DEF Rules!Displace
  <2>7. Castled(cr) = [q \in (DOMAIN board \ {from, rh}) \cup {to, rt} |->
                         IF q = rt THEN rook ELSE IF q = to THEN king ELSE board[q]]
    BY <2>1 DEF Castled
  <2>8. Rules!Displace(landed, rh, rt, rook) = Castled(cr)
    <3> DEFINE l == Rules!Displace(landed, rh, rt, rook)  r == Castled(cr)
    <3> HIDE DEF landed, l, r, from, to, rh, rt, king, rook
    <3>1. l = [q \in (DOMAIN landed \ {rh}) \cup {rt} |-> IF q = rt THEN rook ELSE landed[q]]
      BY <2>6 DEF l
    <3>2. r = [q \in (DOMAIN board \ {from, rh}) \cup {to, rt} |->
                         IF q = rt THEN rook ELSE IF q = to THEN king ELSE board[q]]
      BY <2>7 DEF r
    <3>3. to # rh
      BY <2>1
    <3>4. DOMAIN l = DOMAIN r /\ \A q \in DOMAIN l : l[q] = r[q]
      BY <2>1, <2>5, <3>1, <3>2, <3>3
    <3>5. l = r
      BY <3>1, <3>2, <3>4
    <3> QED BY <3>5 DEF l, r
  <2>9. BoardAfter(m) = Castled(cr)
    BY <1>6, BoardAfterCastling
  <2> QED BY <1>1, <1>6, <2>2, <2>3, <2>4, <2>8, <2>9
<1>7. CASE m.type # CASTLING
  <2>1. landed = [q \in (DOMAIN cleared \ {from}) \cup {to} |->
                    IF q = to THEN Arrives(m) ELSE cleared[q]]
    BY <1>3 DEF Rules!Displace
  <2>2. /\ DOMAIN cleared \ {from} = DOMAIN board \ Left(m)
        /\ \A q \in DOMAIN cleared : cleared[q] = board[q]
    <3>1. CASE m.type = EN_PASSANT
      <4>1. cleared = [q \in DOMAIN board \ {cap} |-> board[q]] /\ Left(m) = {from, cap}
        BY <1>4, <3>1 DEF Rules!Without, Left
      <4> HIDE DEF cleared
      <4> QED BY <4>1
    <3>2. CASE m.type # EN_PASSANT
      BY <3>2 DEF Left
    <3> QED BY <3>1, <3>2
  <2> HIDE DEF cleared
  <2>3. landed = Moved(m)
    BY <2>1, <2>2 DEF Moved
  <2> QED BY <1>1, <1>7, <2>3, BoardAfterMove
<1> QED BY <1>6, <1>7

\* The square a pawn has crossed by a double step.
Crossed(m) == IF board[m.from][2] = PAWN /\ Gap(m.from, m.to) = 16 THEN m.to - Up(us) ELSE SQ_NONE
RightsLeft(m) == st.castlingRights \ (castlingRightsMask(m.from) \cup castlingRightsMask(m.to))

\* The square crossed by a double step, as the rules have it.
LEMMA SameCrossed ==
  ASSUME Sound(board, us, st), NEW m, Fits(m)
  PROVE  Rules!Play(Seen, AsPlayed(m)).crossed = Crossed(m)
<1> DEFINE doubleStep == board[m.from][2] = "pawn" /\ Rules!Abs(m.to \div 8 - m.from \div 8) = 2
<1>1. Rules!Play(Seen, AsPlayed(m)).crossed = IF doubleStep THEN (m.from + m.to) \div 2 ELSE 64
  <2> DEFINE p == Seen  a == AsPlayed(m)
  <2>1. p.board = board /\ a.from = m.from /\ a.to = m.to
    BY DEF Seen, AsPlayed
  <2>2. Rules!Play(p, a).crossed
          = IF p.board[a.from][2] = "pawn" /\ Rules!Abs(Rules!Y(a.to) - Rules!Y(a.from)) = 2
            THEN (a.from + a.to) \div 2 ELSE 64
    <3> HIDE DEF p, a
    <3> QED BY DEF Rules!Play
  <2> HIDE DEF p, a
  <2>3. Rules!Play(p, a).crossed = IF doubleStep THEN (m.from + m.to) \div 2 ELSE 64
    BY <2>1, <2>2 DEF Rules!Y
  <2> QED BY <2>3 DEF p, a
<1>2. us \in {0, 1} /\ m.from \in 0 .. 63 /\ m.to \in 0 .. 63
  BY DEF Sound, Color, WHITE, BLACK, Fits, MoveRecord, Square
<1>3. Up(us) = (IF us = 0 THEN 8 ELSE -8)
  BY <1>2 DEF Up, WHITE, NORTH
<1>4. CASE board[m.from][2] = PAWN
  <2>1. doubleStep <=> Gap(m.from, m.to) = 16
    <3>1. Rules!Abs(m.to \div 8 - m.from \div 8) = Gap(rank_of(m.from), rank_of(m.to))
      BY <1>2 DEF Rules!Abs, Gap, rank_of
    <3>2. Gap(m.from, m.to) = 16 <=> Gap(rank_of(m.from), rank_of(m.to)) = 2
      BY <1>4, SixteenIsAJump
    <3> QED BY <1>4, <3>1, <3>2 DEF PAWN
  <2>2. ASSUME Gap(m.from, m.to) = 16 PROVE (m.from + m.to) \div 2 = m.to - Up(us)
    <3>1. m.to = m.from + 2 * Up(us)
      BY <1>4, <2>2, SixteenIsAJump DEF Jumps
    <3> QED BY <1>2, <1>3, <3>1
  <2> QED BY <1>1, <1>4, <2>1, <2>2 DEF Crossed, SQ_NONE
<1>5. CASE board[m.from][2] # PAWN
  BY <1>1, <1>5 DEF Crossed, SQ_NONE, PAWN
<1> QED BY <1>4, <1>5

\* A move as the rules play it.
LEMMA SamePlay ==
  ASSUME Sound(board, us, st), NEW m, Fits(m)
  PROVE  Rules!Play(Seen, AsPlayed(m)) =
           [board |-> BoardAfter(m), side |-> them, rights |-> RightsLeft(m), crossed |-> Crossed(m)]
<1> DEFINE p == Seen  a == AsPlayed(m)  q == Rules!Play(p, a)
<1>1. p.side = us /\ p.rights = st.castlingRights /\ a.from = m.from /\ a.to = m.to
  BY DEF Seen, AsPlayed, us
<1>2. /\ q = [board |-> q.board, side |-> q.side, rights |-> q.rights, crossed |-> q.crossed]
      /\ q.side = Rules!Other(p.side)
      /\ q.rights = {r \in p.rights :
           {a.from, a.to} \cap {Rules!KingHome(r[1]), Rules!WingRook(r[1], r[2])} = {}}
  <2> HIDE DEF p, a
  <2> QED BY DEF Rules!Play
<1> HIDE DEF p, a
<1>3. q.rights = RightsLeft(m)
  BY <1>1, <1>2, SameRights DEF RightsLeft
<1>4. q.side = them
  <2>1. us \in Color
    BY DEF Sound
  <2>2. Rules!Other(us) = Opposite(us)
    BY <2>1, SameSquares
  <2>3. them = Opposite(us)
    BY DEF them, us
  <2> QED BY <1>1, <1>2, <2>2, <2>3
<1>5. q.board = BoardAfter(m) /\ q.crossed = Crossed(m)
  BY SameBoard, SameCrossed DEF p, a
<1> QED BY <1>2, <1>3, <1>4, <1>5 DEF p, a

\* The code keeps the crossed square when an enemy pawn can use it, looking from the
\* square; the rules look from the pawn.
LEMMA SameUse ==
  ASSUME Sound(board, us, st), NEW m, Fits(m), NEW b, b = BoardAfter(m),
         NEW usable \in BOOLEAN,
         usable <=> \E s \in DOMAIN b : b[s] = make_piece(them, PAWN)
                                        /\ Crossed(m) \in PawnAttacks[them][s]
  PROVE  ep_square_after(m, b) = IF usable THEN Crossed(m) ELSE SQ_NONE
<1>1. us \in Color /\ them \in Color /\ Opposite(us) = them
  <2>1. us \in Color /\ them \in Color
    BY PiecesOfMoves
  <2>2. Opposite(us) = them
    BY DEF them, us
  <2> QED BY <2>1, <2>2
<1>2. DOMAIN b \subseteq Square
  BY BoardStaysBoard DEF IsBoard
<1>3. CASE board[m.from][2] = PAWN /\ Gap(m.from, m.to) = 16
  <2> DEFINE c == m.to - Up(us)
  <2>1. Crossed(m) = c
    BY <1>3 DEF Crossed
  <2>2. c \in Square
    <3>1. /\ m.to = m.from + 2 * Up(us) /\ m.from + Up(us) \in Square
      BY <1>3, SixteenIsAJump DEF Jumps
    <3>2. us \in {0, 1} /\ m.from \in 0 .. 63
      BY <1>1 DEF Fits, MoveRecord, Square, Color, WHITE, BLACK
    <3>3. Up(us) = (IF us = 0 THEN 8 ELSE -8)
      BY <3>2 DEF Up, WHITE, NORTH
    <3>4. c = m.from + Up(us)
      BY <3>1, <3>2, <3>3
    <3> QED BY <3>1, <3>4
  <2> HIDE DEF c
  <2>3. \A s \in DOMAIN b : c \in PawnAttacks[them][s] <=> s \in PawnAttacks[us][c]
    BY <1>1, <1>2, <2>2, PawnAttacksBack
  <2>4. usable <=> \E s \in PawnAttacks[us][c] \cap DOMAIN b : b[s] = make_piece(them, PAWN)
    BY <2>1, <2>3
  <2>5. ep_square_after(m, b)
          = IF \E s \in PawnAttacks[us][c] \cap DOMAIN b : b[s] = make_piece(them, PAWN)
            THEN c ELSE SQ_NONE
    BY <1>3 DEF ep_square_after, c
  <2> QED BY <2>1, <2>4, <2>5
<1>4. CASE ~(board[m.from][2] = PAWN /\ Gap(m.from, m.to) = 16)
  BY <1>4 DEF ep_square_after, Crossed
<1> QED BY <1>3, <1>4

\* A step of the walk that lengthens the line is a move or a pass by the rules of chess.
LEMMA StepsPlay ==
  ASSUME WalkInv, [Next]_vars
  PROVE  StepOfTheRules
<1>1. /\ line \in Seq(MoveRecord) /\ chain \in Seq(Range(chain)) /\ Len(line) \in Nat
  BY DEF WalkInv
<1>2. ASSUME NEW new, chain' = Append(chain, new)
      PROVE  st' = new
  <2>1. chain \in Seq(Range(chain) \cup {new})
    BY <1>1
  <2>2. chain'[Len(chain')] = new
    BY <1>2, <2>1
  <2> QED BY <2>2 DEF st
<1>3. \A m : line' = Append(line, m) /\ m \in MoveRecord => Last(line') = m
  BY <1>1 DEF Last
<1>4. ASSUME NEW m \in LegalMoves, Make(m) PROVE StepOfTheRules
  <2>1. Sound(board, us, st) /\ Fits(m)
    BY CurrentIsSound, LegalMovesFit
  <2>2. do_move(m, gives_check(m)) /\ line' = Append(line, m)
    BY <1>4 DEF Make
  <2>3. PICK new : /\ chain' = Append(chain, new)
                   /\ board' = BoardAfter(m) /\ sideToMove' = them
                   /\ new.castlingRights = RightsLeft(m)
                   /\ new.epSquare = ep_square_after(m, BoardAfter(m))
    BY <2>1, <2>2, MoveLinks DEF RightsLeft
  <2>4. m # NullMove /\ m \in MoveRecord
    <3>1. m.from # m.to /\ m \in MoveRecord
      BY <2>1 DEF Fits
    <3>2. NullMove.from = NullMove.to
      BY DEF NullMove, Move
    <3> QED BY <3>1, <3>2
  <2>5. Last(line') = m
    BY <1>3, <2>2, <2>4
  <2> DEFINE b == BoardAfter(m)  ep == ep_square_after(m, b)  rights == RightsLeft(m)
             crossed == Crossed(m)
             usable == \E s \in DOMAIN b : b[s] = make_piece(them, PAWN)
                                           /\ crossed \in PawnAttacks[them][s]
             p == [board |-> b, side |-> them, rights |-> rights, crossed |-> crossed]
  <2>6. Seen' = [board |-> b, side |-> them, rights |-> rights, crossed |-> ep]
    <3>1. st' = new
      BY <1>2, <2>3
    <3> QED BY <2>3, <3>1 DEF Seen
  <2>7. ep = IF usable THEN crossed ELSE SQ_NONE
    BY <2>1, SameUse
  <2>8. Rules!Play(Seen, AsPlayed(m)) = p
    BY <2>1, SamePlay
  <2> DEFINE q == Rules!Play(Seen, AsPlayed(m))
             uses == \E s \in DOMAIN q.board : /\ q.board[s] = make_piece(q.side, PAWN)
                                               /\ q.crossed \in PawnAttacks[q.side][s]
  <2> HIDE DEF q
  <2>9. q = p
    BY <2>8 DEF q
  <2>10. q.board = b /\ q.side = them /\ q.crossed = crossed
    <3> HIDE DEF b, rights, crossed
    <3> QED BY <2>9
  <2>11. uses <=> usable
    <3> HIDE DEF b, rights, crossed
    <3> QED BY <2>10
  <2>12. Seen' = IF uses THEN q ELSE [q EXCEPT !.crossed = SQ_NONE]
    <3> HIDE DEF b, rights, crossed, ep, uses, usable
    <3> QED BY <2>6, <2>7, <2>9, <2>11
  <2> QED BY <2>4, <2>5, <2>12 DEF StepOfTheRules, q
<1>5. ASSUME Pass PROVE StepOfTheRules
  <2>1. do_null_move /\ line' = Append(line, NullMove)
    BY <1>5 DEF Pass
  <2>2. PICK new : /\ chain' = Append(chain, new) /\ board' = board /\ sideToMove' = them
                   /\ new.castlingRights = st.castlingRights /\ new.epSquare = SQ_NONE
    BY <2>1, CurrentIsSound, PassLinks
  <2>3. NullMove \in MoveRecord
    BY DEF NullMove, Move, MoveRecord, Square, PieceType, KNIGHT
  <2>4. Last(line') = NullMove
    BY <1>3, <2>1, <2>3
  <2>5. st' = new
    BY <1>2, <2>2
  <2> DEFINE rights == st.castlingRights  p == [Seen EXCEPT !.side = them, !.crossed = SQ_NONE]
             q == [board |-> board, side |-> them, rights |-> rights, crossed |-> SQ_NONE]
  <2>6. Seen' = q
    BY <2>2, <2>5 DEF Seen
  <2>7. p = q /\ [p EXCEPT !.crossed = SQ_NONE] = q
    <3>1. Seen = [board |-> board, side |-> sideToMove, rights |-> rights, crossed |-> st.epSquare]
      BY DEF Seen
    <3> DEFINE ep == st.epSquare  s == Seen  c == them
    <3>2. s = [board |-> board, side |-> sideToMove, rights |-> rights, crossed |-> ep]
      BY <3>1
    <3> HIDE DEF rights, ep, s, c
    <3>3. [s EXCEPT !.side = c, !.crossed = SQ_NONE]
            = [board |-> board, side |-> c, rights |-> rights, crossed |-> SQ_NONE]
      <4> DEFINE s1 == [s EXCEPT !.side = c]
      <4>1. s1 = [board |-> board, side |-> c, rights |-> rights, crossed |-> ep]
        BY <3>2
      <4> HIDE DEF s1
      <4>2. [s1 EXCEPT !.crossed = SQ_NONE]
              = [board |-> board, side |-> c, rights |-> rights, crossed |-> SQ_NONE]
        BY <4>1
      <4> QED BY <4>2 DEF s1
    <3>4. p = [board |-> board, side |-> c, rights |-> rights, crossed |-> SQ_NONE]
      BY <3>3 DEF s, c
    <3>5. p = q
      BY <3>4 DEF c
    <3> HIDE DEF p
    <3>6. [p EXCEPT !.crossed = SQ_NONE]
            = [board |-> board, side |-> c, rights |-> rights, crossed |-> SQ_NONE]
      BY <3>4
    <3> QED BY <3>5, <3>6 DEF c
  <2> HIDE DEF p, q
  <2>8. \A u \in BOOLEAN : Seen' = IF u THEN p ELSE [p EXCEPT !.crossed = SQ_NONE]
    BY <2>6, <2>7
  <2>9. (\E s \in DOMAIN p.board : /\ p.board[s] = make_piece(p.side, PAWN)
                                   /\ p.crossed \in PawnAttacks[p.side][s]) \in BOOLEAN
    OBVIOUS
  <2> QED BY <2>4, <2>8, <2>9 DEF StepOfTheRules, p
<1>6. ASSUME Unmake \/ Unpass PROVE StepOfTheRules
  <2>1. line' = Front(line) /\ line # <<>>
    BY <1>6 DEF Unmake, Unpass
  <2>2. Len(line') = Len(line) - 1
    BY <1>1, <2>1, FrontFacts
  <2> QED BY <1>1, <2>2 DEF StepOfTheRules
<1>7. ASSUME UNCHANGED vars PROVE StepOfTheRules
  <2>1. Len(line') = Len(line)
    BY <1>7 DEF vars
  <2> QED BY <1>1, <2>1 DEF StepOfTheRules
<1> QED BY <1>4, <1>5, <1>6, <1>7 DEF Next

\* Every move the search makes changes board, side, rights and en passant square as the
\* rules of chess say, whichever of the moves of generate<LEGAL> it is (do_move), and a
\* pass changes nothing but the turn and the en passant square (do_null_move).
THEOREM PlaysByTheRulesAlways == Spec => PlaysByTheRules
<1>1. WalkInv /\ [Next]_vars => [StepOfTheRules]_vars
  BY StepsPlay
<1> QED BY <1>1, WalkInvariant, PTL DEF Spec, PlaysByTheRules

-----------------------------------------------------------------------------
(* The generators and the test of a single move. *)

\* The moves of a pawn out of check, by what they do.
OwnPawn(s) == s \in DOMAIN board /\ board[s][1] = us /\ board[s][2] = PAWN
Steps(s, t) == t = s + Up(us) /\ t \in Square \ DOMAIN board
Strikes(s, t) == t \in PawnAttacks[us][s] /\ t \in PiecesOf(board, them)
Promoting(m, types) == \E s : \E t : \E pt \in types :
  /\ OwnPawn(s) /\ relative_rank(us, s) = 6
  /\ Strikes(s, t) \/ Steps(s, t)
  /\ m = MakeMove(PROMOTION, s, t, pt)
Pushing(m) == \E s : \E t :
  /\ OwnPawn(s) /\ relative_rank(us, s) # 6
  /\ Steps(s, t) \/ (Jumps(s, t) /\ t \in Square)
  /\ m = Move(s, t)
Capturing(m) == \E s : \E t :
  /\ OwnPawn(s) /\ relative_rank(us, s) # 6 /\ Strikes(s, t)
  /\ m = Move(s, t)
Passing(m) == \E s :
  /\ OwnPawn(s) /\ relative_rank(us, s) # 6
  /\ st.epSquare # SQ_NONE /\ s \in PawnAttacks[them][st.epSquare]
  /\ m = MakeMove(EN_PASSANT, s, st.epSquare, KNIGHT)

\* Out of check, generate_pawn_moves lists the promotions of its type, the pushes unless
\* it is asked for captures, and the captures unless it is asked for quiet moves.
LEMMA PawnMovesListed ==
  ASSUME NEW type, type # EVASIONS, NEW target, NEW m
  PROVE  m \in generate_pawn_moves(type, target) <=>
           \/ Promoting(m, promotion_pieces(type))
           \/ type # CAPTURES /\ Pushing(m)
           \/ type # QUIETS /\ (Capturing(m) \/ Passing(m))
<1> DEFINE up == Up(us)
           empty == Square \ pieces(board)
           enemies == IF type = EVASIONS THEN st.checkersBB ELSE PiecesOf(board, them)
           pawns == PiecesOf(board, us) \cap PiecesOfType(board, {PAWN})
           pawnsOn7 == {s \in pawns : relative_rank(us, s) = 6}
           pawnsNotOn7 == pawns \ pawnsOn7
           wanted(q) == type = EVASIONS => q \in target
           single == {s \in pawnsNotOn7 : s + up \in empty}
           double == {s \in single : relative_rank(us, s) = 1 /\ s + 2 * up \in empty}
           captures == UNION {{Move(s, t) : t \in PawnAttacks[us][s] \cap enemies} : s \in pawnsNotOn7}
           pushes == {Move(s, s + up) : s \in {p \in single : wanted(p + up)}}
                       \cup {Move(s, s + 2 * up) : s \in {p \in double : wanted(p + 2 * up)}}
           promoting == UNION {{Move(s, t) : t \in (PawnAttacks[us][s] \cap enemies)
                                    \cup {q \in {s + up} \cap empty : wanted(q)}} : s \in pawnsOn7}
           promotions == UNION {{MakeMove(PROMOTION, n.from, n.to, pt) : pt \in promotion_pieces(type)} :
                                   n \in promoting}
           ep == st.epSquare
           enPassant == IF ep = SQ_NONE \/ (type = EVASIONS /\ ep - up \notin target) THEN {}
                        ELSE {MakeMove(EN_PASSANT, s, ep, KNIGHT) : s \in pawnsNotOn7 \cap PawnAttacks[them][ep]}
<1>1. generate_pawn_moves(type, target) =
        promotions \cup (IF type = CAPTURES THEN {} ELSE pushes)
                   \cup (IF type = QUIETS THEN {} ELSE captures \cup enPassant)
  BY Zenon DEF generate_pawn_moves
<1>2. \A s : s \in pawns <=> OwnPawn(s)
  BY DEF PiecesOf, PiecesOfType, OwnPawn
<1>3. /\ \A s : s \in pawnsOn7 <=> OwnPawn(s) /\ relative_rank(us, s) = 6
      /\ \A s : s \in pawnsNotOn7 <=> OwnPawn(s) /\ relative_rank(us, s) # 6
  BY <1>2
<1>4. \A s, t : t \in PawnAttacks[us][s] \cap enemies <=> Strikes(s, t)
  BY DEF Strikes
<1>5. /\ \A s : s + up \in empty <=> Steps(s, s + up)
      /\ \A q : wanted(q)
  BY DEF Steps, pieces
<1>6. m \in captures <=> Capturing(m)
  <2>1. m \in captures <=> \E s \in pawnsNotOn7 : \E t \in PawnAttacks[us][s] \cap enemies : m = Move(s, t)
    OBVIOUS
  <2> HIDE DEF captures, pawnsNotOn7, enemies
  <2> QED BY <2>1, <1>3, <1>4 DEF Capturing
<1>7. m \in pushes <=> Pushing(m)
  <2>1. m \in pushes <=> \/ \E s \in single : m = Move(s, s + up)
                         \/ \E s \in double : m = Move(s, s + 2 * up)
    BY <1>5
  <2>2. \A s : s \in single <=> OwnPawn(s) /\ relative_rank(us, s) # 6 /\ Steps(s, s + up)
    BY <1>3, <1>5
  <2>3. \A s : s \in double <=> /\ OwnPawn(s) /\ relative_rank(us, s) # 6
                                /\ Jumps(s, s + 2 * up) /\ s + 2 * up \in Square
    BY <2>2 DEF Jumps, Steps, pieces
  <2> HIDE DEF pushes, single, double
  <2>4. ASSUME m \in pushes PROVE Pushing(m)
    BY <2>1, <2>2, <2>3, <2>4 DEF Pushing
  <2>5. ASSUME Pushing(m) PROVE m \in pushes
    <3>1. PICK s : \E t : /\ OwnPawn(s) /\ relative_rank(us, s) # 6
                          /\ Steps(s, t) \/ (Jumps(s, t) /\ t \in Square)
                          /\ m = Move(s, t)
      BY <2>5 DEF Pushing
    <3>2. PICK t : /\ Steps(s, t) \/ (Jumps(s, t) /\ t \in Square)
                   /\ m = Move(s, t)
      BY <3>1
    <3>3. CASE Steps(s, t)
      BY <2>1, <2>2, <3>1, <3>2, <3>3 DEF Steps
    <3>4. CASE Jumps(s, t) /\ t \in Square
      BY <2>1, <2>3, <3>1, <3>2, <3>4 DEF Jumps
    <3> QED BY <3>2, <3>3, <3>4
  <2> QED BY <2>4, <2>5
<1>8. m \in promotions <=> Promoting(m, promotion_pieces(type))
  <2>1. m \in promotions <=>
          \E n \in promoting : \E pt \in promotion_pieces(type) : m = MakeMove(PROMOTION, n.from, n.to, pt)
    OBVIOUS
  <2>2. \A n : n \in promoting <=> \E s \in pawnsOn7 : \E t \in (PawnAttacks[us][s] \cap enemies)
                                    \cup {q \in {s + up} \cap empty : wanted(q)} : n = Move(s, t)
    OBVIOUS
  <2>3. \A s, t : t \in (PawnAttacks[us][s] \cap enemies) \cup {q \in {s + up} \cap empty : wanted(q)}
                    <=> Strikes(s, t) \/ Steps(s, t)
    BY <1>4, <1>5 DEF Steps
  <2>4. \A s, t : Move(s, t).from = s /\ Move(s, t).to = t
    BY DEF Move
  <2>5. \A n : n \in promoting <=>
          \E s : \E t : OwnPawn(s) /\ relative_rank(us, s) = 6 /\ (Strikes(s, t) \/ Steps(s, t)) /\ n = Move(s, t)
    <3> HIDE DEF promoting, pawnsOn7, enemies, empty, wanted
    <3> QED BY <2>2, <2>3, <1>3
  <2> HIDE DEF promotions, promoting
  <2>6. ASSUME m \in promotions PROVE Promoting(m, promotion_pieces(type))
    <3>1. PICK n \in promoting : \E pt \in promotion_pieces(type) : m = MakeMove(PROMOTION, n.from, n.to, pt)
      BY <2>1, <2>6
    <3>2. PICK s : \E t : OwnPawn(s) /\ relative_rank(us, s) = 6 /\ (Strikes(s, t) \/ Steps(s, t)) /\ n = Move(s, t)
      BY <2>5
    <3> QED BY <2>4, <3>1, <3>2 DEF Promoting
  <2>7. ASSUME Promoting(m, promotion_pieces(type)) PROVE m \in promotions
    <3>1. PICK s : \E t : \E pt \in promotion_pieces(type) :
            /\ OwnPawn(s) /\ relative_rank(us, s) = 6
            /\ Strikes(s, t) \/ Steps(s, t)
            /\ m = MakeMove(PROMOTION, s, t, pt)
      BY <2>7 DEF Promoting
    <3>2. PICK t : \E pt \in promotion_pieces(type) :
            /\ Strikes(s, t) \/ Steps(s, t)
            /\ m = MakeMove(PROMOTION, s, t, pt)
      BY <3>1
    <3>3. Move(s, t) \in promoting
      BY <2>5, <3>1, <3>2
    <3> QED BY <2>1, <2>4, <3>2, <3>3
  <2> QED BY <2>6, <2>7
<1>9. m \in enPassant <=> Passing(m)
  <2>1. m \in enPassant <=>
          /\ ep # SQ_NONE
          /\ \E s \in pawnsNotOn7 \cap PawnAttacks[them][ep] : m = MakeMove(EN_PASSANT, s, ep, KNIGHT)
    OBVIOUS
  <2> HIDE DEF enPassant, pawnsNotOn7
  <2> QED BY <1>3, <2>1 DEF Passing
<1> HIDE DEF promotions, pushes, captures, enPassant
<1> QED BY <1>1, <1>6, <1>7, <1>8, <1>9

\* The moves of pieces to several targets are those to each.
LEMMA PieceMovesListed ==
  ASSUME NEW types, NEW target, NEW m
  PROVE  m \in generate_moves(types, target) <=>
           \E s : \E t : /\ s \in DOMAIN board /\ board[s][1] = us /\ board[s][2] \in types
                         /\ t \in attacks_bb(board[s][2], s, pieces(board)) /\ t \in target
                         /\ m = Move(s, t)
<1>1. \A s : s \in PiecesOf(board, us) \cap PiecesOfType(board, types) <=>
               s \in DOMAIN board /\ board[s][1] = us /\ board[s][2] \in types
  BY DEF PiecesOf, PiecesOfType
<1>2. m \in generate_moves(types, target) <=>
        \E s \in PiecesOf(board, us) \cap PiecesOfType(board, types) :
          \E t \in attacks_bb(board[s][2], s, pieces(board)) \cap target : m = Move(s, t)
  BY DEF generate_moves
<1> QED BY <1>1, <1>2

\* What generate_all lists out of check.
LEMMA MovesListed ==
  ASSUME NEW m
  PROVE  /\ m \in generate_all(CAPTURES) <=>
              \/ m \in generate_moves({KING}, PiecesOf(board, them))
              \/ m \in generate_moves({KNIGHT, BISHOP, ROOK, QUEEN}, PiecesOf(board, them))
              \/ Promoting(m, {QUEEN}) \/ Capturing(m) \/ Passing(m)
         /\ m \in generate_all(QUIETS) <=>
              \/ m \in generate_moves({KING}, Square \ pieces(board))
              \/ m \in generate_moves({KNIGHT, BISHOP, ROOK, QUEEN}, Square \ pieces(board))
              \/ m \in generate_castling
              \/ Promoting(m, {ROOK, BISHOP, KNIGHT}) \/ Pushing(m)
         /\ m \in generate_all(NON_EVASIONS) <=>
              \/ m \in generate_moves({KING}, Square \ PiecesOf(board, us))
              \/ m \in generate_moves({KNIGHT, BISHOP, ROOK, QUEEN}, Square \ PiecesOf(board, us))
              \/ m \in generate_castling
              \/ Promoting(m, {QUEEN, ROOK, BISHOP, KNIGHT}) \/ Pushing(m) \/ Capturing(m) \/ Passing(m)
<1>1. /\ CAPTURES # QUIETS /\ CAPTURES # NON_EVASIONS /\ QUIETS # NON_EVASIONS
      /\ CAPTURES # EVASIONS /\ QUIETS # EVASIONS /\ NON_EVASIONS # EVASIONS
  BY DEF CAPTURES, QUIETS, NON_EVASIONS, EVASIONS
<1>2. /\ promotion_pieces(CAPTURES) = {QUEEN}
      /\ promotion_pieces(QUIETS) = {ROOK, BISHOP, KNIGHT}
      /\ promotion_pieces(NON_EVASIONS) = {QUEEN, ROOK, BISHOP, KNIGHT}
  BY <1>1 DEF promotion_pieces
<1>3. generate_all(CAPTURES) =
        generate_moves({KING}, PiecesOf(board, them))
          \cup (generate_pawn_moves(CAPTURES, PiecesOf(board, them))
                 \cup generate_moves({KNIGHT, BISHOP, ROOK, QUEEN}, PiecesOf(board, them)))
  BY <1>1 DEF generate_all
<1>4. generate_all(QUIETS) =
        generate_moves({KING}, Square \ pieces(board)) \cup generate_castling
          \cup (generate_pawn_moves(QUIETS, Square \ pieces(board))
                 \cup generate_moves({KNIGHT, BISHOP, ROOK, QUEEN}, Square \ pieces(board)))
  BY <1>1 DEF generate_all
<1>5. generate_all(NON_EVASIONS) =
        generate_moves({KING}, Square \ PiecesOf(board, us)) \cup generate_castling
          \cup (generate_pawn_moves(NON_EVASIONS, Square \ PiecesOf(board, us))
                 \cup generate_moves({KNIGHT, BISHOP, ROOK, QUEEN}, Square \ PiecesOf(board, us)))
  BY <1>1 DEF generate_all
<1>6. m \in generate_pawn_moves(CAPTURES, PiecesOf(board, them)) <=>
        Promoting(m, {QUEEN}) \/ Capturing(m) \/ Passing(m)
  BY <1>1, <1>2, PawnMovesListed
<1>7. m \in generate_pawn_moves(QUIETS, Square \ pieces(board)) <=>
        Promoting(m, {ROOK, BISHOP, KNIGHT}) \/ Pushing(m)
  BY <1>1, <1>2, PawnMovesListed
<1>8. m \in generate_pawn_moves(NON_EVASIONS, Square \ PiecesOf(board, us)) <=>
        Promoting(m, {QUEEN, ROOK, BISHOP, KNIGHT}) \/ Pushing(m) \/ Capturing(m) \/ Passing(m)
  BY <1>1, <1>2, PawnMovesListed
<1> QED BY <1>3, <1>4, <1>5, <1>6, <1>7, <1>8

\* Captures and quiet moves are different, and together they are all moves.
LEMMA SplitInTwo ==
  ASSUME Sound(board, us, st)
  PROVE  GenerationSplits
<1> DEFINE ours == PiecesOf(board, us)  theirs == PiecesOf(board, them)
           free == Square \ pieces(board)
           officers == {KNIGHT, BISHOP, ROOK, QUEEN}
<1>1. theirs \cap free = {} /\ Square \ ours = theirs \cup free
  <2>1. us \in Color /\ them = Opposite(us) /\ \A s \in DOMAIN board : s \in Square /\ board[s] \in Piece
    BY DEF Sound, IsBoard, us, them
  <2>2. \A s \in DOMAIN board : board[s][1] = us <=> board[s][1] # them
    BY <2>1 DEF Piece, Color, WHITE, BLACK, Opposite
  <2> QED BY <2>1, <2>2 DEF PiecesOf, pieces
<1>2. ASSUME NEW types, NEW m
      PROVE  m \in generate_moves(types, Square \ ours) <=>
               m \in generate_moves(types, theirs) \/ m \in generate_moves(types, free)
  <2> HIDE DEF ours, theirs, free
  <2>1. \A target : m \in generate_moves(types, target) <=>
           \E s : \E t : /\ s \in DOMAIN board /\ board[s][1] = us /\ board[s][2] \in types
                         /\ t \in attacks_bb(board[s][2], s, pieces(board)) /\ t \in target
                         /\ m = Move(s, t)
    BY PieceMovesListed
  <2> QED BY <1>1, <2>1
<1>3. ASSUME NEW m
      PROVE  Promoting(m, {QUEEN, ROOK, BISHOP, KNIGHT}) <=>
               Promoting(m, {QUEEN}) \/ Promoting(m, {ROOK, BISHOP, KNIGHT})
  BY DEF Promoting
<1>4. generate_all(CAPTURES) \cup generate_all(QUIETS) = generate_all(NON_EVASIONS)
  <2>1. ASSUME NEW m
        PROVE  m \in generate_all(CAPTURES) \/ m \in generate_all(QUIETS) <=> m \in generate_all(NON_EVASIONS)
    <3> HIDE DEF ours, theirs, free, officers
    <3>1. m \in generate_all(CAPTURES) <=>
              \/ m \in generate_moves({KING}, theirs) \/ m \in generate_moves(officers, theirs)
              \/ Promoting(m, {QUEEN}) \/ Capturing(m) \/ Passing(m)
      BY MovesListed DEF theirs, officers
    <3>2. m \in generate_all(QUIETS) <=>
              \/ m \in generate_moves({KING}, free) \/ m \in generate_moves(officers, free)
              \/ m \in generate_castling
              \/ Promoting(m, {ROOK, BISHOP, KNIGHT}) \/ Pushing(m)
      BY MovesListed DEF free, officers
    <3>3. m \in generate_all(NON_EVASIONS) <=>
              \/ m \in generate_moves({KING}, Square \ ours) \/ m \in generate_moves(officers, Square \ ours)
              \/ m \in generate_castling
              \/ Promoting(m, {QUEEN, ROOK, BISHOP, KNIGHT}) \/ Pushing(m) \/ Capturing(m) \/ Passing(m)
      BY MovesListed DEF ours, officers
    <3> QED BY <1>2, <1>3, <3>1, <3>2, <3>3
  <2> QED BY <2>1
<1>5. ASSUME NEW m, m \in generate_all(CAPTURES)
      PROVE  \/ m.type = NORMAL /\ m.to \in theirs
             \/ m.type = PROMOTION /\ m.promotion = QUEEN
             \/ m.type = EN_PASSANT
  <2>1. CASE \E types : m \in generate_moves(types, theirs)
    <3>1. PICK types : m \in generate_moves(types, theirs)
      BY <2>1
    <3>2. PICK s : \E t : t \in theirs /\ m = Move(s, t)
      BY <3>1, PieceMovesListed
    <3> QED BY <3>2 DEF Move
  <2>2. CASE Promoting(m, {QUEEN})
    BY <2>2 DEF Promoting, MakeMove, Move
  <2>3. CASE Capturing(m)
    BY <2>3 DEF Capturing, Strikes, Move
  <2>4. CASE Passing(m)
    BY <2>4 DEF Passing, MakeMove, Move
  <2> QED BY <1>5, <2>1, <2>2, <2>3, <2>4, MovesListed
<1>6. ASSUME NEW m, m \in generate_all(QUIETS)
      PROVE  \/ m.type = NORMAL /\ m.to \in free
             \/ m.type = PROMOTION /\ m.promotion \in {ROOK, BISHOP, KNIGHT}
             \/ m.type = CASTLING
  <2>1. CASE \E types : m \in generate_moves(types, free)
    <3>1. PICK types : m \in generate_moves(types, free)
      BY <2>1
    <3>2. PICK s : \E t : t \in free /\ m = Move(s, t)
      BY <3>1, PieceMovesListed
    <3> QED BY <3>2 DEF Move
  <2>2. CASE Promoting(m, {ROOK, BISHOP, KNIGHT})
    BY <2>2 DEF Promoting, MakeMove, Move
  <2>3. CASE Pushing(m)
    BY <2>3 DEF Pushing, Steps, Jumps, Move, pieces
  <2>4. CASE m \in generate_castling
    BY <2>4 DEF generate_castling, MakeMove, Move
  <2> QED BY <1>6, <2>1, <2>2, <2>3, <2>4, MovesListed
<1>7. /\ NORMAL # PROMOTION /\ NORMAL # EN_PASSANT /\ NORMAL # CASTLING /\ PROMOTION # EN_PASSANT
      /\ PROMOTION # CASTLING /\ EN_PASSANT # CASTLING /\ QUEEN \notin {ROOK, BISHOP, KNIGHT}
  BY DEF NORMAL, PROMOTION, EN_PASSANT, CASTLING, QUEEN, ROOK, BISHOP, KNIGHT
<1>8. generate_all(CAPTURES) \cap generate_all(QUIETS) = {}
  <2> HIDE DEF theirs, free
  <2>1. ASSUME NEW m \in generate_all(CAPTURES) \cap generate_all(QUIETS) PROVE FALSE
    <3>1. \/ m.type = NORMAL /\ m.to \in theirs
          \/ m.type = PROMOTION /\ m.promotion = QUEEN
          \/ m.type = EN_PASSANT
      BY <1>5
    <3>2. \/ m.type = NORMAL /\ m.to \in free
          \/ m.type = PROMOTION /\ m.promotion \in {ROOK, BISHOP, KNIGHT}
          \/ m.type = CASTLING
      BY <1>6
    <3> QED BY <1>1, <1>7, <3>1, <3>2
  <2> QED BY <2>1
<1> QED BY <1>4, <1>8 DEF GenerationSplits

\* Wherever play leads, CAPTURES and QUIETS generate each move of NON_EVASIONS exactly
\* once between them (movegen.cpp: generate<CAPTURES>, generate<QUIETS>).
THEOREM GenerationAlwaysSplits == Spec => []GenerationSplits
<1>1. WalkInv => GenerationSplits
  BY CurrentIsSound, SplitInTwo
<1> QED BY <1>1, WalkInvariant, PTL

\* A pawn gains a rank with each step and each capture, and has room for two steps at home.
LEMMA PawnGainsRank ==
  ASSUME NEW c \in Color, NEW s \in Square
  PROVE  /\ relative_rank(c, s) \in 0 .. 7
         /\ \A t \in Square : t = s + Up(c) \/ t \in PawnAttacks[c][s]
                                => relative_rank(c, t) = relative_rank(c, s) + 1
         /\ \A t \in Square : t = s + 2 * Up(c) => relative_rank(c, t) = relative_rank(c, s) + 2
         /\ relative_rank(c, s) = 1 => s + Up(c) \in Square
<1> DEFINE x == file_of(s)  y == rank_of(s)  d == Up(c)
<1>1. x \in 0 .. 7 /\ y \in 0 .. 7 /\ s = 8 * y + x
  BY Coordinates
<1>2. (d = 8 /\ c = WHITE) \/ (d = -8 /\ c # WHITE)
  BY DEF Up, NORTH
<1>3. relative_rank(c, s) = (IF c = WHITE THEN y ELSE 7 - y)
  BY DEF relative_rank
<1>4. ASSUME NEW t \in Square
      PROVE  /\ t = s + d => IF c = WHITE THEN rank_of(t) = y + 1 ELSE rank_of(t) = y - 1
             /\ t = s + 2 * d => IF c = WHITE THEN rank_of(t) = y + 2 ELSE rank_of(t) = y - 2
  <2> DEFINE u == file_of(t)  v == rank_of(t)
  <2>1. u \in 0 .. 7 /\ v \in 0 .. 7 /\ t = 8 * v + u
    BY Coordinates
  <2> HIDE DEF u, v, x, y, d
  <2>2. CASE d = 8 /\ c = WHITE
    BY <1>1, <2>1, <2>2 DEF v
  <2>3. CASE d = -8 /\ c # WHITE
    BY <1>1, <2>1, <2>3 DEF v
  <2> QED BY <1>2, <2>2, <2>3
<1>5. ASSUME NEW t \in PawnAttacks[c][s]
      PROVE  IF c = WHITE THEN rank_of(t) = y + 1 ELSE rank_of(t) = y - 1
  <2>1. t \in Square /\ IF c = WHITE THEN rank_of(t) = y + 1 ELSE y = rank_of(t) + 1
    BY PawnTakesAhead
  <2>2. rank_of(t) \in 0 .. 7
    BY <2>1, Coordinates
  <2> HIDE DEF x, y, d
  <2> QED BY <1>1, <2>1, <2>2
<1>6. \A t : relative_rank(c, t) = (IF c = WHITE THEN rank_of(t) ELSE 7 - rank_of(t))
  BY DEF relative_rank
<1>7. \A t \in Square : rank_of(t) \in 0 .. 7
  BY Coordinates
<1> HIDE DEF x, y, d
<1>8. relative_rank(c, s) \in 0 .. 7
  BY <1>1, <1>3
<1>9. \A t \in Square : t = s + d \/ t \in PawnAttacks[c][s]
                          => relative_rank(c, t) = relative_rank(c, s) + 1
  BY <1>1, <1>3, <1>4, <1>5, <1>6, <1>7
<1>10. \A t \in Square : t = s + 2 * d => relative_rank(c, t) = relative_rank(c, s) + 2
  BY <1>1, <1>3, <1>4, <1>6, <1>7
<1>11. relative_rank(c, s) = 1 => s + d \in Square
  BY <1>1, <1>2, <1>3 DEF Square
<1> QED BY <1>8, <1>9, <1>10, <1>11 DEF d

\* pseudo_legal on the candidates: who they are, and what is common to all types.
LEMMA OwnPieces ==
  ASSUME Sound(board, us, st), NEW s \in PiecesOf(board, us)
  PROVE  /\ s \in Square /\ s \in DOMAIN board /\ board[s] \in Piece /\ board[s][1] = us
         /\ board[s] = make_piece(us, board[s][2])
         /\ piece_on(s) = board[s] /\ piece_on(s) # NO_PIECE
         /\ us \in Color /\ them \in Color /\ them = Opposite(us) /\ us = Opposite(them) /\ them # us
<1>1. s \in DOMAIN board /\ board[s][1] = us /\ IsBoard(board) /\ us \in Color
  BY DEF PiecesOf, Sound
<1>2. s \in Square /\ board[s] \in Piece
  BY <1>1 DEF IsBoard
<1>3. board[s] = <<us, board[s][2]>> /\ board[s] # <<>>
  BY <1>1, <1>2 DEF Piece
<1>4. them \in Color /\ them = Opposite(us) /\ us = Opposite(them) /\ them # us
  BY <1>1 DEF them, us, Opposite, Color, WHITE, BLACK
<1> QED BY <1>1, <1>2, <1>3, <1>4 DEF make_piece, piece_on, NO_PIECE

\* pawn_reaches: a capture, a step or a jump.
LEMMA ReachesListed ==
  ASSUME Sound(board, us, st), NEW s \in PiecesOf(board, us), NEW t \in Square, NEW m,
         m.from = s, m.to = t
  PROVE  pawn_reaches(m) <=> Strikes(s, t) \/ Steps(s, t) \/ Jumps(s, t)
<1>1. pawn_reaches(m) <=>
        \/ t \in PawnAttacks[us][s] \cap PiecesOf(board, them)
        \/ t = s + Up(us) /\ t \notin DOMAIN board
        \/ /\ t = s + 2 * Up(us) /\ relative_rank(us, s) = 1
           /\ {t, s + Up(us)} \cap DOMAIN board = {}
  BY DEF pawn_reaches, pieces
<1>2. relative_rank(us, s) = 1 => s + Up(us) \in Square
  BY OwnPieces, PawnGainsRank
<1> QED BY <1>1, <1>2 DEF Strikes, Steps, Jumps

\* Nobody captures his own piece.
LEMMA TargetsNotOurs ==
  ASSUME Sound(board, us, st), NEW s \in PiecesOf(board, us), NEW t,
         Strikes(s, t) \/ Steps(s, t) \/ Jumps(s, t)
  PROVE  t \notin PiecesOf(board, us)
<1>1. them # us
  BY OwnPieces
<1> QED BY <1>1 DEF Strikes, Steps, Jumps, PiecesOf

\* The moves of a pawn that pseudo_legal accepts are the generated ones ...
LEMMA PseudoLegalPawn ==
  ASSUME Sound(board, us, st), NEW s \in PiecesOf(board, us), NEW t \in Square,
         board[s][2] = PAWN
  PROVE  pseudo_legal(Move(s, t)) <=> Pushing(Move(s, t)) \/ Capturing(Move(s, t))
<1> DEFINE m == Move(s, t)
<1>1. m.from = s /\ m.to = t /\ m.type = NORMAL
  BY DEF Move
<1>2. NORMAL # PROMOTION /\ NORMAL # EN_PASSANT /\ NORMAL # CASTLING
  BY DEF NORMAL, PROMOTION, EN_PASSANT, CASTLING
<1>3. OwnPawn(s) /\ s \in Square /\ us \in Color
  BY OwnPieces DEF OwnPawn
<1>4. pseudo_legal(m) <=>
        t \notin PiecesOf(board, us) /\ pawn_reaches(m) /\ relative_rank(us, t) # 7
  BY <1>1, <1>2, OwnPieces DEF pseudo_legal
<1>5. pawn_reaches(m) <=> Strikes(s, t) \/ Steps(s, t) \/ Jumps(s, t)
  BY <1>1, ReachesListed
<1>6. Strikes(s, t) \/ Steps(s, t) \/ Jumps(s, t) => t \notin PiecesOf(board, us)
  BY TargetsNotOurs
<1>7. relative_rank(us, s) \in 0 .. 7
  BY <1>3, PawnGainsRank
<1>8. Strikes(s, t) \/ Steps(s, t) => relative_rank(us, t) = relative_rank(us, s) + 1
  BY <1>3, PawnGainsRank DEF Strikes, Steps
<1>9. Jumps(s, t) => relative_rank(us, t) = relative_rank(us, s) + 2 /\ relative_rank(us, s) = 1
  BY <1>3, PawnGainsRank DEF Jumps
<1>10. \A q, r : m = Move(q, r) <=> q = s /\ r = t
  BY DEF Move
<1> HIDE DEF m
<1>11. Pushing(m) <=> relative_rank(us, s) # 6 /\ (Steps(s, t) \/ Jumps(s, t))
  BY <1>3, <1>10 DEF Pushing
<1>12. Capturing(m) <=> relative_rank(us, s) # 6 /\ Strikes(s, t)
  BY <1>3, <1>10 DEF Capturing
<1>13. pseudo_legal(m) <=> Pushing(m) \/ Capturing(m)
  BY <1>4, <1>5, <1>6, <1>7, <1>8, <1>9, <1>11, <1>12
<1> QED BY <1>13 DEF m

\* ... so are those of the other pieces ...
LEMMA PseudoLegalOfficer ==
  ASSUME Sound(board, us, st), NEW s \in PiecesOf(board, us), NEW t \in Square,
         board[s][2] # PAWN
  PROVE  pseudo_legal(Move(s, t)) <=>
           \/ Move(s, t) \in generate_moves({KING}, Square \ PiecesOf(board, us))
           \/ Move(s, t) \in generate_moves({KNIGHT, BISHOP, ROOK, QUEEN}, Square \ PiecesOf(board, us))
<1> DEFINE m == Move(s, t)
<1>1. m.from = s /\ m.to = t /\ m.type = NORMAL
  BY DEF Move
<1>2. NORMAL # PROMOTION /\ NORMAL # EN_PASSANT /\ NORMAL # CASTLING
  BY DEF NORMAL, PROMOTION, EN_PASSANT, CASTLING
<1>3. pseudo_legal(m) <=>
        t \notin PiecesOf(board, us) /\ t \in attacks_bb(board[s][2], s, pieces(board))
  BY <1>1, <1>2, OwnPieces DEF pseudo_legal
<1>4. board[s][2] \in {KING, KNIGHT, BISHOP, ROOK, QUEEN}
  BY OwnPieces DEF Piece, PieceType
<1>5. \A q, r : m = Move(q, r) <=> q = s /\ r = t
  BY DEF Move
<1>6. s \in DOMAIN board /\ board[s][1] = us
  BY OwnPieces
<1> HIDE DEF m
<1>7. ASSUME NEW types
      PROVE  m \in generate_moves(types, Square \ PiecesOf(board, us)) <=>
               /\ board[s][2] \in types /\ t \in attacks_bb(board[s][2], s, pieces(board))
               /\ t \notin PiecesOf(board, us)
  <2>1. m \in generate_moves(types, Square \ PiecesOf(board, us)) <=>
          \E q : \E r : /\ q \in DOMAIN board /\ board[q][1] = us /\ board[q][2] \in types
                        /\ r \in attacks_bb(board[q][2], q, pieces(board))
                        /\ r \in Square \ PiecesOf(board, us) /\ m = Move(q, r)
    BY PieceMovesListed
  <2> QED BY <1>5, <1>6, <2>1
<1>8. pseudo_legal(m) <=>
           \/ m \in generate_moves({KING}, Square \ PiecesOf(board, us))
           \/ m \in generate_moves({KNIGHT, BISHOP, ROOK, QUEEN}, Square \ PiecesOf(board, us))
  BY <1>3, <1>4, <1>7
<1> QED BY <1>8 DEF m

\* ... promotions ...
LEMMA PseudoLegalPromotion ==
  ASSUME Sound(board, us, st), NEW s \in PiecesOf(board, us), NEW t \in Square
  PROVE  pseudo_legal(MakeMove(PROMOTION, s, t, QUEEN)) <=> Promoting(MakeMove(PROMOTION, s, t, QUEEN), {QUEEN})
<1> DEFINE m == MakeMove(PROMOTION, s, t, QUEEN)
<1>1. m.from = s /\ m.to = t /\ m.type = PROMOTION
  BY DEF MakeMove, Move
<1>2. PROMOTION # EN_PASSANT /\ PROMOTION # CASTLING /\ PROMOTION # NORMAL
  BY DEF NORMAL, PROMOTION, EN_PASSANT, CASTLING
<1>3. s \in DOMAIN board /\ board[s][1] = us /\ s \in Square /\ us \in Color
  BY OwnPieces
<1>4. pseudo_legal(m) <=>
        /\ t \notin PiecesOf(board, us)
        /\ board[s][2] = PAWN /\ pawn_reaches(m) /\ relative_rank(us, s) = 6 /\ relative_rank(us, t) = 7
  BY <1>1, <1>2, OwnPieces DEF pseudo_legal
<1>5. pawn_reaches(m) <=> Strikes(s, t) \/ Steps(s, t) \/ Jumps(s, t)
  BY <1>1, ReachesListed
<1>6. Strikes(s, t) \/ Steps(s, t) \/ Jumps(s, t) => t \notin PiecesOf(board, us)
  BY TargetsNotOurs
<1>7. Strikes(s, t) \/ Steps(s, t) => relative_rank(us, t) = relative_rank(us, s) + 1
  BY <1>3, PawnGainsRank DEF Strikes, Steps
<1>8. Jumps(s, t) => relative_rank(us, s) = 1
  BY DEF Jumps
<1>9. \A q, r : m = MakeMove(PROMOTION, q, r, QUEEN) <=> q = s /\ r = t
  BY DEF MakeMove, Move
<1> HIDE DEF m
<1>10. Promoting(m, {QUEEN}) <=>
         board[s][2] = PAWN /\ relative_rank(us, s) = 6 /\ (Strikes(s, t) \/ Steps(s, t))
  BY <1>3, <1>9 DEF Promoting, OwnPawn
<1>11. pseudo_legal(m) <=> Promoting(m, {QUEEN})
  BY <1>4, <1>5, <1>6, <1>7, <1>8, <1>10
<1> QED BY <1>11 DEF m

\* ... captures en passant ...
LEMMA PseudoLegalEnPassant ==
  ASSUME Sound(board, us, st), NEW s \in PiecesOf(board, us), NEW t \in Square
  PROVE  pseudo_legal(MakeMove(EN_PASSANT, s, t, KNIGHT)) <=> Passing(MakeMove(EN_PASSANT, s, t, KNIGHT))
<1> DEFINE m == MakeMove(EN_PASSANT, s, t, KNIGHT)
<1>1. m.from = s /\ m.to = t /\ m.type = EN_PASSANT
  BY DEF MakeMove, Move
<1>2. s \in DOMAIN board /\ board[s][1] = us /\ s \in Square /\ us \in Color
  BY OwnPieces
<1>3. pseudo_legal(m) <=>
        /\ t \notin PiecesOf(board, us)
        /\ board[s][2] = PAWN /\ t = st.epSquare /\ t \notin DOMAIN board
        /\ piece_on(t - Up(us)) = make_piece(them, PAWN) /\ t \in PawnAttacks[us][s]
  <2>1. EN_PASSANT # PROMOTION /\ EN_PASSANT # CASTLING /\ EN_PASSANT # NORMAL
    BY DEF NORMAL, PROMOTION, EN_PASSANT, CASTLING
  <2> QED BY <1>1, <2>1, OwnPieces DEF pseudo_legal, pieces, ep_capture_square
<1>4. \A q, r : m = MakeMove(EN_PASSANT, q, r, KNIGHT) <=> q = s /\ r = t
  BY DEF MakeMove, Move
<1>5. t # SQ_NONE
  BY DEF Square, SQ_NONE
<1> HIDE DEF m
<1>6. Passing(m) <=>
        /\ board[s][2] = PAWN /\ relative_rank(us, s) # 6
        /\ t = st.epSquare /\ s \in PawnAttacks[them][t]
  BY <1>2, <1>4, <1>5 DEF Passing, OwnPawn
<1>7. s \in PawnAttacks[them][t] <=> t \in PawnAttacks[us][s]
  BY <1>2, OwnPieces, PawnAttacksBack
<1>8. ASSUME t = st.epSquare
      PROVE  /\ t \notin DOMAIN board /\ relative_rank(us, t) = 5
             /\ piece_on(t - Up(us)) = make_piece(them, PAWN)
  <2>1. /\ t \notin DOMAIN board /\ relative_rank(us, t) = 5
        /\ StandsOn(board, make_piece(Opposite(us), PAWN), t - Up(us))
    BY <1>5, <1>8 DEF Sound, Agrees, EpFits
  <2>2. them = Opposite(us)
    BY OwnPieces
  <2> QED BY <2>1, <2>2 DEF StandsOn, piece_on
<1>9. t \in PawnAttacks[us][s] => relative_rank(us, t) = relative_rank(us, s) + 1
  BY <1>2, PawnGainsRank
<1>10. t \notin DOMAIN board => t \notin PiecesOf(board, us)
  BY DEF PiecesOf
<1>11. pseudo_legal(m) <=> Passing(m)
  BY <1>3, <1>6, <1>7, <1>8, <1>9, <1>10
<1> QED BY <1>11 DEF m

\* ... and castling.
LEMMA PseudoLegalCastling ==
  ASSUME Sound(board, us, st), st.checkersBB = {}, NEW s \in PiecesOf(board, us), NEW t \in Square
  PROVE  pseudo_legal(MakeMove(CASTLING, s, t, KNIGHT)) <=> MakeMove(CASTLING, s, t, KNIGHT) \in generate_castling
<1> DEFINE m == MakeMove(CASTLING, s, t, KNIGHT)  cr == <<us, Side(s, t)>>  home == king_home(us)
<1>1. m.from = s /\ m.to = t /\ m.type = CASTLING
  BY DEF MakeMove, Move
<1>2. CASTLING # EN_PASSANT /\ CASTLING # PROMOTION /\ CASTLING # NORMAL
  BY DEF NORMAL, PROMOTION, EN_PASSANT, CASTLING
<1>3. s \in DOMAIN board /\ board[s] = make_piece(us, board[s][2]) /\ us \in Color
  BY OwnPieces
<1>4. pseudo_legal(m) <=>
        /\ t \notin PiecesOf(board, us)
        /\ board[s][2] = KING /\ can_castle(cr) /\ ~castling_impeded(cr) /\ t = king_to(cr)
  BY <1>1, <1>2, OwnPieces DEF pseudo_legal
<1>5. m \in generate_castling <=>
        \E r \in {us} \X CastlingSide : /\ can_castle(r) /\ ~castling_impeded(r)
                                        /\ m = MakeMove(CASTLING, king_square(board, us), king_to(r), KNIGHT)
  BY DEF generate_castling
<1>6. \A q, r : m = MakeMove(CASTLING, q, r, KNIGHT) <=> q = s /\ r = t
  BY DEF MakeMove, Move
<1>7. ASSUME NEW r, can_castle(r), r[1] = us
      PROVE  /\ r \in CastlingRight /\ king_square(board, us) = home
             /\ home \in DOMAIN board /\ board[home] = make_piece(us, KING)
  BY <1>7, KingIsAtHome DEF can_castle, Sound, Agrees, StandsOn
<1>8. cr \in {us} \X CastlingSide /\ cr[1] = us
  BY DEF Side, CastlingSide
<1> HIDE DEF m, cr, home
<1>9. ASSUME pseudo_legal(m) PROVE m \in generate_castling
  <2>1. king_square(board, us) = home /\ home \in DOMAIN board /\ board[home] = make_piece(us, KING)
    BY <1>4, <1>7, <1>8, <1>9
  <2>2. board[s] = board[home] /\ board[s][2] = KING
    BY <1>3, <1>4, <1>9, <2>1
  <2>3. s = home
    BY <1>3, <2>1, <2>2 DEF Sound, IsBoard
  <2> QED BY <1>4, <1>5, <1>6, <1>8, <1>9, <2>1, <2>3
<1>10. ASSUME m \in generate_castling PROVE pseudo_legal(m)
  <2>1. PICK r \in {us} \X CastlingSide :
          /\ can_castle(r) /\ ~castling_impeded(r)
          /\ m = MakeMove(CASTLING, king_square(board, us), king_to(r), KNIGHT)
    BY <1>5, <1>10
  <2>2. r[1] = us /\ r = <<us, r[2]>> /\ r[2] \in {"king", "queen"}
    BY DEF CastlingSide
  <2>3. /\ r \in CastlingRight /\ king_square(board, us) = home
        /\ home \in DOMAIN board /\ board[home] = make_piece(us, KING)
    BY <1>7, <2>1, <2>2
  <2>4. s = home /\ t = king_to(r)
    BY <1>6, <2>1, <2>3
  <2>5. board[s][2] = KING
    BY <2>3, <2>4 DEF make_piece
  <2>6. t \notin DOMAIN board
    BY <2>1, <2>3, <2>4, CastlingPathEnds DEF castling_impeded, pieces
  <2>7. home \in Int /\ (IF r[2] = "king" THEN t = home + 2 ELSE t = home - 2)
    <3>1. /\ king_home(r[1]) = (IF r[1] = WHITE THEN 4 ELSE 60)
          /\ IF r[2] = "king" THEN king_to(r) = king_home(r[1]) + 2 ELSE king_to(r) = king_home(r[1]) - 2
      BY <2>3, CastlingSquares
    <3>2. king_home(r[1]) = home
      BY <2>2 DEF home
    <3> QED BY <2>4, <3>1, <3>2
  <2>8. r[2] = (IF t > s THEN "king" ELSE "queen")
    BY <2>2, <2>4, <2>7
  <2>9. r = cr
    BY <2>2, <2>8 DEF cr, Side
  <2>10. t \notin PiecesOf(board, us)
    BY <2>6 DEF PiecesOf
  <2> QED BY <1>4, <2>1, <2>4, <2>5, <2>9, <2>10
<1> QED BY <1>9, <1>10 DEF m

\* An arbitrary move of one of our pieces, as PseudoLegalSuffices tries them.
Candidate(m) == \E s \in PiecesOf(board, us) : \E t \in Square :
  \/ m = Move(s, t)
  \/ m = MakeMove(EN_PASSANT, s, t, KNIGHT)
  \/ m = MakeMove(CASTLING, s, t, KNIGHT)
  \/ m = MakeMove(PROMOTION, s, t, QUEEN)

\* Out of check pseudo_legal knows the generated moves.
LEMMA PseudoLegalIsGenerated ==
  ASSUME Sound(board, us, st), st.checkersBB = {}, NEW m
  PROVE  Candidate(m) /\ pseudo_legal(m) <=>
           m \in generate_all(NON_EVASIONS) /\ ~(m.type = PROMOTION /\ m.promotion # QUEEN)
<1> DEFINE targets == Square \ PiecesOf(board, us)
           officers == {KNIGHT, BISHOP, ROOK, QUEEN}
           all == {QUEEN, ROOK, BISHOP, KNIGHT}
<1>1. m \in generate_all(NON_EVASIONS) <=>
        \/ m \in generate_moves({KING}, targets) \/ m \in generate_moves(officers, targets)
        \/ m \in generate_castling
        \/ Promoting(m, all) \/ Pushing(m) \/ Capturing(m) \/ Passing(m)
  BY MovesListed
<1>2. /\ NORMAL # PROMOTION /\ NORMAL # EN_PASSANT /\ NORMAL # CASTLING /\ PROMOTION # EN_PASSANT
      /\ PROMOTION # CASTLING /\ EN_PASSANT # CASTLING
  BY DEF NORMAL, PROMOTION, EN_PASSANT, CASTLING
<1>3. ASSUME NEW s, NEW t
      PROVE  /\ Move(s, t).type = NORMAL
             /\ \A type, pt : MakeMove(type, s, t, pt).type = type /\ MakeMove(type, s, t, pt).promotion = pt
  BY DEF MakeMove, Move
<1>4. \A s : OwnPawn(s) <=> s \in PiecesOf(board, us) /\ board[s][2] = PAWN
  BY DEF OwnPawn, PiecesOf
<1>5. Promoting(m, {QUEEN}) => Promoting(m, all)
  BY DEF Promoting
<1>6. ASSUME Candidate(m), pseudo_legal(m)
      PROVE  m \in generate_all(NON_EVASIONS) /\ ~(m.type = PROMOTION /\ m.promotion # QUEEN)
  <2>1. PICK s \in PiecesOf(board, us) : \E t \in Square :
          \/ m = Move(s, t)
          \/ m = MakeMove(EN_PASSANT, s, t, KNIGHT)
          \/ m = MakeMove(CASTLING, s, t, KNIGHT)
          \/ m = MakeMove(PROMOTION, s, t, QUEEN)
    BY <1>6 DEF Candidate
  <2>2. PICK t \in Square :
          \/ m = Move(s, t)
          \/ m = MakeMove(EN_PASSANT, s, t, KNIGHT)
          \/ m = MakeMove(CASTLING, s, t, KNIGHT)
          \/ m = MakeMove(PROMOTION, s, t, QUEEN)
    BY <2>1
  <2>3. ~(m.type = PROMOTION /\ m.promotion # QUEEN)
    BY <1>2, <1>3, <2>2
  <2>4. CASE m = Move(s, t) /\ board[s][2] = PAWN
    BY <1>1, <1>6, <2>3, <2>4, PseudoLegalPawn
  <2>5. CASE m = Move(s, t) /\ board[s][2] # PAWN
    BY <1>1, <1>6, <2>3, <2>5, PseudoLegalOfficer
  <2>6. CASE m = MakeMove(EN_PASSANT, s, t, KNIGHT)
    BY <1>1, <1>6, <2>3, <2>6, PseudoLegalEnPassant
  <2>7. CASE m = MakeMove(CASTLING, s, t, KNIGHT)
    BY <1>1, <1>6, <2>3, <2>7, PseudoLegalCastling
  <2>8. CASE m = MakeMove(PROMOTION, s, t, QUEEN)
    BY <1>1, <1>5, <1>6, <2>3, <2>8, PseudoLegalPromotion
  <2> QED BY <2>2, <2>4, <2>5, <2>6, <2>7, <2>8
<1>7. ASSUME m \in generate_all(NON_EVASIONS), ~(m.type = PROMOTION /\ m.promotion # QUEEN)
      PROVE  Candidate(m) /\ pseudo_legal(m)
  <2>1. ASSUME NEW types, types \subseteq PieceType \ {PAWN},
               m \in generate_moves(types, targets),
               m \in generate_moves({KING}, targets) \/ m \in generate_moves(officers, targets)
        PROVE  Candidate(m) /\ pseudo_legal(m)
    <3>1. PICK s : \E t : /\ s \in DOMAIN board /\ board[s][1] = us /\ board[s][2] \in types
                          /\ t \in targets /\ m = Move(s, t)
      BY <2>1, PieceMovesListed
    <3>2. PICK t \in targets : m = Move(s, t)
      BY <3>1
    <3>3. s \in PiecesOf(board, us) /\ t \in Square /\ board[s][2] # PAWN
      BY <2>1, <3>1, <3>2 DEF PiecesOf
    <3>4. Candidate(m)
      BY <3>2, <3>3 DEF Candidate
    <3> QED BY <2>1, <3>2, <3>3, <3>4, PseudoLegalOfficer
  <2>2. CASE m \in generate_moves({KING}, targets)
    BY <2>1, <2>2 DEF PieceType, KING, PAWN
  <2>3. CASE m \in generate_moves(officers, targets)
    BY <2>1, <2>3 DEF PieceType, KNIGHT, BISHOP, ROOK, QUEEN, PAWN
  <2>4. CASE m \in generate_castling
    <3>1. Fits(m)
      BY <2>4, CastlingMovesFit
    <3>2. m.from \in PiecesOf(board, us) /\ m.to \in Square
      BY <3>1 DEF Fits, MoveRecord, PiecesOf
    <3>3. PICK q, r : m = MakeMove(CASTLING, q, r, KNIGHT)
      BY <2>4 DEF generate_castling
    <3>4. q = m.from /\ r = m.to
      BY <3>3 DEF MakeMove, Move
    <3>5. Candidate(m)
      BY <3>2, <3>3, <3>4 DEF Candidate
    <3> QED BY <2>4, <3>2, <3>3, <3>4, <3>5, PseudoLegalCastling
  <2>5. CASE Promoting(m, all)
    <3>1. PICK s : \E t : \E pt \in all :
            /\ OwnPawn(s) /\ relative_rank(us, s) = 6
            /\ Strikes(s, t) \/ Steps(s, t)
            /\ m = MakeMove(PROMOTION, s, t, pt)
      BY <2>5 DEF Promoting
    <3>2. PICK t : \E pt \in all : (Strikes(s, t) \/ Steps(s, t)) /\ m = MakeMove(PROMOTION, s, t, pt)
      BY <3>1
    <3>3. PICK pt \in all : m = MakeMove(PROMOTION, s, t, pt)
      BY <3>2
    <3>4. pt = QUEEN
      <4>1. m.type = PROMOTION /\ m.promotion = pt
        BY <3>3 DEF MakeMove, Move
      <4> QED BY <1>7, <4>1
    <3>5. s \in PiecesOf(board, us) /\ t \in Square
      <4>1. s \in PiecesOf(board, us)
        BY <1>4, <3>1
      <4>2. us \in Color /\ s \in Square
        BY <4>1, OwnPieces
      <4> QED BY <3>2, <4>1, <4>2, PawnTakesAhead DEF Strikes, Steps
    <3>6. Promoting(m, {QUEEN})
      BY <3>1, <3>2, <3>3, <3>4 DEF Promoting
    <3>7. Candidate(m)
      BY <3>3, <3>4, <3>5 DEF Candidate
    <3> QED BY <3>3, <3>4, <3>5, <3>6, <3>7, PseudoLegalPromotion
  <2>6. CASE Pushing(m) \/ Capturing(m)
    <3>1. PICK s : \E t : /\ OwnPawn(s) /\ m = Move(s, t)
                          /\ Strikes(s, t) \/ Steps(s, t) \/ (Jumps(s, t) /\ t \in Square)
      BY <2>6 DEF Pushing, Capturing
    <3>2. PICK t : /\ m = Move(s, t)
                   /\ Strikes(s, t) \/ Steps(s, t) \/ (Jumps(s, t) /\ t \in Square)
      BY <3>1
    <3>3. s \in PiecesOf(board, us) /\ board[s][2] = PAWN
      BY <1>4, <3>1
    <3>4. us \in Color /\ s \in Square
      BY <3>3, OwnPieces
    <3>5. t \in Square
      BY <3>2, <3>4, PawnTakesAhead DEF Strikes, Steps
    <3>6. Candidate(m)
      BY <3>2, <3>3, <3>5 DEF Candidate
    <3> QED BY <2>6, <3>2, <3>3, <3>5, <3>6, PseudoLegalPawn
  <2>7. CASE Passing(m)
    <3>1. PICK s : OwnPawn(s) /\ st.epSquare # SQ_NONE /\ m = MakeMove(EN_PASSANT, s, st.epSquare, KNIGHT)
      BY <2>7 DEF Passing
    <3>2. s \in PiecesOf(board, us)
      BY <1>4, <3>1
    <3>3. st.epSquare \in Square
      BY <3>1 DEF Sound, Agrees, EpFits
    <3>4. Candidate(m)
      BY <3>1, <3>2, <3>3 DEF Candidate
    <3> QED BY <2>7, <3>1, <3>2, <3>3, <3>4, PseudoLegalEnPassant
  <2> QED BY <1>1, <1>7, <2>2, <2>3, <2>4, <2>5, <2>6, <2>7
<1> QED BY <1>6, <1>7

\* A normal move is written in either way.
LEMMA NormalIsPlain ==
  ASSUME NEW s, NEW t
  PROVE  MakeMove(NORMAL, s, t, KNIGHT) = Move(s, t)
<1> DEFINE m == Move(s, t)
<1>1. m = [f \in {"from", "to", "type", "promotion"} |-> m[f]]
  BY DEF Move
<1>2. m.type = NORMAL /\ m.promotion = KNIGHT
  BY DEF Move
<1> HIDE DEF m
<1>3. [m EXCEPT !.type = NORMAL, !.promotion = KNIGHT] = m
  BY <1>1, <1>2
<1> QED BY <1>3 DEF m, MakeMove

\* A generated move that generate<LEGAL> trusts, legal() would pass.
LEMMA TrustedIsLegal ==
  ASSUME NEW m, m.from \in PiecesOf(board, us),
         m.from \notin st.blockersForKing[us] \cap PiecesOf(board, us),
         m.from # king_square(board, us), m.type # EN_PASSANT, m.type # CASTLING
  PROVE  legal(m)
BY DEF legal

\* pseudo_legal and legal together let through the legal moves.
LEMMA PseudoLegalIsEnough ==
  ASSUME Sound(board, us, st)
  PROVE  PseudoLegalSuffices
<1> DEFINE candidates ==
             {MakeMove(type, from, to, pt) : type \in {NORMAL, EN_PASSANT, CASTLING},
                from \in PiecesOf(board, us), to \in Square, pt \in {KNIGHT}}
             \cup {MakeMove(PROMOTION, from, to, QUEEN) :
                from \in PiecesOf(board, us), to \in Square}
           underpromotion(m) == m.type = PROMOTION /\ m.promotion # QUEEN
           pinned == st.blockersForKing[us] \cap PiecesOf(board, us)
           suspect(m) == m.from \in pinned \/ m.from = king_square(board, us) \/ m.type = EN_PASSANT
<1>1. ASSUME NEW m PROVE m \in candidates <=> Candidate(m)
  <2>1. \A s, t : MakeMove(NORMAL, s, t, KNIGHT) = Move(s, t)
    BY NormalIsPlain
  <2>2. m \in candidates <=>
          \/ \E type \in {NORMAL, EN_PASSANT, CASTLING} : \E s \in PiecesOf(board, us) : \E t \in Square :
               m = MakeMove(type, s, t, KNIGHT)
          \/ \E s \in PiecesOf(board, us) : \E t \in Square : m = MakeMove(PROMOTION, s, t, QUEEN)
    OBVIOUS
  <2> HIDE DEF candidates
  <2> QED BY <2>1, <2>2 DEF Candidate
<1>2. SUFFICES ASSUME st.checkersBB = {}
               PROVE  {m \in candidates : pseudo_legal(m) /\ legal(m)} = {m \in LegalMoves : ~underpromotion(m)}
  BY DEF PseudoLegalSuffices
<1>3. LegalMoves = {m \in generate_all(NON_EVASIONS) : suspect(m) => legal(m)}
  BY <1>2 DEF LegalMoves
<1>4. ASSUME NEW m
      PROVE  m \in candidates /\ pseudo_legal(m) <=> m \in generate_all(NON_EVASIONS) /\ ~underpromotion(m)
  BY <1>1, <1>2, PseudoLegalIsGenerated
<1> HIDE DEF candidates, suspect, underpromotion
<1>5. ASSUME NEW m \in candidates, m \in generate_all(NON_EVASIONS), ~suspect(m) PROVE legal(m)
  <2>1. m.from \in PiecesOf(board, us)
    <3>1. Candidate(m)
      BY <1>1, <1>5
    <3>2. PICK s \in PiecesOf(board, us) : \E t \in Square :
            \/ m = Move(s, t)
            \/ m = MakeMove(EN_PASSANT, s, t, KNIGHT)
            \/ m = MakeMove(CASTLING, s, t, KNIGHT)
            \/ m = MakeMove(PROMOTION, s, t, QUEEN)
      BY <3>1 DEF Candidate
    <3>3. ASSUME NEW t
          PROVE  /\ Move(s, t).from = s
                 /\ \A type, pt : MakeMove(type, s, t, pt).from = s
      BY DEF MakeMove, Move
    <3> QED BY <3>2, <3>3
  <2>2. m.type # CASTLING
    <3>1. ASSUME m.type = CASTLING PROVE m \in generate_castling
      <4>1. \A types, target : m \notin generate_moves(types, target)
        BY <3>1, PieceMovesListed DEF Move, NORMAL, CASTLING
      <4>2. ~Promoting(m, {QUEEN, ROOK, BISHOP, KNIGHT})
        <5>1. Promoting(m, {QUEEN, ROOK, BISHOP, KNIGHT}) => m.type = PROMOTION
          BY DEF Promoting, MakeMove, Move
        <5> QED BY <3>1, <5>1 DEF PROMOTION, CASTLING
      <4>3. ~Pushing(m) /\ ~Capturing(m)
        BY <3>1 DEF Pushing, Capturing, Move, NORMAL, CASTLING
      <4>4. ~Passing(m)
        <5>1. Passing(m) => m.type = EN_PASSANT
          BY DEF Passing, MakeMove, Move
        <5> QED BY <3>1, <5>1 DEF EN_PASSANT, CASTLING
      <4>5. m \in generate_all(NON_EVASIONS) <=>
              \/ m \in generate_moves({KING}, Square \ PiecesOf(board, us))
              \/ m \in generate_moves({KNIGHT, BISHOP, ROOK, QUEEN}, Square \ PiecesOf(board, us))
              \/ m \in generate_castling
              \/ Promoting(m, {QUEEN, ROOK, BISHOP, KNIGHT}) \/ Pushing(m) \/ Capturing(m) \/ Passing(m)
        BY MovesListed
      <4> QED BY <1>5, <4>1, <4>2, <4>3, <4>4, <4>5
    <3>2. m \in generate_castling => m.from = king_square(board, us)
      <4>1. ASSUME NEW q, NEW r PROVE MakeMove(CASTLING, q, r, KNIGHT).from = q
        BY DEF MakeMove, Move
      <4> QED BY <4>1 DEF generate_castling
    <3> QED BY <1>5, <3>1, <3>2 DEF suspect
  <2> QED BY <1>5, <2>1, <2>2, TrustedIsLegal DEF suspect
<1>6. ASSUME NEW m
      PROVE  m \in {n \in candidates : pseudo_legal(n) /\ legal(n)} <=> m \in {n \in LegalMoves : ~underpromotion(n)}
  BY <1>3, <1>4, <1>5
<1> QED BY <1>6

\* Wherever play leads, out of check: an arbitrary move that passes pseudo_legal and legal
\* is one that generate<LEGAL> lists, and every listed move passes, those that
\* generate<LEGAL> lists without asking legal() included; underpromotions are not asked
\* (position.cpp: pseudo_legal, legal; movegen.cpp: generate<LEGAL>).
THEOREM PseudoLegalAlwaysSuffices == Spec => []PseudoLegalSuffices
<1>1. WalkInv => PseudoLegalSuffices
  BY CurrentIsSound, PseudoLegalIsEnough
<1> QED BY <1>1, WalkInvariant, PTL

-----------------------------------------------------------------------------
(* Lines: a ray of the tables is a straight line of the rules. *)

\* A direction by its files and ranks, and whether a kind of slider goes that way.
Unit == {-1, 0, 1}
Goes(pt, dx, dy) ==
  /\ dx \in Unit /\ dy \in Unit /\ ~(dx = 0 /\ dy = 0)
  /\ pt = ROOK => dx = 0 \/ dy = 0
  /\ pt = BISHOP => dx # 0 /\ dy # 0

\* The square n steps from s.
Reached(s, dx, dy, n, t) ==
  /\ t \in Square
  /\ file_of(t) = file_of(s) + n * dx
  /\ rank_of(t) = rank_of(s) + n * dy

\* The directions of a slider, by files and ranks.
LEMMA DirectionsListed ==
  ASSUME NEW pt \in {BISHOP, ROOK, QUEEN}, NEW d
  PROVE  d \in Directions(pt) <=> \E dx, dy \in Unit : Goes(pt, dx, dy) /\ d = 8 * dy + dx
<1>1. BISHOP # ROOK /\ BISHOP # QUEEN /\ ROOK # QUEEN
  BY DEF BISHOP, ROOK, QUEEN
<1>2. d \in Directions(pt) <=>
        \/ pt # BISHOP /\ d \in {8, -8, 1, -1}
        \/ pt # ROOK /\ d \in {9, 7, -7, -9}
  BY DEF Directions, NORTH, EAST
<1>3. (\E dx, dy \in Unit : Goes(pt, dx, dy) /\ d = 8 * dy + dx) <=>
        \/ pt # BISHOP /\ d \in {8, -8, 1, -1}
        \/ pt # ROOK /\ d \in {9, 7, -7, -9}
  <2>1. ASSUME NEW dx \in Unit, NEW dy \in Unit, Goes(pt, dx, dy), d = 8 * dy + dx
        PROVE  \/ pt # BISHOP /\ d \in {8, -8, 1, -1}
               \/ pt # ROOK /\ d \in {9, 7, -7, -9}
    BY <1>1, <2>1 DEF Goes, Unit
  <2>2. ASSUME pt # BISHOP /\ d \in {8, -8, 1, -1}
        PROVE  \E dx, dy \in Unit : Goes(pt, dx, dy) /\ d = 8 * dy + dx
    <3>1. CASE d = 8
      <4>1. Goes(pt, 0, 1) /\ d = 8 * 1 + 0
        BY <2>2, <3>1 DEF Goes, Unit
      <4> QED BY <4>1 DEF Unit
    <3>2. CASE d = -8
      <4>1. Goes(pt, 0, -1) /\ d = 8 * (-1) + 0
        BY <2>2, <3>2 DEF Goes, Unit
      <4> QED BY <4>1 DEF Unit
    <3>3. CASE d = 1
      <4>1. Goes(pt, 1, 0) /\ d = 8 * 0 + 1
        BY <2>2, <3>3 DEF Goes, Unit
      <4> QED BY <4>1 DEF Unit
    <3>4. CASE d = -1
      <4>1. Goes(pt, -1, 0) /\ d = 8 * 0 + (-1)
        BY <2>2, <3>4 DEF Goes, Unit
      <4> QED BY <4>1 DEF Unit
    <3> QED BY <2>2, <3>1, <3>2, <3>3, <3>4
  <2>3. ASSUME pt # ROOK /\ d \in {9, 7, -7, -9}
        PROVE  \E dx, dy \in Unit : Goes(pt, dx, dy) /\ d = 8 * dy + dx
    <3>1. CASE d = 9
      <4>1. Goes(pt, 1, 1) /\ d = 8 * 1 + 1
        BY <2>3, <3>1 DEF Goes, Unit
      <4> QED BY <4>1 DEF Unit
    <3>2. CASE d = 7
      <4>1. Goes(pt, -1, 1) /\ d = 8 * 1 + (-1)
        BY <2>3, <3>2 DEF Goes, Unit
      <4> QED BY <4>1 DEF Unit
    <3>3. CASE d = -7
      <4>1. Goes(pt, 1, -1) /\ d = 8 * (-1) + 1
        BY <2>3, <3>3 DEF Goes, Unit
      <4> QED BY <4>1 DEF Unit
    <3>4. CASE d = -9
      <4>1. Goes(pt, -1, -1) /\ d = 8 * (-1) + (-1)
        BY <2>3, <3>4 DEF Goes, Unit
      <4> QED BY <4>1 DEF Unit
    <3> QED BY <2>3, <3>1, <3>2, <3>3, <3>4
  <2> QED BY <2>1, <2>2, <2>3
<1> QED BY <1>2, <1>3

\* A step from one square to a neighbor changes file and rank by its direction ...
LEMMA OneStep ==
  ASSUME NEW s \in Square, NEW t \in Square, NEW dx \in Unit, NEW dy \in Unit,
         ~(dx = 0 /\ dy = 0), t = s + (8 * dy + dx)
  PROVE  SquareDistance[s][t] = 1 <=> file_of(t) = file_of(s) + dx /\ rank_of(t) = rank_of(s) + dy
<1> DEFINE x == file_of(s)  y == rank_of(s)  u == file_of(t)  v == rank_of(t)
<1>1. x \in 0 .. 7 /\ y \in 0 .. 7 /\ s = 8 * y + x
  BY Coordinates
<1>2. u \in 0 .. 7 /\ v \in 0 .. 7 /\ t = 8 * v + u
  BY Coordinates
<1>3. SquareDistance[s][t] = 1 <=>
        s # t /\ u <= x + 1 /\ x <= u + 1 /\ v <= y + 1 /\ y <= v + 1
  BY NextTo
<1> HIDE DEF x, y, u, v
<1>4. 8 * v + u = 8 * y + x + 8 * dy + dx
  BY <1>1, <1>2 DEF Unit
<1>5. dx \in {-1, 0, 1} /\ dy \in {-1, 0, 1}
  BY DEF Unit
<1>6. SquareDistance[s][t] = 1 <=> u = x + dx /\ v = y + dy
  BY <1>1, <1>2, <1>3, <1>4, <1>5
<1> QED BY <1>6 DEF x, y, u, v

\* The file and the rank k steps away are on the board.
InRange(s, dx, dy, k) == file_of(s) + k * dx \in 0 .. 7 /\ rank_of(s) + k * dy \in 0 .. 7

\* A product with -1, 0 or 1.
LEMMA Scaled ==
  ASSUME NEW k \in Int, NEW e \in Unit
  PROVE  k * e \in Int /\ (e = 1 => k * e = k) /\ (e = 0 => k * e = 0) /\ (e = -1 => k * e = -k)
BY DEF Unit

\* A file and a rank name one square.
LEMMA SquareAt ==
  ASSUME NEW x \in 0 .. 7, NEW y \in 0 .. 7, NEW t, t = 8 * y + x
  PROVE  t \in Square /\ file_of(t) = x /\ rank_of(t) = y
BY DEF Square, file_of, rank_of

\* ... and so does a walk of several steps,
LEMMA WalkReaches ==
  ASSUME NEW s \in Square, NEW dx \in Unit, NEW dy \in Unit, NEW k \in 0 .. 7, InRange(s, dx, dy, k)
  PROVE  Reached(s, dx, dy, k, s + k * (8 * dy + dx))
<1> DEFINE x == file_of(s)  y == rank_of(s)  i == k * dx  j == k * dy
<1>1. x \in 0 .. 7 /\ y \in 0 .. 7 /\ s = 8 * y + x
  BY Coordinates
<1>2. i \in Int /\ j \in Int
  BY Scaled
<1>3. k * (8 * dy + dx) = 8 * j + i
  BY DEF Unit
<1>4. x + i \in 0 .. 7 /\ y + j \in 0 .. 7
  BY DEF InRange
<1> HIDE DEF x, y, i, j
<1>5. s + k * (8 * dy + dx) = 8 * (y + j) + (x + i)
  BY <1>1, <1>2, <1>3
<1>6. /\ s + k * (8 * dy + dx) \in Square
      /\ file_of(s + k * (8 * dy + dx)) = x + i
      /\ rank_of(s + k * (8 * dy + dx)) = y + j
  BY <1>4, <1>5, SquareAt
<1> QED BY <1>6 DEF x, y, i, j, Reached

\* which is on the board as long as its last square is, because the board is convex.
LEMMA Convex ==
  ASSUME NEW s \in Square, NEW dx \in Unit, NEW dy \in Unit, NEW n \in 1 .. 7, InRange(s, dx, dy, n),
         NEW k \in 0 .. n
  PROVE  InRange(s, dx, dy, k)
<1> DEFINE x == file_of(s)  y == rank_of(s)
<1>1. x \in 0 .. 7 /\ y \in 0 .. 7
  BY Coordinates
<1>2. x + n * dx \in 0 .. 7 /\ y + n * dy \in 0 .. 7
  BY DEF InRange
<1> HIDE DEF x, y
<1>3. ASSUME NEW z \in 0 .. 7, NEW e \in Unit, z + n * e \in 0 .. 7 PROVE z + k * e \in 0 .. 7
  <2>1. n * e \in Int /\ (e = 1 => n * e = n) /\ (e = 0 => n * e = 0) /\ (e = -1 => n * e = -n)
    BY Scaled
  <2>2. k * e \in Int /\ (e = 1 => k * e = k) /\ (e = 0 => k * e = 0) /\ (e = -1 => k * e = -k)
    BY Scaled
  <2> DEFINE p == n * e  q == k * e
  <2>3. z + p \in 0 .. 7
    BY <1>3
  <2>4. e \in {-1, 0, 1}
    BY DEF Unit
  <2> HIDE DEF p, q
  <2>5. z + q \in 0 .. 7
    BY <2>1, <2>2, <2>3, <2>4 DEF p, q
  <2> QED BY <2>5 DEF q
<1>4. x + k * dx \in 0 .. 7 /\ y + k * dy \in 0 .. 7
  BY <1>1, <1>2, <1>3
<1> QED BY <1>4 DEF InRange, x, y

\* The walk of sliding_attack leaves the board just where the line does.
LEMMA OnBoardIsInRange ==
  ASSUME NEW s \in Square, NEW dx \in Unit, NEW dy \in Unit, ~(dx = 0 /\ dy = 0), NEW n \in 1 .. 7
  PROVE  OnBoard(s, 8 * dy + dx, n) <=> InRange(s, dx, dy, n)
<1> DEFINE d == 8 * dy + dx
<1>1. d \in Int
  BY DEF Unit
<1>2. ASSUME NEW k \in 1 .. 7, InRange(s, dx, dy, k - 1), s + k * d \in Square
      PROVE  SquareDistance[s + (k - 1) * d][s + k * d] = 1 <=> InRange(s, dx, dy, k)
  <2> DEFINE q == s + (k - 1) * d  r == s + k * d
  <2>1. Reached(s, dx, dy, k - 1, q)
    <3>1. k - 1 \in 0 .. 7
      OBVIOUS
    <3> QED BY <1>2, <3>1, WalkReaches
  <2>2. q \in Square /\ file_of(q) = file_of(s) + (k - 1) * dx /\ rank_of(q) = rank_of(s) + (k - 1) * dy
    BY <2>1 DEF Reached
  <2>3. r = q + d
    <3>1. s \in Int
      BY DEF Square
    <3>2. k * d = (k - 1) * d + d /\ k * d \in Int /\ (k - 1) * d \in Int
      BY <1>1
    <3> DEFINE kd == k * d  ld == (k - 1) * d
    <3> HIDE DEF kd, ld
    <3>3. s + kd = s + ld + d
      BY <1>1, <3>1, <3>2 DEF kd, ld
    <3> QED BY <3>3 DEF kd, ld
  <2>4. r \in Square
    BY <1>2
  <2> HIDE DEF q, r
  <2>5. SquareDistance[q][r] = 1 <=> file_of(r) = file_of(q) + dx /\ rank_of(r) = rank_of(q) + dy
    BY <2>2, <2>3, <2>4, OneStep
  <2>6. (k - 1) * dx + dx = k * dx /\ (k - 1) * dy + dy = k * dy
    BY DEF Unit
  <2>7. (k - 1) * dx \in Int /\ k * dx \in Int /\ (k - 1) * dy \in Int /\ k * dy \in Int
    BY DEF Unit
  <2>8. file_of(s) \in 0 .. 7 /\ rank_of(s) \in 0 .. 7 /\ file_of(r) \in 0 .. 7 /\ rank_of(r) \in 0 .. 7
    BY <2>4, Coordinates
  <2>9. file_of(q) + dx = file_of(s) + k * dx /\ rank_of(q) + dy = rank_of(s) + k * dy
    <3> DEFINE a == (k - 1) * dx  b == (k - 1) * dy  x == file_of(s)  y == rank_of(s)
    <3>1. a \in Int /\ b \in Int /\ x \in Int /\ y \in Int /\ dx \in Int /\ dy \in Int
      BY <2>7, <2>8 DEF Unit
    <3> HIDE DEF a, b, x, y
    <3>2. x + a + dx = x + (a + dx) /\ y + b + dy = y + (b + dy)
      BY <3>1
    <3> QED BY <2>2, <2>6, <3>2 DEF a, b, x, y
  <2>10. ASSUME InRange(s, dx, dy, k)
         PROVE  file_of(r) = file_of(s) + k * dx /\ rank_of(r) = rank_of(s) + k * dy
    BY <2>10, WalkReaches DEF Reached, r
  <2>11. SquareDistance[q][r] = 1 <=> InRange(s, dx, dy, k)
    BY <2>5, <2>8, <2>9, <2>10 DEF InRange
  <2> QED BY <2>11 DEF q, r
<1> HIDE DEF d
<1>3. ASSUME OnBoard(s, d, n) PROVE InRange(s, dx, dy, n)
  <2>1. \A k \in 1 .. n : s + k * d \in Square /\ SquareDistance[s + (k - 1) * d][s + k * d] = 1
    BY <1>3 DEF OnBoard
  <2>2. InRange(s, dx, dy, 0)
    <3>1. file_of(s) \in 0 .. 7 /\ rank_of(s) \in 0 .. 7 /\ 0 * dx = 0 /\ 0 * dy = 0
      BY Coordinates DEF Unit
    <3> QED BY <3>1 DEF InRange
  <2>3. ASSUME NEW k \in 1 .. 7, k <= n, InRange(s, dx, dy, k - 1) PROVE InRange(s, dx, dy, k)
    <3>1. k \in 1 .. n
      BY <2>3
    <3> QED BY <1>2, <2>1, <2>3, <3>1
  <2>4. n >= 1 => InRange(s, dx, dy, 1)
    BY <2>2, <2>3
  <2>5. n >= 2 => InRange(s, dx, dy, 2)
    BY <2>3, <2>4
  <2>6. n >= 3 => InRange(s, dx, dy, 3)
    BY <2>3, <2>5
  <2>7. n >= 4 => InRange(s, dx, dy, 4)
    BY <2>3, <2>6
  <2>8. n >= 5 => InRange(s, dx, dy, 5)
    BY <2>3, <2>7
  <2>9. n >= 6 => InRange(s, dx, dy, 6)
    BY <2>3, <2>8
  <2>10. n >= 7 => InRange(s, dx, dy, 7)
    BY <2>3, <2>9
  <2>11. n \in {1, 2, 3, 4, 5, 6, 7}
    OBVIOUS
  <2> QED BY <2>4, <2>5, <2>6, <2>7, <2>8, <2>9, <2>10, <2>11
<1>4. ASSUME InRange(s, dx, dy, n), NEW k \in 1 .. n
      PROVE  s + k * d \in Square /\ SquareDistance[s + (k - 1) * d][s + k * d] = 1
  <2>1. k \in 0 .. n /\ k - 1 \in 0 .. n /\ k \in 0 .. 7 /\ k \in 1 .. 7
    OBVIOUS
  <2>2. InRange(s, dx, dy, k) /\ InRange(s, dx, dy, k - 1)
    BY <1>4, <2>1, Convex
  <2>3. s + k * d \in Square
    BY <2>1, <2>2, WalkReaches DEF Reached, d
  <2> QED BY <1>2, <2>1, <2>2, <2>3
<1>5. OnBoard(s, d, n) <=> InRange(s, dx, dy, n)
  BY <1>3, <1>4 DEF OnBoard
<1> QED BY <1>5 DEF d

\* Two squares n steps from s along the same direction are the same.
LEMMA ReachedOnce ==
  ASSUME NEW s \in Square, NEW dx \in Unit, NEW dy \in Unit, NEW k \in 0 .. 7, NEW t,
         Reached(s, dx, dy, k, t)
  PROVE  InRange(s, dx, dy, k) /\ t = s + k * (8 * dy + dx)
<1>1. t \in Square /\ file_of(t) = file_of(s) + k * dx /\ rank_of(t) = rank_of(s) + k * dy
  BY DEF Reached
<1>2. file_of(t) \in 0 .. 7 /\ rank_of(t) \in 0 .. 7 /\ t = 8 * rank_of(t) + file_of(t)
  BY <1>1, Coordinates
<1>3. InRange(s, dx, dy, k)
  BY <1>1, <1>2 DEF InRange
<1> DEFINE u == s + k * (8 * dy + dx)
<1>4. u \in Square /\ file_of(u) = file_of(t) /\ rank_of(u) = rank_of(t)
  BY <1>1, <1>3, WalkReaches DEF Reached
<1>5. u = 8 * rank_of(u) + file_of(u)
  BY <1>4, Coordinates
<1> QED BY <1>2, <1>3, <1>4, <1>5

\* sliding_attack has the squares reached by a direction of the slider with nothing before them.
LEMMA SlidingByCoordinates ==
  ASSUME NEW pt \in {BISHOP, ROOK, QUEEN}, NEW s \in Square, NEW occ, NEW t
  PROVE  t \in sliding_attack(pt, s, occ) <=>
           \E dx, dy \in Unit : \E n \in 1 .. 7 :
             /\ Goes(pt, dx, dy) /\ Reached(s, dx, dy, n, t)
             /\ \A k \in 1 .. n - 1 : s + k * (8 * dy + dx) \notin occ
<1>1. \A d \in Directions(pt) : d \in Directions(QUEEN)
  BY DEF Directions, BISHOP, ROOK, QUEEN
<1>2. t \in sliding_attack(pt, s, occ) <=>
        \E d \in Directions(pt) : \E n \in DOMAIN Ray[s][d] :
          t = Ray[s][d][n] /\ \A k \in 1 .. n - 1 : Ray[s][d][k] \notin occ
  BY DEF sliding_attack
<1>3. ASSUME NEW d \in Directions(pt), NEW n \in DOMAIN Ray[s][d], t = Ray[s][d][n],
             \A k \in 1 .. n - 1 : Ray[s][d][k] \notin occ
      PROVE  \E dx, dy \in Unit : \E m \in 1 .. 7 :
               /\ Goes(pt, dx, dy) /\ Reached(s, dx, dy, m, t)
               /\ \A k \in 1 .. m - 1 : s + k * (8 * dy + dx) \notin occ
  <2>1. PICK dx \in Unit, dy \in Unit : Goes(pt, dx, dy) /\ d = 8 * dy + dx
    BY DirectionsListed
  <2>2. /\ n \in 1 .. 7 /\ OnBoard(s, d, n) /\ t = s + n * d
        /\ \A k \in 1 .. 7 : OnBoard(s, d, k) => k \in DOMAIN Ray[s][d] /\ Ray[s][d][k] = s + k * d
    BY <1>1, <1>3, RaySquares
  <2>3. ~(dx = 0 /\ dy = 0)
    BY <2>1 DEF Goes
  <2>4. InRange(s, dx, dy, n)
    BY <2>1, <2>2, <2>3, OnBoardIsInRange
  <2>5. Reached(s, dx, dy, n, t)
    <3>1. n \in 0 .. 7
      BY <2>2
    <3> QED BY <2>1, <2>2, <2>4, <3>1, WalkReaches
  <2>6. ASSUME NEW k \in 1 .. n - 1 PROVE s + k * d \notin occ
    <3>1. k \in 1 .. 7 /\ k \in 1 .. n /\ 1 .. k \subseteq 1 .. n
      BY <2>2
    <3>2. OnBoard(s, d, k)
      BY <2>2, <3>1 DEF OnBoard
    <3> QED BY <1>3, <2>2, <3>1, <3>2
  <2> QED BY <2>1, <2>2, <2>5, <2>6
<1>4. ASSUME NEW dx \in Unit, NEW dy \in Unit, NEW n \in 1 .. 7, Goes(pt, dx, dy), Reached(s, dx, dy, n, t),
             \A k \in 1 .. n - 1 : s + k * (8 * dy + dx) \notin occ
      PROVE  \E d \in Directions(pt) : \E m \in DOMAIN Ray[s][d] :
               t = Ray[s][d][m] /\ \A k \in 1 .. m - 1 : Ray[s][d][k] \notin occ
  <2> DEFINE d == 8 * dy + dx
  <2>1. d \in Directions(pt)
    BY <1>4, DirectionsListed
  <2>2. ~(dx = 0 /\ dy = 0)
    BY <1>4 DEF Goes
  <2>3. n \in 0 .. 7
    OBVIOUS
  <2>4. InRange(s, dx, dy, n) /\ t = s + n * d
    BY <1>4, <2>3, ReachedOnce
  <2>5. OnBoard(s, d, n)
    BY <2>2, <2>4, OnBoardIsInRange
  <2>6. d \in Directions(QUEEN)
    BY <1>1, <2>1
  <2>7. \A k \in 1 .. n - 1 : s + k * d \notin occ
    BY <1>4
  <2> HIDE DEF d
  <2>8. n \in DOMAIN Ray[s][d] /\ Ray[s][d][n] = s + n * d
    BY <2>5, <2>6, RaySquares
  <2>9. ASSUME NEW k \in 1 .. n - 1 PROVE Ray[s][d][k] \notin occ
    <3>1. k \in 1 .. 7 /\ k \in 1 .. n /\ 1 .. k \subseteq 1 .. n
      OBVIOUS
    <3>2. OnBoard(s, d, k)
      BY <2>5, <3>1 DEF OnBoard
    <3>3. Ray[s][d][k] = s + k * d
      BY <2>6, <3>1, <3>2, RaySquares
    <3> QED BY <2>7, <3>3
  <2> QED BY <2>1, <2>4, <2>8, <2>9
<1> QED BY <1>2, <1>3, <1>4

\* A difference between coordinates lies between none and n steps when its products say so.
LEMMA Within ==
  ASSUME NEW p \in -7 .. 7, NEW n \in 1 .. 7, NEW e \in Unit
  PROVE  (p * (p - n * e) <= 0) <=>
           (e = 1 /\ 0 <= p /\ p <= n) \/ (e = -1 /\ -n <= p /\ p <= 0) \/ (e = 0 /\ p = 0)
<1>1. p \in {-7, -6, -5, -4, -3, -2, -1, 0, 1, 2, 3, 4, 5, 6, 7}
  OBVIOUS
<1>2. e \in {-1, 0, 1}
  BY DEF Unit
<1>3. CASE e = 1
  <2>1. p - n * e = p - n
    BY <1>3
  <2>2. p * (p - n) <= 0 <=> 0 <= p /\ p <= n
    BY <1>1
  <2> QED BY <1>3, <2>1, <2>2
<1>4. CASE e = -1
  <2>1. p - n * e = p + n
    BY <1>4
  <2>2. p * (p + n) <= 0 <=> -n <= p /\ p <= 0
    BY <1>1
  <2> QED BY <1>4, <2>1, <2>2
<1>5. CASE e = 0
  <2>1. p - n * e = p
    BY <1>5
  <2>2. p * p <= 0 <=> p = 0
    BY <1>1
  <2> QED BY <1>5, <2>1, <2>2
<1> QED BY <1>2, <1>3, <1>4, <1>5

\* The equation of a line, for the eight directions.
LEMMA Slope ==
  ASSUME NEW p \in -7 .. 7, NEW r \in -7 .. 7, NEW n \in 1 .. 7, NEW dx \in Unit, NEW dy \in Unit
  PROVE  (p - n * dx) * (-(n * dy)) = (r - n * dy) * (-(n * dx)) <=> p * dy = r * dx
<1>1. n \in {1, 2, 3, 4, 5, 6, 7} /\ dx \in {-1, 0, 1} /\ dy \in {-1, 0, 1}
  BY DEF Unit
<1>2. ASSUME NEW m \in {1, 2, 3, 4, 5, 6, 7}
      PROVE  (p - m * dx) * (-(m * dy)) = (r - m * dy) * (-(m * dx)) <=> p * dy = r * dx
  <2>1. CASE m = 1
    BY <1>1, <2>1
  <2>2. CASE m = 2
    BY <1>1, <2>2
  <2>3. CASE m = 3
    BY <1>1, <2>3
  <2>4. CASE m = 4
    BY <1>1, <2>4
  <2>5. CASE m = 5
    BY <1>1, <2>5
  <2>6. CASE m = 6
    BY <1>1, <2>6
  <2>7. CASE m = 7
    BY <1>1, <2>7
  <2> QED BY <2>1, <2>2, <2>3, <2>4, <2>5, <2>6, <2>7
<1> QED BY <1>1, <1>2

\* A difference of coordinates is some steps of n in a direction; or, by its products, on
\* the line of the n steps and not beyond it.
InSteps(p, r, n, dx, dy) == \E k \in 0 .. n : p = k * dx /\ r = k * dy
Along(p, r, n, dx, dy) == p * dy = r * dx /\ p * (p - n * dx) <= 0 /\ r * (r - n * dy) <= 0

\* The squares between two on a line, by their distance from the one.
LEMMA OnTheLine ==
  ASSUME NEW p \in -7 .. 7, NEW r \in -7 .. 7, NEW n \in 1 .. 7, NEW dx \in Unit, NEW dy \in Unit,
         ~(dx = 0 /\ dy = 0)
  PROVE  Along(p, r, n, dx, dy) <=> InSteps(p, r, n, dx, dy)
<1> DEFINE In(z, e) == (e = 1 /\ 0 <= z /\ z <= n) \/ (e = -1 /\ -n <= z /\ z <= 0) \/ (e = 0 /\ z = 0)
<1>1. (p * (p - n * dx) <= 0 <=> In(p, dx)) /\ (r * (r - n * dy) <= 0 <=> In(r, dy))
  <2>1. ASSUME NEW z \in -7 .. 7, NEW e \in Unit
        PROVE  z * (z - n * e) <= 0 <=> In(z, e)
    BY Within
  <2> HIDE DEF In
  <2> QED BY <2>1
<1>2. dx \in {-1, 0, 1} /\ dy \in {-1, 0, 1}
  BY DEF Unit
<1>3. ASSUME p * dy = r * dx, In(p, dx), In(r, dy)
      PROVE  \E k \in 0 .. n : p = k * dx /\ r = k * dy
  <2>1. CASE dx = 1
    <3>1. p \in 0 .. n /\ p = p * dx /\ r = p * dy
      BY <1>2, <1>3, <2>1
    <3> QED BY <3>1
  <2>2. CASE dx = -1
    <3>1. -p \in 0 .. n /\ p = (-p) * dx /\ r = (-p) * dy
      BY <1>2, <1>3, <2>2
    <3> QED BY <3>1
  <2>3. CASE dx = 0 /\ dy = 1
    <3>1. r \in 0 .. n /\ p = r * dx /\ r = r * dy
      BY <1>3, <2>3
    <3> QED BY <3>1
  <2>4. CASE dx = 0 /\ dy = -1
    <3>1. -r \in 0 .. n /\ p = (-r) * dx /\ r = (-r) * dy
      BY <1>3, <2>4
    <3> QED BY <3>1
  <2> QED BY <1>2, <2>1, <2>2, <2>3, <2>4
<1>4. ASSUME NEW k \in 0 .. n, p = k * dx, r = k * dy
      PROVE  p * dy = r * dx /\ In(p, dx) /\ In(r, dy)
  <2>1. k \in Int /\ n \in Int /\ 0 <= k /\ k <= n
    OBVIOUS
  <2>2. p * dy = r * dx
    BY <1>2, <1>4, <2>1
  <2>3. In(p, dx)
    BY <1>2, <1>4, <2>1
  <2>4. In(r, dy)
    BY <1>2, <1>4, <2>1
  <2> QED BY <2>2, <2>3, <2>4
<1> QED BY <1>1, <1>3, <1>4 DEF Along, InSteps

\* The rules' squares strictly between s and one n steps away are those of fewer steps.
LEMMA Interposition ==
  ASSUME NEW s \in Square, NEW dx \in Unit, NEW dy \in Unit, ~(dx = 0 /\ dy = 0), NEW n \in 1 .. 7,
         NEW o, Reached(s, dx, dy, n, o), NEW q \in Square
  PROVE  Rules!Interposed(q, o, s) <=> \E k \in 1 .. n - 1 : q = s + k * (8 * dy + dx)
<1> DEFINE x == file_of(s)  y == rank_of(s)  p == file_of(q) - x  r == rank_of(q) - y  i == n * dx  j == n * dy
<1>1. x \in 0 .. 7 /\ y \in 0 .. 7 /\ file_of(q) \in 0 .. 7 /\ rank_of(q) \in 0 .. 7
  BY Coordinates
<1>2. o \in Square /\ file_of(o) = x + i /\ rank_of(o) = y + j
  BY DEF Reached
<1>3. i \in Int /\ j \in Int
  BY DEF Unit
<1>4. p \in -7 .. 7 /\ r \in -7 .. 7
  BY <1>1
<1>5. Rules!Interposed(q, o, s) <=>
        /\ q # o /\ q # s
        /\ (file_of(q) - file_of(o)) * (y - rank_of(o)) = (rank_of(q) - rank_of(o)) * (x - file_of(o))
        /\ (file_of(q) - file_of(o)) * p <= 0
        /\ (rank_of(q) - rank_of(o)) * r <= 0
  BY DEF Rules!Interposed, Rules!X, Rules!Y, file_of, rank_of
<1>6. /\ file_of(q) - file_of(o) = p - i /\ rank_of(q) - rank_of(o) = r - j
      /\ x - file_of(o) = -i /\ y - rank_of(o) = -j
  BY <1>1, <1>2, <1>3
<1>7. /\ (p - i) * p = p * (p - i) /\ (r - j) * r = r * (r - j)
  <2> HIDE DEF p, r, i, j
  <2> QED BY <1>3, <1>4
<1>8. (p - i) * (-j) = (r - j) * (-i) <=> p * dy = r * dx
  <2> HIDE DEF p, r
  <2> QED BY <1>4, Slope
<1>9. Along(p, r, n, dx, dy) <=> InSteps(p, r, n, dx, dy)
  <2> HIDE DEF p, r
  <2> QED BY <1>4, OnTheLine
<1>10. Rules!Interposed(q, o, s) <=> q # o /\ q # s /\ \E k \in 0 .. n : p = k * dx /\ r = k * dy
  BY <1>5, <1>6, <1>7, <1>8, <1>9 DEF Along, InSteps
<1>11. ASSUME NEW k \in 0 .. n
       PROVE  p = k * dx /\ r = k * dy <=> q = s + k * (8 * dy + dx)
  <2>1. k \in 0 .. 7 /\ n \in 0 .. 7
    OBVIOUS
  <2>2. InRange(s, dx, dy, k)
    <3>1. InRange(s, dx, dy, n)
      BY <2>1, ReachedOnce
    <3> QED BY <3>1, Convex
  <2>3. Reached(s, dx, dy, k, s + k * (8 * dy + dx))
    BY <2>1, <2>2, WalkReaches
  <2>4. p = k * dx /\ r = k * dy <=> Reached(s, dx, dy, k, q)
    <3> DEFINE a == k * dx  b == k * dy
    <3>1. a \in Int /\ b \in Int
      BY DEF Unit
    <3> HIDE DEF a, b
    <3>2. file_of(q) - x = a /\ rank_of(q) - y = b <=> file_of(q) = x + a /\ rank_of(q) = y + b
      BY <1>1, <3>1
    <3> QED BY <3>2 DEF a, b, Reached
  <2> QED BY <2>1, <2>3, <2>4, ReachedOnce
<1>12. o = s + n * (8 * dy + dx) /\ s = s + 0 * (8 * dy + dx)
  <2>1. n \in 0 .. 7 /\ s \in Int /\ 0 * (8 * dy + dx) = 0
    BY DEF Unit, Square
  <2> QED BY <2>1, ReachedOnce
<1>13. Rules!Interposed(q, o, s) <=> q # o /\ q # s /\ \E k \in 0 .. n : q = s + k * (8 * dy + dx)
  BY <1>10, <1>11
<1>14. \A k \in 1 .. n - 1 : s + k * (8 * dy + dx) # o /\ s + k * (8 * dy + dx) # s
  <2> DEFINE d == 8 * dy + dx
  <2>1. d \in {8, -8, 1, -1, 9, -7, 7, -9}
    BY DEF Unit
  <2> HIDE DEF d
  <2>2. ASSUME NEW k \in 1 .. n - 1 PROVE s + k * d # s + n * d /\ s + k * d # s
    <3>1. k * d \in Int /\ n * d \in Int /\ k * d # n * d /\ k * d # 0
      BY <2>1
    <3>2. s \in Int
      BY DEF Square
    <3> QED BY <3>1, <3>2
  <2> QED BY <1>12, <2>2 DEF d
<1>15. ASSUME NEW k \in 0 .. n, k # 0, k # n PROVE k \in 1 .. n - 1
  BY <1>15
<1>16. 1 .. n - 1 \subseteq 0 .. n
  OBVIOUS
<1> QED BY <1>12, <1>13, <1>14, <1>15, <1>16

\* Two squares stand to each other as a kind of slider goes.
Shaped(pt, o, s) ==
  LET dx == Rules!Abs(Rules!X(s) - Rules!X(o))
      dy == Rules!Abs(Rules!Y(s) - Rules!Y(o))
  IN  /\ o # s
      /\ CASE pt = BISHOP -> dx = dy
           [] pt = ROOK -> dx = 0 \/ dy = 0
           [] OTHER -> dx = dy \/ dx = 0 \/ dy = 0

\* They do when one of its directions leads from one to the other.
LEMMA Shapes ==
  ASSUME NEW pt \in {BISHOP, ROOK, QUEEN}, NEW s \in Square, NEW o \in Square
  PROVE  Shaped(pt, o, s) <=>
           \E dx, dy \in Unit : \E n \in 1 .. 7 : Goes(pt, dx, dy) /\ Reached(s, dx, dy, n, o)
<1> DEFINE x == file_of(s)  y == rank_of(s)  u == file_of(o)  v == rank_of(o)
<1>1. /\ x \in 0 .. 7 /\ y \in 0 .. 7 /\ s = 8 * y + x
      /\ u \in 0 .. 7 /\ v \in 0 .. 7 /\ o = 8 * v + u
  BY Coordinates
<1>2. BISHOP # ROOK /\ BISHOP # QUEEN /\ ROOK # QUEEN
  BY DEF BISHOP, ROOK, QUEEN
<1>3. Shaped(pt, o, s) <=>
        /\ ~(u = x /\ v = y)
        /\ pt = BISHOP => Rules!Abs(x - u) = Rules!Abs(y - v)
        /\ pt = ROOK => Rules!Abs(x - u) = 0 \/ Rules!Abs(y - v) = 0
        /\ pt = QUEEN => \/ Rules!Abs(x - u) = Rules!Abs(y - v)
                         \/ Rules!Abs(x - u) = 0 \/ Rules!Abs(y - v) = 0
  <2>1. Rules!X(s) = x /\ Rules!X(o) = u /\ Rules!Y(s) = y /\ Rules!Y(o) = v
    BY DEF Rules!X, Rules!Y, file_of, rank_of
  <2>2. o # s <=> ~(u = x /\ v = y)
    BY <1>1
  <2> HIDE DEF x, y, u, v
  <2> QED BY <1>2, <2>1, <2>2 DEF Shaped
<1> HIDE DEF x, y, u, v
<1>4. ASSUME NEW dx \in Unit, NEW dy \in Unit, NEW n \in 1 .. 7
      PROVE  Reached(s, dx, dy, n, o) <=> u = x + n * dx /\ v = y + n * dy
  BY DEF Reached, x, y, u, v
<1>5. ASSUME NEW dx \in Unit, NEW dy \in Unit, NEW n \in 1 .. 7, Goes(pt, dx, dy), Reached(s, dx, dy, n, o)
      PROVE  Shaped(pt, o, s)
  <2>1. /\ n * dx \in Int /\ (dx = 1 => n * dx = n) /\ (dx = 0 => n * dx = 0) /\ (dx = -1 => n * dx = -n)
        /\ n * dy \in Int /\ (dy = 1 => n * dy = n) /\ (dy = 0 => n * dy = 0) /\ (dy = -1 => n * dy = -n)
    BY Scaled
  <2> DEFINE i == n * dx  j == n * dy
  <2>2. u = x + i /\ v = y + j
    BY <1>4, <1>5
  <2>3. /\ dx \in {-1, 0, 1} /\ dy \in {-1, 0, 1} /\ ~(dx = 0 /\ dy = 0)
        /\ pt = ROOK => dx = 0 \/ dy = 0
        /\ pt = BISHOP => dx # 0 /\ dy # 0
    BY <1>5 DEF Goes, Unit
  <2>4. /\ (dx = 0 => i = 0) /\ (dx = 1 => i = n) /\ (dx = -1 => i = -n) /\ i \in Int
        /\ (dy = 0 => j = 0) /\ (dy = 1 => j = n) /\ (dy = -1 => j = -n) /\ j \in Int
    BY <2>1
  <2> HIDE DEF i, j
  <2>5. /\ ~(u = x /\ v = y)
        /\ dx = 0 => Rules!Abs(x - u) = 0
        /\ dy = 0 => Rules!Abs(y - v) = 0
        /\ dx # 0 /\ dy # 0 => Rules!Abs(x - u) = Rules!Abs(y - v)
    BY <1>1, <2>2, <2>3, <2>4 DEF Rules!Abs
  <2> QED BY <1>3, <2>3, <2>5
<1>6. ASSUME Shaped(pt, o, s)
      PROVE  \E dx, dy \in Unit : \E n \in 1 .. 7 : Goes(pt, dx, dy) /\ Reached(s, dx, dy, n, o)
  <2> DEFINE There(dx, dy, n) == Goes(pt, dx, dy) /\ u = x + n * dx /\ v = y + n * dy
  <2>1. /\ ~(u = x /\ v = y)
        /\ pt # BISHOP \/ x - u = y - v \/ x - u = v - y
        /\ pt # ROOK \/ x = u \/ y = v
        /\ x = u \/ y = v \/ x - u = y - v \/ x - u = v - y
    BY <1>1, <1>2, <1>3, <1>6 DEF Rules!Abs
  <2>2. \E dx, dy \in Unit : \E n \in 1 .. 7 : There(dx, dy, n)
    <3>1. CASE x = u
      <4>1. pt # BISHOP
        BY <1>1, <2>1, <3>1
      <4>2. CASE v > y
        <5>1. There(0, 1, v - y) /\ v - y \in 1 .. 7
          BY <1>1, <3>1, <4>1, <4>2 DEF Goes, Unit
        <5> QED BY <5>1 DEF Unit
      <4>3. CASE v < y
        <5>1. There(0, -1, y - v) /\ y - v \in 1 .. 7
          BY <1>1, <3>1, <4>1, <4>3 DEF Goes, Unit
        <5> QED BY <5>1 DEF Unit
      <4> QED BY <1>1, <2>1, <3>1, <4>2, <4>3
    <3>2. CASE y = v
      <4>1. pt # BISHOP
        BY <1>1, <2>1, <3>2
      <4>2. CASE u > x
        <5>1. There(1, 0, u - x) /\ u - x \in 1 .. 7
          BY <1>1, <3>2, <4>1, <4>2 DEF Goes, Unit
        <5> QED BY <5>1 DEF Unit
      <4>3. CASE u < x
        <5>1. There(-1, 0, x - u) /\ x - u \in 1 .. 7
          BY <1>1, <3>2, <4>1, <4>3 DEF Goes, Unit
        <5> QED BY <5>1 DEF Unit
      <4> QED BY <1>1, <2>1, <3>2, <4>2, <4>3
    <3>3. CASE x # u /\ y # v /\ x - u = y - v
      <4>1. pt # ROOK
        BY <2>1, <3>3
      <4>2. CASE u > x
        <5>1. There(1, 1, u - x) /\ u - x \in 1 .. 7
          BY <1>1, <3>3, <4>1, <4>2 DEF Goes, Unit
        <5> QED BY <5>1 DEF Unit
      <4>3. CASE u < x
        <5>1. There(-1, -1, x - u) /\ x - u \in 1 .. 7
          BY <1>1, <3>3, <4>1, <4>3 DEF Goes, Unit
        <5> QED BY <5>1 DEF Unit
      <4> QED BY <1>1, <3>3, <4>2, <4>3
    <3>4. CASE x # u /\ y # v /\ x - u = v - y
      <4>1. pt # ROOK
        BY <2>1, <3>4
      <4>2. CASE u > x
        <5>1. There(1, -1, u - x) /\ u - x \in 1 .. 7
          BY <1>1, <3>4, <4>1, <4>2 DEF Goes, Unit
        <5> QED BY <5>1 DEF Unit
      <4>3. CASE u < x
        <5>1. There(-1, 1, x - u) /\ x - u \in 1 .. 7
          BY <1>1, <3>4, <4>1, <4>3 DEF Goes, Unit
        <5> QED BY <5>1 DEF Unit
      <4> QED BY <1>1, <3>4, <4>2, <4>3
    <3> QED BY <2>1, <3>1, <3>2, <3>3, <3>4
  <2>3. PICK dx \in Unit, dy \in Unit, n \in 1 .. 7 : There(dx, dy, n)
    BY <2>2
  <2>4. Goes(pt, dx, dy) /\ Reached(s, dx, dy, n, o)
    BY <1>4, <2>3
  <2> QED BY <2>4
<1> QED BY <1>5, <1>6

\* A slider attacks what it has a clear line to, by the rules; and from either end the same.
LEMMA SlidingByTheRules ==
  ASSUME NEW pt \in {BISHOP, ROOK, QUEEN}, NEW s \in Square, NEW o \in Square,
         NEW b, DOMAIN b \subseteq Square
  PROVE  o \in sliding_attack(pt, s, DOMAIN b) <=> Shaped(pt, o, s) /\ Rules!ClearLine(b, o, s)
<1>1. ASSUME NEW dx \in Unit, NEW dy \in Unit, NEW n \in 1 .. 7, Goes(pt, dx, dy), Reached(s, dx, dy, n, o)
      PROVE  Rules!ClearLine(b, o, s) <=> \A k \in 1 .. n - 1 : s + k * (8 * dy + dx) \notin DOMAIN b
  <2> DEFINE d == 8 * dy + dx
  <2>1. ~(dx = 0 /\ dy = 0)
    BY <1>1 DEF Goes
  <2>2. \A q \in Square : Rules!Interposed(q, o, s) <=> \E k \in 1 .. n - 1 : q = s + k * d
    BY <1>1, <2>1, Interposition
  <2> HIDE DEF d
  <2>3. Rules!ClearLine(b, o, s) <=> \A k \in 1 .. n - 1 : s + k * d \notin DOMAIN b
    BY <2>2 DEF Rules!ClearLine
  <2> QED BY <2>3 DEF d
<1>2. ASSUME o \in sliding_attack(pt, s, DOMAIN b)
      PROVE  Shaped(pt, o, s) /\ Rules!ClearLine(b, o, s)
  <2>1. PICK dx \in Unit, dy \in Unit, n \in 1 .. 7 :
               /\ Goes(pt, dx, dy) /\ Reached(s, dx, dy, n, o)
               /\ \A k \in 1 .. n - 1 : s + k * (8 * dy + dx) \notin DOMAIN b
    BY <1>2, SlidingByCoordinates
  <2>2. Shaped(pt, o, s)
    BY <2>1, Shapes
  <2> QED BY <1>1, <2>1, <2>2
<1>3. ASSUME Shaped(pt, o, s), Rules!ClearLine(b, o, s)
      PROVE  o \in sliding_attack(pt, s, DOMAIN b)
  <2>1. PICK dx \in Unit, dy \in Unit, n \in 1 .. 7 : Goes(pt, dx, dy) /\ Reached(s, dx, dy, n, o)
    BY <1>3, Shapes
  <2>2. \A k \in 1 .. n - 1 : s + k * (8 * dy + dx) \notin DOMAIN b
    BY <1>1, <1>3, <2>1
  <2> QED BY <2>1, <2>2, SlidingByCoordinates
<1> QED BY <1>2, <1>3

\* So it does through any set of occupied squares, whatever stands on the ends themselves.
LEMMA SlidingThrough ==
  ASSUME NEW pt \in {BISHOP, ROOK, QUEEN}, NEW s \in Square, NEW o \in Square,
         NEW occ \in SUBSET Square, NEW f, DOMAIN f \subseteq Square,
         \A q \in Square : q # o /\ q # s => (q \in occ <=> q \in DOMAIN f)
  PROVE  o \in sliding_attack(pt, s, occ) <=> Shaped(pt, o, s) /\ Rules!ClearLine(f, o, s)
<1> DEFINE g == [q \in occ |-> 0]
<1>1. DOMAIN g = occ
  OBVIOUS
<1>2. o \in sliding_attack(pt, s, occ) <=> Shaped(pt, o, s) /\ Rules!ClearLine(g, o, s)
  <2> HIDE DEF g
  <2>1. DOMAIN g \subseteq Square
    BY <1>1
  <2> QED BY <1>1, <2>1, SlidingByTheRules
<1>3. Rules!ClearLine(g, o, s) <=> Rules!ClearLine(f, o, s)
  <2>1. \A q : Rules!Interposed(q, o, s) => q # o /\ q # s
    BY DEF Rules!Interposed
  <2> HIDE DEF g
  <2> QED BY <1>1, <2>1 DEF Rules!ClearLine
<1> QED BY <1>2, <1>3

\* Squares at most two apart, by files and ranks.
LEMMA Near ==
  ASSUME NEW s \in Square, NEW t \in Square
  PROVE  SquareDistance[s][t] <= 2 <=>
           /\ file_of(t) <= file_of(s) + 2 /\ file_of(s) <= file_of(t) + 2
           /\ rank_of(t) <= rank_of(s) + 2 /\ rank_of(s) <= rank_of(t) + 2
<1> DEFINE x == file_of(s)  y == rank_of(s)  u == file_of(t)  v == rank_of(t)
<1>1. x \in 0 .. 7 /\ y \in 0 .. 7 /\ u \in 0 .. 7 /\ v \in 0 .. 7
  BY Coordinates
<1>2. SquareDistance[s][t] = IF Gap(x, u) > Gap(y, v) THEN Gap(x, u) ELSE Gap(y, v)
  BY DEF SquareDistance
<1> HIDE DEF x, y, u, v
<1>3. (IF Gap(x, u) > Gap(y, v) THEN Gap(x, u) ELSE Gap(y, v)) <= 2
        <=> u <= x + 2 /\ x <= u + 2 /\ v <= y + 2 /\ y <= v + 2
  BY <1>1 DEF Gap
<1>4. SquareDistance[s][t] <= 2 <=> u <= x + 2 /\ x <= u + 2 /\ v <= y + 2 /\ y <= v + 2
  BY <1>2, <1>3
<1> QED BY <1>4 DEF x, y, u, v

\* A knight's and a king's steps on the board are those of the rules, from either end.
LEMMA LeaperByTheRules ==
  ASSUME NEW s \in Square, NEW o \in Square
  PROVE  LET dx == Rules!Abs(Rules!X(s) - Rules!X(o))
             dy == Rules!Abs(Rules!Y(s) - Rules!Y(o))
         IN  /\ o \in leaper_attacks(KNIGHT, s) <=> {dx, dy} = {1, 2}
             /\ o \in leaper_attacks(KING, s) <=> o # s /\ dx <= 1 /\ dy <= 1
<1> DEFINE x == file_of(s)  y == rank_of(s)  u == file_of(o)  v == rank_of(o)
           dx == Rules!Abs(x - u)  dy == Rules!Abs(y - v)
<1>1. /\ x \in 0 .. 7 /\ y \in 0 .. 7 /\ s = 8 * y + x
      /\ u \in 0 .. 7 /\ v \in 0 .. 7 /\ o = 8 * v + u
  BY Coordinates
<1>2. Rules!X(s) = x /\ Rules!X(o) = u /\ Rules!Y(s) = y /\ Rules!Y(o) = v
  BY DEF Rules!X, Rules!Y, file_of, rank_of
<1>3. SquareDistance[s][o] <= 2 <=> u <= x + 2 /\ x <= u + 2 /\ v <= y + 2 /\ y <= v + 2
  BY Near
<1>4. o # s <=> ~(u = x /\ v = y)
  BY <1>1
<1>5. o \in leaper_attacks(KNIGHT, s) <=>
        (\E d \in {17, 15, 10, 6, -17, -15, -10, -6} : o = s + d) /\ SquareDistance[s][o] <= 2
  BY DEF leaper_attacks, leaper_steps
<1>6. o \in leaper_attacks(KING, s) <=>
        (\E d \in {9, 8, 7, 1, -9, -8, -7, -1} : o = s + d) /\ SquareDistance[s][o] <= 2
  <2>1. KING # KNIGHT
    BY DEF KING, KNIGHT
  <2> QED BY <2>1 DEF leaper_attacks, leaper_steps
<1>7. {dx, dy} = {1, 2} <=> (dx = 1 /\ dy = 2) \/ (dx = 2 /\ dy = 1)
  OBVIOUS
<1> DEFINE KnightStep == o \in leaper_attacks(KNIGHT, s)  KingStep == o \in leaper_attacks(KING, s)
<1> HIDE DEF x, y, u, v
<1>8. dx \in Int /\ dy \in Int
  BY <1>1 DEF Rules!Abs
<1>9. KnightStep <=> (dx = 1 /\ dy = 2) \/ (dx = 2 /\ dy = 1)
  <2>1. KnightStep <=>
          /\ 8 * v + u - (8 * y + x) \in {17, 15, 10, 6, -17, -15, -10, -6}
          /\ u <= x + 2 /\ x <= u + 2 /\ v <= y + 2 /\ y <= v + 2
    <3>1. (\E d \in {17, 15, 10, 6, -17, -15, -10, -6} : o = s + d)
            <=> 8 * v + u - (8 * y + x) \in {17, 15, 10, 6, -17, -15, -10, -6}
      BY <1>1
    <3> QED BY <1>3, <1>5, <3>1
  <2> HIDE DEF KnightStep
  <2> QED BY <1>1, <2>1 DEF Rules!Abs
<1>10. KingStep <=> o # s /\ dx <= 1 /\ dy <= 1
  <2>1. KingStep <=>
          /\ 8 * v + u - (8 * y + x) \in {9, 8, 7, 1, -9, -8, -7, -1}
          /\ u <= x + 2 /\ x <= u + 2 /\ v <= y + 2 /\ y <= v + 2
    <3>1. (\E d \in {9, 8, 7, 1, -9, -8, -7, -1} : o = s + d)
            <=> 8 * v + u - (8 * y + x) \in {9, 8, 7, 1, -9, -8, -7, -1}
      BY <1>1
    <3> QED BY <1>3, <1>6, <3>1
  <2> HIDE DEF KingStep
  <2> QED BY <1>1, <1>4, <2>1 DEF Rules!Abs
<1> QED BY <1>2, <1>7, <1>9, <1>10

\* A pawn attacks one square ahead on a neighboring file, by the rules.
LEMMA PawnByTheRules ==
  ASSUME NEW c \in Color, NEW s \in Square, NEW o \in Square
  PROVE  o \in PawnAttacks[Opposite(c)][s] <=>
           Rules!Abs(Rules!X(s) - Rules!X(o)) = 1 /\ Rules!Y(s) - Rules!Y(o) = Rules!Forward(c)
<1> DEFINE x == file_of(s)  y == rank_of(s)  u == file_of(o)  v == rank_of(o)
<1>1. /\ x \in 0 .. 7 /\ y \in 0 .. 7 /\ s = 8 * y + x
      /\ u \in 0 .. 7 /\ v \in 0 .. 7 /\ o = 8 * v + u
  BY Coordinates
<1>2. Rules!X(s) = x /\ Rules!X(o) = u /\ Rules!Y(s) = y /\ Rules!Y(o) = v
  BY DEF Rules!X, Rules!Y, file_of, rank_of
<1>3. Opposite(c) \in Color /\ Opposite(Opposite(c)) = c /\ c \in {0, 1}
  BY DEF Opposite, Color, WHITE, BLACK
<1>4. o \in PawnAttacks[Opposite(c)][s] <=> s \in PawnAttacks[c][o]
  BY <1>3, PawnAttacksBack
<1>5. s \in PawnAttacks[c][o] <=> (s = o + Up(c) + 1 \/ s = o + Up(c) - 1) /\ SquareDistance[o][s] = 1
  BY PawnAttackSquares
<1>6. SquareDistance[o][s] = 1 <=> o # s /\ x <= u + 1 /\ u <= x + 1 /\ y <= v + 1 /\ v <= y + 1
  BY NextTo
<1>7. (c = 0 /\ Up(c) = 8 /\ Rules!Forward(c) = 1) \/ (c = 1 /\ Up(c) = -8 /\ Rules!Forward(c) = -1)
  BY <1>3 DEF Up, NORTH, WHITE, Rules!Forward
<1> HIDE DEF x, y, u, v
<1>8. s \in PawnAttacks[c][o] <=> Rules!Abs(x - u) = 1 /\ y - v = Rules!Forward(c)
  <2> DEFINE a == s \in PawnAttacks[c][o]  up == Up(c)  f == Rules!Forward(c)
  <2>1. /\ a <=> (s = o + up + 1 \/ s = o + up - 1) /\ o # s /\ x <= u + 1 /\ u <= x + 1 /\ y <= v + 1 /\ v <= y + 1
        /\ (up = 8 /\ f = 1) \/ (up = -8 /\ f = -1)
    BY <1>5, <1>6, <1>7
  <2> HIDE DEF a, up, f
  <2>2. a <=> /\ 8 * y + x = 8 * v + u + up + 1 \/ 8 * y + x = 8 * v + u + up - 1
              /\ x <= u + 1 /\ u <= x + 1 /\ y <= v + 1 /\ v <= y + 1
    BY <1>1, <2>1
  <2>3. a <=> (x = u + 1 \/ u = x + 1) /\ y - v = f
    <3>1. CASE up = 8 /\ f = 1
      BY <1>1, <2>2, <3>1
    <3>2. CASE up = -8 /\ f = -1
      BY <1>1, <2>2, <3>2
    <3> QED BY <2>1, <3>1, <3>2
  <2>4. Rules!Abs(x - u) = 1 <=> x = u + 1 \/ u = x + 1
    BY <1>1 DEF Rules!Abs
  <2> QED BY <2>3, <2>4 DEF a, f
<1> QED BY <1>2, <1>4, <1>8

\* Through any occupancy, attackers_to finds a piece just when it attacks the square on
\* any board that is as crowded: whatever is said to stand on the two ends themselves.
LEMMA AttackersThrough ==
  ASSUME NEW b, \A q \in DOMAIN b : b[q] \in Piece, DOMAIN b \subseteq Square,
         NEW s \in Square, NEW occ \in SUBSET Square, NEW o \in DOMAIN b,
         NEW f, f[o] = b[o], DOMAIN f \subseteq Square,
         \A q \in Square : q # o /\ q # s => (q \in occ <=> q \in DOMAIN f)
  PROVE  o \in attackers_to(b, s, occ) <=> Rules!Attacks(f, o, s)
<1> DEFINE A == attackers_to(b, s, occ)
           pawns == UNION {PawnAttacks[Opposite(c)][s] \cap PiecesOf(b, c) \cap PiecesOfType(b, {PAWN}) : c \in Color}
<1>1. A = pawns \cup (PseudoAttacks[KNIGHT][s] \cap PiecesOfType(b, {KNIGHT}))
            \cup (attacks_bb(ROOK, s, occ) \cap PiecesOfType(b, {ROOK, QUEEN}))
            \cup (attacks_bb(BISHOP, s, occ) \cap PiecesOfType(b, {BISHOP, QUEEN}))
            \cup (PseudoAttacks[KING][s] \cap PiecesOfType(b, {KING}))
  BY DEF attackers_to, SlidersOn
<1>2. PICK c \in Color, pt \in PieceType : b[o] = <<c, pt>>
  BY DEF Piece
<1>3. b[o][1] = c /\ b[o][2] = pt /\ o \in Square
  BY <1>2
<1>4. o \in A <=>
        \/ pt = PAWN /\ o \in PawnAttacks[Opposite(c)][s]
        \/ pt = KNIGHT /\ o \in PseudoAttacks[KNIGHT][s]
        \/ pt \in {ROOK, QUEEN} /\ o \in attacks_bb(ROOK, s, occ)
        \/ pt \in {BISHOP, QUEEN} /\ o \in attacks_bb(BISHOP, s, occ)
        \/ pt = KING /\ o \in PseudoAttacks[KING][s]
  <2>1. \A k : o \in PiecesOf(b, k) <=> k = c
    BY <1>3 DEF PiecesOf
  <2>2. \A T : o \in PiecesOfType(b, T) <=> pt \in T
    BY <1>3 DEF PiecesOfType
  <2>3. o \in pawns
          <=> pt = PAWN /\ o \in PawnAttacks[Opposite(c)][s]
    <3>1. \A k \in Color : o \in PawnAttacks[Opposite(k)][s] \cap PiecesOf(b, k) \cap PiecesOfType(b, {PAWN})
                  <=> k = c /\ pt = PAWN /\ o \in PawnAttacks[Opposite(k)][s]
      BY <2>1, <2>2
    <3> QED BY <3>1
  <2> HIDE DEF A, pawns
  <2> QED BY <1>1, <2>2, <2>3
<1>5. /\ PseudoAttacks[KNIGHT][s] = leaper_attacks(KNIGHT, s)
      /\ PseudoAttacks[KING][s] = leaper_attacks(KING, s)
      /\ attacks_bb(ROOK, s, occ) = sliding_attack(ROOK, s, occ)
      /\ attacks_bb(BISHOP, s, occ) = sliding_attack(BISHOP, s, occ)
  <2>1. KNIGHT \in PieceType \ {PAWN} /\ KING \in PieceType \ {PAWN}
    BY DEF PieceType, KNIGHT, KING, PAWN
  <2>2. ROOK \notin {KNIGHT, KING} /\ BISHOP \notin {KNIGHT, KING}
    BY DEF ROOK, BISHOP, KNIGHT, KING
  <2> QED BY <2>1, <2>2 DEF PseudoAttacks, attacks_bb
<1> DEFINE dx == Rules!Abs(Rules!X(s) - Rules!X(o))  dy == Rules!Abs(Rules!Y(s) - Rules!Y(o))
           clear == Rules!ClearLine(f, o, s)
<1>6. /\ o \in leaper_attacks(KNIGHT, s) <=> {dx, dy} = {1, 2}
      /\ o \in leaper_attacks(KING, s) <=> o # s /\ dx <= 1 /\ dy <= 1
  BY <1>3, LeaperByTheRules
<1>7. o \in PawnAttacks[Opposite(c)][s] <=> dx = 1 /\ Rules!Y(s) - Rules!Y(o) = Rules!Forward(c)
  BY <1>3, PawnByTheRules
<1>8. /\ o \in sliding_attack(ROOK, s, occ) <=> o # s /\ (dx = 0 \/ dy = 0) /\ clear
      /\ o \in sliding_attack(BISHOP, s, occ) <=> o # s /\ dx = dy /\ clear
  <2>1. Shaped(ROOK, o, s) <=> o # s /\ (dx = 0 \/ dy = 0)
    BY DEF Shaped, ROOK, BISHOP
  <2>2. Shaped(BISHOP, o, s) <=> o # s /\ dx = dy
    BY DEF Shaped, ROOK, BISHOP
  <2>3. /\ o \in sliding_attack(ROOK, s, occ) <=> Shaped(ROOK, o, s) /\ Rules!ClearLine(f, o, s)
        /\ o \in sliding_attack(BISHOP, s, occ) <=> Shaped(BISHOP, o, s) /\ Rules!ClearLine(f, o, s)
    BY <1>3, SlidingThrough
  <2> QED BY <2>1, <2>2, <2>3
<1>9. o = s => dx = 0 /\ dy = 0
  <2>1. Rules!X(s) - Rules!X(s) = 0 /\ Rules!Y(s) - Rules!Y(s) = 0
    BY DEF Rules!X, Rules!Y, Square
  <2> QED BY <2>1 DEF Rules!Abs
<1>10. /\ pt = PAWN => (Rules!Attacks(f, o, s) <=> o # s /\ dx = 1 /\ Rules!Y(s) - Rules!Y(o) = Rules!Forward(c))
       /\ pt = KNIGHT => (Rules!Attacks(f, o, s) <=> o # s /\ {dx, dy} = {1, 2})
       /\ pt = KING => (Rules!Attacks(f, o, s) <=> o # s /\ dx <= 1 /\ dy <= 1)
       /\ pt = BISHOP => (Rules!Attacks(f, o, s) <=> o # s /\ dx = dy /\ clear)
       /\ pt = ROOK => (Rules!Attacks(f, o, s) <=> o # s /\ (dx = 0 \/ dy = 0) /\ clear)
       /\ pt = QUEEN => (Rules!Attacks(f, o, s) <=> o # s /\ (dx = dy \/ dx = 0 \/ dy = 0) /\ clear)
  BY <1>3 DEF Rules!Attacks, PAWN, KNIGHT, KING, BISHOP, ROOK, QUEEN
<1> HIDE DEF dx, dy, clear, A, pawns
<1>11. pt \in {PAWN, KNIGHT, BISHOP, ROOK, QUEEN, KING}
  BY DEF PieceType
<1>12. /\ PAWN \notin {KNIGHT, BISHOP, ROOK, QUEEN, KING} /\ KNIGHT \notin {BISHOP, ROOK, QUEEN, KING}
       /\ BISHOP \notin {ROOK, QUEEN, KING} /\ ROOK \notin {QUEEN, KING} /\ QUEEN # KING
  BY DEF PAWN, KNIGHT, KING, BISHOP, ROOK, QUEEN
<1>13. {dx, dy} = {1, 2} => ~(dx = 0 /\ dy = 0)
  OBVIOUS
<1>14. CASE pt = PAWN
  BY <1>4, <1>7, <1>9, <1>10, <1>12, <1>14 DEF A
<1>15. CASE pt = KNIGHT
  BY <1>4, <1>5, <1>6, <1>9, <1>10, <1>12, <1>13, <1>15 DEF A
<1>16. CASE pt = KING
  BY <1>4, <1>5, <1>6, <1>10, <1>12, <1>16 DEF A
<1>17. CASE pt = BISHOP
  BY <1>4, <1>5, <1>8, <1>10, <1>12, <1>17 DEF A
<1>18. CASE pt = ROOK
  BY <1>4, <1>5, <1>8, <1>10, <1>12, <1>18 DEF A
<1>19. CASE pt = QUEEN
  BY <1>4, <1>5, <1>8, <1>10, <1>12, <1>19 DEF A
<1> QED BY <1>11, <1>14, <1>15, <1>16, <1>17, <1>18, <1>19
\* attackers_to finds, from the target outward, just the pieces that attack it by the
\* rules, which look from each piece at the target.
THEOREM AttackersByTheRules ==
  ASSUME NEW b, DOMAIN b \subseteq Square, \A q \in DOMAIN b : b[q] \in Piece, NEW s \in Square
  PROVE  attackers_to(b, s, pieces(b)) = {o \in DOMAIN b : Rules!Attacks(b, o, s)}
<1>1. attackers_to(b, s, pieces(b)) \subseteq DOMAIN b
  BY DEF attackers_to, SlidersOn, PiecesOfType
<1>2. ASSUME NEW o \in DOMAIN b
      PROVE  o \in attackers_to(b, s, pieces(b)) <=> Rules!Attacks(b, o, s)
  <2>1. pieces(b) \in SUBSET Square /\ \A q \in Square : q \in pieces(b) <=> q \in DOMAIN b
    BY DEF pieces
  <2> QED BY <2>1, AttackersThrough
<1> QED BY <1>1, <1>2

\* The sign of a product.
LEMMA Products ==
  ASSUME NEW z \in -7 .. 7, NEW w \in -7 .. 7
  PROVE  z * w <= 0 <=> (z <= 0 /\ w >= 0) \/ (z >= 0 /\ w <= 0)
<1>1. z \in {-7, -6, -5, -4, -3, -2, -1, 0, 1, 2, 3, 4, 5, 6, 7}
  OBVIOUS
<1> QED BY <1>1

\* The coordinate i is j's or w's or lies between them.
Amid(i, j, w) == (j <= i /\ i <= w) \/ (w <= i /\ i <= j)

\* On the four kinds of line q lies strictly between o and s when it is on the line and
\* its coordinates are between theirs.
Mid(q, o, s) ==
  LET x == file_of(s)  y == rank_of(s)
      u == file_of(o)  v == rank_of(o)
      p == file_of(q)  r == rank_of(q)
  IN  /\ ~(p = x /\ r = y) /\ ~(p = u /\ r = v)
      /\ Amid(p, x, u) /\ Amid(r, y, v)
      /\ \/ x = u /\ p = x
         \/ y = v /\ r = y
         \/ x - y = u - v /\ p - r = x - y
         \/ x + y = u + v /\ p + r = x + y

\* The equation of a line through two squares of different files and ranks on a diagonal.
LEMMA DiagonalEquation ==
  ASSUME NEW e \in -7 .. 7, e # 0, NEW p \in -7 .. 7, NEW r \in -7 .. 7
  PROVE  /\ p * e = r * e <=> p = r
         /\ p * (-e) = r * e <=> p = -r
<1>1. e \in {-7, -6, -5, -4, -3, -2, -1, 1, 2, 3, 4, 5, 6, 7}
  OBVIOUS
<1> QED BY <1>1

\* On those lines that is what the rules mean by strictly between.
LEMMA MidIsInterposed ==
  ASSUME NEW q \in Square, NEW o \in Square, NEW s \in Square, Shaped(QUEEN, o, s)
  PROVE  Rules!Interposed(q, o, s) <=> Mid(q, o, s)
<1> DEFINE x == file_of(s)  y == rank_of(s)  u == file_of(o)  v == rank_of(o)
           p == file_of(q)  r == rank_of(q)
<1>1. /\ x \in 0 .. 7 /\ y \in 0 .. 7 /\ s = 8 * y + x
      /\ u \in 0 .. 7 /\ v \in 0 .. 7 /\ o = 8 * v + u
      /\ p \in 0 .. 7 /\ r \in 0 .. 7 /\ q = 8 * r + p
  BY Coordinates
<1>2. Rules!Interposed(q, o, s) <=>
        /\ q # o /\ q # s
        /\ (p - u) * (y - v) = (r - v) * (x - u)
        /\ (p - u) * (p - x) <= 0
        /\ (r - v) * (r - y) <= 0
  BY DEF Rules!Interposed, Rules!X, Rules!Y, file_of, rank_of
<1>3. o # s /\ (x = u \/ y = v \/ x - u = y - v \/ x - u = -(y - v))
  <2>1. Rules!X(s) = x /\ Rules!X(o) = u /\ Rules!Y(s) = y /\ Rules!Y(o) = v
    BY DEF Rules!X, Rules!Y, file_of, rank_of
  <2>2. QUEEN # BISHOP /\ QUEEN # ROOK
    BY DEF QUEEN, BISHOP, ROOK
  <2> HIDE DEF x, y, u, v
  <2> QED BY <1>1, <2>1, <2>2 DEF Shaped, Rules!Abs
<1> HIDE DEF x, y, u, v, p, r
<1>4. /\ (p - u) * (p - x) <= 0 <=> Amid(p, x, u)
      /\ (r - v) * (r - y) <= 0 <=> Amid(r, y, v)
  <2>1. /\ p - u \in -7 .. 7 /\ p - x \in -7 .. 7 /\ r - v \in -7 .. 7 /\ r - y \in -7 .. 7
    BY <1>1
  <2>2. /\ (p - u) * (p - x) <= 0 <=> (p - u <= 0 /\ p - x >= 0) \/ (p - u >= 0 /\ p - x <= 0)
        /\ (r - v) * (r - y) <= 0 <=> (r - v <= 0 /\ r - y >= 0) \/ (r - v >= 0 /\ r - y <= 0)
    BY <2>1, Products
  <2> DEFINE a == (p - u) * (p - x) <= 0  b == (r - v) * (r - y) <= 0
  <2> HIDE DEF a, b
  <2>3. (a <=> Amid(p, x, u)) /\ (b <=> Amid(r, y, v))
    BY <1>1, <2>2 DEF a, b, Amid
  <2> QED BY <2>3 DEF a, b
<1> DEFINE eqn == (p - u) * (y - v) = (r - v) * (x - u)
           kind == \/ x = u /\ p = x
                   \/ y = v /\ r = y
                   \/ x - y = u - v /\ p - r = x - y
                   \/ x + y = u + v /\ p + r = x + y
<1>5. eqn <=> kind
  <2>1. CASE x = u
    <3>1. y # v /\ y - v \in -7 .. 7 /\ y - v # 0
      BY <1>1, <1>3, <2>1
    <3>2. (r - v) * (x - u) = 0
      BY <1>1, <2>1
    <3>3. (p - u) * (y - v) = 0 <=> p = u
      <4>1. p - u \in -7 .. 7
        BY <1>1
      <4>2. (p - u) * (y - v) = 0 * (y - v) <=> p - u = 0
        BY <3>1, <4>1, DiagonalEquation
      <4>3. 0 * (y - v) = 0 /\ (p - u = 0 <=> p = u)
        BY <1>1
      <4> QED BY <4>2, <4>3
    <3>4. kind <=> p = u
      BY <1>1, <2>1, <3>1
    <3> HIDE DEF kind
    <3> QED BY <3>2, <3>3, <3>4
  <2>2. CASE y = v
    <3>1. x # u /\ x - u \in -7 .. 7 /\ x - u # 0
      BY <1>1, <1>3, <2>2
    <3>2. (p - u) * (y - v) = 0
      BY <1>1, <2>2
    <3>3. (r - v) * (x - u) = 0 <=> r = v
      <4>1. r - v \in -7 .. 7
        BY <1>1
      <4>2. (r - v) * (x - u) = 0 * (x - u) <=> r - v = 0
        BY <3>1, <4>1, DiagonalEquation
      <4>3. 0 * (x - u) = 0 /\ (r - v = 0 <=> r = v)
        BY <1>1
      <4> QED BY <4>2, <4>3
    <3>4. kind <=> r = v
      BY <1>1, <2>2, <3>1
    <3> HIDE DEF kind
    <3> QED BY <3>2, <3>3, <3>4
  <2>3. CASE x # u /\ y # v /\ x - u = y - v
    <3>1. x - u \in -7 .. 7 /\ x - u # 0 /\ p - u \in -7 .. 7 /\ r - v \in -7 .. 7
      BY <1>1, <2>3
    <3>2. (p - u) * (x - u) = (r - v) * (x - u) <=> p - u = r - v
      BY <3>1, DiagonalEquation
    <3>3. eqn <=> p - u = r - v
      BY <2>3, <3>2
    <3>4. kind <=> p - u = r - v
      BY <1>1, <2>3
    <3> HIDE DEF kind, eqn
    <3> QED BY <3>3, <3>4
  <2>4. CASE x # u /\ y # v /\ x - u = -(y - v)
    <3>1. x - u \in -7 .. 7 /\ x - u # 0 /\ p - u \in -7 .. 7 /\ r - v \in -7 .. 7 /\ y - v = -(x - u)
      BY <1>1, <2>4
    <3>2. (p - u) * (-(x - u)) = (r - v) * (x - u) <=> p - u = -(r - v)
      BY <3>1, DiagonalEquation
    <3>3. eqn <=> p - u = -(r - v)
      BY <3>1, <3>2
    <3>4. kind <=> p - u = -(r - v)
      BY <1>1, <2>4
    <3> HIDE DEF kind, eqn
    <3> QED BY <3>3, <3>4
  <2> QED BY <1>3, <2>1, <2>2, <2>3, <2>4
<1>6. /\ q # o <=> ~(p = u /\ r = v)
      /\ q # s <=> ~(p = x /\ r = y)
  BY <1>1
<1>7. Mid(q, o, s) <=>
        /\ ~(p = x /\ r = y) /\ ~(p = u /\ r = v)
        /\ Amid(p, x, u) /\ Amid(r, y, v) /\ kind
  BY DEF Mid, x, y, u, v, p, r
<1> HIDE DEF kind
<1> QED BY <1>2, <1>4, <1>5, <1>6, <1>7

\* Each of two squares of a line sees the other's side of it and nothing past the other.
LEMMA BetweenByTheRules ==
  ASSUME NEW a \in Square, NEW b \in Square
  PROVE  BetweenBB[a][b] = {q \in Square : Shaped(QUEEN, b, a) /\ Rules!Interposed(q, b, a)}
<1>1. ROOK \notin {KNIGHT, KING} /\ BISHOP \notin {KNIGHT, KING} /\ ROOK # BISHOP /\ QUEEN # ROOK /\ QUEEN # BISHOP
  BY DEF ROOK, BISHOP, QUEEN, KNIGHT, KING
<1> DEFINE Alone(s) == [w \in {s} |-> 0]
<1>2. ASSUME NEW pt \in {BISHOP, ROOK}, NEW s \in Square, NEW t \in Square, NEW q \in Square
      PROVE  q \in attacks_bb(pt, s, {t}) <=> Shaped(pt, q, s) /\ ~Rules!Interposed(t, q, s)
  <2>1. attacks_bb(pt, s, {t}) = sliding_attack(pt, s, {t}) /\ pt \in {BISHOP, ROOK, QUEEN}
    BY <1>1 DEF attacks_bb
  <2>2. DOMAIN Alone(t) = {t}
    OBVIOUS
  <2>3. Rules!ClearLine(Alone(t), q, s) <=> ~Rules!Interposed(t, q, s)
    BY <2>2 DEF Rules!ClearLine
  <2>4. q \in sliding_attack(pt, s, DOMAIN Alone(t)) <=> Shaped(pt, q, s) /\ Rules!ClearLine(Alone(t), q, s)
    <3> HIDE DEF Alone
    <3>1. DOMAIN Alone(t) \subseteq Square
      BY <2>2
    <3> QED BY <2>1, <3>1, SlidingByTheRules
  <2> HIDE DEF Alone
  <2> QED BY <2>1, <2>2, <2>3, <2>4
<1>3. ASSUME NEW pt \in {BISHOP, ROOK}
      PROVE  pt \in SliderJoining(a, b) <=> Shaped(pt, b, a)
  <2>1. pt \in PieceType \ {PAWN} /\ pt \in {BISHOP, ROOK, QUEEN}
    BY DEF PieceType, BISHOP, ROOK, PAWN
  <2>2. PseudoAttacks[pt][a] = sliding_attack(pt, a, {})
    BY <1>1, <2>1 DEF PseudoAttacks, attacks_bb
  <2>3. DOMAIN << >> = {}
    OBVIOUS
  <2>4. Rules!ClearLine(<< >>, b, a)
    BY <2>3 DEF Rules!ClearLine
  <2>5. b \in sliding_attack(pt, a, DOMAIN << >>) <=> Shaped(pt, b, a) /\ Rules!ClearLine(<< >>, b, a)
    <3>1. DOMAIN << >> \subseteq Square
      BY <2>3
    <3> QED BY <2>1, <3>1, SlidingByTheRules
  <2>6. b \in sliding_attack(pt, a, {}) <=> Shaped(pt, b, a)
    BY <2>3, <2>4, <2>5
  <2> QED BY <2>2, <2>6 DEF SliderJoining
<1>4. \A q : q \in BetweenBB[a][b] <=>
        \E pt \in {BISHOP, ROOK} : /\ Shaped(pt, b, a)
                                   /\ q \in attacks_bb(pt, a, {b}) /\ q \in attacks_bb(pt, b, {a})
  <2>1. BetweenBB[a][b] = UNION {attacks_bb(pt, a, {b}) \cap attacks_bb(pt, b, {a}) : pt \in SliderJoining(a, b)}
    BY DEF BetweenBB
  <2>2. \A pt : pt \in SliderJoining(a, b) <=> pt \in {BISHOP, ROOK} /\ Shaped(pt, b, a)
    BY <1>3 DEF SliderJoining
  <2> QED BY <2>1, <2>2
<1>5. ASSUME NEW q \in BetweenBB[a][b] PROVE q \in Square
  <2>1. PICK pt \in {BISHOP, ROOK} : q \in attacks_bb(pt, a, {b})
    BY <1>4
  <2>2. q \in sliding_attack(pt, a, {b})
    BY <1>1, <2>1 DEF attacks_bb
  <2> QED BY <2>2, SlidingOnBoard
<1>6. Shaped(QUEEN, b, a) <=> Shaped(ROOK, b, a) \/ Shaped(BISHOP, b, a)
  BY <1>1 DEF Shaped
<1>7. ASSUME NEW q \in Square
      PROVE  (\E pt \in {BISHOP, ROOK} : /\ Shaped(pt, b, a)
                                         /\ Shaped(pt, q, a) /\ ~Rules!Interposed(b, q, a)
                                         /\ Shaped(pt, q, b) /\ ~Rules!Interposed(a, q, b))
               <=> Shaped(QUEEN, b, a) /\ Rules!Interposed(q, b, a)
  <2> DEFINE x == file_of(a)  y == rank_of(a)  u == file_of(b)  v == rank_of(b)
             p == file_of(q)  r == rank_of(q)
  <2>1. /\ x \in 0 .. 7 /\ y \in 0 .. 7 /\ a = 8 * y + x
        /\ u \in 0 .. 7 /\ v \in 0 .. 7 /\ b = 8 * v + u
        /\ p \in 0 .. 7 /\ r \in 0 .. 7 /\ q = 8 * r + p
    BY Coordinates
  <2> DEFINE Straight(i, j, k, l) == ~(i = k /\ j = l) /\ (i = k \/ j = l)
             Slant(i, j, k, l) == ~(i = k /\ j = l) /\ (i - j = k - l \/ i + j = k + l)
             Betw(i, j, k, l, m, n) ==
               /\ ~(i = m /\ j = n) /\ ~(i = k /\ j = l)
               /\ Amid(i, m, k) /\ Amid(j, n, l)
               /\ \/ m = k /\ i = m
                  \/ n = l /\ j = n
                  \/ m - n = k - l /\ i - j = m - n
                  \/ m + n = k + l /\ i + j = m + n
  <2>2. ASSUME NEW s \in Square, NEW t \in Square
        PROVE  /\ Shaped(ROOK, s, t) <=> Straight(file_of(s), rank_of(s), file_of(t), rank_of(t))
               /\ Shaped(BISHOP, s, t) <=> Slant(file_of(s), rank_of(s), file_of(t), rank_of(t))
    <3> DEFINE i == file_of(s)  j == rank_of(s)  k == file_of(t)  l == rank_of(t)
    <3>1. /\ i \in 0 .. 7 /\ j \in 0 .. 7 /\ s = 8 * j + i
          /\ k \in 0 .. 7 /\ l \in 0 .. 7 /\ t = 8 * l + k
      BY Coordinates
    <3>2. Rules!X(s) = i /\ Rules!X(t) = k /\ Rules!Y(s) = j /\ Rules!Y(t) = l
      BY DEF Rules!X, Rules!Y, file_of, rank_of
    <3> HIDE DEF i, j, k, l
    <3>3. /\ Rules!Abs(k - i) = 0 <=> i = k
          /\ Rules!Abs(l - j) = 0 <=> j = l
          /\ Rules!Abs(k - i) = Rules!Abs(l - j) <=> i - j = k - l \/ i + j = k + l
          /\ s # t <=> ~(i = k /\ j = l)
      BY <3>1 DEF Rules!Abs
    <3>4. Shaped(ROOK, s, t) <=> s # t /\ (Rules!Abs(k - i) = 0 \/ Rules!Abs(l - j) = 0)
      BY <1>1, <3>2 DEF Shaped
    <3>5. Shaped(BISHOP, s, t) <=> s # t /\ Rules!Abs(k - i) = Rules!Abs(l - j)
      BY <1>1, <3>2 DEF Shaped
    <3> QED BY <3>3, <3>4, <3>5 DEF i, j, k, l
  <2>3. ASSUME NEW s \in Square, NEW t \in Square, NEW w \in Square, NEW pt \in {BISHOP, ROOK, QUEEN},
               Shaped(pt, s, t)
        PROVE  Rules!Interposed(w, s, t) <=> Mid(w, s, t)
    <3>1. Shaped(QUEEN, s, t)
      BY <1>1, <2>3 DEF Shaped
    <3> QED BY <3>1, MidIsInterposed
  <2>4. ASSUME NEW s, NEW t, NEW w
        PROVE  Mid(w, s, t) = Betw(file_of(w), rank_of(w), file_of(s), rank_of(s), file_of(t), rank_of(t))
    BY DEF Mid
  <2>5. ASSUME NEW pt \in {BISHOP, ROOK}
        PROVE  (/\ Shaped(pt, b, a)
                /\ Shaped(pt, q, a) /\ ~Rules!Interposed(b, q, a)
                /\ Shaped(pt, q, b) /\ ~Rules!Interposed(a, q, b))
                 <=> Shaped(pt, b, a) /\ Rules!Interposed(q, b, a)
    <3> DEFINE ln(i, j, k, l) == IF pt = ROOK THEN Straight(i, j, k, l) ELSE Slant(i, j, k, l)
    <3>1. /\ Shaped(pt, b, a) <=> ln(u, v, x, y)
          /\ Shaped(pt, q, a) <=> ln(p, r, x, y)
          /\ Shaped(pt, q, b) <=> ln(p, r, u, v)
      BY <1>1, <2>2
    <3>2. /\ Shaped(pt, q, a) => (Rules!Interposed(b, q, a) <=> Betw(u, v, p, r, x, y))
          /\ Shaped(pt, q, b) => (Rules!Interposed(a, q, b) <=> Betw(x, y, p, r, u, v))
          /\ Shaped(pt, b, a) => (Rules!Interposed(q, b, a) <=> Betw(p, r, u, v, x, y))
      <4>1. /\ Shaped(pt, q, a) => (Rules!Interposed(b, q, a) <=> Mid(b, q, a))
            /\ Shaped(pt, q, b) => (Rules!Interposed(a, q, b) <=> Mid(a, q, b))
            /\ Shaped(pt, b, a) => (Rules!Interposed(q, b, a) <=> Mid(q, b, a))
        BY <2>3
      <4>2. /\ Mid(b, q, a) = Betw(u, v, p, r, x, y)
            /\ Mid(a, q, b) = Betw(x, y, p, r, u, v)
            /\ Mid(q, b, a) = Betw(p, r, u, v, x, y)
        BY <2>4
      <4> HIDE DEF Betw
      <4> QED BY <4>1, <4>2
    <3> HIDE DEF x, y, u, v, p, r
    <3>3. CASE pt = ROOK
      <4>1. (/\ Straight(u, v, x, y) /\ Straight(p, r, x, y) /\ ~Betw(u, v, p, r, x, y)
             /\ Straight(p, r, u, v) /\ ~Betw(x, y, p, r, u, v))
              <=> Straight(u, v, x, y) /\ Betw(p, r, u, v, x, y)
        BY <2>1 DEF Amid
      <4> HIDE DEF Straight, Slant, Betw
      <4> QED BY <3>1, <3>2, <3>3, <4>1
    <3>4. CASE pt = BISHOP
      <4>1. (/\ Slant(u, v, x, y) /\ Slant(p, r, x, y) /\ ~Betw(u, v, p, r, x, y)
             /\ Slant(p, r, u, v) /\ ~Betw(x, y, p, r, u, v))
              <=> Slant(u, v, x, y) /\ Betw(p, r, u, v, x, y)
        BY <2>1 DEF Amid
      <4> HIDE DEF Straight, Slant, Betw
      <4> QED BY <1>1, <3>1, <3>2, <3>4, <4>1
    <3> QED BY <3>3, <3>4
  <2> QED BY <1>6, <2>5
<1>8. ASSUME NEW q \in Square
      PROVE  q \in BetweenBB[a][b] <=> Shaped(QUEEN, b, a) /\ Rules!Interposed(q, b, a)
  BY <1>2, <1>4, <1>7
<1> QED BY <1>5, <1>8

-----------------------------------------------------------------------------
(* Pins: slider_blockers finds the pieces whose removal exposes the king. *)

\* A set of small numbers has a least one.
LEMMA Least ==
  ASSUME NEW A \in SUBSET (1 .. 7), A # {}
  PROVE  \E m \in A : \A n \in A : m <= n
<1>1. CASE 1 \in A
  BY <1>1
<1>2. CASE 1 \notin A /\ 2 \in A
  BY <1>2
<1>3. CASE 1 \notin A /\ 2 \notin A /\ 3 \in A
  BY <1>3
<1>4. CASE 1 \notin A /\ 2 \notin A /\ 3 \notin A /\ 4 \in A
  BY <1>4
<1>5. CASE A \subseteq {5, 6, 7}
  <2>1. CASE 5 \in A
    BY <1>5, <2>1
  <2>2. CASE 5 \notin A /\ 6 \in A
    BY <1>5, <2>2
  <2>3. CASE 5 \notin A /\ 6 \notin A
    <3>1. PICK m \in A : TRUE
      OBVIOUS
    <3>2. \A n \in A : n = 7
      BY <1>5, <2>3
    <3>3. \A n \in A : m <= n
      BY <3>1, <3>2
    <3> QED BY <3>1, <3>3
  <2> QED BY <2>1, <2>2, <2>3
<1> QED BY <1>1, <1>2, <1>3, <1>4, <1>5

\* A slider of color e that would attack k on an empty board.
Sniper(b, e, k, o) ==
  /\ o \in DOMAIN b /\ b[o][1] = e
  /\ \/ b[o][2] \in {ROOK, QUEEN} /\ Shaped(ROOK, o, k)
     \/ b[o][2] \in {BISHOP, QUEEN} /\ Shaped(BISHOP, o, k)

\* A sniper attacks the square as soon as its line to it is clear, ...
LEMMA SniperStrikes ==
  ASSUME NEW b, NEW e, NEW k, NEW o, Sniper(b, e, k, o), NEW f, f[o] = b[o]
  PROVE  Rules!Attacks(f, o, k) <=> Rules!ClearLine(f, o, k)
<1>1. /\ PAWN \notin {BISHOP, ROOK, QUEEN} /\ KNIGHT \notin {BISHOP, ROOK, QUEEN}
      /\ KING \notin {BISHOP, ROOK, QUEEN} /\ BISHOP # ROOK /\ BISHOP # QUEEN /\ ROOK # QUEEN
  BY DEF PAWN, KNIGHT, KING, BISHOP, ROOK, QUEEN
<1> DEFINE dx == Rules!Abs(Rules!X(k) - Rules!X(o))  dy == Rules!Abs(Rules!Y(k) - Rules!Y(o))
<1>2. /\ Shaped(ROOK, o, k) <=> o # k /\ (dx = 0 \/ dy = 0)
      /\ Shaped(BISHOP, o, k) <=> o # k /\ dx = dy
  BY <1>1 DEF Shaped
<1>3. /\ f[o][2] = BISHOP => (Rules!Attacks(f, o, k) <=> o # k /\ dx = dy /\ Rules!ClearLine(f, o, k))
      /\ f[o][2] = ROOK => (Rules!Attacks(f, o, k) <=> o # k /\ (dx = 0 \/ dy = 0) /\ Rules!ClearLine(f, o, k))
      /\ f[o][2] = QUEEN =>
           (Rules!Attacks(f, o, k) <=> o # k /\ (dx = dy \/ dx = 0 \/ dy = 0) /\ Rules!ClearLine(f, o, k))
  BY DEF Rules!Attacks, PAWN, KNIGHT, KING, BISHOP, ROOK, QUEEN
<1> HIDE DEF dx, dy
<1>4. /\ f[o][2] = b[o][2]
      /\ \/ b[o][2] \in {ROOK, QUEEN} /\ o # k /\ (dx = 0 \/ dy = 0)
         \/ b[o][2] \in {BISHOP, QUEEN} /\ o # k /\ dx = dy
  BY <1>2 DEF Sniper
<1> QED BY <1>3, <1>4

\* ... and any other piece does or does not, whatever stands elsewhere.
LEMMA OthersAttackAnyway ==
  ASSUME NEW b, NEW e, NEW k, NEW o \in DOMAIN b, b[o] \in Piece, b[o][1] = e, ~Sniper(b, e, k, o),
         NEW f, f[o] = b[o]
  PROVE  Rules!Attacks(f, o, k) <=> Rules!Attacks(b, o, k)
<1>1. /\ BISHOP # ROOK /\ BISHOP # QUEEN /\ ROOK # QUEEN
      /\ b[o][2] \in {PAWN, KNIGHT, BISHOP, ROOK, QUEEN, KING}
  BY DEF BISHOP, ROOK, QUEEN, Piece, PieceType
<1> DEFINE dx == Rules!Abs(Rules!X(k) - Rules!X(o))  dy == Rules!Abs(Rules!Y(k) - Rules!Y(o))
           ahead == Rules!Y(k) - Rules!Y(o) = Rules!Forward(b[o][1])
<1>2. /\ Shaped(ROOK, o, k) <=> o # k /\ (dx = 0 \/ dy = 0)
      /\ Shaped(BISHOP, o, k) <=> o # k /\ dx = dy
  BY <1>1 DEF Shaped
<1>3. ASSUME NEW g, g[o] = b[o]
      PROVE  /\ g[o][2] = BISHOP => (Rules!Attacks(g, o, k) <=> o # k /\ dx = dy /\ Rules!ClearLine(g, o, k))
             /\ g[o][2] = ROOK =>
                  (Rules!Attacks(g, o, k) <=> o # k /\ (dx = 0 \/ dy = 0) /\ Rules!ClearLine(g, o, k))
             /\ g[o][2] = QUEEN =>
                  (Rules!Attacks(g, o, k) <=> o # k /\ (dx = dy \/ dx = 0 \/ dy = 0) /\ Rules!ClearLine(g, o, k))
             /\ g[o][2] = PAWN => (Rules!Attacks(g, o, k) <=> o # k /\ dx = 1 /\ ahead)
             /\ g[o][2] = KNIGHT => (Rules!Attacks(g, o, k) <=> o # k /\ {dx, dy} = {1, 2})
             /\ g[o][2] = KING => (Rules!Attacks(g, o, k) <=> o # k /\ dx <= 1 /\ dy <= 1)
  BY <1>3 DEF Rules!Attacks, PAWN, KNIGHT, KING, BISHOP, ROOK, QUEEN
<1>4. /\ b[o][2] \in {ROOK, QUEEN} => ~(o # k /\ (dx = 0 \/ dy = 0))
      /\ b[o][2] \in {BISHOP, QUEEN} => ~(o # k /\ dx = dy)
  BY <1>2 DEF Sniper
<1> DEFINE F == Rules!Attacks(f, o, k)  B == Rules!Attacks(b, o, k)
           atKnight == {dx, dy} = {1, 2}  atKing == dx <= 1 /\ dy <= 1
           clearF == Rules!ClearLine(f, o, k)  clearB == Rules!ClearLine(b, o, k)
<1>5. /\ b[o][2] = BISHOP => (F <=> o # k /\ dx = dy /\ clearF) /\ (B <=> o # k /\ dx = dy /\ clearB)
      /\ b[o][2] = ROOK => (F <=> o # k /\ (dx = 0 \/ dy = 0) /\ clearF) /\ (B <=> o # k /\ (dx = 0 \/ dy = 0) /\ clearB)
      /\ b[o][2] = QUEEN => /\ (F <=> o # k /\ (dx = dy \/ dx = 0 \/ dy = 0) /\ clearF)
                            /\ (B <=> o # k /\ (dx = dy \/ dx = 0 \/ dy = 0) /\ clearB)
      /\ b[o][2] = PAWN => (F <=> o # k /\ dx = 1 /\ ahead) /\ (B <=> o # k /\ dx = 1 /\ ahead)
      /\ b[o][2] = KNIGHT => (F <=> o # k /\ atKnight) /\ (B <=> o # k /\ atKnight)
      /\ b[o][2] = KING => (F <=> o # k /\ atKing) /\ (B <=> o # k /\ atKing)
  BY <1>3
<1> HIDE DEF dx, dy, ahead, F, B, atKnight, atKing, clearF, clearB
<1>6. F <=> B
  BY <1>1, <1>4, <1>5
<1> QED BY <1>6 DEF F, B

\* The lines that slider_blockers looks at, and what it takes from them.
LEMMA BlockersListed ==
  ASSUME NEW b, DOMAIN b \subseteq Square, NEW e, NEW k \in Square, NEW s
  PROVE  s \in slider_blockers(b, PiecesOf(b, e), k) <=>
           \E o \in Square : /\ Sniper(b, e, k, o)
                             /\ \A q : q = s <=> /\ q \in DOMAIN b /\ ~Sniper(b, e, k, q)
                                                 /\ Rules!Interposed(q, o, k)
<1> DEFINE S == ((PseudoAttacks[ROOK][k] \cap SlidersOn(b, ROOK))
                   \cup (PseudoAttacks[BISHOP][k] \cap SlidersOn(b, BISHOP)))
                \cap PiecesOf(b, e)
           Between(o) == BetweenBB[k][o] \cap (DOMAIN b \ S)
<1>1. s \in slider_blockers(b, PiecesOf(b, e), k) <=> \E o \in S : Cardinality(Between(o)) = 1 /\ s \in Between(o)
  <2>1. slider_blockers(b, PiecesOf(b, e), k) = UNION {o \in {Between(n) : n \in S} : Cardinality(o) = 1}
    BY DEF slider_blockers, BlocksAlone, pieces
  <2> HIDE DEF Between, S
  <2> QED BY <2>1
<1>2. \A o : o \in S <=> Sniper(b, e, k, o)
  <2>1. ROOK \notin {KNIGHT, KING} /\ BISHOP \notin {KNIGHT, KING}
    BY DEF ROOK, BISHOP, KNIGHT, KING
  <2>2. ASSUME NEW pt \in {BISHOP, ROOK}, NEW o \in Square
        PROVE  o \in PseudoAttacks[pt][k] <=> Shaped(pt, o, k)
    <3>1. pt \in PieceType \ {PAWN} /\ pt \in {BISHOP, ROOK, QUEEN}
      BY DEF PieceType, BISHOP, ROOK, PAWN
    <3>2. PseudoAttacks[pt][k] = sliding_attack(pt, k, {})
      BY <2>1, <3>1 DEF PseudoAttacks, attacks_bb
    <3>3. DOMAIN << >> = {} /\ Rules!ClearLine(<< >>, o, k)
      BY DEF Rules!ClearLine
    <3>4. o \in sliding_attack(pt, k, DOMAIN << >>) <=> Shaped(pt, o, k) /\ Rules!ClearLine(<< >>, o, k)
      <4>1. DOMAIN << >> \subseteq Square
        BY <3>3
      <4> QED BY <3>1, <4>1, SlidingByTheRules
    <3> QED BY <3>2, <3>3, <3>4
  <2>3. ASSUME NEW o
        PROVE  o \in S <=> /\ o \in DOMAIN b /\ b[o][1] = e
                           /\ \/ o \in PseudoAttacks[ROOK][k] /\ b[o][2] \in {ROOK, QUEEN}
                              \/ o \in PseudoAttacks[BISHOP][k] /\ b[o][2] \in {BISHOP, QUEEN}
    BY DEF SlidersOn, PiecesOfType, PiecesOf
  <2> HIDE DEF S
  <2>4. ASSUME NEW o PROVE o \in S <=> Sniper(b, e, k, o)
    BY <2>2, <2>3 DEF Sniper
  <2> QED BY <2>4
<1> HIDE DEF S
<1>3. ASSUME NEW o, Sniper(b, e, k, o)
      PROVE  /\ o \in Square
             /\ \A q : q \in Between(o) <=> /\ q \in DOMAIN b /\ ~Sniper(b, e, k, q)
                                            /\ Rules!Interposed(q, o, k)
  <2>1. o \in Square
    BY <1>3 DEF Sniper
  <2>2. Shaped(QUEEN, o, k)
    BY <1>3 DEF Sniper, Shaped, ROOK, BISHOP, QUEEN
  <2>3. BetweenBB[k][o] = {q \in Square : Shaped(QUEEN, o, k) /\ Rules!Interposed(q, o, k)}
    BY <2>1, BetweenByTheRules
  <2> QED BY <1>2, <2>1, <2>2, <2>3
<1>4. ASSUME NEW o
      PROVE  Cardinality(Between(o)) = 1 /\ s \in Between(o) <=> \A q : q = s <=> q \in Between(o)
  <2> DEFINE T == Between(o)
  <2>1. IsFiniteSet(T)
    <3>1. IsFiniteSet(0 .. 63)
      <4>1. 0 \in Int /\ 63 \in Int
        OBVIOUS
      <4> QED BY <4>1, FS_Interval
    <3>2. T \subseteq 0 .. 63
      BY DEF Square
    <3> HIDE DEF T
    <3> QED BY <3>1, <3>2, FS_Subset
  <2>2. Cardinality(T) = 1 <=> \E x : T = {x}
    <3> HIDE DEF T
    <3> QED BY <2>1, FS_Singleton
  <2> HIDE DEF T
  <2>3. Cardinality(T) = 1 /\ s \in T <=> T = {s}
    BY <2>2
  <2>4. T = {s} <=> \A q : q = s <=> q \in T
    OBVIOUS
  <2> QED BY <2>3, <2>4 DEF T
<1> HIDE DEF Between
<1> QED BY <1>1, <1>2, <1>3, <1>4

\* With its king not attacked, the blockers of a side are the pieces that would uncover
\* an attack on it by leaving the board.
LEMMA BlockersByTheRules ==
  ASSUME NEW b, DOMAIN b \subseteq Square, \A q \in DOMAIN b : b[q] \in Piece,
         NEW e \in Color, NEW k \in Square, Rules!AttackersOf(b, e, k) = {},
         NEW s \in DOMAIN b, NEW f, DOMAIN f = DOMAIN b \ {s}, \A q \in DOMAIN f : f[q] = b[q]
  PROVE  s \in slider_blockers(b, PiecesOf(b, e), k) <=> Rules!AttackersOf(f, e, k) # {}
<1>1. \A o \in DOMAIN b : b[o][1] = e => ~Rules!Attacks(b, o, k)
  BY DEF Rules!AttackersOf
<1>2. Rules!AttackersOf(f, e, k) # {} <=> \E o \in DOMAIN f : b[o][1] = e /\ Rules!Attacks(f, o, k)
  BY DEF Rules!AttackersOf
<1>3. ASSUME NEW o \in Square, Sniper(b, e, k, o)
      PROVE  \E dx, dy \in Unit : \E n \in 1 .. 7 : ~(dx = 0 /\ dy = 0) /\ Reached(k, dx, dy, n, o)
  <2>1. PICK pt \in {BISHOP, ROOK, QUEEN} : Shaped(pt, o, k)
    BY <1>3 DEF Sniper
  <2>2. PICK dx \in Unit, dy \in Unit, n \in 1 .. 7 : Goes(pt, dx, dy) /\ Reached(k, dx, dy, n, o)
    BY <2>1, Shapes
  <2> QED BY <2>2 DEF Goes
\* The nearest sniper behind s has a clear line without it.
<1>4. ASSUME s \in slider_blockers(b, PiecesOf(b, e), k)
      PROVE  \E o \in DOMAIN f : b[o][1] = e /\ Rules!Attacks(f, o, k)
  <2>1. PICK o \in Square : /\ Sniper(b, e, k, o)
                            /\ \A q : q = s <=> /\ q \in DOMAIN b /\ ~Sniper(b, e, k, q)
                                                /\ Rules!Interposed(q, o, k)
    BY <1>4, BlockersListed
  <2>2. PICK dx \in Unit, dy \in Unit, n \in 1 .. 7 : ~(dx = 0 /\ dy = 0) /\ Reached(k, dx, dy, n, o)
    BY <1>3, <2>1
  <2> DEFINE Nth(j) == k + j * (8 * dy + dx)
  <2>3. n \in 0 .. 7 /\ InRange(k, dx, dy, n) /\ o = Nth(n)
    BY <2>2, ReachedOnce
  <2>4. ASSUME NEW m \in 1 .. n
        PROVE  Reached(k, dx, dy, m, Nth(m)) /\ Nth(m) \in Square
    <3>1. m \in 0 .. n /\ m \in 0 .. 7
      BY <2>2
    <3>2. InRange(k, dx, dy, m)
      BY <2>3, <3>1, Convex
    <3> QED BY <3>1, <3>2, WalkReaches DEF Reached
  <2>5. ASSUME NEW m \in 1 .. n, NEW q \in Square
        PROVE  Rules!Interposed(q, Nth(m), k) <=> \E j \in 1 .. m - 1 : q = Nth(j)
    <3>1. m \in 1 .. 7
      BY <2>2
    <3> QED BY <2>2, <2>4, <3>1, Interposition
  <2> DEFINE N == {j \in 1 .. 7 : j <= n /\ Sniper(b, e, k, Nth(j))}
  <2> HIDE DEF Nth
  <2>6. N \in SUBSET (1 .. 7) /\ n \in N
    BY <2>1, <2>3
  <2>7. PICK m \in N : \A j \in N : m <= j
    <3> HIDE DEF N
    <3> QED BY <2>6, Least
  <2>8. m \in 1 .. n /\ Sniper(b, e, k, Nth(m)) /\ \A j \in 1 .. m - 1 : ~Sniper(b, e, k, Nth(j))
    <3>1. m \in 1 .. 7 /\ m <= n /\ Sniper(b, e, k, Nth(m))
      BY <2>7
    <3>2. ASSUME NEW j \in 1 .. m - 1, Sniper(b, e, k, Nth(j)) PROVE FALSE
      <4>1. j \in N
        BY <3>1, <3>2
      <4> QED BY <2>7, <3>1, <3>2, <4>1
    <3> QED BY <3>1, <3>2
  <2>9. Nth(m) \in DOMAIN f /\ f[Nth(m)] = b[Nth(m)] /\ b[Nth(m)][1] = e
    <3>1. ~Sniper(b, e, k, s)
      BY <2>1
    <3>2. Nth(m) \in DOMAIN b /\ Nth(m) # s /\ b[Nth(m)][1] = e
      BY <2>8, <3>1 DEF Sniper
    <3> QED BY <3>2
  <2>10. ASSUME NEW q \in DOMAIN f, Rules!Interposed(q, Nth(m), k) PROVE FALSE
    <3>1. q \in DOMAIN b /\ q \in Square /\ q # s
      BY <2>10
    <3>2. PICK j \in 1 .. m - 1 : q = Nth(j)
      BY <2>5, <2>8, <2>10, <3>1
    <3>3. ~Sniper(b, e, k, q)
      BY <2>8, <3>2
    <3>4. j \in 1 .. n - 1 /\ n \in 1 .. n
      BY <2>8, <3>2
    <3>5. Rules!Interposed(q, o, k)
      BY <2>3, <2>5, <3>1, <3>2, <3>4
    <3> QED BY <2>1, <3>1, <3>3, <3>5
  <2>11. Rules!ClearLine(f, Nth(m), k)
    BY <2>10 DEF Rules!ClearLine
  <2>12. Rules!Attacks(f, Nth(m), k)
    BY <2>8, <2>9, <2>11, SniperStrikes
  <2> QED BY <2>9, <2>12
\* The attack that s hid is a sniper's, and s is all there is in its way.
<1>5. ASSUME NEW o \in DOMAIN f, b[o][1] = e, Rules!Attacks(f, o, k)
      PROVE  s \in slider_blockers(b, PiecesOf(b, e), k)
  <2>1. o \in DOMAIN b /\ o \in Square /\ f[o] = b[o] /\ b[o] \in Piece /\ ~Rules!Attacks(b, o, k)
    BY <1>1, <1>5
  <2>2. Sniper(b, e, k, o)
    BY <1>5, <2>1, OthersAttackAnyway
  <2>3. Rules!ClearLine(f, o, k) /\ ~Rules!ClearLine(b, o, k)
    BY <1>5, <2>1, <2>2, SniperStrikes
  <2>4. \A q \in DOMAIN b : Rules!Interposed(q, o, k) <=> q = s
    <3>1. \A q \in DOMAIN b : q # s => ~Rules!Interposed(q, o, k)
      BY <2>3 DEF Rules!ClearLine
    <3>2. \E q \in DOMAIN b : Rules!Interposed(q, o, k)
      BY <2>3 DEF Rules!ClearLine
    <3> QED BY <3>1, <3>2
  <2>5. PICK dx \in Unit, dy \in Unit, n \in 1 .. 7 : ~(dx = 0 /\ dy = 0) /\ Reached(k, dx, dy, n, o)
    BY <1>3, <2>1, <2>2
  <2> DEFINE Nth(j) == k + j * (8 * dy + dx)
  <2>6. s \in Square
    OBVIOUS
  <2>7. PICK i \in 1 .. n - 1 : s = Nth(i)
    BY <2>4, <2>5, <2>6, Interposition
  <2>8. i \in 1 .. 7 /\ i \in 0 .. 7 /\ i \in 0 .. n /\ n \in 0 .. 7 /\ i <= n - 1
    BY <2>5, <2>7
  <2>9. Reached(k, dx, dy, i, s)
    <3>1. InRange(k, dx, dy, n)
      BY <2>5, <2>8, ReachedOnce
    <3>2. InRange(k, dx, dy, i)
      BY <2>5, <2>8, <3>1, Convex
    <3> QED BY <2>7, <2>8, <3>2, WalkReaches
  <2>10. ASSUME NEW q \in DOMAIN b, Rules!Interposed(q, s, k) PROVE FALSE
    <3>1. q \in Square /\ q # s
      BY <2>10 DEF Rules!Interposed
    <3>2. PICK j \in 1 .. i - 1 : q = Nth(j)
      BY <2>5, <2>6, <2>8, <2>9, <2>10, <3>1, Interposition
    <3>3. j \in 1 .. n - 1
      BY <2>8, <3>2
    <3>4. Rules!Interposed(q, o, k)
      BY <2>5, <3>1, <3>2, <3>3, Interposition
    <3> QED BY <2>4, <3>1, <3>4
  <2>11. ~Sniper(b, e, k, s)
    <3>1. ASSUME Sniper(b, e, k, s) PROVE FALSE
      <4>1. Rules!ClearLine(b, s, k)
        BY <2>10 DEF Rules!ClearLine
      <4>2. Rules!Attacks(b, s, k)
        BY <3>1, <4>1, SniperStrikes
      <4> QED BY <1>1, <3>1, <4>2 DEF Sniper
    <3> QED BY <3>1
  <2>12. \A q : q = s <=> /\ q \in DOMAIN b /\ ~Sniper(b, e, k, q) /\ Rules!Interposed(q, o, k)
    BY <2>4, <2>11
  <2> QED BY <2>1, <2>2, <2>12, BlockersListed
<1> QED BY <1>2, <1>4, <1>5

\* Both kings are on the board.
BothKings == \A c \in Color : \E s \in DOMAIN board : board[s] = make_piece(c, KING)

\* In a sound position with both kings the cached blockers are exact.
LEMMA SoundBlockers ==
  ASSUME Sound(board, us, st), BothKings
  PROVE  BlockersExact
<1>1. /\ DOMAIN board \subseteq Square /\ \A q \in DOMAIN board : board[q] \in Piece
      /\ \A s, t \in DOMAIN board : board[s] = board[t] /\ board[s][2] = KING => s = t
      /\ st.blockersForKing = blockersForKing(board)
  BY DEF Sound, IsBoard
<1> SUFFICES ASSUME NEW c \in Color, ~Rules!InCheck(board, c),
                    NEW s \in DOMAIN board, s # Rules!King(board, c)
             PROVE  s \in st.blockersForKing[c] <=> Rules!InCheck(remove_piece(board, s), c)
  BY DEF BlockersExact
<1> DEFINE K == <<c, "king">>  f == remove_piece(board, s)  e == Opposite(c)
<1>2. PICK k \in DOMAIN board : board[k] = K
  BY DEF BothKings, make_piece, KING
<1>3. \A t \in DOMAIN board : board[t] = K <=> t = k
  <2>1. board[k][2] = KING
    BY <1>2 DEF KING
  <2> HIDE DEF K
  <2> QED BY <1>1, <1>2, <2>1
<1>4. king_square(board, c) = k /\ Rules!King(board, c) = k
  BY <1>2, <1>3 DEF king_square, Rules!King, make_piece, KING
<1>5. DOMAIN f = DOMAIN board \ {s} /\ \A q \in DOMAIN f : f[q] = board[q]
  BY DEF remove_piece, Restrict
<1>6. k \in Square /\ k \in DOMAIN f /\ e \in Color /\ e = Rules!Other(c)
  BY <1>1, <1>4, <1>5 DEF Opposite, Rules!Other, Color, WHITE, BLACK
<1> HIDE DEF K, f, e
<1>7. Rules!King(f, c) = k
  <2>1. \A t \in DOMAIN f : f[t] = K <=> t = k
    BY <1>3, <1>5
  <2> QED BY <1>6, <2>1 DEF Rules!King, K
<1>8. Rules!AttackersOf(board, e, k) = {}
  BY <1>4, <1>6 DEF Rules!InCheck
<1>9. s \in slider_blockers(board, PiecesOf(board, e), k) <=> Rules!AttackersOf(f, e, k) # {}
  <2>1. /\ DOMAIN board \subseteq Square /\ (\A q \in DOMAIN board : board[q] \in Piece) /\ e \in Color
        /\ k \in Square /\ Rules!AttackersOf(board, e, k) = {} /\ s \in DOMAIN board
        /\ DOMAIN f = DOMAIN board \ {s} /\ (\A q \in DOMAIN f : f[q] = board[q])
    BY <1>1, <1>5, <1>6, <1>8
  <2> QED BY ONLY <2>1, BlockersByTheRules
<1>10. st.blockersForKing[c] = slider_blockers(board, PiecesOf(board, e), k)
  BY <1>1, <1>4 DEF blockersForKing, e
<1>11. Rules!InCheck(f, c) <=> Rules!AttackersOf(f, e, k) # {}
  BY <1>6, <1>7 DEF Rules!InCheck
<1> QED BY <1>9, <1>10, <1>11 DEF f

\* However the position was reached, the blockers that do_move and do_null_move cache are
\* the pieces of either color whose removal exposes a king not in check (position.cpp:
\* slider_blockers, set_check_info); without a king on the board the cache means nothing.
THEOREM BlockersAlwaysExact == Spec => [](BothKings => BlockersExact)
<1>1. WalkInv /\ BothKings => BlockersExact
  BY CurrentIsSound, SoundBlockers
<1> QED BY <1>1, WalkInvariant, PTL
=============================================================================
