---------------------------- MODULE LegalityProofs ----------------------------
(***************************************************************************)
(* Proofs that generate<LEGAL> lists the legal moves of chess and no other *)
(* and that the caches it trusts stay exact: what a move uncovers and      *)
(* covers, what a move list leaves out, what gives_check foresees, what    *)
(* material a move takes and adds, and so why every position of a line     *)
(* that starts legally is legal; that the network's accumulators stay      *)
(* those of the board; and that the opening book means what it says.       *)
(***************************************************************************)
EXTENDS BoardProofs, NetworkFeatures, OpeningBook, WellFoundedInduction

-----------------------------------------------------------------------------
(* Lines by coordinates: what stays on a line, and what leaves it. *)

\* Rook's, bishop's and queen's lines, by files, ranks and diagonals.
LEMMA ShapedByCoordinates ==
  ASSUME NEW s \in Square, NEW t \in Square
  PROVE  LET i == file_of(s)  j == rank_of(s)  k == file_of(t)  l == rank_of(t)
         IN  /\ s # t <=> ~(i = k /\ j = l)
             /\ Shaped(ROOK, s, t) <=> ~(i = k /\ j = l) /\ (i = k \/ j = l)
             /\ Shaped(BISHOP, s, t) <=> ~(i = k /\ j = l) /\ (i - j = k - l \/ i + j = k + l)
             /\ Shaped(QUEEN, s, t) <=> Shaped(ROOK, s, t) \/ Shaped(BISHOP, s, t)
<1>1. QUEEN # ROOK /\ QUEEN # BISHOP /\ ROOK # BISHOP
  BY DEF QUEEN, ROOK, BISHOP
<1> DEFINE i == file_of(s)  j == rank_of(s)  k == file_of(t)  l == rank_of(t)
<1>2. /\ i \in 0 .. 7 /\ j \in 0 .. 7 /\ s = 8 * j + i
      /\ k \in 0 .. 7 /\ l \in 0 .. 7 /\ t = 8 * l + k
  BY Coordinates
<1>3. Rules!X(s) = i /\ Rules!X(t) = k /\ Rules!Y(s) = j /\ Rules!Y(t) = l
  BY DEF Rules!X, Rules!Y, file_of, rank_of
<1> HIDE DEF i, j, k, l
<1>4. /\ Rules!Abs(k - i) = 0 <=> i = k
      /\ Rules!Abs(l - j) = 0 <=> j = l
      /\ Rules!Abs(k - i) = Rules!Abs(l - j) <=> i - j = k - l \/ i + j = k + l
      /\ s # t <=> ~(i = k /\ j = l)
  BY <1>2 DEF Rules!Abs
<1>5. /\ Shaped(ROOK, s, t) <=> s # t /\ (Rules!Abs(k - i) = 0 \/ Rules!Abs(l - j) = 0)
      /\ Shaped(BISHOP, s, t) <=> s # t /\ Rules!Abs(k - i) = Rules!Abs(l - j)
      /\ Shaped(QUEEN, s, t) <=> Shaped(ROOK, s, t) \/ Shaped(BISHOP, s, t)
  BY <1>1, <1>3 DEF Shaped
<1> QED BY <1>4, <1>5 DEF i, j, k, l

\* Three squares on one rank, file or diagonal.
OnOneLine(a, b, c) ==
  LET x == file_of(a)  y == rank_of(a)
      u == file_of(b)  v == rank_of(b)
      p == file_of(c)  r == rank_of(c)
  IN  \/ x = u /\ u = p
      \/ y = v /\ v = r
      \/ x - y = u - v /\ u - v = p - r
      \/ x + y = u + v /\ u + v = p + r

\* line_bb holds, of a third square, just those on the one line of the first two.
LEMMA Alignment ==
  ASSUME NEW a \in Square, NEW b \in Square, NEW c \in Square, a # b, b # c, a # c
  PROVE  aligned(a, b, c) <=> OnOneLine(a, b, c)
<1>1. ROOK \notin {KNIGHT, KING} /\ BISHOP \notin {KNIGHT, KING}
  BY DEF ROOK, BISHOP, KNIGHT, KING
<1>2. ASSUME NEW pt \in {BISHOP, ROOK}, NEW s \in Square, NEW t \in Square
      PROVE  t \in PseudoAttacks[pt][s] <=> Shaped(pt, t, s)
  <2>1. pt \in PieceType \ {PAWN} /\ pt \in {BISHOP, ROOK, QUEEN}
    BY DEF PieceType, BISHOP, ROOK, PAWN
  <2>2. PseudoAttacks[pt][s] = sliding_attack(pt, s, {})
    BY <1>1, <2>1 DEF PseudoAttacks, attacks_bb
  <2>3. DOMAIN << >> = {} /\ Rules!ClearLine(<< >>, t, s)
    BY DEF Rules!ClearLine
  <2>4. t \in sliding_attack(pt, s, DOMAIN << >>) <=> Shaped(pt, t, s) /\ Rules!ClearLine(<< >>, t, s)
    <3>1. DOMAIN << >> \subseteq Square
      BY <2>3
    <3> QED BY <2>1, <3>1, SlidingByTheRules
  <2> QED BY <2>2, <2>3, <2>4
<1>3. aligned(a, b, c) <=>
        \E pt \in {BISHOP, ROOK} : Shaped(pt, b, a) /\ Shaped(pt, c, a) /\ Shaped(pt, c, b)
  <2>1. LineBB[a][b] = UNION {(PseudoAttacks[pt][a] \cap PseudoAttacks[pt][b]) \cup {a, b} :
                                pt \in SliderJoining(a, b)}
    BY DEF LineBB
  <2>2. \A pt : pt \in SliderJoining(a, b) <=> pt \in {BISHOP, ROOK} /\ b \in PseudoAttacks[pt][a]
    BY DEF SliderJoining
  <2>3. aligned(a, b, c) <=> \E pt \in {BISHOP, ROOK} : /\ b \in PseudoAttacks[pt][a]
                                                       /\ c \in PseudoAttacks[pt][a] /\ c \in PseudoAttacks[pt][b]
    BY <2>1, <2>2 DEF aligned
  <2> QED BY <1>2, <2>3
<1> DEFINE x == file_of(a)  y == rank_of(a)  u == file_of(b)  v == rank_of(b)
           p == file_of(c)  r == rank_of(c)
           Straight(i, j, k, l) == ~(i = k /\ j = l) /\ (i = k \/ j = l)
           Slant(i, j, k, l) == ~(i = k /\ j = l) /\ (i - j = k - l \/ i + j = k + l)
<1>4. /\ x \in 0 .. 7 /\ y \in 0 .. 7 /\ u \in 0 .. 7 /\ v \in 0 .. 7 /\ p \in 0 .. 7 /\ r \in 0 .. 7
      /\ ~(x = u /\ y = v) /\ ~(u = p /\ v = r) /\ ~(x = p /\ y = r)
  BY Coordinates, ShapedByCoordinates
<1>5. /\ Shaped(ROOK, b, a) <=> Straight(u, v, x, y)
      /\ Shaped(ROOK, c, a) <=> Straight(p, r, x, y)
      /\ Shaped(ROOK, c, b) <=> Straight(p, r, u, v)
      /\ Shaped(BISHOP, b, a) <=> Slant(u, v, x, y)
      /\ Shaped(BISHOP, c, a) <=> Slant(p, r, x, y)
      /\ Shaped(BISHOP, c, b) <=> Slant(p, r, u, v)
  BY ShapedByCoordinates
<1>6. OnOneLine(a, b, c) <=> \/ x = u /\ u = p
                             \/ y = v /\ v = r
                             \/ x - y = u - v /\ u - v = p - r
                             \/ x + y = u + v /\ u + v = p + r
  BY DEF OnOneLine
<1> HIDE DEF x, y, u, v, p, r
<1>7. Straight(u, v, x, y) /\ Straight(p, r, x, y) /\ Straight(p, r, u, v)
        <=> (x = u /\ u = p) \/ (y = v /\ v = r)
  BY <1>4
<1>8. Slant(u, v, x, y) /\ Slant(p, r, x, y) /\ Slant(p, r, u, v)
        <=> (x - y = u - v /\ u - v = p - r) \/ (x + y = u + v /\ u + v = p + r)
  BY <1>4
<1> HIDE DEF Straight, Slant
<1> QED BY <1>3, <1>5, <1>6, <1>7, <1>8

\* What keeps to the line between a king and a sniper is aligned with the king.
LEMMA KeepsToTheLine ==
  ASSUME NEW s \in Square, NEW t \in Square, NEW k \in Square, NEW o \in Square, s # t,
         Shaped(QUEEN, o, k), Rules!Interposed(s, o, k), t = o \/ Rules!Interposed(t, o, k)
  PROVE  aligned(s, t, k)
<1>1. Mid(s, o, k) /\ (t = o \/ Mid(t, o, k))
  BY MidIsInterposed
<1> DEFINE x == file_of(s)  y == rank_of(s)  u == file_of(t)  v == rank_of(t)
           p == file_of(k)  r == rank_of(k)  g == file_of(o)  h == rank_of(o)
<1>2. /\ x \in 0 .. 7 /\ y \in 0 .. 7 /\ u \in 0 .. 7 /\ v \in 0 .. 7
      /\ p \in 0 .. 7 /\ r \in 0 .. 7 /\ g \in 0 .. 7 /\ h \in 0 .. 7
      /\ ~(p = g /\ r = h)
  BY Coordinates, ShapedByCoordinates DEF Shaped
<1>3. s # k /\ t # k
  <2>1. s # k
    BY DEF Rules!Interposed
  <2>2. t # k
    BY DEF Rules!Interposed, Shaped
  <2> QED BY <2>1, <2>2
<1>4. OnOneLine(s, t, k)
  <2>1. /\ Amid(x, p, g) /\ Amid(y, r, h) /\ ~(x = p /\ y = r) /\ ~(x = g /\ y = h)
        /\ \/ p = g /\ x = p
           \/ r = h /\ y = r
           \/ p - r = g - h /\ x - y = p - r
           \/ p + r = g + h /\ x + y = p + r
    BY <1>1 DEF Mid
  <2>2. \/ u = g /\ v = h
        \/ /\ Amid(u, p, g) /\ Amid(v, r, h) /\ ~(u = p /\ v = r) /\ ~(u = g /\ v = h)
           /\ \/ p = g /\ u = p
              \/ r = h /\ v = r
              \/ p - r = g - h /\ u - v = p - r
              \/ p + r = g + h /\ u + v = p + r
    BY <1>1 DEF Mid
  <2> HIDE DEF x, y, u, v, p, r, g, h
  <2>3. \/ x = u /\ u = p
        \/ y = v /\ v = r
        \/ x - y = u - v /\ u - v = p - r
        \/ x + y = u + v /\ u + v = p + r
    BY <1>2, <2>1, <2>2 DEF Amid
  <2> QED BY <2>3 DEF OnOneLine, x, y, u, v, p, r
<1> QED BY <1>3, <1>4, Alignment

\* What moves along the line of a king and a sniper without jumping over either stays
\* between them.
LEMMA StaysBetween ==
  ASSUME NEW s \in Square, NEW t \in Square, NEW k \in Square, NEW o \in Square,
         s # t, t # k, t # o, Shaped(QUEEN, o, k), Rules!Interposed(s, o, k), aligned(s, t, k)
  PROVE  /\ Shaped(QUEEN, t, s)
         /\ Rules!Interposed(t, o, k) \/ Rules!Interposed(o, t, s) \/ Rules!Interposed(k, t, s)
<1>1. Mid(s, o, k)
  BY MidIsInterposed
<1> DEFINE x == file_of(s)  y == rank_of(s)  u == file_of(t)  v == rank_of(t)
           p == file_of(k)  r == rank_of(k)  g == file_of(o)  h == rank_of(o)
<1>2. s # k
  BY DEF Rules!Interposed
<1>3. /\ x \in 0 .. 7 /\ y \in 0 .. 7 /\ u \in 0 .. 7 /\ v \in 0 .. 7
      /\ p \in 0 .. 7 /\ r \in 0 .. 7 /\ g \in 0 .. 7 /\ h \in 0 .. 7
      /\ ~(p = g /\ r = h) /\ ~(x = u /\ y = v) /\ ~(p = u /\ r = v) /\ ~(g = u /\ h = v)
  BY Coordinates, ShapedByCoordinates DEF Shaped
<1>4. OnOneLine(s, t, k)
  BY <1>2, Alignment
<1>5. /\ Amid(x, p, g) /\ Amid(y, r, h) /\ ~(x = p /\ y = r) /\ ~(x = g /\ y = h)
      /\ \/ p = g /\ x = p
         \/ r = h /\ y = r
         \/ p - r = g - h /\ x - y = p - r
         \/ p + r = g + h /\ x + y = p + r
  BY <1>1 DEF Mid
<1>6. \/ x = u /\ u = p
      \/ y = v /\ v = r
      \/ x - y = u - v /\ u - v = p - r
      \/ x + y = u + v /\ u + v = p + r
  BY <1>4 DEF OnOneLine
<1>7. Shaped(QUEEN, t, s)
  <2>1. ~(u = x /\ v = y) /\ (u = x \/ v = y \/ u - v = x - y \/ u + v = x + y)
    <3> HIDE DEF x, y, u, v, p, r, g, h
    <3> QED BY <1>3, <1>6
  <2> QED BY <2>1, ShapedByCoordinates
<1>8. Mid(t, o, k) \/ Mid(o, t, s) \/ Mid(k, t, s)
  <2> DEFINE B(i, j, k1, l, m, n) ==
               /\ ~(i = m /\ j = n) /\ ~(i = k1 /\ j = l)
               /\ Amid(i, m, k1) /\ Amid(j, n, l)
               /\ \/ m = k1 /\ i = m
                  \/ n = l /\ j = n
                  \/ m - n = k1 - l /\ i - j = m - n
                  \/ m + n = k1 + l /\ i + j = m + n
  <2>1. /\ Mid(t, o, k) = B(u, v, g, h, p, r)
        /\ Mid(o, t, s) = B(g, h, u, v, x, y)
        /\ Mid(k, t, s) = B(p, r, u, v, x, y)
    BY DEF Mid
  <2> HIDE DEF x, y, u, v, p, r, g, h
  <2>2. B(u, v, g, h, p, r) \/ B(g, h, u, v, x, y) \/ B(p, r, u, v, x, y)
    BY <1>3, <1>5, <1>6 DEF Amid
  <2> HIDE DEF B
  <2> QED BY <2>1, <2>2
<1> QED BY <1>7, <1>8, MidIsInterposed

\* A line looks the same from its two ends.
LEMMA LinesBothWays ==
  ASSUME NEW o \in Square, NEW s \in Square
  PROVE  /\ \A pt \in {BISHOP, ROOK, QUEEN} : Shaped(pt, o, s) <=> Shaped(pt, s, o)
         /\ Shaped(QUEEN, o, s) => \A q \in Square : Rules!Interposed(q, o, s) <=> Rules!Interposed(q, s, o)
<1>1. \A pt \in {BISHOP, ROOK, QUEEN} : Shaped(pt, o, s) <=> Shaped(pt, s, o)
  <2> DEFINE i == file_of(o)  j == rank_of(o)  k == file_of(s)  l == rank_of(s)
  <2>1. i \in 0 .. 7 /\ j \in 0 .. 7 /\ k \in 0 .. 7 /\ l \in 0 .. 7
    BY Coordinates
  <2>2. /\ Shaped(ROOK, o, s) <=> ~(i = k /\ j = l) /\ (i = k \/ j = l)
        /\ Shaped(BISHOP, o, s) <=> ~(i = k /\ j = l) /\ (i - j = k - l \/ i + j = k + l)
        /\ Shaped(QUEEN, o, s) <=> Shaped(ROOK, o, s) \/ Shaped(BISHOP, o, s)
        /\ Shaped(ROOK, s, o) <=> ~(k = i /\ l = j) /\ (k = i \/ l = j)
        /\ Shaped(BISHOP, s, o) <=> ~(k = i /\ l = j) /\ (k - l = i - j \/ k + l = i + j)
        /\ Shaped(QUEEN, s, o) <=> Shaped(ROOK, s, o) \/ Shaped(BISHOP, s, o)
    BY ShapedByCoordinates
  <2> HIDE DEF i, j, k, l
  <2>3. i - j = k - l <=> k - l = i - j
    BY <2>1
  <2> QED BY <2>2, <2>3
<1>2. ASSUME Shaped(QUEEN, o, s), NEW q \in Square
      PROVE  Rules!Interposed(q, o, s) <=> Rules!Interposed(q, s, o)
  <2>1. Shaped(QUEEN, s, o)
    BY <1>1, <1>2
  <2>2. (Rules!Interposed(q, o, s) <=> Mid(q, o, s)) /\ (Rules!Interposed(q, s, o) <=> Mid(q, s, o))
    BY <1>2, <2>1, MidIsInterposed
  <2> DEFINE x == file_of(s)  y == rank_of(s)  u == file_of(o)  v == rank_of(o)
             p == file_of(q)  r == rank_of(q)
             B(i, j, k, l, m, n) ==
               /\ ~(i = m /\ j = n) /\ ~(i = k /\ j = l)
               /\ Amid(i, m, k) /\ Amid(j, n, l)
               /\ \/ m = k /\ i = m
                  \/ n = l /\ j = n
                  \/ m - n = k - l /\ i - j = m - n
                  \/ m + n = k + l /\ i + j = m + n
  <2>3. Mid(q, o, s) = B(p, r, u, v, x, y) /\ Mid(q, s, o) = B(p, r, x, y, u, v)
    BY DEF Mid
  <2>4. x \in 0 .. 7 /\ y \in 0 .. 7 /\ u \in 0 .. 7 /\ v \in 0 .. 7 /\ p \in 0 .. 7 /\ r \in 0 .. 7
    BY Coordinates
  <2> HIDE DEF x, y, u, v, p, r
  <2>5. B(p, r, u, v, x, y) <=> B(p, r, x, y, u, v)
    BY <2>4 DEF Amid
  <2> HIDE DEF B
  <2> QED BY <2>2, <2>3, <2>5
<1> QED BY <1>1, <1>2

\* What is before a piece that is itself before the end of a line is before that end.
LEMMA BeforeWhatIsBefore ==
  ASSUME NEW t \in Square, NEW p \in Square, NEW o \in Square, NEW k \in Square,
         Shaped(QUEEN, o, k), Rules!Interposed(p, o, k)
  PROVE  Shaped(QUEEN, p, k) /\ (Rules!Interposed(t, p, k) => Rules!Interposed(t, o, k))
<1> DEFINE x == file_of(k)  y == rank_of(k)  u == file_of(o)  v == rank_of(o)
           g == file_of(p)  h == rank_of(p)  i == file_of(t)  j == rank_of(t)
           B(a, b, c, d, m, n) ==
             /\ ~(a = m /\ b = n) /\ ~(a = c /\ b = d)
             /\ Amid(a, m, c) /\ Amid(b, n, d)
             /\ \/ m = c /\ a = m
                \/ n = d /\ b = n
                \/ m - n = c - d /\ a - b = m - n
                \/ m + n = c + d /\ a + b = m + n
<1>1. /\ x \in 0 .. 7 /\ y \in 0 .. 7 /\ u \in 0 .. 7 /\ v \in 0 .. 7
      /\ g \in 0 .. 7 /\ h \in 0 .. 7 /\ i \in 0 .. 7 /\ j \in 0 .. 7
  BY Coordinates
<1>2. Mid(p, o, k)
  BY MidIsInterposed
<1>3. Mid(p, o, k) = B(g, h, u, v, x, y) /\ Mid(t, p, k) = B(i, j, g, h, x, y) /\ Mid(t, o, k) = B(i, j, u, v, x, y)
  BY DEF Mid
<1>4. Shaped(QUEEN, p, k)
  <2>1. Shaped(QUEEN, p, k) <=> ~(g = x /\ h = y) /\ (g = x \/ h = y \/ g - h = x - y \/ g + h = x + y)
    BY ShapedByCoordinates
  <2> HIDE DEF x, y, u, v, g, h, i, j
  <2>2. B(g, h, u, v, x, y) => ~(g = x /\ h = y) /\ (g = x \/ h = y \/ g - h = x - y \/ g + h = x + y)
    BY <1>1 DEF Amid
  <2> HIDE DEF B
  <2> QED BY <1>2, <1>3, <2>1, <2>2
<1>5. ASSUME Rules!Interposed(t, p, k) PROVE Rules!Interposed(t, o, k)
  <2>1. Mid(t, p, k)
    BY <1>4, <1>5, MidIsInterposed
  <2>2. B(g, h, u, v, x, y) /\ B(i, j, g, h, x, y) => B(i, j, u, v, x, y)
    <3> HIDE DEF x, y, u, v, g, h, i, j
    <3> QED BY <1>1 DEF Amid
  <2> HIDE DEF B, x, y, u, v, g, h, i, j
  <2>3. Mid(t, o, k)
    BY <1>2, <1>3, <2>1, <2>2
  <2> QED BY <2>3, MidIsInterposed
<1> QED BY <1>4, <1>5

\* Of two pieces with a square of the line between the king and them, one is before the other.
LEMMA OneBeforeTheOther ==
  ASSUME NEW t \in Square, NEW a \in Square, NEW c \in Square, NEW k \in Square, a # c,
         Shaped(QUEEN, a, k), Shaped(QUEEN, c, k), Rules!Interposed(t, a, k), Rules!Interposed(t, c, k)
  PROVE  Rules!Interposed(a, c, k) \/ Rules!Interposed(c, a, k)
<1> DEFINE x == file_of(k)  y == rank_of(k)  u == file_of(a)  v == rank_of(a)
           g == file_of(c)  h == rank_of(c)  i == file_of(t)  j == rank_of(t)
           B(e, f, l, d, m, n) ==
             /\ ~(e = m /\ f = n) /\ ~(e = l /\ f = d)
             /\ Amid(e, m, l) /\ Amid(f, n, d)
             /\ \/ m = l /\ e = m
                \/ n = d /\ f = n
                \/ m - n = l - d /\ e - f = m - n
                \/ m + n = l + d /\ e + f = m + n
<1>1. /\ x \in 0 .. 7 /\ y \in 0 .. 7 /\ u \in 0 .. 7 /\ v \in 0 .. 7
      /\ g \in 0 .. 7 /\ h \in 0 .. 7 /\ i \in 0 .. 7 /\ j \in 0 .. 7
      /\ ~(u = x /\ v = y) /\ ~(g = x /\ h = y) /\ ~(u = g /\ v = h)
  BY Coordinates, ShapedByCoordinates DEF Shaped
<1>2. Mid(t, a, k) /\ Mid(t, c, k)
  BY MidIsInterposed
<1>3. /\ Mid(t, a, k) = B(i, j, u, v, x, y) /\ Mid(t, c, k) = B(i, j, g, h, x, y)
      /\ Mid(a, c, k) = B(u, v, g, h, x, y) /\ Mid(c, a, k) = B(g, h, u, v, x, y)
  BY DEF Mid
<1> HIDE DEF x, y, u, v, g, h, i, j
<1>4. B(i, j, u, v, x, y) /\ B(i, j, g, h, x, y) => B(u, v, g, h, x, y) \/ B(g, h, u, v, x, y)
  BY <1>1 DEF Amid
<1> HIDE DEF B
<1>5. Mid(a, c, k) \/ Mid(c, a, k)
  BY <1>2, <1>3, <1>4
<1> QED BY <1>5, MidIsInterposed

\* Nothing lies between neighbours, nor on a line between squares a knight's move apart.
LEMMA NothingBetweenNeighbours ==
  ASSUME NEW o \in Square, NEW k \in Square,
         LET dx == Rules!Abs(Rules!X(k) - Rules!X(o))
             dy == Rules!Abs(Rules!Y(k) - Rules!Y(o))
         IN  {dx, dy} = {1, 2} \/ (dx <= 1 /\ dy <= 1),
         Shaped(QUEEN, o, k), NEW q \in Square
  PROVE  ~Rules!Interposed(q, o, k)
<1> DEFINE x == file_of(k)  y == rank_of(k)  u == file_of(o)  v == rank_of(o)
           p == file_of(q)  r == rank_of(q)
           dx == Rules!Abs(Rules!X(k) - Rules!X(o))  dy == Rules!Abs(Rules!Y(k) - Rules!Y(o))
<1>1. x \in 0 .. 7 /\ y \in 0 .. 7 /\ u \in 0 .. 7 /\ v \in 0 .. 7 /\ p \in 0 .. 7 /\ r \in 0 .. 7
  BY Coordinates
<1>2. /\ dx = (IF x < u THEN u - x ELSE x - u)
      /\ dy = (IF y < v THEN v - y ELSE y - v)
  <2>1. Rules!X(k) = x /\ Rules!X(o) = u /\ Rules!Y(k) = y /\ Rules!Y(o) = v
    BY DEF Rules!X, Rules!Y, file_of, rank_of
  <2> HIDE DEF x, y, u, v
  <2> QED BY <1>1, <2>1 DEF Rules!Abs
<1>3. (dx = 1 /\ dy = 2) \/ (dx = 2 /\ dy = 1) \/ (dx <= 1 /\ dy <= 1)
  <2>1. {dx, dy} = {1, 2} \/ (dx <= 1 /\ dy <= 1)
    OBVIOUS
  <2> HIDE DEF dx, dy
  <2> QED BY <2>1
<1>4. SUFFICES ASSUME Mid(q, o, k) PROVE FALSE
  BY MidIsInterposed
<1>5. /\ ~(p = x /\ r = y) /\ ~(p = u /\ r = v)
      /\ Amid(p, x, u) /\ Amid(r, y, v)
      /\ \/ x = u /\ p = x
         \/ y = v /\ r = y
         \/ x - y = u - v /\ p - r = x - y
         \/ x + y = u + v /\ p + r = x + y
  BY <1>4 DEF Mid
<1> HIDE DEF x, y, u, v, p, r, dx, dy
<1> QED BY <1>1, <1>2, <1>3, <1>5 DEF Amid

\* A piece that attacks a square is a sniper with a clear line, or a pawn, a knight or a king
\* with no line to be cleared.
LEMMA AttacksOfTwoKinds ==
  ASSUME NEW b, NEW e, NEW k \in Square, NEW o \in DOMAIN b, o \in Square, b[o] \in Piece, b[o][1] = e,
         Rules!Attacks(b, o, k)
  PROVE  \/ Sniper(b, e, k, o) /\ Rules!ClearLine(b, o, k)
         \/ /\ ~Sniper(b, e, k, o)
            /\ \A q \in Square : ~(Shaped(QUEEN, o, k) /\ Rules!Interposed(q, o, k))
<1>1. CASE Sniper(b, e, k, o)
  BY <1>1, SniperStrikes
<1>2. CASE ~Sniper(b, e, k, o)
  <2> DEFINE dx == Rules!Abs(Rules!X(k) - Rules!X(o))  dy == Rules!Abs(Rules!Y(k) - Rules!Y(o))
             ahead == Rules!Y(k) - Rules!Y(o)
  <2>1. \/ dx = 1 /\ (ahead = 1 \/ ahead = -1)
        \/ {dx, dy} = {1, 2}
        \/ dx <= 1 /\ dy <= 1
    <3>1. b[o][2] \in {PAWN, KNIGHT, BISHOP, ROOK, QUEEN, KING}
      BY DEF Piece, PieceType
    <3>2. /\ b[o][2] = BISHOP => (Rules!Attacks(b, o, k) => o # k /\ dx = dy)
          /\ b[o][2] = ROOK => (Rules!Attacks(b, o, k) => o # k /\ (dx = 0 \/ dy = 0))
          /\ b[o][2] = QUEEN => (Rules!Attacks(b, o, k) => o # k /\ (dx = dy \/ dx = 0 \/ dy = 0))
          /\ b[o][2] = PAWN => (Rules!Attacks(b, o, k) => dx = 1 /\ ahead = Rules!Forward(b[o][1]))
          /\ b[o][2] = KNIGHT => (Rules!Attacks(b, o, k) => {dx, dy} = {1, 2})
          /\ b[o][2] = KING => (Rules!Attacks(b, o, k) => dx <= 1 /\ dy <= 1)
      BY DEF Rules!Attacks, PAWN, KNIGHT, KING, BISHOP, ROOK, QUEEN
    <3>3. /\ Shaped(ROOK, o, k) <=> o # k /\ (dx = 0 \/ dy = 0)
          /\ Shaped(BISHOP, o, k) <=> o # k /\ dx = dy
      BY DEF Shaped, ROOK, BISHOP
    <3>4. Rules!Forward(b[o][1]) \in {1, -1}
      BY DEF Rules!Forward
    <3> HIDE DEF dx, dy, ahead
    <3> QED BY <1>2, <3>1, <3>2, <3>3, <3>4 DEF Sniper
  <2>2. ahead = 1 \/ ahead = -1 => dy = 1
    BY DEF Rules!Abs
  <2>3. {dx, dy} = {1, 2} \/ (dx <= 1 /\ dy <= 1)
    <3> HIDE DEF dx, dy, ahead
    <3> QED BY <2>1, <2>2
  <2>4. \A q \in Square : Shaped(QUEEN, o, k) => ~Rules!Interposed(q, o, k)
    BY <2>3, NothingBetweenNeighbours
  <2> QED BY <1>2, <2>4
<1> QED BY <1>1, <1>2

\* So nothing stands between a piece and the square it attacks.
LEMMA NothingBeforeAttackers ==
  ASSUME NEW b, DOMAIN b \subseteq Square, \A q \in DOMAIN b : b[q] \in Piece, NEW e, NEW k \in Square,
         NEW z \in Rules!AttackersOf(b, e, k)
  PROVE  /\ z \in DOMAIN b /\ z \in Square /\ b[z][1] = e /\ Rules!Attacks(b, z, k)
         /\ Shaped(QUEEN, z, k) => \A q \in DOMAIN b : ~Rules!Interposed(q, z, k)
<1>1. z \in DOMAIN b /\ b[z][1] = e /\ Rules!Attacks(b, z, k) /\ z \in Square /\ b[z] \in Piece
  BY DEF Rules!AttackersOf
<1>2. CASE Rules!ClearLine(b, z, k)
  BY <1>1, <1>2 DEF Rules!ClearLine
<1>3. CASE ~Rules!ClearLine(b, z, k)
  BY <1>1, <1>3, AttacksOfTwoKinds
<1> QED BY <1>1, <1>2, <1>3

-----------------------------------------------------------------------------
(* What a piece that moves uncovers, and what it covers. *)

\* Behind a blocker stands a sniper with nothing else in its way, the nearest of those on
\* the line.
LEMMA BlockerHides ==
  ASSUME NEW b, DOMAIN b \subseteq Square, NEW e, NEW k \in Square,
         NEW s, s \in slider_blockers(b, PiecesOf(b, e), k)
  PROVE  \E o, p \in Square :
           /\ Sniper(b, e, k, o) /\ Sniper(b, e, k, p) /\ p # s
           /\ Rules!Interposed(s, o, k)
           /\ p = o \/ Rules!Interposed(p, o, k)
           /\ \A q \in DOMAIN b \ {s} : ~Rules!Interposed(q, p, k)
<1>1. PICK o \in Square : /\ Sniper(b, e, k, o)
                          /\ \A q : q = s <=> /\ q \in DOMAIN b /\ ~Sniper(b, e, k, q)
                                              /\ Rules!Interposed(q, o, k)
  BY BlockersListed
<1>2. PICK dx \in Unit, dy \in Unit, n \in 1 .. 7 : ~(dx = 0 /\ dy = 0) /\ Reached(k, dx, dy, n, o)
  <2>1. PICK pt \in {BISHOP, ROOK, QUEEN} : Shaped(pt, o, k)
    BY <1>1 DEF Sniper
  <2>2. PICK dx \in Unit, dy \in Unit, n \in 1 .. 7 : Goes(pt, dx, dy) /\ Reached(k, dx, dy, n, o)
    BY <2>1, Shapes
  <2> QED BY <2>2 DEF Goes
<1> DEFINE Nth(j) == k + j * (8 * dy + dx)
<1>3. n \in 0 .. 7 /\ InRange(k, dx, dy, n) /\ o = Nth(n)
  BY <1>2, ReachedOnce
<1>4. ASSUME NEW m \in 1 .. n
      PROVE  Reached(k, dx, dy, m, Nth(m)) /\ Nth(m) \in Square
  <2>1. m \in 0 .. n /\ m \in 0 .. 7
    BY <1>2
  <2>2. InRange(k, dx, dy, m)
    BY <1>3, <2>1, Convex
  <2> QED BY <2>1, <2>2, WalkReaches DEF Reached
<1>5. ASSUME NEW m \in 1 .. n, NEW q \in Square
      PROVE  Rules!Interposed(q, Nth(m), k) <=> \E j \in 1 .. m - 1 : q = Nth(j)
  <2>1. m \in 1 .. 7
    BY <1>2
  <2> QED BY <1>2, <1>4, <2>1, Interposition
<1> DEFINE N == {j \in 1 .. 7 : j <= n /\ Sniper(b, e, k, Nth(j))}
<1> HIDE DEF Nth
<1>6. N \in SUBSET (1 .. 7) /\ n \in N
  BY <1>1, <1>3
<1>7. PICK m \in N : \A j \in N : m <= j
  <2> HIDE DEF N
  <2> QED BY <1>6, Least
<1>8. m \in 1 .. n /\ Sniper(b, e, k, Nth(m)) /\ \A j \in 1 .. m - 1 : ~Sniper(b, e, k, Nth(j))
  <2>1. m \in 1 .. 7 /\ m <= n /\ Sniper(b, e, k, Nth(m))
    BY <1>7
  <2>2. ASSUME NEW j \in 1 .. m - 1, Sniper(b, e, k, Nth(j)) PROVE FALSE
    <3>1. j \in N
      BY <2>1, <2>2
    <3> QED BY <1>7, <2>1, <2>2, <3>1
  <2> QED BY <2>1, <2>2
<1>9. ASSUME NEW q \in DOMAIN b \ {s}, Rules!Interposed(q, Nth(m), k) PROVE FALSE
  <2>1. q \in DOMAIN b /\ q \in Square /\ q # s
    OBVIOUS
  <2>2. PICK j \in 1 .. m - 1 : q = Nth(j)
    BY <1>5, <1>8, <1>9, <2>1
  <2>3. ~Sniper(b, e, k, q)
    BY <1>8, <2>2
  <2>4. j \in 1 .. n - 1 /\ n \in 1 .. n
    BY <1>8, <2>2
  <2>5. Rules!Interposed(q, o, k)
    BY <1>3, <1>5, <2>1, <2>2, <2>4
  <2> QED BY <1>1, <2>1, <2>3, <2>5
<1>10. Nth(m) = o \/ Rules!Interposed(Nth(m), o, k)
  <2>1. CASE m = n
    BY <1>3, <2>1
  <2>2. CASE m # n
    <3>1. m \in 1 .. n - 1 /\ n \in 1 .. n
      BY <1>8, <2>2
    <3>2. Nth(m) \in Square
      BY <1>4, <1>8
    <3>3. Rules!Interposed(Nth(m), Nth(n), k)
      BY <1>5, <3>1, <3>2
    <3> QED BY <1>3, <3>3
  <2> QED BY <2>1, <2>2
<1>11. Rules!Interposed(s, o, k) /\ ~Sniper(b, e, k, s)
  BY <1>1
<1>12. Nth(m) \in Square /\ Nth(m) # s
  BY <1>4, <1>8, <1>11
<1> QED BY <1>1, <1>8, <1>9, <1>10, <1>11, <1>12

\* On board f the piece that stood on s has come to t, over no other piece; what stood on t,
\* and no friend of the king on k, is gone.
Relocated(b, e, k, s, t, f) ==
  /\ DOMAIN b \subseteq Square /\ \A q \in DOMAIN b : b[q] \in Piece
  /\ e \in Color /\ k \in DOMAIN b /\ s \in DOMAIN b /\ t \in Square
  /\ b[k][1] # e /\ b[s][1] # e /\ s # k /\ s # t /\ t # k
  /\ DOMAIN f = (DOMAIN b \ {s}) \cup {t} /\ f[t][1] # e
  /\ \A q \in DOMAIN f : q # t => f[q] = b[q]
  /\ Shaped(QUEEN, t, s) => \A q \in DOMAIN b : ~Rules!Interposed(q, t, s)

\* A piece on t takes the attacker c or stands in its way to k.
Stops(t, c, k) == t = c \/ (Shaped(QUEEN, c, k) /\ Rules!Interposed(t, c, k))

\* A blocker that leaves the line exposes its king.
LEMMA BlockerUncovers ==
  ASSUME NEW b, NEW e, NEW k, NEW s, NEW t, NEW f, Relocated(b, e, k, s, t, f),
         s \in slider_blockers(b, PiecesOf(b, e), k), Rules!AttackersOf(f, e, k) = {}
  PROVE  aligned(s, t, k)
<1>1. DOMAIN b \subseteq Square /\ k \in Square /\ s \in Square /\ t \in Square /\ s # t
  BY DEF Relocated
<1>2. PICK o \in Square, p \in Square :
           /\ Sniper(b, e, k, o) /\ Sniper(b, e, k, p) /\ p # s
           /\ Rules!Interposed(s, o, k)
           /\ p = o \/ Rules!Interposed(p, o, k)
           /\ \A q \in DOMAIN b \ {s} : ~Rules!Interposed(q, p, k)
  BY <1>1, BlockerHides
<1>3. Shaped(QUEEN, o, k) /\ Shaped(QUEEN, p, k)
  BY <1>2 DEF Sniper, Shaped, ROOK, BISHOP, QUEEN
<1>4. t = p \/ Rules!Interposed(t, p, k)
  <2>1. SUFFICES ASSUME t # p, ~Rules!Interposed(t, p, k) PROVE FALSE
    OBVIOUS
  <2>2. p \in DOMAIN f /\ f[p] = b[p] /\ b[p][1] = e
    BY <1>2, <2>1 DEF Relocated, Sniper
  <2>3. Rules!ClearLine(f, p, k)
    BY <1>2, <2>1 DEF Relocated, Rules!ClearLine
  <2>4. Rules!Attacks(f, p, k)
    BY <1>2, <2>2, <2>3, SniperStrikes
  <2> QED BY <2>2, <2>4 DEF Rules!AttackersOf
<1>5. t = o \/ Rules!Interposed(t, o, k)
  BY <1>1, <1>2, <1>3, <1>4, BeforeWhatIsBefore
<1> QED BY <1>1, <1>2, <1>3, <1>5, KeepsToTheLine

\* If it is no blocker, or keeps to its line, then only what attacked already still does.
LEMMA OnlyOldAttackers ==
  ASSUME NEW b, NEW e, NEW k, NEW s, NEW t, NEW f, Relocated(b, e, k, s, t, f),
         s \in slider_blockers(b, PiecesOf(b, e), k) => aligned(s, t, k),
         NEW o \in Rules!AttackersOf(f, e, k)
  PROVE  o \in Rules!AttackersOf(b, e, k) /\ ~Stops(t, o, k)
<1>1. DOMAIN b \subseteq Square /\ k \in Square /\ s \in Square /\ t \in Square /\ s # t /\ t # k
  BY DEF Relocated
<1>2. o \in DOMAIN f /\ f[o][1] = e /\ Rules!Attacks(f, o, k)
  BY DEF Rules!AttackersOf
<1>3. o # t /\ o # s /\ o \in DOMAIN b /\ o \in Square /\ f[o] = b[o] /\ b[o] \in Piece
  <2>1. o # t
    BY <1>2 DEF Relocated
  <2> QED BY <1>2, <2>1 DEF Relocated
<1>4. ~(Shaped(QUEEN, o, k) /\ Rules!Interposed(t, o, k))
  <2>1. CASE Rules!ClearLine(f, o, k)
    <3>1. t \in DOMAIN f
      BY DEF Relocated
    <3> QED BY <2>1, <3>1 DEF Rules!ClearLine
  <2>2. CASE ~Rules!ClearLine(f, o, k)
    <3>1. f[o] \in Piece
      BY <1>3
    <3> QED BY <1>1, <1>2, <1>3, <2>2, <3>1, AttacksOfTwoKinds
  <2> QED BY <2>1, <2>2
<1>5. CASE ~Sniper(b, e, k, o)
  <2>1. Rules!Attacks(b, o, k)
    BY <1>2, <1>3, <1>5, OthersAttackAnyway
  <2> QED BY <1>2, <1>3, <1>4, <2>1 DEF Rules!AttackersOf, Stops
<1>6. CASE Sniper(b, e, k, o)
  <2>1. Rules!ClearLine(f, o, k) /\ Shaped(QUEEN, o, k)
    <3>1. Rules!ClearLine(f, o, k)
      BY <1>2, <1>3, <1>6, SniperStrikes
    <3> QED BY <1>6, <3>1 DEF Sniper, Shaped, ROOK, BISHOP, QUEEN
  <2>2. \A q \in DOMAIN b : q # s => ~Rules!Interposed(q, o, k)
    BY <2>1 DEF Relocated, Rules!ClearLine
  <2>3. ~Rules!Interposed(s, o, k)
    <3>1. SUFFICES ASSUME Rules!Interposed(s, o, k) PROVE FALSE
      OBVIOUS
    <3>2. ~Sniper(b, e, k, s) /\ s \in DOMAIN b
      BY DEF Relocated, Sniper
    <3>3. \A q : q = s <=> q \in DOMAIN b /\ ~Sniper(b, e, k, q) /\ Rules!Interposed(q, o, k)
      BY <2>2, <3>1, <3>2
    <3>4. s \in slider_blockers(b, PiecesOf(b, e), k)
      BY <1>1, <1>3, <1>6, <3>3, BlockersListed
    <3>5. aligned(s, t, k)
      BY <3>4
    <3>6. /\ Shaped(QUEEN, t, s)
          /\ Rules!Interposed(t, o, k) \/ Rules!Interposed(o, t, s) \/ Rules!Interposed(k, t, s)
      BY <1>1, <1>3, <2>1, <3>1, <3>5, StaysBetween
    <3>7. ~Rules!Interposed(o, t, s) /\ ~Rules!Interposed(k, t, s)
      BY <1>3, <3>6 DEF Relocated
    <3> QED BY <1>4, <2>1, <3>6, <3>7
  <2>4. Rules!ClearLine(b, o, k)
    BY <2>2, <2>3 DEF Rules!ClearLine
  <2>5. Rules!Attacks(b, o, k)
    BY <1>6, <2>4, SniperStrikes
  <2> QED BY <1>2, <1>3, <1>4, <2>5 DEF Rules!AttackersOf, Stops
<1> QED BY <1>5, <1>6

\* An attack ends only if the piece that moved takes the attacker or stands in its way.
LEMMA AttackStopped ==
  ASSUME NEW b, NEW e, NEW k, NEW s, NEW t, NEW f, Relocated(b, e, k, s, t, f),
         NEW c \in Rules!AttackersOf(b, e, k), c \notin Rules!AttackersOf(f, e, k)
  PROVE  Stops(t, c, k)
<1>1. SUFFICES ASSUME ~Stops(t, c, k) PROVE FALSE
  OBVIOUS
<1>2. c \in DOMAIN b /\ b[c][1] = e /\ Rules!Attacks(b, c, k)
  BY DEF Rules!AttackersOf
<1>3. c # t /\ c \in DOMAIN f /\ f[c] = b[c] /\ b[c] \in Piece /\ c \in Square /\ k \in Square
  BY <1>1, <1>2 DEF Relocated, Stops
<1>4. ~Rules!Attacks(f, c, k)
  BY <1>2, <1>3 DEF Rules!AttackersOf
<1>5. Sniper(b, e, k, c)
  BY <1>2, <1>3, <1>4, OthersAttackAnyway
<1>6. Rules!ClearLine(b, c, k) /\ ~Rules!ClearLine(f, c, k)
  BY <1>2, <1>3, <1>4, <1>5, SniperStrikes
<1>7. Rules!Interposed(t, c, k)
  BY <1>6 DEF Rules!ClearLine, Relocated
<1>8. Shaped(QUEEN, c, k)
  BY <1>5 DEF Sniper, Shaped, ROOK, BISHOP, QUEEN
<1> QED BY <1>1, <1>7, <1>8 DEF Stops

\* One piece on t never stops two attackers.
LEMMA OneStopsOne ==
  ASSUME NEW b, DOMAIN b \subseteq Square, \A q \in DOMAIN b : b[q] \in Piece, NEW e,
         NEW k \in Square, NEW t \in Square,
         NEW a \in Rules!AttackersOf(b, e, k), NEW c \in Rules!AttackersOf(b, e, k), Stops(t, a, k), Stops(t, c, k)
  PROVE  a = c
<1>1. SUFFICES ASSUME a # c PROVE FALSE
  OBVIOUS
<1>2. ASSUME NEW z \in Rules!AttackersOf(b, e, k)
      PROVE  /\ z \in DOMAIN b /\ z \in Square
             /\ Shaped(QUEEN, z, k) => \A q \in DOMAIN b : ~Rules!Interposed(q, z, k)
  BY NothingBeforeAttackers
<1>3. CASE t = a \/ t = c
  BY <1>1, <1>2, <1>3 DEF Stops
<1>4. CASE t # a /\ t # c
  <2>1. /\ Shaped(QUEEN, a, k) /\ Shaped(QUEEN, c, k)
        /\ Rules!Interposed(t, a, k) /\ Rules!Interposed(t, c, k)
    BY <1>4 DEF Stops
  <2>2. Rules!Interposed(a, c, k) \/ Rules!Interposed(c, a, k)
    BY <1>1, <1>2, <2>1, OneBeforeTheOther
  <2> QED BY <1>2, <2>1, <2>2
<1> QED BY <1>3, <1>4

-----------------------------------------------------------------------------
(* What generate<LEGAL> starts from, in check and out of it. *)

\* In check, generate_pawn_moves lists the pawn moves to the target, and the en passant
\* captures of a pawn that is in it.
LEMMA EvasivePawnMoves ==
  ASSUME NEW target, st.checkersBB = target \cap PiecesOf(board, them), NEW m
  PROVE  m \in generate_pawn_moves(EVASIONS, target) <=>
           \/ /\ m.to \in target
              /\ Promoting(m, {QUEEN, ROOK, BISHOP, KNIGHT}) \/ Pushing(m) \/ Capturing(m)
           \/ Passing(m) /\ st.epSquare - Up(us) \in target
<1> DEFINE up == Up(us)
           empty == Square \ pieces(board)
           enemies == IF EVASIONS = EVASIONS THEN st.checkersBB ELSE PiecesOf(board, them)
           pawns == PiecesOf(board, us) \cap PiecesOfType(board, {PAWN})
           pawnsOn7 == {s \in pawns : relative_rank(us, s) = 6}
           pawnsNotOn7 == pawns \ pawnsOn7
           wanted(q) == EVASIONS = EVASIONS => q \in target
           single == {s \in pawnsNotOn7 : s + up \in empty}
           double == {s \in single : relative_rank(us, s) = 1 /\ s + 2 * up \in empty}
           captures == UNION {{Move(s, t) : t \in PawnAttacks[us][s] \cap enemies} : s \in pawnsNotOn7}
           pushes == {Move(s, s + up) : s \in {p \in single : wanted(p + up)}}
                       \cup {Move(s, s + 2 * up) : s \in {p \in double : wanted(p + 2 * up)}}
           promoting == UNION {{Move(s, t) : t \in (PawnAttacks[us][s] \cap enemies)
                                    \cup {q \in {s + up} \cap empty : wanted(q)}} : s \in pawnsOn7}
           promotions == UNION {{MakeMove(PROMOTION, n.from, n.to, pt) : pt \in promotion_pieces(EVASIONS)} :
                                   n \in promoting}
           ep == st.epSquare
           enPassant == IF ep = SQ_NONE \/ (EVASIONS = EVASIONS /\ ep - up \notin target) THEN {}
                        ELSE {MakeMove(EN_PASSANT, s, ep, KNIGHT) : s \in pawnsNotOn7 \cap PawnAttacks[them][ep]}
           all == {QUEEN, ROOK, BISHOP, KNIGHT}
<1>0. EVASIONS # CAPTURES /\ EVASIONS # QUIETS /\ promotion_pieces(EVASIONS) = all
  BY DEF EVASIONS, CAPTURES, QUIETS, promotion_pieces
<1>1. generate_pawn_moves(EVASIONS, target) = promotions \cup pushes \cup (captures \cup enPassant)
  <2>1. generate_pawn_moves(EVASIONS, target) =
          promotions \cup (IF EVASIONS = CAPTURES THEN {} ELSE pushes)
                     \cup (IF EVASIONS = QUIETS THEN {} ELSE captures \cup enPassant)
    BY Zenon DEF generate_pawn_moves
  <2> HIDE DEF promotions, pushes, captures, enPassant
  <2> QED BY <1>0, <2>1
<1>2. \A s : s \in pawns <=> OwnPawn(s)
  BY DEF PiecesOf, PiecesOfType, OwnPawn
<1>3. /\ \A s : s \in pawnsOn7 <=> OwnPawn(s) /\ relative_rank(us, s) = 6
      /\ \A s : s \in pawnsNotOn7 <=> OwnPawn(s) /\ relative_rank(us, s) # 6
  BY <1>2
<1>4. \A s, t : t \in PawnAttacks[us][s] \cap enemies <=> Strikes(s, t) /\ t \in target
  BY DEF Strikes
<1>5. /\ \A s : s + up \in empty <=> Steps(s, s + up)
      /\ \A q : wanted(q) <=> q \in target
  BY DEF Steps, pieces
<1>10. \A s, t : Move(s, t).from = s /\ Move(s, t).to = t /\ \A pt : MakeMove(PROMOTION, s, t, pt).to = t
  BY DEF Move, MakeMove
<1>6. m \in captures <=> Capturing(m) /\ m.to \in target
  <2>1. m \in captures <=> \E s \in pawnsNotOn7 : \E t \in PawnAttacks[us][s] \cap enemies : m = Move(s, t)
    OBVIOUS
  <2> HIDE DEF captures, pawnsNotOn7, enemies
  <2> QED BY <2>1, <1>3, <1>4, <1>10 DEF Capturing
<1>7. m \in pushes <=> Pushing(m) /\ m.to \in target
  <2>1. m \in pushes <=> \/ \E s \in single : m = Move(s, s + up) /\ s + up \in target
                         \/ \E s \in double : m = Move(s, s + 2 * up) /\ s + 2 * up \in target
    BY <1>5
  <2>2. \A s : s \in single <=> OwnPawn(s) /\ relative_rank(us, s) # 6 /\ Steps(s, s + up)
    BY <1>3, <1>5
  <2>3. \A s : s \in double <=> /\ OwnPawn(s) /\ relative_rank(us, s) # 6
                                /\ Jumps(s, s + 2 * up) /\ s + 2 * up \in Square
    BY <2>2 DEF Jumps, Steps, pieces
  <2> HIDE DEF pushes, single, double
  <2>4. ASSUME m \in pushes PROVE Pushing(m) /\ m.to \in target
    BY <2>1, <2>2, <2>3, <2>4, <1>10 DEF Pushing
  <2>5. ASSUME Pushing(m), m.to \in target PROVE m \in pushes
    <3>1. PICK s : \E t : /\ OwnPawn(s) /\ relative_rank(us, s) # 6
                          /\ Steps(s, t) \/ (Jumps(s, t) /\ t \in Square)
                          /\ m = Move(s, t)
      BY <2>5 DEF Pushing
    <3>2. PICK t : /\ Steps(s, t) \/ (Jumps(s, t) /\ t \in Square)
                   /\ m = Move(s, t) /\ t \in target
      BY <2>5, <3>1, <1>10
    <3>3. CASE Steps(s, t)
      BY <2>1, <2>2, <3>1, <3>2, <3>3 DEF Steps
    <3>4. CASE Jumps(s, t) /\ t \in Square
      BY <2>1, <2>3, <3>1, <3>2, <3>4 DEF Jumps
    <3> QED BY <3>2, <3>3, <3>4
  <2> QED BY <2>4, <2>5
<1>8. m \in promotions <=> Promoting(m, all) /\ m.to \in target
  <2>1. m \in promotions <=>
          \E n \in promoting : \E pt \in all : m = MakeMove(PROMOTION, n.from, n.to, pt)
    BY <1>0
  <2>2. \A n : n \in promoting <=> \E s \in pawnsOn7 : \E t \in (PawnAttacks[us][s] \cap enemies)
                                    \cup {q \in {s + up} \cap empty : wanted(q)} : n = Move(s, t)
    OBVIOUS
  <2>3. \A s, t : t \in (PawnAttacks[us][s] \cap enemies) \cup {q \in {s + up} \cap empty : wanted(q)}
                    <=> (Strikes(s, t) \/ Steps(s, t)) /\ t \in target
    BY <1>4, <1>5 DEF Steps
  <2>5. \A n : n \in promoting <=>
          \E s : \E t : /\ OwnPawn(s) /\ relative_rank(us, s) = 6 /\ (Strikes(s, t) \/ Steps(s, t))
                        /\ t \in target /\ n = Move(s, t)
    <3> HIDE DEF promoting, pawnsOn7, enemies, empty, wanted
    <3> QED BY <2>2, <2>3, <1>3
  <2> HIDE DEF promotions, promoting, all
  <2>6. ASSUME m \in promotions PROVE Promoting(m, all) /\ m.to \in target
    <3>1. PICK n \in promoting : \E pt \in all : m = MakeMove(PROMOTION, n.from, n.to, pt)
      BY <2>1, <2>6
    <3>2. PICK s : \E t : /\ OwnPawn(s) /\ relative_rank(us, s) = 6 /\ (Strikes(s, t) \/ Steps(s, t))
                          /\ t \in target /\ n = Move(s, t)
      BY <2>5
    <3> QED BY <1>10, <3>1, <3>2 DEF Promoting
  <2>7. ASSUME Promoting(m, all), m.to \in target PROVE m \in promotions
    <3>1. PICK s : \E t : \E pt \in all :
            /\ OwnPawn(s) /\ relative_rank(us, s) = 6
            /\ Strikes(s, t) \/ Steps(s, t)
            /\ m = MakeMove(PROMOTION, s, t, pt)
      BY <2>7 DEF Promoting
    <3>2. PICK t : \E pt \in all :
            /\ Strikes(s, t) \/ Steps(s, t)
            /\ m = MakeMove(PROMOTION, s, t, pt)
      BY <3>1
    <3>3. t \in target
      BY <1>10, <2>7, <3>2
    <3>4. Move(s, t) \in promoting
      BY <2>5, <3>1, <3>2, <3>3
    <3> QED BY <2>1, <1>10, <3>2, <3>4
  <2> QED BY <2>6, <2>7
<1>9. m \in enPassant <=> Passing(m) /\ st.epSquare - Up(us) \in target
  <2>1. m \in enPassant <=>
          /\ ep # SQ_NONE /\ ep - up \in target
          /\ \E s \in pawnsNotOn7 \cap PawnAttacks[them][ep] : m = MakeMove(EN_PASSANT, s, ep, KNIGHT)
    OBVIOUS
  <2> HIDE DEF enPassant, pawnsNotOn7
  <2> QED BY <1>3, <2>1 DEF Passing
<1> HIDE DEF promotions, pushes, captures, enPassant
<1> QED BY <1>1, <1>6, <1>7, <1>8, <1>9

\* A piece that is no pawn goes to a square it attacks that holds none of its own side.
Roaming(m) == \E s : \E t :
  /\ s \in DOMAIN board /\ board[s][1] = us /\ board[s][2] \in PieceType \ {PAWN}
  /\ t \in attacks_bb(board[s][2], s, pieces(board)) /\ t \in Square \ PiecesOf(board, us)
  /\ m = Move(s, t)

\* Every move but castling, whatever becomes of the king.
Wandering(m) ==
  Roaming(m) \/ Promoting(m, {QUEEN, ROOK, BISHOP, KNIGHT}) \/ Pushing(m) \/ Capturing(m) \/ Passing(m)

\* Where a move must strike to meet a check.
Meets(m) == IF m.type = EN_PASSANT THEN ep_capture_square(m) ELSE m.to

\* The kinds of pieces that generate_moves is asked for are all but the pawn.
LEMMA RoamingListed ==
  ASSUME NEW m, NEW target, target \subseteq Square \ PiecesOf(board, us)
  PROVE  /\ m \in generate_moves({KING}, target) <=>
              Roaming(m) /\ m.to \in target /\ board[m.from][2] = KING
         /\ m \in generate_moves({KNIGHT, BISHOP, ROOK, QUEEN}, target) <=>
              Roaming(m) /\ m.to \in target /\ board[m.from][2] # KING
<1>1. /\ PieceType \ {PAWN} = {KING} \cup {KNIGHT, BISHOP, ROOK, QUEEN}
      /\ KING \notin {KNIGHT, BISHOP, ROOK, QUEEN}
  BY DEF PieceType, PAWN, KNIGHT, BISHOP, ROOK, QUEEN, KING
<1>2. \A s, t : Move(s, t).from = s /\ Move(s, t).to = t
  BY DEF Move
<1>3. \A types : m \in generate_moves(types, target) <=>
           \E s : \E t : /\ s \in DOMAIN board /\ board[s][1] = us /\ board[s][2] \in types
                         /\ t \in attacks_bb(board[s][2], s, pieces(board)) /\ t \in target
                         /\ m = Move(s, t)
  BY PieceMovesListed
<1>4. ASSUME NEW types \in SUBSET (PieceType \ {PAWN})
      PROVE  m \in generate_moves(types, target) <=>
               Roaming(m) /\ m.to \in target /\ board[m.from][2] \in types
  <2>1. ASSUME m \in generate_moves(types, target)
        PROVE  Roaming(m) /\ m.to \in target /\ board[m.from][2] \in types
    BY <1>2, <1>3, <2>1 DEF Roaming
  <2>2. ASSUME Roaming(m), m.to \in target, board[m.from][2] \in types
        PROVE  m \in generate_moves(types, target)
    BY <1>2, <1>3, <2>2 DEF Roaming
  <2> QED BY <2>1, <2>2
<1>5. {KING} \in SUBSET (PieceType \ {PAWN}) /\ {KNIGHT, BISHOP, ROOK, QUEEN} \in SUBSET (PieceType \ {PAWN})
  BY <1>1
<1>6. Roaming(m) => board[m.from][2] \in PieceType \ {PAWN}
  BY <1>2 DEF Roaming
<1> QED BY <1>1, <1>4, <1>5, <1>6

\* Out of check: every move, those of pawns and of pieces and castling.
LEMMA ListedOutOfCheck ==
  ASSUME NEW m
  PROVE  m \in generate_all(NON_EVASIONS) <=> Wandering(m) \/ m \in generate_castling
<1> DEFINE target == Square \ PiecesOf(board, us)
<1>1. /\ m \in generate_moves({KING}, target) <=>
              Roaming(m) /\ m.to \in target /\ board[m.from][2] = KING
      /\ m \in generate_moves({KNIGHT, BISHOP, ROOK, QUEEN}, target) <=>
              Roaming(m) /\ m.to \in target /\ board[m.from][2] # KING
  <2> HIDE DEF target
  <2>1. target \subseteq Square \ PiecesOf(board, us)
    BY DEF target
  <2> QED BY <2>1, RoamingListed
<1>2. Roaming(m) => m.to \in target
  BY DEF Roaming, Move
<1>3. m \in generate_all(NON_EVASIONS) <=>
              \/ m \in generate_moves({KING}, target)
              \/ m \in generate_moves({KNIGHT, BISHOP, ROOK, QUEEN}, target)
              \/ m \in generate_castling
              \/ Promoting(m, {QUEEN, ROOK, BISHOP, KNIGHT}) \/ Pushing(m) \/ Capturing(m) \/ Passing(m)
  BY MovesListed
<1> HIDE DEF target
<1> QED BY <1>1, <1>2, <1>3 DEF Wandering

\* The kinds of pieces and of moves are different words.
LEMMA Words ==
  /\ PAWN \notin {KNIGHT, BISHOP, ROOK, QUEEN, KING, ""} /\ KNIGHT \notin {BISHOP, ROOK, QUEEN, KING, ""}
  /\ BISHOP \notin {ROOK, QUEEN, KING, ""} /\ ROOK \notin {QUEEN, KING, ""} /\ QUEEN \notin {KING, ""} /\ KING # ""
  /\ NORMAL \notin {PROMOTION, EN_PASSANT, CASTLING} /\ PROMOTION \notin {EN_PASSANT, CASTLING}
  /\ EN_PASSANT # CASTLING
BY DEF PAWN, KNIGHT, BISHOP, ROOK, QUEEN, KING, NORMAL, PROMOTION, EN_PASSANT, CASTLING

\* The parts of a move.
LEMMA Parts ==
  \A s, t : /\ Move(s, t).from = s /\ Move(s, t).to = t
            /\ Move(s, t).type = NORMAL /\ Move(s, t).promotion = KNIGHT
            /\ \A ty, pt : /\ MakeMove(ty, s, t, pt).from = s /\ MakeMove(ty, s, t, pt).to = t
                           /\ MakeMove(ty, s, t, pt).type = ty /\ MakeMove(ty, s, t, pt).promotion = pt
BY DEF Move, MakeMove

\* Each color's king, where the code and the rules look for it.
LEMMA TheKing ==
  ASSUME Sound(board, us, st), BothKings, NEW c \in Color
  PROVE  /\ king_square(board, c) \in DOMAIN board /\ king_square(board, c) \in Square
         /\ board[king_square(board, c)] = make_piece(c, KING)
         /\ board[king_square(board, c)][1] = c /\ board[king_square(board, c)][2] = KING
         /\ Rules!King(board, c) = king_square(board, c)
         /\ \A s \in DOMAIN board : board[s][1] = c /\ board[s][2] = KING => s = king_square(board, c)
<1>1. /\ DOMAIN board \subseteq Square /\ \A q \in DOMAIN board : board[q] \in Piece
      /\ \A s, t \in DOMAIN board : board[s] = board[t] /\ board[s][2] = KING => s = t
  BY DEF Sound, IsBoard
<1> DEFINE K == <<c, "king">>
<1>2. PICK k \in DOMAIN board : board[k] = K
  BY DEF BothKings, make_piece, KING
<1>3. K[1] = c /\ K[2] = KING /\ make_piece(c, KING) = K
  BY DEF KING, make_piece
<1>4. \A t \in DOMAIN board : board[t] = K <=> t = k
  <2> HIDE DEF K
  <2> QED BY <1>1, <1>2, <1>3
<1>5. king_square(board, c) = k /\ Rules!King(board, c) = k
  BY <1>2, <1>4 DEF king_square, Rules!King, make_piece, KING
<1>6. \A s \in DOMAIN board : board[s][1] = c /\ board[s][2] = KING => board[s] = K
  BY <1>1 DEF Piece, KING
<1> HIDE DEF K
<1> QED BY <1>1, <1>2, <1>3, <1>4, <1>5, <1>6

\* What the side to move is, and is not.
LEMMA TwoSides ==
  ASSUME Sound(board, us, st)
  PROVE  /\ us \in Color /\ them \in Color /\ them # us /\ them = Opposite(us) /\ us = Opposite(them)
         /\ them = Rules!Other(us) /\ us = Rules!Other(them)
         /\ DOMAIN board \subseteq Square
         /\ \A q \in DOMAIN board : board[q] \in Piece /\ (board[q][1] = us \/ board[q][1] = them)
BY DEF Sound, IsBoard, us, them, Opposite, Rules!Other, Color, WHITE, BLACK, Piece

\* Such moves have the shape that the lemmas about making a move ask for.
LEMMA WanderingFits ==
  ASSUME Sound(board, us, st), NEW m, Wandering(m)
  PROVE  /\ Fits(m) /\ m.type # CASTLING /\ m.from # m.to
         /\ m.from \in DOMAIN board /\ m.from \in Square /\ board[m.from][1] = us
         /\ m.to \in Square /\ m.to \notin PiecesOf(board, us)
         /\ Roaming(m) <=> board[m.from][2] # PAWN
         /\ m.type = EN_PASSANT <=> Passing(m)
         /\ Roaming(m) => m.type = NORMAL
<1>1. us \in Color /\ them \in Color /\ them # us /\ DOMAIN board \subseteq Square
  BY TwoSides
<1>2. CASE Roaming(m)
  <2> DEFINE types == PieceType \ {PAWN}  target == Square \ PiecesOf(board, us)
  <2>1. m \in generate_moves(types, target)
    <3>1. \E s : \E t : /\ s \in DOMAIN board /\ board[s][1] = us /\ board[s][2] \in types
                         /\ t \in attacks_bb(board[s][2], s, pieces(board)) /\ t \in target
                         /\ m = Move(s, t)
      BY <1>2 DEF Roaming
    <3> HIDE DEF types, target
    <3> QED BY <3>1, PieceMovesListed
  <2>2. Fits(m)
    <3>1. types \in SUBSET (PieceType \ {PAWN})
      OBVIOUS
    <3> HIDE DEF types, target
    <3> QED BY <2>1, <3>1, PieceMovesFit
  <2>3. m.type = NORMAL /\ board[m.from][2] # PAWN /\ board[m.from][1] = us /\ m.to \in target
    BY <1>2, Parts DEF Roaming
  <2>4. ~Passing(m)
    <3>1. Passing(m) => m.type = EN_PASSANT
      BY Parts DEF Passing
    <3> QED BY <2>3, <3>1, Words
  <2> QED BY <1>1, <1>2, <2>2, <2>3, <2>4, Words DEF Fits
<1>3. CASE Promoting(m, {QUEEN, ROOK, BISHOP, KNIGHT}) \/ Pushing(m) \/ Capturing(m) \/ Passing(m)
  <2>1. NON_EVASIONS \notin {EVASIONS, CAPTURES, QUIETS} /\ promotion_pieces(NON_EVASIONS) = {QUEEN, ROOK, BISHOP, KNIGHT}
    BY DEF NON_EVASIONS, EVASIONS, CAPTURES, QUIETS, promotion_pieces
  <2>2. m \in generate_pawn_moves(NON_EVASIONS, {})
    BY <1>3, <2>1, PawnMovesListed
  <2>3. Fits(m)
    BY <2>2, PawnMovesFit
  <2>4. m.from \in DOMAIN board /\ board[m.from][1] = us /\ m.from # m.to /\ m.to \in Square
    BY <2>3 DEF Fits, MoveRecord
  <2>5. board[m.from][2] = PAWN
    BY <1>3, Parts DEF Promoting, Pushing, Capturing, Passing, OwnPawn
  <2>6. m.type # CASTLING /\ (m.type = EN_PASSANT <=> Passing(m))
    <3>1. Passing(m) => m.type = EN_PASSANT
      BY Parts DEF Passing
    <3>2. ~Passing(m) => m.type \in {PROMOTION, NORMAL}
      BY <1>3, Parts DEF Promoting, Pushing, Capturing
    <3> QED BY <3>1, <3>2, Words
  <2>7. m.to \notin PiecesOf(board, us)
    <3>1. CASE Passing(m)
      <4>1. m.type = EN_PASSANT
        BY <2>6, <3>1
      <4>2. m.to \notin DOMAIN board
        BY <2>3, <4>1, EnPassantShape
      <4> QED BY <4>2 DEF PiecesOf
    <3>2. CASE Promoting(m, {QUEEN, ROOK, BISHOP, KNIGHT}) \/ Pushing(m) \/ Capturing(m)
      <4>1. Strikes(m.from, m.to) \/ Steps(m.from, m.to) \/ Jumps(m.from, m.to)
        BY <3>2, Parts DEF Promoting, Pushing, Capturing
      <4>2. m.from \in PiecesOf(board, us)
        BY <2>4 DEF PiecesOf
      <4> QED BY <4>1, <4>2, TargetsNotOurs
    <3> QED BY <1>3, <3>1, <3>2
  <2>8. ~Roaming(m)
    BY <2>5, Parts DEF Roaming
  <2> QED BY <1>1, <2>3, <2>4, <2>5, <2>6, <2>7, <2>8
<1> QED BY <1>2, <1>3 DEF Wandering

\* In check: the king's moves and, if one piece gives it, the moves that take that piece or
\* come between.
LEMMA ListedInCheck ==
  ASSUME Sound(board, us, st), BothKings, CheckersExact, st.checkersBB # {}, NEW m
  PROVE  m \in generate_all(EVASIONS) <=>
           /\ Wandering(m)
           /\ \/ m.from = king_square(board, us)
              \/ \E c : st.checkersBB = {c} /\ Stops(Meets(m), c, king_square(board, us))
<1> DEFINE k == king_square(board, us)  C == st.checkersBB
           target == BetweenBB[k][Min(C)] \cup C  free == Square \ PiecesOf(board, us)
           officers == {KNIGHT, BISHOP, ROOK, QUEEN}
<1>1. /\ us \in Color /\ them \in Color /\ them # us /\ DOMAIN board \subseteq Square
      /\ \A q \in DOMAIN board : board[q] \in Piece
  BY TwoSides
<1>2. /\ k \in DOMAIN board /\ k \in Square /\ board[k][1] = us /\ board[k][2] = KING /\ Rules!King(board, us) = k
      /\ \A s \in DOMAIN board : board[s][1] = us /\ board[s][2] = KING => s = k
  BY <1>1, TheKing
<1>3. C = Rules!AttackersOf(board, them, k)
  BY <1>2 DEF CheckersExact
<1>4. generate_all(EVASIONS) =
        generate_moves({KING}, free)
          \cup (IF Cardinality(C) > 1 THEN {}
                ELSE generate_pawn_moves(EVASIONS, target) \cup generate_moves(officers, target))
  <2>1. EVASIONS \notin {QUIETS, NON_EVASIONS, CAPTURES}
    BY DEF EVASIONS, QUIETS, NON_EVASIONS, CAPTURES
  <2> QED BY <2>1 DEF generate_all
<1>5. m \in generate_moves({KING}, free) <=> Wandering(m) /\ m.from = k
  <2>1. m \in generate_moves({KING}, free) <=> Roaming(m) /\ m.to \in free /\ board[m.from][2] = KING
    <3>1. free \subseteq Square \ PiecesOf(board, us)
      OBVIOUS
    <3> HIDE DEF free
    <3> QED BY <3>1, RoamingListed
  <2>2. Wandering(m) => /\ Roaming(m) <=> board[m.from][2] # PAWN
                        /\ m.from \in DOMAIN board /\ board[m.from][1] = us /\ m.to \in free
    BY WanderingFits
  <2>3. Roaming(m) => Wandering(m)
    BY DEF Wandering
  <2> HIDE DEF k, free
  <2> QED BY <1>2, <2>1, <2>2, <2>3, Words
<1>6. IsFiniteSet(C) /\ C \subseteq Square /\ \A c \in C : c \in DOMAIN board /\ board[c][1] = them
  <2>1. C \subseteq DOMAIN board /\ \A c \in C : board[c][1] = them
    BY <1>3 DEF Rules!AttackersOf
  <2>2. IsFiniteSet(0 .. 63)
    <3>1. 0 \in Int /\ 63 \in Int
      OBVIOUS
    <3> QED BY <3>1, FS_Interval
  <2>3. C \subseteq 0 .. 63
    BY <1>1, <2>1 DEF Square
  <2> HIDE DEF C
  <2> QED BY <1>1, <2>1, <2>2, <2>3, FS_Subset
<1>7. CASE \E c : C = {c}
  <2>1. PICK c : C = {c}
    BY <1>7
  <2>2. Cardinality(C) = 1
    <3> HIDE DEF C
    <3> QED BY <1>6, <2>1, FS_Singleton
  <2>3. c \in Square /\ c \in DOMAIN board /\ board[c][1] = them /\ Rules!Attacks(board, c, k)
    BY <1>3, <1>6, <2>1 DEF Rules!AttackersOf
  <2>4. Min(C) = c
    <3>1. c <= c
      BY <2>3 DEF Square
    <3> HIDE DEF C
    <3> QED BY <2>1, <3>1 DEF Min
  <2>5. \A q \in Square : q \in target <=> Stops(q, c, k)
    <3>1. BetweenBB[k][c] = {q \in Square : Shaped(QUEEN, c, k) /\ Rules!Interposed(q, c, k)}
      BY <1>2, <2>3, BetweenByTheRules
    <3> HIDE DEF C, k
    <3> QED BY <2>1, <2>4, <3>1 DEF Stops
  <2>6. target \subseteq Square
    <3>1. BetweenBB[k][c] = {q \in Square : Shaped(QUEEN, c, k) /\ Rules!Interposed(q, c, k)}
      BY <1>2, <2>3, BetweenByTheRules
    <3> HIDE DEF C, k
    <3> QED BY <1>6, <2>4, <3>1
  <2>7. \A q \in DOMAIN board : q \in target <=> q = c
    <3>1. Shaped(QUEEN, c, k) => \A q \in DOMAIN board : ~Rules!Interposed(q, c, k)
      <4>1. c \in Rules!AttackersOf(board, them, k)
        BY <1>3, <2>1
      <4> HIDE DEF k
      <4> QED BY <1>1, <1>2, <4>1, NothingBeforeAttackers
    <3> QED BY <1>1, <2>5, <3>1 DEF Stops
  <2>8. st.checkersBB = target \cap PiecesOf(board, them)
    <3> HIDE DEF target
    <3> QED BY <2>1, <2>3, <2>7 DEF PiecesOf
  <2>9. target \subseteq Square \ PiecesOf(board, us)
    <3> HIDE DEF target
    <3> QED BY <1>1, <2>3, <2>6, <2>7 DEF PiecesOf
  <2> HIDE DEF target
  <2>10. m \in generate_moves(officers, target) <=> Roaming(m) /\ m.to \in target /\ board[m.from][2] # KING
    BY <2>9, RoamingListed DEF officers
  <2>11. m \in generate_pawn_moves(EVASIONS, target) <=>
           \/ /\ m.to \in target
              /\ Promoting(m, {QUEEN, ROOK, BISHOP, KNIGHT}) \/ Pushing(m) \/ Capturing(m)
           \/ Passing(m) /\ st.epSquare - Up(us) \in target
    BY <2>8, EvasivePawnMoves
  <2>12. Wandering(m) => (Meets(m) \in target <=> Stops(Meets(m), c, k))
    <3>1. ASSUME Wandering(m) PROVE Meets(m) \in Square
      <4>1. Fits(m) /\ m.to \in Square
        BY <3>1, WanderingFits
      <4>2. m.type = EN_PASSANT => ep_capture_square(m) \in Square
        BY <1>1, <4>1, EnPassantShape DEF StandsOn
      <4> QED BY <4>1, <4>2 DEF Meets
    <3> QED BY <2>5, <3>1
  <2>13. Passing(m) => Meets(m) = st.epSquare - Up(us) /\ Wandering(m)
    BY Parts DEF Passing, Meets, ep_capture_square, Wandering
  <2>14. Wandering(m) /\ ~Passing(m) => Meets(m) = m.to
    BY WanderingFits DEF Meets
  <2>15. Wandering(m) => (Roaming(m) <=> board[m.from][2] # PAWN) /\ m.from \in DOMAIN board /\ board[m.from][1] = us
    BY WanderingFits
  <2>16. Passing(m) => ~Promoting(m, {QUEEN, ROOK, BISHOP, KNIGHT}) /\ ~Pushing(m) /\ ~Capturing(m)
    <3>1. Passing(m) => m.type = EN_PASSANT
      BY Parts DEF Passing
    <3>2. Promoting(m, {QUEEN, ROOK, BISHOP, KNIGHT}) => m.type = PROMOTION
      BY Parts DEF Promoting
    <3>3. Pushing(m) \/ Capturing(m) => m.type = NORMAL
      BY Parts DEF Pushing, Capturing
    <3> QED BY <3>1, <3>2, <3>3, Words
  <2>17. Wandering(m) <=>
           Roaming(m) \/ Promoting(m, {QUEEN, ROOK, BISHOP, KNIGHT}) \/ Pushing(m) \/ Capturing(m) \/ Passing(m)
    BY DEF Wandering
  <2>18. Passing(m) => ~Roaming(m)
    BY <2>13, WanderingFits, Words
  <2> DEFINE P == Promoting(m, {QUEEN, ROOK, BISHOP, KNIGHT}) \/ Pushing(m) \/ Capturing(m)
  <2>19. m \in generate_moves(officers, target) \/ m \in generate_pawn_moves(EVASIONS, target)
           <=> \/ Roaming(m) /\ m.to \in target /\ board[m.from][2] # KING
               \/ P /\ m.to \in target
               \/ Passing(m) /\ st.epSquare - Up(us) \in target
    BY <2>10, <2>11
  <2>20. m \in generate_moves({KING}, free) \/ m \in generate_moves(officers, target) \/ m \in generate_pawn_moves(EVASIONS, target)
           <=> Wandering(m) /\ (m.from = k \/ Meets(m) \in target)
    <3>1. P => Wandering(m) /\ ~Passing(m)
      BY <2>16, <2>17
    <3>2. Roaming(m) => Wandering(m) /\ ~Passing(m)
      BY <2>17, <2>18
    <3>3. Wandering(m) => Roaming(m) \/ P \/ Passing(m)
      BY <2>17
    <3>4. Wandering(m) => (m.from = k <=> board[m.from][2] = KING)
      BY <1>2, <2>15
    <3> HIDE DEF P, k, free, officers
    <3> QED BY <1>5, <2>13, <2>14, <2>19, <3>1, <3>2, <3>3, <3>4
  <2>21. m \in generate_all(EVASIONS) <=> Wandering(m) /\ (m.from = k \/ Meets(m) \in target)
    <3>1. ~(Cardinality(C) > 1)
      BY <2>2
    <3> HIDE DEF C, k, free, officers
    <3> QED BY <1>4, <2>20, <3>1
  <2>22. \A d : C = {d} <=> d = c
    BY <2>1
  <2> HIDE DEF k, C
  <2>23. (\E d : C = {d} /\ Stops(Meets(m), d, k)) <=> Stops(Meets(m), c, k)
    BY <2>22
  <2> QED BY <2>12, <2>21, <2>23 DEF k, C
<1>8. CASE ~\E c : C = {c}
  <2>1. Cardinality(C) > 1
    <3> HIDE DEF C
    <3>1. Cardinality(C) \in Nat /\ Cardinality(C) # 0 /\ Cardinality(C) # 1
      <4>1. Cardinality(C) \in Nat
        BY <1>6, FS_CardinalityType
      <4>2. Cardinality(C) # 0
        BY <1>6, FS_EmptySet DEF C
      <4>3. Cardinality(C) # 1
        BY <1>6, <1>8, FS_Singleton
      <4> QED BY <4>1, <4>2, <4>3
    <3> QED BY <3>1
  <2>2. generate_all(EVASIONS) = generate_moves({KING}, free)
    <3> HIDE DEF C, free, officers, target
    <3> QED BY <1>4, <2>1
  <2> QED BY <1>5, <1>8, <2>2
<1> QED BY <1>7, <1>8

-----------------------------------------------------------------------------
(* What becomes of the checks when a piece moves. *)

\* A pawn that captures or steps goes to a neighbouring square.
LEMMA PawnsGoNear ==
  ASSUME NEW c \in Color, NEW s \in Square, NEW t \in Square,
         t \in PawnAttacks[c][s] \/ t = s + Up(c)
  PROVE  Rules!Abs(Rules!X(s) - Rules!X(t)) <= 1 /\ Rules!Abs(Rules!Y(s) - Rules!Y(t)) <= 1
<1>1. /\ file_of(s) \in 0 .. 7 /\ rank_of(s) \in 0 .. 7 /\ s = 8 * rank_of(s) + file_of(s)
      /\ file_of(t) \in 0 .. 7 /\ rank_of(t) \in 0 .. 7 /\ t = 8 * rank_of(t) + file_of(t)
  BY Coordinates
<1>2. Up(c) = 8 \/ Up(c) = -8
  BY DEF Up, NORTH
<1>3. Rules!X(s) = file_of(s) /\ Rules!Y(s) = rank_of(s) /\ Rules!X(t) = file_of(t) /\ Rules!Y(t) = rank_of(t)
  BY DEF Rules!X, Rules!Y, file_of, rank_of
<1> DEFINE x == file_of(s)  y == rank_of(s)  u == file_of(t)  v == rank_of(t)
<1>4. /\ u <= x + 1 /\ x <= u + 1 /\ v <= y + 1 /\ y <= v + 1
  <2>1. CASE t \in PawnAttacks[c][s]
    <3>1. /\ u = x + 1 \/ x = u + 1
          /\ v = y + 1 \/ y = v + 1
      BY <2>1, PawnTakesAhead
    <3> HIDE DEF x, y, u, v
    <3> QED BY <1>1, <3>1 DEF x, y, u, v
  <2>2. CASE t = s + Up(c)
    <3> HIDE DEF x, y, u, v
    <3> QED BY <1>1, <1>2, <2>2 DEF x, y, u, v
  <2> QED BY <2>1, <2>2
<1>5. x \in 0 .. 7 /\ y \in 0 .. 7 /\ u \in 0 .. 7 /\ v \in 0 .. 7
  BY <1>1
<1> HIDE DEF x, y, u, v
<1>6. Rules!Abs(x - u) <= 1 /\ Rules!Abs(y - v) <= 1
  BY <1>4, <1>5 DEF Rules!Abs
<1> QED BY <1>3, <1>6 DEF x, y, u, v

\* Between the two ends of a double push there is but the square that is pushed over.
LEMMA PushedOver ==
  ASSUME NEW c \in Color, NEW s \in Square, NEW t \in Square, t = s + 2 * Up(c),
         NEW q \in Square
  PROVE  /\ Shaped(QUEEN, t, s)
         /\ Rules!Interposed(q, t, s) => q = s + Up(c)
<1>1. /\ file_of(s) \in 0 .. 7 /\ rank_of(s) \in 0 .. 7 /\ s = 8 * rank_of(s) + file_of(s)
      /\ file_of(t) \in 0 .. 7 /\ rank_of(t) \in 0 .. 7 /\ t = 8 * rank_of(t) + file_of(t)
      /\ file_of(q) \in 0 .. 7 /\ rank_of(q) \in 0 .. 7 /\ q = 8 * rank_of(q) + file_of(q)
  BY Coordinates
<1>2. Up(c) = 8 \/ Up(c) = -8
  BY DEF Up, NORTH
<1> DEFINE x == file_of(s)  y == rank_of(s)  u == file_of(t)  v == rank_of(t)
           p == file_of(q)  r == rank_of(q)
<1>3. u = x /\ ((Up(c) = 8 /\ v = y + 2) \/ (Up(c) = -8 /\ y = v + 2))
  <2>1. (Up(c) = 8 /\ t = s + 16) \/ (Up(c) = -8 /\ t = s - 16)
    BY <1>2
  <2> HIDE DEF x, y, u, v
  <2> QED BY ONLY <1>1, <2>1 DEF x, y, u, v
<1>4. Shaped(QUEEN, t, s)
  <2>1. Shaped(QUEEN, t, s) <=> Shaped(ROOK, t, s) \/ Shaped(BISHOP, t, s)
    BY ShapedByCoordinates
  <2>2. Shaped(ROOK, t, s) <=> ~(u = x /\ v = y) /\ (u = x \/ v = y)
    BY ShapedByCoordinates
  <2> HIDE DEF x, y, u, v
  <2> QED BY <1>1, <1>3, <2>1, <2>2 DEF x, y, u, v
<1>5. ASSUME Rules!Interposed(q, t, s) PROVE q = s + Up(c)
  <2>1. Mid(q, t, s)
    BY <1>4, <1>5, MidIsInterposed
  <2>2. /\ ~(p = x /\ r = y) /\ ~(p = u /\ r = v)
        /\ Amid(p, x, u) /\ Amid(r, y, v)
    BY <2>1 DEF Mid
  <2> HIDE DEF x, y, u, v, p, r
  <2>3. p = x /\ ((Up(c) = 8 /\ r = y + 1) \/ (Up(c) = -8 /\ y = r + 1))
    BY <1>1, <1>3, <2>2 DEF Amid, x, y, u, v, p, r
  <2> QED BY <1>1, <2>3 DEF x, y, p, r
<1> QED BY <1>4, <1>5

\* Between the ends of a move that is not castling nothing stands.
LEMMA ClearWay ==
  ASSUME Sound(board, us, st), NEW m, Wandering(m), m.type # EN_PASSANT,
         Shaped(QUEEN, m.to, m.from), NEW q \in DOMAIN board
  PROVE  ~Rules!Interposed(q, m.to, m.from)
<1> DEFINE s == m.from  t == m.to
<1>1. /\ s \in DOMAIN board /\ s \in Square /\ t \in Square /\ board[s] \in Piece /\ q \in Square
      /\ us \in Color /\ DOMAIN board \subseteq Square
  BY WanderingFits, TwoSides
<1>2. CASE t \in PawnAttacks[us][s] \/ t = s + Up(us)
  <2>1. Rules!Abs(Rules!X(s) - Rules!X(t)) <= 1 /\ Rules!Abs(Rules!Y(s) - Rules!Y(t)) <= 1
    BY <1>1, <1>2, PawnsGoNear
  <2> QED BY <1>1, <2>1, NothingBetweenNeighbours
<1>3. CASE t = s + 2 * Up(us) /\ s + Up(us) \notin DOMAIN board
  BY <1>1, <1>3, PushedOver
<1>4. CASE Roaming(m)
  <2> DEFINE pt == board[s][2]
  <2>1. pt \in PieceType \ {PAWN} /\ t \in attacks_bb(pt, s, pieces(board))
    BY <1>4, Parts DEF Roaming
  <2>2. CASE pt \in {KNIGHT, KING}
    <3>1. t \in leaper_attacks(pt, s)
      BY <2>1, <2>2 DEF attacks_bb
    <3>2. LET dx == Rules!Abs(Rules!X(s) - Rules!X(t))
              dy == Rules!Abs(Rules!Y(s) - Rules!Y(t))
          IN  {dx, dy} = {1, 2} \/ (dx <= 1 /\ dy <= 1)
      BY <1>1, <2>2, <3>1, LeaperByTheRules
    <3> QED BY <1>1, <3>2, NothingBetweenNeighbours
  <2>3. CASE pt \notin {KNIGHT, KING}
    <3>1. pt \in {BISHOP, ROOK, QUEEN} /\ t \in sliding_attack(pt, s, DOMAIN board)
      BY <2>1, <2>3 DEF attacks_bb, pieces, PieceType
    <3>2. Rules!ClearLine(board, t, s)
      <4> HIDE DEF pt, s, t
      <4> QED BY <1>1, <3>1, SlidingByTheRules
    <3> QED BY <3>2 DEF Rules!ClearLine
  <2> QED BY <2>2, <2>3
<1>5. Roaming(m) \/ t \in PawnAttacks[us][s] \/ t = s + Up(us) \/ (t = s + 2 * Up(us) /\ s + Up(us) \notin DOMAIN board)
  <2>1. Passing(m) => m.type = EN_PASSANT
    BY WanderingFits
  <2> QED BY <2>1, Parts DEF Wandering, Promoting, Pushing, Capturing, Strikes, Steps, Jumps
<1> QED BY <1>2, <1>3, <1>4, <1>5

\* Where the mover's king stands once a move other than castling is made.
LEMMA KingAfter ==
  ASSUME Sound(board, us, st), BothKings, NEW m, Wandering(m)
  PROVE  LET k == king_square(board, us)
         IN  Rules!King(BoardAfter(m), us) = IF m.from = k THEN m.to ELSE k
<1> DEFINE k == king_square(board, us)  f == BoardAfter(m)  z == IF m.from = k THEN m.to ELSE k
<1>1. Fits(m) /\ m.type # CASTLING /\ us \in Color
  BY WanderingFits, TwoSides
<1>2. f = Moved(m) /\ IsBoard(f)
  BY <1>1, BoardAfterMove, BoardStaysBoard
<1>3. k \in DOMAIN board /\ board[k] = make_piece(us, KING) /\ board[k][2] = KING
  BY <1>1, TheKing
<1>4. m.type = EN_PASSANT => ep_capture_square(m) # k
  <2>1. m.type = EN_PASSANT => board[ep_capture_square(m)][2] = PAWN
    BY <1>1, EnPassantShape DEF StandsOn, make_piece
  <2> QED BY <1>3, <2>1, Words
<1>5. m.to # k
  <2>1. m.to \notin PiecesOf(board, us)
    BY WanderingFits
  <2>2. k \in PiecesOf(board, us)
    BY <1>1, TheKing DEF PiecesOf
  <2> QED BY <2>1, <2>2
<1>6. m.from = k => Arrives(m) = board[k]
  <2>1. m.type = PROMOTION => board[m.from][2] = PAWN
    BY <1>1, Words DEF Fits, FitsNormal, FitsPromotion, FitsEnPassant, FitsCastling
  <2> QED BY <1>3, <2>1, Words DEF Arrives
<1>7. z \in DOMAIN f /\ f[z] = make_piece(us, KING)
  <2>1. CASE m.from = k
    <3>1. m.to \in DOMAIN Moved(m) /\ Moved(m)[m.to] = Arrives(m)
      BY DEF Moved
    <3> QED BY <1>2, <1>3, <1>6, <2>1, <3>1
  <2>2. CASE m.from # k
    <3>1. k \in DOMAIN Moved(m) /\ Moved(m)[k] = board[k]
      <4> HIDE DEF k
      <4> QED BY <1>3, <1>4, <1>5, <2>2 DEF Moved, Left
    <3> QED BY <1>2, <1>3, <2>2, <3>1
  <2> QED BY <2>1, <2>2
<1> HIDE DEF k, f, z
<1>8. \A q \in DOMAIN f : f[q] = <<us, "king">> <=> q = z
  <2>1. f[z][2] = KING
    BY <1>7 DEF make_piece
  <2> QED BY <1>2, <1>7, <2>1 DEF IsBoard, make_piece, KING
<1>9. Rules!King(f, us) = z
  BY <1>7, <1>8 DEF Rules!King
<1> QED BY <1>9 DEF f, z, k

\* A move of another piece than the king relocates it, as far as the king is concerned.
LEMMA MoveRelocates ==
  ASSUME Sound(board, us, st), BothKings, NEW m, Wandering(m), m.type # EN_PASSANT,
         m.from # king_square(board, us)
  PROVE  Relocated(board, them, king_square(board, us), m.from, m.to, BoardAfter(m))
<1> DEFINE k == king_square(board, us)  s == m.from  t == m.to  f == BoardAfter(m)
<1>1. /\ Fits(m) /\ m.type # CASTLING /\ s # t
      /\ s \in DOMAIN board /\ board[s][1] = us /\ t \in Square /\ t \notin PiecesOf(board, us)
  BY WanderingFits
<1>2. /\ us \in Color /\ them \in Color /\ them # us
      /\ DOMAIN board \subseteq Square /\ \A q \in DOMAIN board : board[q] \in Piece
  BY TwoSides
<1>3. f = Moved(m)
  BY <1>1, BoardAfterMove
<1>4. k \in DOMAIN board /\ board[k][1] = us
  BY <1>2, TheKing
<1>5. t # k
  BY <1>1, <1>4 DEF PiecesOf
<1>6. Arrives(m)[1] = us
  BY <1>1 DEF Arrives, make_piece
<1>7. Left(m) = {s}
  BY DEF Left
<1>8. /\ DOMAIN f = (DOMAIN board \ {s}) \cup {t} /\ f[t] = Arrives(m)
      /\ \A q \in DOMAIN f : q # t => f[q] = board[q]
  <2> HIDE DEF s, t
  <2> QED BY <1>3, <1>7 DEF Moved, s, t
<1>9. Shaped(QUEEN, t, s) => \A q \in DOMAIN board : ~Rules!Interposed(q, t, s)
  BY ClearWay
<1> HIDE DEF k, s, t, f
<1>10. Relocated(board, them, k, s, t, f)
  <2>1. s # k
    BY DEF s, k
  <2>2. board[k][1] # them /\ board[s][1] # them /\ f[t][1] # them
    BY <1>1, <1>2, <1>4, <1>6, <1>8
  <2> QED BY <1>1, <1>2, <1>4, <1>5, <1>8, <1>9, <2>1, <2>2 DEF Relocated
<1> QED BY <1>10 DEF k, s, t, f

\* What the blockers and the checkers cached say of the king to move.
LEMMA CachedForUs ==
  ASSUME Sound(board, us, st), BothKings, CheckersExact
  PROVE  LET k == king_square(board, us)
         IN  /\ st.checkersBB = Rules!AttackersOf(board, them, k)
             /\ st.blockersForKing[us] = slider_blockers(board, PiecesOf(board, them), k)
<1>1. us \in Color /\ Rules!King(board, us) = king_square(board, us) /\ them = Opposite(us)
  BY TheKing, TwoSides
<1>2. st.blockersForKing = blockersForKing(board)
  BY DEF Sound
<1> QED BY <1>1, <1>2 DEF CheckersExact, blockersForKing

\* A move of another piece than the king, not en passant, is safe when legal() lets it
\* pass and it takes each checker or stands in its way.
LEMMA SafeAfterMove ==
  ASSUME Sound(board, us, st), BothKings, CheckersExact, NEW m, Wandering(m),
         m.type # EN_PASSANT, m.from # king_square(board, us)
  PROVE  ~Rules!InCheck(BoardAfter(m), us) <=>
           legal(m) /\ \A c \in st.checkersBB : Stops(m.to, c, king_square(board, us))
<1> DEFINE k == king_square(board, us)  s == m.from  t == m.to  f == BoardAfter(m)
           pinned == s \in slider_blockers(board, PiecesOf(board, them), k) => aligned(s, t, k)
<1>1. Relocated(board, them, k, s, t, f)
  BY MoveRelocates
<1>2. /\ st.checkersBB = Rules!AttackersOf(board, them, k)
      /\ st.blockersForKing[us] = slider_blockers(board, PiecesOf(board, them), k)
  BY CachedForUs
<1>3. m.type # CASTLING
  BY WanderingFits
<1>4. legal(m) <=> pinned
  BY <1>2, <1>3 DEF legal
<1>5. Rules!InCheck(f, us) <=> Rules!AttackersOf(f, them, k) # {}
  <2>1. Rules!King(f, us) = k
    BY KingAfter
  <2>2. Rules!Other(us) = them
    BY TwoSides
  <2> HIDE DEF f, k
  <2> QED BY <2>1, <2>2 DEF Rules!InCheck
<1> HIDE DEF k, s, t, f
<1>6. ASSUME pinned, \A c \in st.checkersBB : Stops(t, c, k), NEW o \in Rules!AttackersOf(f, them, k) PROVE FALSE
  <2>1. o \in Rules!AttackersOf(board, them, k) /\ ~Stops(t, o, k)
    BY <1>1, <1>6, OnlyOldAttackers
  <2> QED BY <1>2, <1>6, <2>1
<1>7. ASSUME Rules!AttackersOf(f, them, k) = {}
      PROVE  pinned /\ \A c \in st.checkersBB : Stops(t, c, k)
  <2>1. pinned
    BY <1>1, <1>7, BlockerUncovers
  <2>2. ASSUME NEW c \in st.checkersBB PROVE Stops(t, c, k)
    BY <1>1, <1>2, <1>7, AttackStopped
  <2> QED BY <2>1, <2>2
<1> HIDE DEF pinned
<1>8. ~Rules!InCheck(f, us) <=> pinned /\ \A c \in st.checkersBB : Stops(t, c, k)
  BY <1>5, <1>6, <1>7
<1> QED BY <1>4, <1>8 DEF k, t, f

\* The king moves to safety just when legal(), which looks through the square it leaves,
\* says so.
LEMMA SafeAfterKingMove ==
  ASSUME Sound(board, us, st), BothKings, NEW m, Wandering(m), m.from = king_square(board, us)
  PROVE  ~Rules!InCheck(BoardAfter(m), us) <=> legal(m)
<1> DEFINE k == m.from  t == m.to  f == BoardAfter(m)  occ == DOMAIN board \ {k}
<1>1. /\ Fits(m) /\ m.type # CASTLING /\ k \in DOMAIN board /\ t \in Square /\ t \notin PiecesOf(board, us)
      /\ Roaming(m) <=> board[k][2] # PAWN
      /\ Roaming(m) => m.type = NORMAL
  BY WanderingFits
<1>2. /\ us \in Color /\ them \in Color /\ them # us /\ Rules!Other(us) = them
      /\ DOMAIN board \subseteq Square /\ \A q \in DOMAIN board : board[q] \in Piece
  BY TwoSides
<1>3. board[k] = make_piece(us, KING) /\ board[k][1] = us /\ board[k][2] = KING
  BY <1>2, TheKing
<1>4. m.type = NORMAL
  BY <1>1, <1>3, Words
<1>5. legal(m) <=> attackers_to(board, t, occ) \cap PiecesOf(board, them) = {}
  BY <1>1, <1>4, Words DEF legal, pieces
<1>6. /\ DOMAIN f = occ \cup {t} /\ f[t] = board[k]
      /\ \A q \in DOMAIN f : q # t => f[q] = board[q]
  <2>1. f = Moved(m) /\ Left(m) = {k} /\ Arrives(m) = board[k]
    BY <1>1, <1>4, BoardAfterMove, Words DEF Left, Arrives
  <2> HIDE DEF k, t
  <2> QED BY <2>1 DEF Moved, k, t
<1>7. Rules!InCheck(f, us) <=> Rules!AttackersOf(f, them, t) # {}
  <2>1. Rules!King(f, us) = t
    BY KingAfter
  <2> HIDE DEF f, t
  <2> QED BY <1>2, <2>1 DEF Rules!InCheck
<1> HIDE DEF k, t, f, occ
<1>8. occ \in SUBSET Square /\ DOMAIN f \subseteq Square /\ occ = DOMAIN board \ {k}
  BY <1>1, <1>2, <1>6 DEF occ
<1>9. ASSUME NEW o \in DOMAIN board, board[o][1] = them
      PROVE  o \in attackers_to(board, t, occ) <=> o \in Rules!AttackersOf(f, them, t)
  <2>1. o # k /\ o \in occ /\ o \in Square
    BY <1>2, <1>3, <1>8, <1>9
  <2>2. CASE o = t
    <3> DEFINE g == [q \in occ |-> board[q]]
    <3>1. g[o] = board[o] /\ DOMAIN g = occ
      BY <2>1
    <3> HIDE DEF g
    <3>2. o \in attackers_to(board, t, occ) <=> Rules!Attacks(g, o, t)
      BY <1>1, <1>2, <1>8, <3>1, AttackersThrough
    <3>3. ~Rules!Attacks(g, o, t)
      BY <2>2 DEF Rules!Attacks
    <3>4. f[t][1] # them
      BY <1>2, <1>3, <1>6
    <3> QED BY <2>2, <3>2, <3>3, <3>4 DEF Rules!AttackersOf
  <2>3. CASE o # t
    <3>1. o \in DOMAIN f /\ f[o] = board[o]
      BY <1>6, <2>1, <2>3
    <3>2. \A q \in Square : q # o /\ q # t => (q \in occ <=> q \in DOMAIN f)
      BY <1>6
    <3>3. o \in attackers_to(board, t, occ) <=> Rules!Attacks(f, o, t)
      BY <1>1, <1>2, <1>8, <3>1, <3>2, AttackersThrough
    <3> QED BY <1>9, <3>1, <3>3 DEF Rules!AttackersOf
  <2> QED BY <2>2, <2>3
<1>10. \A o \in Rules!AttackersOf(f, them, t) : o \in DOMAIN board /\ board[o][1] = them
  <2> SUFFICES ASSUME NEW o \in Rules!AttackersOf(f, them, t) PROVE o \in DOMAIN board /\ board[o][1] = them
    OBVIOUS
  <2>1. o \in DOMAIN f /\ f[o][1] = them
    BY DEF Rules!AttackersOf
  <2>2. o # t
    BY <1>2, <1>3, <1>6, <2>1
  <2> QED BY <1>6, <1>8, <2>1, <2>2
<1>11. attackers_to(board, t, occ) \cap PiecesOf(board, them) = {} <=> Rules!AttackersOf(f, them, t) = {}
  BY <1>9, <1>10 DEF PiecesOf
<1> QED BY <1>5, <1>7, <1>11 DEF f

-----------------------------------------------------------------------------
(* En passant. *)

\* The square a pawn has just crossed does not lie in the way of a check: the pawn came
\* from behind it, and its king was not in check before.
EpBehind == st.epSquare # SQ_NONE =>
  \A o \in Rules!AttackersOf(board, them, Rules!King(board, us)) :
     ~Stops(st.epSquare, o, Rules!King(board, us))

\* SlidersReach looks for a sniper with a clear line through the given occupancy.
LEMMA SlidersReaching ==
  ASSUME DOMAIN board \subseteq Square, NEW e, NEW k \in Square, NEW f, DOMAIN f \subseteq Square
  PROVE  SlidersReach(e, k, DOMAIN f) <=>
           \E o \in Square : Sniper(board, e, k, o) /\ Rules!ClearLine(f, o, k)
<1> DEFINE occ == DOMAIN f
<1>1. occ \in SUBSET Square /\ \A o : \A q \in Square : q # o /\ q # k => (q \in occ <=> q \in DOMAIN f)
  OBVIOUS
<1>2. ASSUME NEW pt \in {ROOK, BISHOP}, NEW o
      PROVE  o \in attacks_bb(pt, k, occ) \cap SlidersOn(board, pt) \cap PiecesOf(board, e) <=>
               /\ o \in DOMAIN board /\ board[o][1] = e /\ board[o][2] \in {pt, QUEEN}
               /\ Shaped(pt, o, k) /\ Rules!ClearLine(f, o, k)
  <2>1. attacks_bb(pt, k, occ) = sliding_attack(pt, k, occ) /\ pt \in {BISHOP, ROOK, QUEEN}
    BY Words DEF attacks_bb
  <2>2. o \in SlidersOn(board, pt) \cap PiecesOf(board, e) <=>
          o \in DOMAIN board /\ board[o][1] = e /\ board[o][2] \in {pt, QUEEN}
    BY DEF SlidersOn, PiecesOf, PiecesOfType
  <2>3. ASSUME o \in DOMAIN board
        PROVE  o \in sliding_attack(pt, k, occ) <=> Shaped(pt, o, k) /\ Rules!ClearLine(f, o, k)
    <3>1. o \in Square
      BY <2>3
    <3> HIDE DEF occ
    <3> QED BY <1>1, <2>1, <3>1, SlidingThrough
  <2> HIDE DEF occ
  <2> QED BY <2>1, <2>2, <2>3
<1>3. SlidersReach(e, k, occ) <=>
        \E pt \in {ROOK, BISHOP} : \E o : o \in attacks_bb(pt, k, occ) \cap SlidersOn(board, pt) \cap PiecesOf(board, e)
  BY DEF SlidersReach
<1> HIDE DEF occ
<1>4. SlidersReach(e, k, occ) <=>
        \E pt \in {ROOK, BISHOP} : \E o :
           /\ o \in DOMAIN board /\ board[o][1] = e /\ board[o][2] \in {pt, QUEEN}
           /\ Shaped(pt, o, k) /\ Rules!ClearLine(f, o, k)
  BY <1>2, <1>3
<1>5. SlidersReach(e, k, occ) <=> \E o \in Square : Sniper(board, e, k, o) /\ Rules!ClearLine(f, o, k)
  BY <1>4 DEF Sniper
<1> QED BY <1>5 DEF occ

\* An en passant capture is safe when legal(), which asks for sliders through the board
\* without the two pawns, lets it pass, and no other piece than the pawn it takes gives
\* check.
LEMMA SafeAfterEnPassant ==
  ASSUME Sound(board, us, st), BothKings, CheckersExact, EpBehind, NEW m, Wandering(m), m.type = EN_PASSANT
  PROVE  ~Rules!InCheck(BoardAfter(m), us) <=>
           legal(m) /\ \A c \in st.checkersBB : Stops(Meets(m), c, king_square(board, us))
<1> DEFINE k == king_square(board, us)  s == m.from  t == m.to  f == BoardAfter(m)
           x == ep_capture_square(m)
<1>1. /\ Fits(m) /\ m.type # CASTLING /\ s \in DOMAIN board /\ t \in Square /\ board[s][1] = us
      /\ Roaming(m) <=> board[s][2] # PAWN
      /\ Roaming(m) => m.type = NORMAL
  BY WanderingFits
<1>2. /\ us \in Color /\ them \in Color /\ them # us /\ Rules!Other(us) = them
      /\ DOMAIN board \subseteq Square /\ \A q \in DOMAIN board : board[q] \in Piece
  BY TwoSides
<1>3. /\ k \in DOMAIN board /\ k \in Square /\ board[k][1] = us /\ board[k][2] = KING
      /\ Rules!King(board, us) = k
  BY <1>2, TheKing
<1>4. /\ t = st.epSquare /\ t # SQ_NONE /\ t \notin DOMAIN board
      /\ x \in DOMAIN board /\ board[x] = make_piece(them, PAWN) /\ x # s /\ x # t
  BY <1>1, EnPassantShape DEF StandsOn, Square, SQ_NONE
<1>5. board[s][2] = PAWN
  BY <1>1, Words
<1>6. s # k
  BY <1>3, <1>5, Words
<1>7. Rules!InCheck(f, us) <=> Rules!AttackersOf(f, them, k) # {}
  <2>1. Rules!King(f, us) = k
    BY <1>6, KingAfter
  <2> HIDE DEF f, k
  <2> QED BY <1>2, <2>1 DEF Rules!InCheck
<1>8. /\ DOMAIN f = (DOMAIN board \ {s, x}) \cup {t} /\ f[t][1] = us
      /\ \A q \in DOMAIN f : q # t => f[q] = board[q]
  <2>1. f = Moved(m) /\ Left(m) = {s, x} /\ Arrives(m) = board[s]
    BY <1>1, BoardAfterMove, Words DEF Left, Arrives
  <2> HIDE DEF s, t, x
  <2> QED BY <1>1, <2>1 DEF Moved, s, t
<1>9. legal(m) <=> ~SlidersReach(them, k, DOMAIN f)
  <2>1. legal(m) <=> ~SlidersReach(them, k, ep_occupancy(m))
    BY <1>6, Words DEF legal
  <2>2. ep_occupancy(m) = DOMAIN f
    <3> HIDE DEF f
    <3> QED BY <1>8 DEF ep_occupancy, pieces
  <2> QED BY <2>1, <2>2
<1>10. st.checkersBB = Rules!AttackersOf(board, them, k)
  BY CachedForUs
<1>11. Meets(m) = x
  BY DEF Meets
<1>12. \A o \in Rules!AttackersOf(board, them, k) : ~Stops(t, o, k)
  <2> HIDE DEF k, t
  <2> QED BY <1>3, <1>4 DEF EpBehind
<1> DEFINE C == Rules!AttackersOf(board, them, k)
<1> HIDE DEF k, s, t, f, x, C
<1>13. DOMAIN f \subseteq Square
  BY <1>1, <1>2, <1>8
<1>14. SlidersReach(them, k, DOMAIN f) <=> \E o \in Square : Sniper(board, them, k, o) /\ Rules!ClearLine(f, o, k)
  BY <1>2, <1>3, <1>13, SlidersReaching
<1>15. ASSUME NEW o \in DOMAIN board, board[o][1] = them
       PROVE  /\ o \in Square /\ board[o] \in Piece /\ o # s /\ o # t
              /\ o # x => o \in DOMAIN f /\ f[o] = board[o]
              /\ o \in C <=> Rules!Attacks(board, o, k)
              /\ o # x => (o \in Rules!AttackersOf(f, them, k) <=> Rules!Attacks(f, o, k))
  <2>1. o \in Square /\ board[o] \in Piece /\ o # s /\ o # t
    BY <1>1, <1>2, <1>4, <1>15
  <2>2. o # x => o \in DOMAIN f /\ f[o] = board[o]
    BY <1>8, <2>1
  <2> QED BY <1>15, <2>1, <2>2 DEF Rules!AttackersOf, C
<1>16. ASSUME NEW o, Sniper(board, them, k, o)
       PROVE  o \in DOMAIN board /\ board[o][1] = them /\ o # x /\ Shaped(QUEEN, o, k)
  <2>1. board[x][2] = PAWN
    BY <1>4 DEF make_piece
  <2>2. o \in DOMAIN board /\ board[o][1] = them /\ o # x
    BY <1>16, <2>1, Words DEF Sniper
  <2> QED BY <1>16, <2>2, Words DEF Sniper, Shaped
<1>17. \A o : o \in Rules!AttackersOf(f, them, k) => o \in DOMAIN board /\ board[o][1] = them /\ o # x
  <2> SUFFICES ASSUME NEW o, o \in Rules!AttackersOf(f, them, k) PROVE o \in DOMAIN board /\ board[o][1] = them /\ o # x
    OBVIOUS
  <2>1. o \in DOMAIN f /\ f[o][1] = them
    BY DEF Rules!AttackersOf
  <2>2. o # t
    BY <1>2, <1>8, <2>1
  <2> QED BY <1>4, <1>8, <2>1, <2>2
<1>18. ASSUME Rules!AttackersOf(f, them, k) = {}
       PROVE  ~SlidersReach(them, k, DOMAIN f) /\ \A c \in C : c = x
  <2>1. ASSUME NEW o \in Square, Sniper(board, them, k, o), Rules!ClearLine(f, o, k) PROVE FALSE
    <3>1. o \in DOMAIN board /\ board[o][1] = them /\ o # x
      BY <1>16, <2>1
    <3>2. f[o] = board[o] /\ o \notin Rules!AttackersOf(f, them, k)
      BY <1>15, <1>18, <3>1
    <3>3. Rules!Attacks(f, o, k)
      BY <2>1, <3>2, SniperStrikes
    <3> QED BY <1>15, <3>1, <3>2, <3>3
  <2>2. ASSUME NEW c \in C, c # x PROVE FALSE
    <3>1. c \in DOMAIN board /\ board[c][1] = them /\ Rules!Attacks(board, c, k)
      BY DEF C, Rules!AttackersOf
    <3>2. /\ c \in Square /\ board[c] \in Piece /\ f[c] = board[c] /\ ~Rules!Attacks(f, c, k)
      BY <1>15, <1>18, <2>2, <3>1
    <3>3. Sniper(board, them, k, c)
      BY <3>1, <3>2, OthersAttackAnyway
    <3>4. Rules!ClearLine(board, c, k)
      BY <3>1, <3>3, SniperStrikes
    <3>5. ~Rules!Interposed(t, c, k)
      <4>1. Shaped(QUEEN, c, k)
        BY <1>16, <3>3
      <4> QED BY <1>12, <4>1 DEF C, Stops
    <3>6. Rules!ClearLine(f, c, k)
      BY <1>8, <3>4, <3>5 DEF Rules!ClearLine
    <3> QED BY <2>1, <3>2, <3>3, <3>6
  <2> QED BY <1>14, <2>1, <2>2
<1>19. ASSUME ~SlidersReach(them, k, DOMAIN f), \A c \in C : c = x,
              NEW o \in Rules!AttackersOf(f, them, k)
       PROVE  FALSE
  <2>1. o \in DOMAIN board /\ board[o][1] = them /\ o # x
    BY <1>17, <1>19
  <2>2. o \in Square /\ board[o] \in Piece /\ f[o] = board[o] /\ Rules!Attacks(f, o, k) /\ ~Rules!Attacks(board, o, k)
    BY <1>15, <1>19, <2>1
  <2>3. Sniper(board, them, k, o)
    BY <2>1, <2>2, OthersAttackAnyway
  <2>4. Rules!ClearLine(f, o, k)
    BY <2>2, <2>3, SniperStrikes
  <2> QED BY <1>14, <1>19, <2>2, <2>3, <2>4
<1>20. \A c \in C : Stops(x, c, k) <=> c = x
  <2> SUFFICES ASSUME NEW c \in C PROVE Stops(x, c, k) <=> c = x
    OBVIOUS
  <2>1. Shaped(QUEEN, c, k) => \A q \in DOMAIN board : ~Rules!Interposed(q, c, k)
    <3>1. c \in Rules!AttackersOf(board, them, k)
      BY DEF C
    <3> QED BY <1>2, <1>3, <3>1, NothingBeforeAttackers
  <2> QED BY <1>4, <2>1 DEF Stops
<1>21. ~Rules!InCheck(f, us) <=> legal(m) /\ \A c \in C : Stops(x, c, k)
  BY <1>7, <1>9, <1>18, <1>19, <1>20
<1> QED BY <1>10, <1>11, <1>21 DEF C, f, k

-----------------------------------------------------------------------------
(* generate<LEGAL>: the pieces that wander, and the king that castles. *)

\* In every case: legal() and the target of an evasion are right together.
LEMMA SafeWandering ==
  ASSUME Sound(board, us, st), BothKings, CheckersExact, EpBehind, NEW m, Wandering(m)
  PROVE  LET k == king_square(board, us)
         IN  ~Rules!InCheck(BoardAfter(m), us) <=>
               legal(m) /\ (m.from = k \/ \A c \in st.checkersBB : Stops(Meets(m), c, k))
<1> DEFINE k == king_square(board, us)
<1>1. CASE m.type = EN_PASSANT
  <2>1. m.from # k
    <3>1. us \in Color /\ Fits(m) /\ (Roaming(m) <=> board[m.from][2] # PAWN) /\ (Roaming(m) => m.type = NORMAL)
      BY TwoSides, WanderingFits
    <3>2. board[k][2] = KING
      BY <3>1, TheKing
    <3>3. board[m.from][2] = PAWN
      BY <1>1, <3>1, Words
    <3> HIDE DEF k
    <3> QED BY <3>2, <3>3, Words
  <2> QED BY <1>1, <2>1, SafeAfterEnPassant
<1>2. CASE m.type # EN_PASSANT /\ m.from = k
  BY <1>2, SafeAfterKingMove
<1>3. CASE m.type # EN_PASSANT /\ m.from # k
  BY <1>3, SafeAfterMove DEF Meets
<1> QED BY <1>1, <1>2, <1>3

\* The moves generate<LEGAL> lists: those after which the king is not attacked, and, out
\* of check, the castling moves that legal() lets pass.
LEMMA LegalWandering ==
  ASSUME Sound(board, us, st), BothKings, CheckersExact, EpBehind, NEW m
  PROVE  m \in LegalMoves <=>
           \/ Wandering(m) /\ ~Rules!InCheck(BoardAfter(m), us)
           \/ st.checkersBB = {} /\ m \in generate_castling /\ legal(m)
<1> DEFINE k == king_square(board, us)  C == st.checkersBB
           pinned == st.blockersForKing[us] \cap PiecesOf(board, us)
           suspect == m.from \in pinned \/ m.from = k \/ m.type = EN_PASSANT
           generated == generate_all(IF C # {} THEN EVASIONS ELSE NON_EVASIONS)
<1>1. m \in LegalMoves <=> m \in generated /\ (suspect => legal(m))
  BY DEF LegalMoves
<1>2. Wandering(m) => (~suspect => legal(m)) /\ Meets(m) \in Square
  <2> SUFFICES ASSUME Wandering(m) PROVE (~suspect => legal(m)) /\ Meets(m) \in Square
    OBVIOUS
  <2>1. /\ Fits(m) /\ m.type # CASTLING /\ m.from \in DOMAIN board /\ board[m.from][1] = us
        /\ m.to \in Square
    BY WanderingFits
  <2>2. ~suspect => legal(m)
    BY <2>1, TrustedIsLegal DEF PiecesOf
  <2>3. m.type = EN_PASSANT => ep_capture_square(m) \in Square
    BY <2>1, EnPassantShape, TwoSides DEF StandsOn
  <2> QED BY <2>1, <2>2, <2>3 DEF Meets
<1>3. m \in generate_castling => suspect /\ m.type = CASTLING
  BY Parts DEF generate_castling
<1>4. Wandering(m) => (~Rules!InCheck(BoardAfter(m), us) <=>
                         legal(m) /\ (m.from = k \/ \A c \in C : Stops(Meets(m), c, k)))
  BY SafeWandering
<1>5. C = Rules!AttackersOf(board, them, k)
  BY CachedForUs
<1>6. k \in Square /\ us \in Color /\ DOMAIN board \subseteq Square /\ \A q \in DOMAIN board : board[q] \in Piece
  BY TheKing, TwoSides
<1>7. CASE C = {}
  <2>1. m \in generated <=> Wandering(m) \/ m \in generate_castling
    <3>1. generated = generate_all(NON_EVASIONS)
      BY <1>7
    <3> HIDE DEF generated
    <3> QED BY <3>1, ListedOutOfCheck
  <2> HIDE DEF k, C, suspect, generated
  <2> QED BY <1>1, <1>2, <1>3, <1>4, <1>7, <2>1 DEF C
<1>8. CASE C # {}
  <2>1. m \in generated <=> Wandering(m) /\ (m.from = k \/ \E c : C = {c} /\ Stops(Meets(m), c, k))
    <3>1. generated = generate_all(EVASIONS)
      BY <1>8
    <3> HIDE DEF generated
    <3> QED BY <1>8, <3>1, ListedInCheck
  <2> HIDE DEF k, C, suspect, generated
  <2>2. Wandering(m) => ((\A c \in C : Stops(Meets(m), c, k)) <=> \E c : C = {c} /\ Stops(Meets(m), c, k))
    <3> SUFFICES ASSUME Wandering(m), \A c \in C : Stops(Meets(m), c, k)
                 PROVE  \E c : C = {c} /\ Stops(Meets(m), c, k)
      OBVIOUS
    <3>1. PICK c \in C : TRUE
      BY <1>8
    <3>2. ASSUME NEW a \in C PROVE a = c
      BY <1>2, <1>5, <1>6, <3>1, OneStopsOne
    <3>3. C = {c}
      BY <3>1, <3>2
    <3> QED BY <3>1, <3>3
  <2> QED BY <1>1, <1>2, <1>4, <1>8, <2>1, <2>2 DEF C
<1> QED BY <1>7, <1>8

-----------------------------------------------------------------------------
(* The moves of the rules. *)

\* What a piece attacks by the rules is what the code's tables attack from its square.
LEMMA AttacksForward ==
  ASSUME NEW b, DOMAIN b \subseteq Square, NEW s \in DOMAIN b, b[s] \in Piece, NEW t \in Square
  PROVE  /\ b[s][2] # PAWN => (Rules!Attacks(b, s, t) <=> t \in attacks_bb(b[s][2], s, DOMAIN b))
         /\ b[s][2] = PAWN => (Rules!Attacks(b, s, t) <=> t \in PawnAttacks[b[s][1]][s])
<1> DEFINE pt == b[s][2]  dx == Rules!Abs(Rules!X(t) - Rules!X(s))  dy == Rules!Abs(Rules!Y(t) - Rules!Y(s))
           ex == Rules!Abs(Rules!X(s) - Rules!X(t))  ey == Rules!Abs(Rules!Y(s) - Rules!Y(t))
<1>1. s \in Square /\ pt \in PieceType /\ b[s][1] \in Color
  BY DEF Piece
<1>2. dx = ex /\ dy = ey /\ dx \in Int /\ dy \in Int
  <2>1. Rules!X(s) \in Int /\ Rules!X(t) \in Int /\ Rules!Y(s) \in Int /\ Rules!Y(t) \in Int
    BY <1>1 DEF Square, Rules!X, Rules!Y
  <2>2. \A i, j \in Int : Rules!Abs(i - j) = Rules!Abs(j - i) /\ Rules!Abs(i - j) \in Int
    BY DEF Rules!Abs
  <2> QED BY <2>1, <2>2
<1>3. CASE pt = PAWN
  <2>1. Rules!Attacks(b, s, t) <=> s # t /\ dx = 1 /\ Rules!Y(t) - Rules!Y(s) = Rules!Forward(b[s][1])
    BY <1>3 DEF Rules!Attacks, PAWN
  <2>2. s \in PawnAttacks[Opposite(b[s][1])][t] <=> dx = 1 /\ Rules!Y(t) - Rules!Y(s) = Rules!Forward(b[s][1])
    BY <1>1, PawnByTheRules
  <2>3. t \in PawnAttacks[b[s][1]][s] <=> s \in PawnAttacks[Opposite(b[s][1])][t]
    BY <1>1, PawnAttacksBack
  <2>4. dx = 1 => s # t
    <3>1. Rules!Abs(Rules!X(s) - Rules!X(s)) = 0
      BY <1>1 DEF Rules!Abs, Rules!X, Square
    <3> QED BY <3>1
  <2> QED BY <1>3, <2>1, <2>2, <2>3, <2>4
<1>4. CASE pt = KNIGHT
  <2>1. t \in leaper_attacks(KNIGHT, s) <=> {ex, ey} = {1, 2}
    BY <1>1, LeaperByTheRules
  <2>2. Rules!Attacks(b, s, t) <=> s # t /\ {dx, dy} = {1, 2}
    BY <1>4, Words DEF Rules!Attacks, PAWN, KNIGHT
  <2>3. t \in leaper_attacks(KNIGHT, s) => s # t
    BY <1>1, LeaperOnBoard
  <2>4. attacks_bb(pt, s, DOMAIN b) = leaper_attacks(KNIGHT, s)
    BY <1>4 DEF attacks_bb
  <2> QED BY <1>2, <1>4, <2>1, <2>2, <2>3, <2>4, Words
<1>5. CASE pt = KING
  <2>1. t \in leaper_attacks(KING, s) <=> t # s /\ ex <= 1 /\ ey <= 1
    BY <1>1, LeaperByTheRules
  <2>2. Rules!Attacks(b, s, t) <=> s # t /\ dx <= 1 /\ dy <= 1
    BY <1>5, Words DEF Rules!Attacks, PAWN, KNIGHT, KING
  <2>3. attacks_bb(pt, s, DOMAIN b) = leaper_attacks(KING, s)
    BY <1>5 DEF attacks_bb
  <2> QED BY <1>2, <1>5, <2>1, <2>2, <2>3, Words
<1>6. CASE pt \in {BISHOP, ROOK, QUEEN}
  <2>1. attacks_bb(pt, s, DOMAIN b) = sliding_attack(pt, s, DOMAIN b)
    BY <1>6, Words DEF attacks_bb
  <2>2. t \in sliding_attack(pt, s, DOMAIN b) <=> Shaped(pt, t, s) /\ Rules!ClearLine(b, t, s)
    <3> HIDE DEF pt
    <3> QED BY <1>1, <1>6, SlidingByTheRules
  <2>3. Shaped(pt, t, s) <=> Shaped(pt, s, t)
    <3> HIDE DEF pt
    <3> QED BY <1>1, <1>6, LinesBothWays
  <2>4. Shaped(pt, s, t) => (Rules!ClearLine(b, t, s) <=> Rules!ClearLine(b, s, t))
    <3>1. Shaped(pt, s, t) => Shaped(QUEEN, s, t)
      BY <1>6, Words DEF Shaped
    <3>2. Shaped(QUEEN, s, t) => \A q \in Square : Rules!Interposed(q, s, t) <=> Rules!Interposed(q, t, s)
      BY <1>1, LinesBothWays
    <3> QED BY <3>1, <3>2 DEF Rules!ClearLine
  <2>5. Rules!Attacks(b, s, t) <=> Shaped(pt, s, t) /\ Rules!ClearLine(b, s, t)
    <3>1. CASE pt = BISHOP
      BY <3>1, Words DEF Rules!Attacks, Shaped, PAWN, KNIGHT, BISHOP, ROOK, QUEEN, KING
    <3>2. CASE pt = ROOK
      BY <3>2, Words DEF Rules!Attacks, Shaped, PAWN, KNIGHT, BISHOP, ROOK, QUEEN, KING
    <3>3. CASE pt = QUEEN
      BY <3>3, Words DEF Rules!Attacks, Shaped, PAWN, KNIGHT, BISHOP, ROOK, QUEEN, KING
    <3> QED BY <1>6, <3>1, <3>2, <3>3
  <2> QED BY <1>6, <2>1, <2>2, <2>3, <2>4, <2>5, Words
<1> QED BY <1>1, <1>3, <1>4, <1>5, <1>6 DEF PieceType

\* Ranks as the rules count them.
LEMMA RanksOfTheRules ==
  ASSUME NEW c \in Color, NEW s \in Square, NEW t \in Square
  PROVE  /\ Rules!Y(s) = Rules!PawnRank(c) <=> relative_rank(c, s) = 1
         /\ Rules!Y(s) = Rules!LastRank(c) <=> relative_rank(c, s) = 7
         /\ Rules!X(s) = Rules!X(t) /\ (Rules!Y(t) - Rules!Y(s)) * Rules!Forward(c) = 1 <=> t = s + Up(c)
         /\ Rules!X(s) = Rules!X(t) /\ (Rules!Y(t) - Rules!Y(s)) * Rules!Forward(c) = 2 <=> t = s + 2 * Up(c)
<1> DEFINE x == file_of(s)  y == rank_of(s)  u == file_of(t)  v == rank_of(t)
<1>1. /\ x \in 0 .. 7 /\ y \in 0 .. 7 /\ s = 8 * y + x
      /\ u \in 0 .. 7 /\ v \in 0 .. 7 /\ t = 8 * v + u
  BY Coordinates
<1>2. Rules!X(s) = x /\ Rules!Y(s) = y /\ Rules!X(t) = u /\ Rules!Y(t) = v
  BY DEF Rules!X, Rules!Y, file_of, rank_of
<1>3. relative_rank(c, s) = IF c = 0 THEN y ELSE 7 - y
  BY DEF relative_rank, WHITE
<1> HIDE DEF x, y, u, v
<1>4. CASE c = 0
  <2>1. Up(c) = 8 /\ Rules!Forward(c) = 1 /\ Rules!PawnRank(c) = 1 /\ Rules!LastRank(c) = 7 /\ 2 * Up(c) = 16
    BY <1>4 DEF Up, NORTH, WHITE, Rules!Forward, Rules!PawnRank, Rules!LastRank, Rules!HomeRank, Rules!Other
  <2>2. (Rules!Y(t) - Rules!Y(s)) * Rules!Forward(c) = v - y
    BY <1>1, <1>2, <2>1
  <2>3. /\ x = u /\ v - y = 1 <=> t = s + 8
        /\ x = u /\ v - y = 2 <=> t = s + 16
    BY ONLY <1>1
  <2>4. /\ Rules!X(s) = Rules!X(t) /\ (Rules!Y(t) - Rules!Y(s)) * Rules!Forward(c) = 1 <=> t = s + Up(c)
        /\ Rules!X(s) = Rules!X(t) /\ (Rules!Y(t) - Rules!Y(s)) * Rules!Forward(c) = 2 <=> t = s + 2 * Up(c)
    BY ONLY <1>2, <2>1, <2>2, <2>3
  <2>5. /\ Rules!Y(s) = Rules!PawnRank(c) <=> relative_rank(c, s) = 1
        /\ Rules!Y(s) = Rules!LastRank(c) <=> relative_rank(c, s) = 7
    BY ONLY <1>2, <1>3, <1>4, <2>1
  <2> QED BY ONLY <2>4, <2>5
<1>5. CASE c = 1
  <2>1. Up(c) = -8 /\ Rules!Forward(c) = -1 /\ Rules!PawnRank(c) = 6 /\ Rules!LastRank(c) = 0 /\ 2 * Up(c) = -16
    BY <1>5 DEF Up, NORTH, WHITE, Rules!Forward, Rules!PawnRank, Rules!LastRank, Rules!HomeRank, Rules!Other
  <2>2. (v - y) * (-1) = y - v
    BY <1>1
  <2> QED BY <1>1, <1>2, <1>3, <1>5, <2>1, <2>2
<1> QED BY <1>4, <1>5 DEF Color, WHITE, BLACK

\* The pawn moves of the rules: strikes, steps, double pushes and en passant captures.
LEMMA PawnsMayGo ==
  ASSUME Sound(board, us, st), NEW s \in PiecesOf(board, us), board[s][2] = PAWN,
         NEW t \in Square \ PiecesOf(board, us)
  PROVE  Rules!PawnMayGo(Seen, s, t) <=>
           \/ Strikes(s, t) \/ Steps(s, t) \/ Jumps(s, t)
           \/ t = st.epSquare /\ t \in PawnAttacks[us][s]
<1>1. /\ s \in Square /\ s \in DOMAIN board /\ board[s] \in Piece /\ board[s][1] = us /\ us \in Color
      /\ DOMAIN board \subseteq Square
      /\ \A q \in DOMAIN board : board[q][1] = us \/ board[q][1] = them
      /\ them # us
  BY OwnPieces, TwoSides
<1> DEFINE step == (Rules!Y(t) - Rules!Y(s)) * Rules!Forward(us)
<1>2. Rules!PawnMayGo(Seen, s, t) <=>
        IF Rules!X(s) = Rules!X(t)
        THEN /\ t \notin DOMAIN board
             /\ step = 1 \/ (step = 2 /\ Rules!Y(s) = Rules!PawnRank(us) /\ Rules!ClearLine(board, s, t))
        ELSE Rules!Attacks(board, s, t) /\ (t \in DOMAIN board \/ t = st.epSquare)
  <2>1. Seen.board = board /\ Seen.side = us /\ Seen.crossed = st.epSquare
    BY DEF Seen, us
  <2> QED BY <2>1 DEF Rules!PawnMayGo
<1>3. /\ Rules!Y(s) = Rules!PawnRank(us) <=> relative_rank(us, s) = 1
      /\ Rules!X(s) = Rules!X(t) /\ step = 1 <=> t = s + Up(us)
      /\ Rules!X(s) = Rules!X(t) /\ step = 2 <=> t = s + 2 * Up(us)
  BY <1>1, RanksOfTheRules
<1>4. Rules!Attacks(board, s, t) <=> t \in PawnAttacks[us][s]
  BY <1>1, AttacksForward
<1>5. t \in PawnAttacks[us][s] => Rules!X(s) # Rules!X(t)
  <2>1. t \in PawnAttacks[us][s] => (file_of(t) = file_of(s) + 1 \/ file_of(s) = file_of(t) + 1)
    BY <1>1, PawnTakesAhead
  <2>2. file_of(s) \in 0 .. 7 /\ file_of(t) \in 0 .. 7
    BY <1>1, Coordinates
  <2>3. Rules!X(s) = file_of(s) /\ Rules!X(t) = file_of(t)
    BY DEF Rules!X, file_of
  <2> QED BY <2>1, <2>2, <2>3
<1>6. ASSUME t = s + 2 * Up(us), relative_rank(us, s) = 1
      PROVE  Rules!ClearLine(board, s, t) <=> s + Up(us) \notin DOMAIN board
  <2> DEFINE q == s + Up(us)
  <2>1. q \in Square
    BY <1>1, <1>6, PawnGainsRank
  <2>2. Shaped(QUEEN, t, s) /\ \A z \in Square : Rules!Interposed(z, t, s) => z = q
    BY <1>1, <1>6, PushedOver
  <2>3. \A z \in Square : Rules!Interposed(z, t, s) <=> Rules!Interposed(z, s, t)
    BY <1>1, <2>2, LinesBothWays
  <2>4. Rules!Interposed(q, s, t)
    <3>1. Rules!X(s) = Rules!X(q) /\ (Rules!Y(q) - Rules!Y(s)) * Rules!Forward(us) = 1
      <4> HIDE DEF q
      <4>1. q = s + Up(us)
        BY DEF q
      <4> QED BY <1>1, <2>1, <4>1, RanksOfTheRules
    <3>2. Rules!X(s) = Rules!X(t) /\ (Rules!Y(t) - Rules!Y(s)) * Rules!Forward(us) = 2
      BY <1>3, <1>6
    <3>3. Rules!Forward(us) = 1 \/ Rules!Forward(us) = -1
      BY DEF Rules!Forward
    <3>4. /\ Rules!X(s) \in 0 .. 7 /\ Rules!Y(s) \in 0 .. 7 /\ Rules!Y(t) \in 0 .. 7 /\ Rules!Y(q) \in 0 .. 7
      BY <1>1, <2>1 DEF Rules!X, Rules!Y, Square
    <3> DEFINE ys == Rules!Y(s)  yt == Rules!Y(t)  yq == Rules!Y(q)
    <3>5. (yq = ys + 1 /\ yt = ys + 2) \/ (yq = ys - 1 /\ yt = ys - 2)
      <4> HIDE DEF ys, yt, yq
      <4>1. ys \in Int /\ yt \in Int /\ yq \in Int
        BY <3>4 DEF ys, yt, yq
      <4>2. (yq - ys) * Rules!Forward(us) = 1 /\ (yt - ys) * Rules!Forward(us) = 2
        BY <3>1, <3>2 DEF ys, yt, yq
      <4>3. CASE Rules!Forward(us) = 1
        BY ONLY <4>1, <4>2, <4>3
      <4>4. CASE Rules!Forward(us) = -1
        BY ONLY <4>1, <4>2, <4>4
      <4> QED BY <3>3, <4>3, <4>4
    <3>6. (yq - ys) * (yq - yt) <= 0 /\ ys # yq /\ yt # yq
      <4> HIDE DEF ys, yt, yq
      <4>1. ys \in Int /\ yt \in Int /\ yq \in Int
        BY <3>4 DEF ys, yt, yq
      <4> QED BY ONLY <3>5, <4>1
    <3>7. (Rules!X(q) - Rules!X(s)) * (yt - ys) = (yq - ys) * (Rules!X(t) - Rules!X(s))
      <4>1. Rules!X(q) - Rules!X(s) = 0 /\ Rules!X(t) - Rules!X(s) = 0
        BY <3>1, <3>2, <3>4
      <4>2. yt - ys \in Int /\ yq - ys \in Int
        BY <3>4
      <4> HIDE DEF ys, yt, yq, q
      <4> QED BY <4>1, <4>2
    <3>8. (Rules!X(q) - Rules!X(s)) * (Rules!X(q) - Rules!X(t)) <= 0
      <4>1. Rules!X(q) - Rules!X(s) = 0 /\ Rules!X(q) - Rules!X(t) = 0
        BY <3>1, <3>2, <3>4
      <4> QED BY <4>1
    <3>9. q # s /\ q # t
      BY <3>6
    <3> QED BY <3>6, <3>7, <3>8, <3>9 DEF Rules!Interposed
  <2> HIDE DEF q
  <2>5. Rules!ClearLine(board, s, t) <=> q \notin DOMAIN board
    BY <1>1, <2>1, <2>2, <2>3, <2>4 DEF Rules!ClearLine
  <2> QED BY <2>5 DEF q
<1>7. t = s + 2 * Up(us) /\ relative_rank(us, s) = 1 => s + Up(us) \in Square
  BY <1>1, PawnGainsRank
<1>8. t = st.epSquare => t \notin DOMAIN board
  <2>1. EpFits(board, us, st.epSquare)
    BY DEF Sound, Agrees
  <2> QED BY <2>1 DEF EpFits, Square, SQ_NONE
<1>9. t \in DOMAIN board <=> t \in PiecesOf(board, them)
  BY <1>1 DEF PiecesOf
<1> HIDE DEF step
<1>10. CASE Rules!X(s) = Rules!X(t)
  <2>1. Rules!PawnMayGo(Seen, s, t) <=>
          /\ t \notin DOMAIN board
          /\ t = s + Up(us) \/ (t = s + 2 * Up(us) /\ relative_rank(us, s) = 1 /\ Rules!ClearLine(board, s, t))
    BY <1>2, <1>3, <1>10
  <2> QED BY <1>5, <1>6, <1>7, <1>10, <2>1 DEF Strikes, Steps, Jumps
<1>11. CASE Rules!X(s) # Rules!X(t)
  <2>1. Rules!PawnMayGo(Seen, s, t) <=> t \in PawnAttacks[us][s] /\ (t \in DOMAIN board \/ t = st.epSquare)
    BY <1>2, <1>4, <1>11
  <2> QED BY <1>3, <1>9, <1>11, <2>1 DEF Strikes, Steps, Jumps
<1> QED BY <1>10, <1>11

\* May the piece on s go to t, and as which moves is that counted?
MayGo(s, t) == IF board[s][2] = PAWN THEN Rules!PawnMayGo(Seen, s, t) ELSE Rules!Attacks(board, s, t)
PlayedAs(s, t) == IF board[s][2] = PAWN /\ Rules!Y(t) = Rules!LastRank(us)
                  THEN {QUEEN, ROOK, BISHOP, KNIGHT} ELSE {""}
Played(s, t, k) == [from |-> s, to |-> t, promotion |-> k]

\* A pawn promotes from the rank before the last, and en passant squares are not there.
LEMMA PawnsPromote ==
  ASSUME Sound(board, us, st), NEW s \in PiecesOf(board, us), NEW t \in Square
  PROVE  /\ Strikes(s, t) \/ Steps(s, t) \/ Jumps(s, t) =>
              (Rules!Y(t) = Rules!LastRank(us) <=> relative_rank(us, s) = 6 /\ ~Jumps(s, t))
         /\ Jumps(s, t) => relative_rank(us, s) # 6
         /\ t = st.epSquare /\ t \in PawnAttacks[us][s] =>
              relative_rank(us, s) # 6 /\ Rules!Y(t) # Rules!LastRank(us)
<1>1. s \in Square /\ us \in Color
  BY OwnPieces
<1>2. relative_rank(us, s) \in 0 .. 7 /\ relative_rank(us, t) \in 0 .. 7
  BY <1>1, PawnGainsRank
<1>3. Rules!Y(t) = Rules!LastRank(us) <=> relative_rank(us, t) = 7
  BY <1>1, RanksOfTheRules
<1>4. Strikes(s, t) \/ Steps(s, t) => relative_rank(us, t) = relative_rank(us, s) + 1
  BY <1>1, PawnGainsRank DEF Strikes, Steps
<1>5. Jumps(s, t) => relative_rank(us, s) = 1 /\ relative_rank(us, t) = relative_rank(us, s) + 2
  BY <1>1, PawnGainsRank DEF Jumps
<1>6. t = st.epSquare /\ t \in PawnAttacks[us][s] =>
        relative_rank(us, t) = 5 /\ relative_rank(us, t) = relative_rank(us, s) + 1
  <2>1. EpFits(board, us, st.epSquare)
    BY DEF Sound, Agrees
  <2>2. t # SQ_NONE
    BY DEF Square, SQ_NONE
  <2> QED BY <1>1, <2>1, <2>2, PawnGainsRank DEF EpFits
<1> QED BY <1>2, <1>3, <1>4, <1>5, <1>6

\* What each kind of move is made of.
LEMMA Anatomy ==
  ASSUME NEW m
  PROVE  /\ Roaming(m) => m.type = NORMAL /\ m.to \in attacks_bb(board[m.from][2], m.from, pieces(board))
         /\ Promoting(m, {QUEEN, ROOK, BISHOP, KNIGHT}) =>
              /\ relative_rank(us, m.from) = 6 /\ (Strikes(m.from, m.to) \/ Steps(m.from, m.to))
              /\ board[m.from][2] = PAWN /\ m.type = PROMOTION /\ m.promotion \in {QUEEN, ROOK, BISHOP, KNIGHT}
         /\ Pushing(m) \/ Capturing(m) =>
              /\ relative_rank(us, m.from) # 6
              /\ (Strikes(m.from, m.to) \/ Steps(m.from, m.to) \/ Jumps(m.from, m.to))
              /\ board[m.from][2] = PAWN /\ m.type = NORMAL
         /\ Passing(m) =>
              /\ m.to = st.epSquare /\ m.from \in PawnAttacks[them][m.to]
              /\ board[m.from][2] = PAWN /\ m.type = EN_PASSANT
<1>1. Roaming(m) => m.type = NORMAL /\ m.to \in attacks_bb(board[m.from][2], m.from, pieces(board))
  BY Parts DEF Roaming
<1>2. ASSUME Promoting(m, {QUEEN, ROOK, BISHOP, KNIGHT})
      PROVE  /\ relative_rank(us, m.from) = 6 /\ (Strikes(m.from, m.to) \/ Steps(m.from, m.to))
             /\ board[m.from][2] = PAWN /\ m.type = PROMOTION /\ m.promotion \in {QUEEN, ROOK, BISHOP, KNIGHT}
  <2>1. PICK s, t : \E pt \in {QUEEN, ROOK, BISHOP, KNIGHT} :
           /\ OwnPawn(s) /\ relative_rank(us, s) = 6
           /\ Strikes(s, t) \/ Steps(s, t)
           /\ m = MakeMove(PROMOTION, s, t, pt)
    BY <1>2 DEF Promoting
  <2>2. m.from = s /\ m.to = t /\ m.type = PROMOTION /\ m.promotion \in {QUEEN, ROOK, BISHOP, KNIGHT}
    BY <2>1, Parts
  <2> QED BY <2>1, <2>2 DEF OwnPawn
<1>3. ASSUME Pushing(m) \/ Capturing(m)
      PROVE  /\ relative_rank(us, m.from) # 6
             /\ (Strikes(m.from, m.to) \/ Steps(m.from, m.to) \/ Jumps(m.from, m.to))
             /\ board[m.from][2] = PAWN /\ m.type = NORMAL
  <2>1. PICK s, t : /\ OwnPawn(s) /\ relative_rank(us, s) # 6
                    /\ Strikes(s, t) \/ Steps(s, t) \/ Jumps(s, t)
                    /\ m = Move(s, t)
    BY <1>3 DEF Pushing, Capturing
  <2>2. m.from = s /\ m.to = t /\ m.type = NORMAL
    BY <2>1, Parts
  <2> QED BY <2>1, <2>2 DEF OwnPawn
<1>4. ASSUME Passing(m)
      PROVE  /\ m.to = st.epSquare /\ m.from \in PawnAttacks[them][m.to]
             /\ board[m.from][2] = PAWN /\ m.type = EN_PASSANT
  <2>1. PICK s : /\ OwnPawn(s) /\ s \in PawnAttacks[them][st.epSquare]
                 /\ m = MakeMove(EN_PASSANT, s, st.epSquare, KNIGHT)
    BY <1>4 DEF Passing
  <2>2. m.from = s /\ m.to = st.epSquare /\ m.type = EN_PASSANT
    BY <2>1, Parts
  <2> QED BY <2>1, <2>2 DEF OwnPawn
<1> QED BY <1>1, <1>2, <1>3, <1>4

\* And each is a move there is.
LEMMA Assembly ==
  ASSUME NEW s \in PiecesOf(board, us), NEW t \in Square
  PROVE  /\ board[s][2] \in PieceType \ {PAWN} /\ t \notin PiecesOf(board, us)
              /\ t \in attacks_bb(board[s][2], s, pieces(board)) => Wandering(Move(s, t))
         /\ board[s][2] = PAWN /\ relative_rank(us, s) = 6 /\ (Strikes(s, t) \/ Steps(s, t)) =>
              \A k \in {QUEEN, ROOK, BISHOP, KNIGHT} : Wandering(MakeMove(PROMOTION, s, t, k))
         /\ /\ board[s][2] = PAWN /\ relative_rank(us, s) # 6
            /\ Strikes(s, t) \/ Steps(s, t) \/ Jumps(s, t)
            => Wandering(Move(s, t))
         /\ /\ board[s][2] = PAWN /\ relative_rank(us, s) # 6
            /\ t = st.epSquare /\ s \in PawnAttacks[them][t]
            => Wandering(MakeMove(EN_PASSANT, s, t, KNIGHT))
<1>1. s \in DOMAIN board /\ board[s][1] = us /\ t # SQ_NONE /\ (board[s][2] = PAWN => OwnPawn(s))
  BY DEF PiecesOf, OwnPawn, Square, SQ_NONE
<1>2. /\ board[s][2] \in PieceType \ {PAWN} /\ t \notin PiecesOf(board, us)
         /\ t \in attacks_bb(board[s][2], s, pieces(board)) => Roaming(Move(s, t))
  BY <1>1 DEF Roaming
<1>3. board[s][2] = PAWN /\ relative_rank(us, s) = 6 /\ (Strikes(s, t) \/ Steps(s, t)) =>
        \A k \in {QUEEN, ROOK, BISHOP, KNIGHT} : Promoting(MakeMove(PROMOTION, s, t, k), {QUEEN, ROOK, BISHOP, KNIGHT})
  BY <1>1 DEF Promoting
<1>4. OwnPawn(s) /\ relative_rank(us, s) # 6 /\ (Steps(s, t) \/ Jumps(s, t)) => Pushing(Move(s, t))
  BY <1>1 DEF Pushing
<1>5. OwnPawn(s) /\ relative_rank(us, s) # 6 /\ Strikes(s, t) => Capturing(Move(s, t))
  BY DEF Capturing
<1>6. OwnPawn(s) /\ relative_rank(us, s) # 6 /\ t = st.epSquare /\ s \in PawnAttacks[them][t]
        => Passing(MakeMove(EN_PASSANT, s, t, KNIGHT))
  BY <1>1 DEF Passing
<1> QED BY <1>1, <1>2, <1>3, <1>4, <1>5, <1>6 DEF Wandering

\* Castling aside, the moves the code makes up and those of the rules are the same.
LEMMA WanderingByTheRules ==
  ASSUME Sound(board, us, st), NEW s \in PiecesOf(board, us), NEW t \in Square \ PiecesOf(board, us), NEW k
  PROVE  k \in PlayedAs(s, t) /\ MayGo(s, t) <=> \E m : Wandering(m) /\ AsPlayed(m) = Played(s, t, k)
<1>1. /\ s \in Square /\ s \in DOMAIN board /\ board[s] \in Piece /\ board[s][1] = us /\ us \in Color
      /\ them \in Color /\ us = Opposite(them) /\ them = Opposite(us) /\ DOMAIN board \subseteq Square
  BY OwnPieces, TwoSides
<1>2. board[s][2] # PAWN => (Rules!Attacks(board, s, t) <=> t \in attacks_bb(board[s][2], s, pieces(board)))
  BY <1>1, AttacksForward DEF pieces
<1>3. board[s][2] = PAWN =>
        (Rules!PawnMayGo(Seen, s, t) <=>
           \/ Strikes(s, t) \/ Steps(s, t) \/ Jumps(s, t)
           \/ t = st.epSquare /\ t \in PawnAttacks[us][s])
  BY PawnsMayGo
<1>4. /\ Strikes(s, t) \/ Steps(s, t) \/ Jumps(s, t) =>
           (Rules!Y(t) = Rules!LastRank(us) <=> relative_rank(us, s) = 6 /\ ~Jumps(s, t))
      /\ Jumps(s, t) => relative_rank(us, s) # 6
      /\ t = st.epSquare /\ t \in PawnAttacks[us][s] =>
           relative_rank(us, s) # 6 /\ Rules!Y(t) # Rules!LastRank(us)
  BY <1>1, PawnsPromote
<1>5. t \in PawnAttacks[us][s] <=> s \in PawnAttacks[them][t]
  BY <1>1, PawnAttacksBack
<1>6. ASSUME NEW m
      PROVE  AsPlayed(m) = Played(s, t, k) <=> m.from = s /\ m.to = t /\ k = IF m.type = PROMOTION THEN m.promotion ELSE ""
  BY DEF AsPlayed, Played
<1>7. ASSUME NEW m, Wandering(m), m.from = s, m.to = t, k = IF m.type = PROMOTION THEN m.promotion ELSE ""
      PROVE  k \in PlayedAs(s, t) /\ MayGo(s, t)
  <2>1. /\ Roaming(m) <=> board[s][2] # PAWN
        /\ Roaming(m) => m.type = NORMAL
    BY <1>7, WanderingFits
  <2>2. CASE Roaming(m)
    <3>1. t \in attacks_bb(board[s][2], s, pieces(board))
      BY <1>7, <2>2, Anatomy
    <3> QED BY <1>2, <1>7, <2>1, <2>2, <3>1, Words DEF PlayedAs, MayGo
  <2>3. CASE Promoting(m, {QUEEN, ROOK, BISHOP, KNIGHT})
    <3>1. /\ relative_rank(us, s) = 6 /\ (Strikes(s, t) \/ Steps(s, t)) /\ board[s][2] = PAWN
          /\ k \in {QUEEN, ROOK, BISHOP, KNIGHT}
      BY <1>7, <2>3, Anatomy
    <3> QED BY <1>3, <1>4, <3>1 DEF PlayedAs, MayGo
  <2>4. CASE Pushing(m) \/ Capturing(m)
    <3>1. /\ relative_rank(us, s) # 6 /\ (Strikes(s, t) \/ Steps(s, t) \/ Jumps(s, t)) /\ board[s][2] = PAWN
          /\ m.type = NORMAL
      BY <1>7, <2>4, Anatomy
    <3> QED BY <1>3, <1>4, <1>7, <3>1, Words DEF PlayedAs, MayGo
  <2>5. CASE Passing(m)
    <3>1. t = st.epSquare /\ s \in PawnAttacks[them][t] /\ board[s][2] = PAWN /\ m.type = EN_PASSANT
      BY <1>7, <2>5, Anatomy
    <3> QED BY <1>3, <1>4, <1>5, <1>7, <3>1, Words DEF PlayedAs, MayGo
  <2> QED BY <1>7, <2>2, <2>3, <2>4, <2>5 DEF Wandering
<1>8. ASSUME k \in PlayedAs(s, t), MayGo(s, t)
      PROVE  \E m : Wandering(m) /\ m.from = s /\ m.to = t /\ k = IF m.type = PROMOTION THEN m.promotion ELSE ""
  <2>1. CASE board[s][2] # PAWN
    <3>1. board[s][2] \in PieceType \ {PAWN} /\ t \in attacks_bb(board[s][2], s, pieces(board)) /\ k = ""
      BY <1>1, <1>2, <1>8, <2>1 DEF MayGo, PlayedAs, Piece
    <3>2. Wandering(Move(s, t))
      BY <3>1, Assembly
    <3>3. Move(s, t).from = s /\ Move(s, t).to = t /\ Move(s, t).type = NORMAL /\ NORMAL # PROMOTION
      BY Parts, Words
    <3> QED BY <3>1, <3>2, <3>3
  <2>2. CASE board[s][2] = PAWN /\ t = st.epSquare /\ t \in PawnAttacks[us][s]
    <3>1. relative_rank(us, s) # 6 /\ k = ""
      BY <1>4, <1>8, <2>2 DEF PlayedAs
    <3>2. Wandering(MakeMove(EN_PASSANT, s, t, KNIGHT))
      BY <1>5, <2>2, <3>1, Assembly
    <3> DEFINE m == MakeMove(EN_PASSANT, s, t, KNIGHT)
    <3>3. m.from = s /\ m.to = t /\ m.type = EN_PASSANT
      BY Parts
    <3>4. m.type # PROMOTION
      BY <3>3 DEF EN_PASSANT, PROMOTION
    <3> HIDE DEF m
    <3> QED BY <3>1, <3>2, <3>3, <3>4 DEF m
  <2>3. CASE /\ board[s][2] = PAWN /\ (Strikes(s, t) \/ Steps(s, t) \/ Jumps(s, t))
             /\ Rules!Y(t) = Rules!LastRank(us)
    <3>1. relative_rank(us, s) = 6 /\ (Strikes(s, t) \/ Steps(s, t)) /\ k \in {QUEEN, ROOK, BISHOP, KNIGHT}
      BY <1>4, <1>8, <2>3 DEF PlayedAs
    <3>2. Wandering(MakeMove(PROMOTION, s, t, k))
      BY <2>3, <3>1, Assembly
    <3> DEFINE m == MakeMove(PROMOTION, s, t, k)
    <3>3. m.from = s /\ m.to = t /\ m.type = PROMOTION /\ m.promotion = k
      BY Parts
    <3> HIDE DEF m
    <3> QED BY <3>2, <3>3 DEF m
  <2>4. CASE /\ board[s][2] = PAWN /\ (Strikes(s, t) \/ Steps(s, t) \/ Jumps(s, t))
             /\ Rules!Y(t) # Rules!LastRank(us)
    <3>1. relative_rank(us, s) # 6 /\ k = ""
      BY <1>4, <1>8, <2>4 DEF PlayedAs
    <3>2. Wandering(Move(s, t))
      BY <2>4, <3>1, Assembly
    <3>3. Move(s, t).from = s /\ Move(s, t).to = t /\ Move(s, t).type = NORMAL /\ NORMAL # PROMOTION
      BY Parts, Words
    <3> QED BY <3>1, <3>2, <3>3
  <2> QED BY <1>3, <1>8, <2>1, <2>2, <2>3, <2>4 DEF MayGo
<1> QED BY <1>6, <1>7, <1>8

\* Such a move leads where the rules lead.
LEMMA WanderingPlays ==
  ASSUME Sound(board, us, st), NEW m, Wandering(m)
  PROVE  Rules!Play(Seen, AsPlayed(m)).board = BoardAfter(m)
<1>1. Fits(m)
  BY WanderingFits
<1> QED BY <1>1, SameBoard

\* The legal moves of the rules, one by one.
LEMMA LegalOfTheRules ==
  ASSUME NEW r
  PROVE  r \in Rules!Legal(Seen) <=>
           \/ \E s \in PiecesOf(board, us) : \E t \in Square \ PiecesOf(board, us) : \E k \in PlayedAs(s, t) :
                /\ r = Played(s, t, k) /\ MayGo(s, t)
                /\ ~Rules!InCheck(Rules!Play(Seen, r).board, us)
           \/ \E w \in CastlingSide :
                /\ Rules!MayCastle(Seen, w)
                /\ r = Played(Rules!KingHome(us), Rules!KingHome(us) + (IF w = "king" THEN 2 ELSE -2), "")
<1> DEFINE own == {s \in DOMAIN board : board[s][1] = us}
           Kinds(s, t) == IF board[s][2] = "pawn" /\ Rules!Y(t) = Rules!LastRank(us)
                          THEN {"queen", "rook", "bishop", "knight"} ELSE {""}
           Goes2(s, t) == IF board[s][2] = "pawn" THEN Rules!PawnMayGo(Seen, s, t) ELSE Rules!Attacks(board, s, t)
           moves == UNION {{[from |-> s, to |-> t, promotion |-> k] : k \in Kinds(s, t)} :
                              s \in own, t \in Rules!Squares \ own}
           castlings == {[from |-> Rules!KingHome(us), to |-> Rules!KingHome(us) + (IF w = "king" THEN 2 ELSE -2),
                          promotion |-> ""] : w \in {v \in {"king", "queen"} : Rules!MayCastle(Seen, v)}}
<1>1. Seen.board = board /\ Seen.side = us
  BY DEF Seen, us
<1>2. Rules!Legal(Seen) =
        {m \in moves : Goes2(m.from, m.to) /\ ~Rules!InCheck(Rules!Play(Seen, m).board, us)} \cup castlings
  BY <1>1 DEF Rules!Legal
<1>3. own = PiecesOf(board, us) /\ Rules!Squares = Square
  BY DEF PiecesOf, Rules!Squares, Square
<1>4. \A s, t : Kinds(s, t) = PlayedAs(s, t) /\ (Goes2(s, t) <=> MayGo(s, t))
  BY DEF PlayedAs, MayGo, PAWN, QUEEN, ROOK, BISHOP, KNIGHT
<1>5. r \in castlings <=> \E w \in CastlingSide :
                /\ Rules!MayCastle(Seen, w)
                /\ r = Played(Rules!KingHome(us), Rules!KingHome(us) + (IF w = "king" THEN 2 ELSE -2), "")
  BY DEF Played, CastlingSide
<1>6. r \in moves <=> \E s \in own : \E t \in Rules!Squares \ own : \E k \in Kinds(s, t) : r = Played(s, t, k)
  <2> DEFINE M(s, t) == {[from |-> s, to |-> t, promotion |-> k] : k \in Kinds(s, t)}
  <2>1. moves = UNION {M(s, t) : s \in own, t \in Rules!Squares \ own}
    OBVIOUS
  <2>2. \A s, t : r \in M(s, t) <=> \E k \in Kinds(s, t) : r = Played(s, t, k)
    BY DEF Played
  <2> HIDE DEF M, own, Kinds, moves
  <2> QED BY <2>1, <2>2
<1> HIDE DEF own, Kinds, Goes2, moves, castlings
<1>7. r \in {m \in moves : Goes2(m.from, m.to) /\ ~Rules!InCheck(Rules!Play(Seen, m).board, us)} <=>
        \E s \in PiecesOf(board, us) : \E t \in Square \ PiecesOf(board, us) : \E k \in PlayedAs(s, t) :
                /\ r = Played(s, t, k) /\ MayGo(s, t)
                /\ ~Rules!InCheck(Rules!Play(Seen, r).board, us)
  <2>1. \A s, t, k : Played(s, t, k).from = s /\ Played(s, t, k).to = t
    BY DEF Played
  <2> QED BY <1>3, <1>4, <1>6, <2>1
<1> QED BY <1>2, <1>5, <1>7

-----------------------------------------------------------------------------
(* Castling. *)

\* Between two squares of a rank lie the squares between them.
LEMMA BetweenOnARank ==
  ASSUME NEW a \in Square, NEW b \in Square, rank_of(a) = rank_of(b), a # b, NEW q \in Square
  PROVE  /\ Rules!Interposed(q, a, b) <=> (a < q /\ q < b) \/ (b < q /\ q < a)
         /\ q \in BetweenBB[a][b] <=> (a < q /\ q < b) \/ (b < q /\ q < a)
<1>1. /\ file_of(a) \in 0 .. 7 /\ rank_of(a) \in 0 .. 7 /\ a = 8 * rank_of(a) + file_of(a)
      /\ file_of(b) \in 0 .. 7 /\ rank_of(b) \in 0 .. 7 /\ b = 8 * rank_of(b) + file_of(b)
      /\ file_of(q) \in 0 .. 7 /\ rank_of(q) \in 0 .. 7 /\ q = 8 * rank_of(q) + file_of(q)
  BY Coordinates
<1>2. Shaped(QUEEN, a, b) /\ Shaped(QUEEN, b, a)
  <2> DEFINE x == file_of(a)  y == rank_of(a)  u == file_of(b)  v == rank_of(b)
  <2>1. ~(x = u /\ y = v) /\ (x = u \/ y = v)
    BY <1>1
  <2>2. Shaped(ROOK, a, b)
    BY <2>1, ShapedByCoordinates
  <2>3. Shaped(QUEEN, a, b)
    BY <2>2, ShapedByCoordinates
  <2> QED BY <2>3, LinesBothWays
<1>3. Rules!Interposed(q, a, b) <=> Mid(q, a, b)
  BY <1>2, MidIsInterposed
<1>4. Mid(q, a, b) <=> (a < q /\ q < b) \/ (b < q /\ q < a)
  <2> DEFINE x == file_of(b)  y == rank_of(b)  u == file_of(a)  v == rank_of(a)
             p == file_of(q)  r == rank_of(q)
  <2>1. Mid(q, a, b) <=>
          /\ ~(p = x /\ r = y) /\ ~(p = u /\ r = v)
          /\ Amid(p, x, u) /\ Amid(r, y, v)
          /\ \/ x = u /\ p = x
             \/ y = v /\ r = y
             \/ x - y = u - v /\ p - r = x - y
             \/ x + y = u + v /\ p + r = x + y
    BY DEF Mid
  <2>2. /\ x \in 0 .. 7 /\ y \in 0 .. 7 /\ u \in 0 .. 7 /\ p \in 0 .. 7 /\ r \in 0 .. 7 /\ v = y
        /\ a = 8 * v + u /\ b = 8 * y + x /\ q = 8 * r + p /\ a # b
    BY <1>1
  <2> HIDE DEF x, y, u, v, p, r
  <2> QED BY ONLY <2>1, <2>2 DEF Amid
<1>5. q \in BetweenBB[a][b] <=> Rules!Interposed(q, b, a)
  BY <1>2, BetweenByTheRules
<1>6. Rules!Interposed(q, b, a) <=> Rules!Interposed(q, a, b)
  BY <1>2, LinesBothWays
<1> QED BY <1>3, <1>4, <1>5, <1>6

\* castlingPath lies between the king and the rook; on its way the king crosses one square.
LEMMA CastlingPathByTheRules ==
  ASSUME NEW cr \in CastlingRight, NEW q \in Square
  PROVE  LET k == king_home(cr[1])
         IN  /\ q \in castlingPath(cr) <=> Rules!Interposed(q, k, rook_home(cr))
             /\ q \in BetweenBB[k][king_to(cr)] \cup {king_to(cr)} <=>
                  \/ cr[2] = "king" /\ q \in {k + 1, k + 2}
                  \/ cr[2] # "king" /\ q \in {k - 1, k - 2}
<1> DEFINE k == king_home(cr[1])  h == rook_home(cr)  kt == king_to(cr)  rt == rook_to(cr)
<1>1. /\ k \in Square /\ h \in Square /\ (k = 4 \/ k = 60)
      /\ cr[2] = "king" => h = k + 3 /\ kt = k + 2 /\ rt = k + 1
      /\ cr[2] # "king" => h = k - 4 /\ kt = k - 2 /\ rt = k - 1
  BY CastlingSquares
<1> HIDE DEF k, h, kt, rt
<1>2. /\ kt \in Square /\ rt \in Square /\ k # h /\ k # kt /\ h # rt
      /\ rank_of(h) = rank_of(k) /\ rank_of(kt) = rank_of(k) /\ rank_of(rt) = rank_of(k)
  <2>1. rank_of(0) = 0 /\ rank_of(2) = 0 /\ rank_of(3) = 0 /\ rank_of(4) = 0 /\ rank_of(5) = 0 /\ rank_of(6) = 0 /\ rank_of(7) = 0
    BY DEF rank_of
  <2>2. rank_of(56) = 7 /\ rank_of(58) = 7 /\ rank_of(59) = 7 /\ rank_of(60) = 7 /\ rank_of(61) = 7 /\ rank_of(62) = 7 /\ rank_of(63) = 7
    BY DEF rank_of
  <2>3. CASE cr[2] = "king"
    BY <1>1, <2>1, <2>2, <2>3 DEF Square
  <2>4. CASE cr[2] # "king"
    BY <1>1, <2>1, <2>2, <2>4 DEF Square
  <2> QED BY <2>3, <2>4
<1>3. /\ q \in BetweenBB[h][rt] <=> (h < q /\ q < rt) \/ (rt < q /\ q < h)
      /\ q \in BetweenBB[k][kt] <=> (k < q /\ q < kt) \/ (kt < q /\ q < k)
      /\ Rules!Interposed(q, k, h) <=> (k < q /\ q < h) \/ (h < q /\ q < k)
  BY <1>1, <1>2, BetweenOnARank
<1>4. q \in castlingPath(cr) <=> (q \in BetweenBB[h][rt] \/ q \in BetweenBB[k][kt]) /\ q # k /\ q # h
  BY DEF castlingPath, k, h, kt, rt
<1>5. q \in Int /\ k \in Int
  BY <1>1 DEF Square
<1>6. q \in castlingPath(cr) <=> Rules!Interposed(q, k, h)
  <2>1. CASE cr[2] = "king"
    BY <1>1, <1>3, <1>4, <1>5, <2>1
  <2>2. CASE cr[2] # "king"
    BY <1>1, <1>3, <1>4, <1>5, <2>2
  <2> QED BY <2>1, <2>2
<1>7. q \in BetweenBB[k][kt] \/ q = kt <=>
        \/ cr[2] = "king" /\ q \in {k + 1, k + 2}
        \/ cr[2] # "king" /\ q \in {k - 1, k - 2}
  <2>1. CASE cr[2] = "king"
    BY <1>1, <1>3, <1>5, <2>1
  <2>2. CASE cr[2] # "king"
    BY <1>1, <1>3, <1>5, <2>2
  <2> QED BY <2>1, <2>2
<1> QED BY <1>6, <1>7 DEF k, h, kt

\* The rules let a king castle just when the code does.
LEMMA CastlingByTheRules ==
  ASSUME Sound(board, us, st), BothKings, CheckersExact, NEW w \in CastlingSide
  PROVE  LET cr == <<us, w>>
             m == MakeMove(CASTLING, king_square(board, us), king_to(cr), KNIGHT)
         IN  /\ Rules!MayCastle(Seen, w) <=>
                  st.checkersBB = {} /\ can_castle(cr) /\ ~castling_impeded(cr) /\ legal(m)
             /\ can_castle(cr) =>
                  m.from = Rules!KingHome(us) /\ m.to = Rules!KingHome(us) + (IF w = "king" THEN 2 ELSE -2)
<1> DEFINE cr == <<us, w>>  m == MakeMove(CASTLING, king_square(board, us), king_to(cr), KNIGHT)
           k == king_home(us)
           Unattacked(s) == Rules!AttackersOf(board, them, s) = {}
<1>1. /\ us \in Color /\ them \in Color /\ Rules!Other(us) = them
      /\ DOMAIN board \subseteq Square /\ \A q \in DOMAIN board : board[q] \in Piece
  BY TwoSides
<1>2. cr \in CastlingRight /\ cr[1] = us /\ cr[2] = w
  BY <1>1 DEF CastlingRight
<1>3. /\ Rules!KingHome(us) = k /\ Rules!WingRook(us, w) = rook_home(cr) /\ k \in Square
      /\ k = (IF us = WHITE THEN 4 ELSE 60)
      /\ king_to(cr) = IF w = "king" THEN k + 2 ELSE k - 2
  <2>1. Rules!KingHome(us) = k /\ Rules!WingRook(us, w) = rook_home(cr)
    BY <1>1, SameSquares
  <2>2. /\ king_home(cr[1]) \in Square
        /\ king_home(cr[1]) = (IF cr[1] = WHITE THEN 4 ELSE 60)
        /\ king_to(cr) = IF cr[2] = "king" THEN king_home(cr[1]) + 2 ELSE king_home(cr[1]) - 2
    BY <1>2, CastlingSquares
  <2> QED BY <1>2, <2>1, <2>2
<1>4. Seen.board = board /\ Seen.side = us /\ Seen.rights = st.castlingRights
  BY DEF Seen, us
<1> DEFINE path == {s \in Rules!Squares : Rules!Y(s) = Rules!HomeRank(us) /\ Rules!Abs(s - k) <= 2 /\ (w = "king" <=> s >= k)}
<1>5. Rules!MayCastle(Seen, w) <=>
        /\ cr \in st.castlingRights
        /\ Rules!ClearLine(board, k, rook_home(cr))
        /\ \A s \in path \cup {k} : Unattacked(s)
  BY <1>1, <1>3, <1>4 DEF Rules!MayCastle
<1>6. \A s : s \in path \cup {k} <=>
               \/ s = k
               \/ w = "king" /\ s \in {k + 1, k + 2}
               \/ w # "king" /\ s \in {k - 1, k - 2}
  <2> SUFFICES ASSUME NEW s
               PROVE  s \in path \cup {k} <=>
                        \/ s = k
                        \/ w = "king" /\ s \in {k + 1, k + 2}
                        \/ w # "king" /\ s \in {k - 1, k - 2}
    OBVIOUS
  <2>1. s \in path <=> s \in 0 .. 63 /\ s \div 8 = Rules!HomeRank(us) /\ Rules!Abs(s - k) <= 2 /\ (w = "king" <=> s >= k)
    BY DEF Rules!Squares, Rules!Y
  <2> HIDE DEF path, k
  <2>2. CASE us = WHITE
    <3>1. k = 4 /\ Rules!HomeRank(us) = 0
      BY <1>3, <2>2 DEF Rules!HomeRank, WHITE
    <3> QED BY <2>1, <3>1 DEF Rules!Abs
  <2>3. CASE us # WHITE
    <3>1. k = 60 /\ Rules!HomeRank(us) = 7
      BY <1>3, <2>3 DEF Rules!HomeRank, WHITE
    <3> QED BY <2>1, <3>1 DEF Rules!Abs
  <2> QED BY <2>2, <2>3
<1> HIDE DEF path
<1>7. ASSUME can_castle(cr)
      PROVE  /\ king_square(board, us) = k
             /\ Rules!King(board, us) = k
  <2>1. IsBoard(board) /\ RightsAtHome(board, st.castlingRights) /\ cr \in st.castlingRights
    BY <1>7 DEF Sound, Agrees, can_castle
  <2>2. king_square(board, cr[1]) = king_home(cr[1])
    BY <2>1, KingIsAtHome
  <2> QED BY <1>1, <1>2, <2>2, TheKing
<1>8. ~castling_impeded(cr) <=> Rules!ClearLine(board, k, rook_home(cr))
  <2>1. \A q \in Square : q \in castlingPath(cr) <=> Rules!Interposed(q, k, rook_home(cr))
    BY <1>2, CastlingPathByTheRules
  <2> HIDE DEF k, cr
  <2> QED BY <1>1, <2>1 DEF castling_impeded, pieces, Rules!ClearLine
<1>9. ASSUME NEW s \in Square PROVE ~is_attacked_by(board, them, s) <=> Unattacked(s)
  <2>1. attackers_to(board, s, pieces(board)) = {o \in DOMAIN board : Rules!Attacks(board, o, s)}
    BY <1>1, AttackersByTheRules
  <2> QED BY <2>1 DEF is_attacked_by, PiecesOf, Rules!AttackersOf
<1>10. m.from = king_square(board, us) /\ m.to = king_to(cr) /\ m.type = CASTLING
  BY Parts
<1>11. ASSUME can_castle(cr)
       PROVE  legal(m) <=> \A s : (\/ w = "king" /\ s \in {k + 1, k + 2}
                                   \/ w # "king" /\ s \in {k - 1, k - 2}) => Unattacked(s)
  <2>1. legal(m) <=> \A s \in BetweenBB[k][king_to(cr)] \cup {king_to(cr)} : ~is_attacked_by(board, them, s)
    <3> HIDE DEF m
    <3> QED BY <1>7, <1>10, <1>11, Words DEF legal
  <2>2. \A s \in Square : s \in BetweenBB[k][king_to(cr)] \cup {king_to(cr)} <=>
                  \/ w = "king" /\ s \in {k + 1, k + 2}
                  \/ w # "king" /\ s \in {k - 1, k - 2}
    BY <1>2, CastlingPathByTheRules
  <2>3. k + 1 \in Square /\ k + 2 \in Square /\ k - 1 \in Square /\ k - 2 \in Square
    BY <1>3 DEF Square
  <2>4. BetweenBB[k][king_to(cr)] \cup {king_to(cr)} \subseteq Square
    <3>1. king_to(cr) \in Square
      BY <1>3, <2>3
    <3>2. BetweenBB[k][king_to(cr)] \subseteq Square
      BY <1>3, <3>1, BetweenByTheRules
    <3> QED BY <3>1, <3>2
  <2> HIDE DEF k, cr, m
  <2> DEFINE B == BetweenBB[k][king_to(cr)] \cup {king_to(cr)}
             On(s) == \/ w = "king" /\ s \in {k + 1, k + 2}
                      \/ w # "king" /\ s \in {k - 1, k - 2}
  <2>5. \A s : On(s) => s \in Square
    BY <2>3
  <2>6. \A s : s \in B <=> On(s)
    BY <2>2, <2>4, <2>5
  <2>7. legal(m) <=> \A s \in B : ~is_attacked_by(board, them, s)
    BY <2>1
  <2> HIDE DEF B, On, Unattacked
  <2>8. legal(m) <=> \A s : On(s) => Unattacked(s)
    BY <1>9, <2>5, <2>6, <2>7
  <2> QED BY <2>8 DEF On
<1>12. can_castle(cr) => (st.checkersBB = {} <=> Unattacked(k))
  BY <1>7 DEF CheckersExact
<1>13. can_castle(cr) <=> cr \in st.castlingRights
  BY DEF can_castle
<1>14. Rules!MayCastle(Seen, w) <=>
         st.checkersBB = {} /\ can_castle(cr) /\ ~castling_impeded(cr) /\ legal(m)
  <2> HIDE DEF k, cr, m, Unattacked
  <2> QED BY <1>5, <1>6, <1>8, <1>11, <1>12, <1>13
<1>15. can_castle(cr) =>
         m.from = Rules!KingHome(us) /\ m.to = Rules!KingHome(us) + (IF w = "king" THEN 2 ELSE -2)
  <2>1. k + (-2) = k - 2
    BY <1>3 DEF Square
  <2> HIDE DEF k, cr, m
  <2> QED BY <1>3, <1>7, <1>10, <2>1
<1> QED BY <1>14, <1>15

-----------------------------------------------------------------------------
(* The moves listed are the legal moves of chess. *)

\* castling moves, one for each right that nothing impedes.
LEMMA CastlingListed ==
  ASSUME NEW m
  PROVE  m \in generate_castling <=>
           \E w \in CastlingSide :
              /\ m = MakeMove(CASTLING, king_square(board, us), king_to(<<us, w>>), KNIGHT)
              /\ can_castle(<<us, w>>) /\ ~castling_impeded(<<us, w>>)
<1> DEFINE D == {r \in {us} \X CastlingSide : can_castle(r) /\ ~castling_impeded(r)}
<1>1. \A cr : cr \in D <=> \E w \in CastlingSide :
                 cr = <<us, w>> /\ can_castle(<<us, w>>) /\ ~castling_impeded(<<us, w>>)
  <2> SUFFICES ASSUME NEW cr
               PROVE  cr \in D <=> \E w \in CastlingSide :
                        cr = <<us, w>> /\ can_castle(<<us, w>>) /\ ~castling_impeded(<<us, w>>)
    OBVIOUS
  <2>1. cr \in {us} \X CastlingSide <=> \E w \in CastlingSide : cr = <<us, w>>
    OBVIOUS
  <2>2. cr \in D <=> cr \in {us} \X CastlingSide /\ can_castle(cr) /\ ~castling_impeded(cr)
    OBVIOUS
  <2> HIDE DEF D
  <2>3. ASSUME cr \in D
        PROVE  \E w \in CastlingSide : cr = <<us, w>> /\ can_castle(<<us, w>>) /\ ~castling_impeded(<<us, w>>)
    <3>1. PICK w \in CastlingSide : cr = <<us, w>>
      BY <2>1, <2>2, <2>3
    <3>2. can_castle(<<us, w>>) /\ ~castling_impeded(<<us, w>>)
      BY <2>2, <2>3, <3>1
    <3> QED BY <3>1, <3>2
  <2>4. ASSUME NEW w \in CastlingSide, cr = <<us, w>>, can_castle(<<us, w>>), ~castling_impeded(<<us, w>>)
        PROVE  cr \in D
    BY <2>1, <2>2, <2>4
  <2> QED BY <2>3, <2>4
<1>2. m \in generate_castling <=> \E cr \in D : m = MakeMove(CASTLING, king_square(board, us), king_to(cr), KNIGHT)
  BY DEF generate_castling
<1> HIDE DEF D
<1> QED BY <1>1, <1>2

\* Move by move, as the rules name them.
LEMMA LegalOneByOne ==
  ASSUME Sound(board, us, st), BothKings, CheckersExact, EpBehind, NEW r
  PROVE  r \in Rules!Legal(Seen) <=> \E m \in LegalMoves : AsPlayed(m) = r
<1> DEFINE Wanders == \E m : Wandering(m) /\ AsPlayed(m) = r /\ ~Rules!InCheck(BoardAfter(m), us)
           Castles == \E m : st.checkersBB = {} /\ m \in generate_castling /\ legal(m) /\ AsPlayed(m) = r
<1>1. (\E m \in LegalMoves : AsPlayed(m) = r) <=> Wanders \/ Castles
  BY LegalWandering
<1>2. (\E s \in PiecesOf(board, us) : \E t \in Square \ PiecesOf(board, us) : \E k \in PlayedAs(s, t) :
         /\ r = Played(s, t, k) /\ MayGo(s, t)
         /\ ~Rules!InCheck(Rules!Play(Seen, r).board, us)) <=> Wanders
  <2>1. ASSUME NEW s \in PiecesOf(board, us), NEW t \in Square \ PiecesOf(board, us), NEW k \in PlayedAs(s, t),
               r = Played(s, t, k), MayGo(s, t), ~Rules!InCheck(Rules!Play(Seen, r).board, us)
        PROVE  Wanders
    <3>1. PICK m : Wandering(m) /\ AsPlayed(m) = Played(s, t, k)
      BY <2>1, WanderingByTheRules
    <3>2. Rules!Play(Seen, AsPlayed(m)).board = BoardAfter(m)
      BY <3>1, WanderingPlays
    <3>3. AsPlayed(m) = r
      BY <2>1, <3>1
    <3> QED BY <2>1, <3>1, <3>2, <3>3
  <2>2. ASSUME NEW m, Wandering(m), AsPlayed(m) = r, ~Rules!InCheck(BoardAfter(m), us)
        PROVE  \E s \in PiecesOf(board, us) : \E t \in Square \ PiecesOf(board, us) : \E k \in PlayedAs(s, t) :
                 /\ r = Played(s, t, k) /\ MayGo(s, t)
                 /\ ~Rules!InCheck(Rules!Play(Seen, r).board, us)
    <3> DEFINE s == m.from  t == m.to  k == IF m.type = PROMOTION THEN m.promotion ELSE ""
    <3>1. s \in PiecesOf(board, us) /\ t \in Square \ PiecesOf(board, us)
      BY <2>2, WanderingFits DEF PiecesOf
    <3>2. r = Played(s, t, k)
      BY <2>2 DEF AsPlayed, Played
    <3>3. Rules!Play(Seen, r).board = BoardAfter(m)
      BY <2>2, WanderingPlays
    <3> HIDE DEF s, t, k
    <3>4. k \in PlayedAs(s, t) /\ MayGo(s, t)
      BY <2>2, <3>1, <3>2, WanderingByTheRules
    <3> QED BY <2>2, <3>1, <3>2, <3>3, <3>4
  <2> HIDE DEF Wanders
  <2>3. Wanders => \E m : Wandering(m) /\ AsPlayed(m) = r /\ ~Rules!InCheck(BoardAfter(m), us)
    BY DEF Wanders
  <2> QED BY <2>1, <2>2, <2>3
<1>3. (\E w \in CastlingSide :
         /\ Rules!MayCastle(Seen, w)
         /\ r = Played(Rules!KingHome(us), Rules!KingHome(us) + (IF w = "king" THEN 2 ELSE -2), "")) <=> Castles
  <2> DEFINE M(w) == MakeMove(CASTLING, king_square(board, us), king_to(<<us, w>>), KNIGHT)
             R(w) == Played(Rules!KingHome(us), Rules!KingHome(us) + (IF w = "king" THEN 2 ELSE -2), "")
  <2>1. ASSUME NEW w \in CastlingSide
        PROVE  /\ Rules!MayCastle(Seen, w) <=>
                    st.checkersBB = {} /\ can_castle(<<us, w>>) /\ ~castling_impeded(<<us, w>>) /\ legal(M(w))
               /\ can_castle(<<us, w>>) => AsPlayed(M(w)) = R(w)
    <3>1. Rules!MayCastle(Seen, w) <=>
                    st.checkersBB = {} /\ can_castle(<<us, w>>) /\ ~castling_impeded(<<us, w>>) /\ legal(M(w))
      BY CastlingByTheRules
    <3>2. can_castle(<<us, w>>) =>
            M(w).from = Rules!KingHome(us) /\ M(w).to = Rules!KingHome(us) + (IF w = "king" THEN 2 ELSE -2)
      BY CastlingByTheRules
    <3>3. M(w).type = CASTLING
      BY Parts
    <3>4. CASTLING # PROMOTION
      BY DEF CASTLING, PROMOTION
    <3> HIDE DEF M
    <3>5. can_castle(<<us, w>>) => AsPlayed(M(w)) = R(w)
      BY <3>2, <3>3, <3>4 DEF AsPlayed, Played
    <3> QED BY <3>1, <3>5
  <2>2. \A m : m \in generate_castling <=>
                 \E w \in CastlingSide : m = M(w) /\ can_castle(<<us, w>>) /\ ~castling_impeded(<<us, w>>)
    BY CastlingListed
  <2> HIDE DEF M, R
  <2>3. (\E w \in CastlingSide : Rules!MayCastle(Seen, w) /\ r = R(w)) <=> Castles
    <3>1. Castles <=> \E w \in CastlingSide : /\ st.checkersBB = {} /\ can_castle(<<us, w>>)
                                              /\ ~castling_impeded(<<us, w>>) /\ legal(M(w)) /\ AsPlayed(M(w)) = r
      BY ONLY <2>2 DEF Castles
    <3> HIDE DEF Castles
    <3>2. ASSUME NEW w \in CastlingSide
          PROVE  Rules!MayCastle(Seen, w) /\ r = R(w) <=>
                   /\ st.checkersBB = {} /\ can_castle(<<us, w>>)
                   /\ ~castling_impeded(<<us, w>>) /\ legal(M(w)) /\ AsPlayed(M(w)) = r
      BY ONLY <2>1, w \in CastlingSide
    <3> QED BY ONLY <3>1, <3>2
  <2> QED BY <2>3 DEF R
<1> HIDE DEF Wanders, Castles
<1> QED BY <1>1, <1>2, <1>3, LegalOfTheRules

\* What qsearch calls noisy, of a move as the rules name it.
Noisy(r) == \/ r.promotion = QUEEN
            \/ r.to \in DOMAIN board /\ r.promotion = ""
            \/ r.to = st.epSquare /\ board[r.from][2] = PAWN

\* generate<CAPTURES> lists the noisy ones of the moves other than castling.
LEMMA CapturesAreNoisy ==
  ASSUME Sound(board, us, st), NEW m, Wandering(m)
  PROVE  m \in generate_all(CAPTURES) <=> Noisy(AsPlayed(m))
<1> DEFINE s == m.from  t == m.to  none == ""
<1>1. /\ Fits(m) /\ s \in DOMAIN board /\ s \in Square /\ board[s][1] = us /\ t \in Square /\ t \notin PiecesOf(board, us)
      /\ Roaming(m) <=> board[s][2] # PAWN
      /\ Roaming(m) => m.type = NORMAL
      /\ m.type = EN_PASSANT <=> Passing(m)
  BY WanderingFits
<1>2. /\ us \in Color /\ them # us /\ DOMAIN board \subseteq Square
      /\ \A q \in DOMAIN board : board[q][1] = us \/ board[q][1] = them
      /\ us = Opposite(them)
  BY TwoSides
<1>3. Noisy(AsPlayed(m)) <=>
        \/ m.type = PROMOTION /\ m.promotion = QUEEN
        \/ t \in DOMAIN board /\ ~(m.type = PROMOTION /\ m.promotion # none)
        \/ t = st.epSquare /\ board[s][2] = PAWN
  <2>1. AsPlayed(m).promotion = IF m.type = PROMOTION THEN m.promotion ELSE none
    BY DEF AsPlayed
  <2>2. AsPlayed(m).from = s /\ AsPlayed(m).to = t
    BY DEF AsPlayed
  <2>3. none # QUEEN
    BY DEF QUEEN
  <2>4. Noisy(AsPlayed(m)) <=> \/ AsPlayed(m).promotion = QUEEN
                               \/ AsPlayed(m).to \in DOMAIN board /\ AsPlayed(m).promotion = none
                               \/ AsPlayed(m).to = st.epSquare /\ board[AsPlayed(m).from][2] = PAWN
    BY DEF Noisy
  <2> HIDE DEF none, s, t
  <2> QED BY <2>1, <2>2, <2>3, <2>4
<1>4. m.promotion \in {QUEEN, ROOK, BISHOP, KNIGHT} => m.promotion # none
  BY DEF QUEEN, ROOK, BISHOP, KNIGHT
<1>5. Promoting(m, {QUEEN, ROOK, BISHOP, KNIGHT}) => (m.promotion = QUEEN <=> Promoting(m, {QUEEN}))
  <2>1. ASSUME Promoting(m, {QUEEN}) PROVE m.promotion = QUEEN
    <3>1. PICK x, y : \E pt \in {QUEEN} : m = MakeMove(PROMOTION, x, y, pt)
      BY <2>1 DEF Promoting
    <3> QED BY <3>1, Parts
  <2>2. ASSUME Promoting(m, {QUEEN, ROOK, BISHOP, KNIGHT}), m.promotion = QUEEN PROVE Promoting(m, {QUEEN})
    <3>1. PICK x, y : \E pt \in {QUEEN, ROOK, BISHOP, KNIGHT} :
             /\ OwnPawn(x) /\ relative_rank(us, x) = 6
             /\ Strikes(x, y) \/ Steps(x, y)
             /\ m = MakeMove(PROMOTION, x, y, pt)
      BY <2>2 DEF Promoting
    <3>2. m = MakeMove(PROMOTION, x, y, QUEEN)
      BY <2>2, <3>1, Parts
    <3> QED BY <3>1, <3>2 DEF Promoting
  <2> QED BY <2>1, <2>2
<1>6. m \in generate_all(CAPTURES) <=>
        \/ Roaming(m) /\ t \in PiecesOf(board, them)
        \/ Promoting(m, {QUEEN}) \/ Capturing(m) \/ Passing(m)
  <2>1. PiecesOf(board, them) \subseteq Square \ PiecesOf(board, us)
    BY <1>2 DEF PiecesOf
  <2>2. /\ m \in generate_moves({KING}, PiecesOf(board, them)) <=>
              Roaming(m) /\ m.to \in PiecesOf(board, them) /\ board[m.from][2] = KING
        /\ m \in generate_moves({KNIGHT, BISHOP, ROOK, QUEEN}, PiecesOf(board, them)) <=>
              Roaming(m) /\ m.to \in PiecesOf(board, them) /\ board[m.from][2] # KING
    BY <2>1, RoamingListed
  <2> QED BY <2>2, MovesListed
<1>7. t \in PiecesOf(board, them) <=> t \in DOMAIN board
  BY <1>1, <1>2 DEF PiecesOf
<1>8. /\ Roaming(m) => m.type = NORMAL
      /\ Promoting(m, {QUEEN, ROOK, BISHOP, KNIGHT}) =>
           /\ relative_rank(us, s) = 6 /\ (Strikes(s, t) \/ Steps(s, t)) /\ board[s][2] = PAWN
           /\ m.type = PROMOTION /\ m.promotion \in {QUEEN, ROOK, BISHOP, KNIGHT}
      /\ Pushing(m) \/ Capturing(m) => m.type = NORMAL /\ board[s][2] = PAWN
      /\ Passing(m) => m.type = EN_PASSANT /\ t = st.epSquare /\ board[s][2] = PAWN
      /\ Capturing(m) => Strikes(s, t)
      /\ Pushing(m) => Steps(s, t) \/ Jumps(s, t)
  <2>1. Capturing(m) => Strikes(s, t)
    BY Parts DEF Capturing
  <2>2. Pushing(m) => Steps(s, t) \/ Jumps(s, t)
    BY Parts DEF Pushing
  <2> QED BY <2>1, <2>2, Anatomy
<1>9. (Strikes(s, t) => t \in DOMAIN board) /\ (Steps(s, t) \/ Jumps(s, t) => t \notin DOMAIN board)
  BY DEF Strikes, Steps, Jumps, PiecesOf
<1>10. board[s][2] = PAWN /\ t = st.epSquare /\ t \in DOMAIN board => FALSE
  <2>1. EpFits(board, us, st.epSquare)
    BY DEF Sound, Agrees
  <2> QED BY <1>1, <2>1 DEF EpFits, Square, SQ_NONE
<1>11. Steps(s, t) \/ Jumps(s, t) => t # st.epSquare
  <2>1. EpFits(board, us, st.epSquare)
    BY DEF Sound, Agrees
  <2>2. ASSUME t = st.epSquare PROVE StandsOn(board, make_piece(them, PAWN), t - Up(us))
    <3>1. t # SQ_NONE
      BY <1>1 DEF Square, SQ_NONE
    <3>2. them = Opposite(us)
      BY TwoSides
    <3> QED BY <2>1, <2>2, <3>1, <3>2 DEF EpFits
  <2>3. s \in Int /\ Up(us) \in Int
    BY <1>1 DEF Square, Up, NORTH
  <2>4. ASSUME t = st.epSquare, Steps(s, t) PROVE FALSE
    <3>1. t - Up(us) = s
      BY <2>3, <2>4 DEF Steps
    <3>2. board[s][1] = them
      BY <2>2, <2>4, <3>1 DEF StandsOn, make_piece
    <3> QED BY <1>1, <1>2, <3>2
  <2>5. ASSUME t = st.epSquare, Jumps(s, t) PROVE FALSE
    <3>1. t - Up(us) = s + Up(us) /\ s + Up(us) \notin DOMAIN board
      BY <2>3, <2>5 DEF Jumps
    <3> QED BY <2>2, <2>5, <3>1 DEF StandsOn
  <2> QED BY <2>4, <2>5
<1>12. Strikes(s, t) => t # st.epSquare
  <2>1. EpFits(board, us, st.epSquare)
    BY DEF Sound, Agrees
  <2> QED BY <1>1, <1>9, <2>1 DEF EpFits, Square, SQ_NONE
<1>13. Wandering(m) <=>
         Roaming(m) \/ Promoting(m, {QUEEN, ROOK, BISHOP, KNIGHT}) \/ Pushing(m) \/ Capturing(m) \/ Passing(m)
  BY DEF Wandering
<1>14. Promoting(m, {QUEEN}) => Promoting(m, {QUEEN, ROOK, BISHOP, KNIGHT})
  BY DEF Promoting
<1>15. NORMAL \notin {PROMOTION, EN_PASSANT} /\ PROMOTION # EN_PASSANT
  BY Words
<1> HIDE DEF s, t, none
<1>16. CASE Roaming(m)
  BY <1>1, <1>3, <1>5, <1>6, <1>7, <1>8, <1>14, <1>15, <1>16
<1>17. CASE Promoting(m, {QUEEN, ROOK, BISHOP, KNIGHT})
  <2>1. ~Roaming(m) /\ ~Capturing(m) /\ ~Passing(m) /\ t # st.epSquare
    BY <1>8, <1>11, <1>12, <1>15, <1>17
  <2> QED BY <1>3, <1>4, <1>5, <1>6, <1>8, <1>17, <2>1
<1>18. CASE Pushing(m)
  <2>1. ~Promoting(m, {QUEEN}) /\ ~Capturing(m) /\ ~Passing(m) /\ t # st.epSquare /\ t \notin DOMAIN board /\ m.type # PROMOTION
    BY <1>8, <1>9, <1>11, <1>14, <1>15, <1>18
  <2> QED BY <1>3, <1>6, <1>7, <2>1
<1>19. CASE Capturing(m)
  <2>1. t \in DOMAIN board /\ m.type # PROMOTION
    BY <1>8, <1>9, <1>15, <1>19
  <2> QED BY <1>3, <1>6, <1>19, <2>1
<1>20. CASE Passing(m)
  BY <1>3, <1>6, <1>8, <1>20
<1> QED BY <1>13, <1>16, <1>17, <1>18, <1>19, <1>20

\* Castling is not noisy.
LEMMA CastlingIsQuiet ==
  ASSUME Sound(board, us, st), NEW m \in generate_castling
  PROVE  ~Noisy(AsPlayed(m)) /\ m \notin generate_all(CAPTURES)
<1>1. Fits(m)
  BY CastlingMovesFit
<1>2. m.type = CASTLING
  BY Parts DEF generate_castling
<1>3. StandsOn(board, make_piece(us, KING), m.from) /\ m.to \notin DOMAIN board
  BY <1>1, <1>2, CastlingShape
<1>4. board[m.from][2] = KING
  BY <1>3 DEF StandsOn, make_piece
<1>5. AsPlayed(m).from = m.from /\ AsPlayed(m).to = m.to
  BY DEF AsPlayed
<1>6. AsPlayed(m).promotion # QUEEN
  <2>1. m.type # PROMOTION
    BY <1>2, Words
  <2>2. AsPlayed(m).promotion = ""
    BY <2>1 DEF AsPlayed
  <2> QED BY <2>2 DEF QUEEN
<1>7. ~Noisy(AsPlayed(m))
  <2>1. KING # PAWN
    BY Words
  <2> QED BY <1>3, <1>4, <1>5, <1>6, <2>1 DEF Noisy
<1>8. m \notin generate_all(CAPTURES)
  <2>1. generate_all(CAPTURES) \cap generate_all(QUIETS) = {}
    BY SplitInTwo DEF GenerationSplits
  <2>2. m \in generate_all(QUIETS)
    BY MovesListed
  <2> QED BY <2>1, <2>2
<1> QED BY <1>7, <1>8

\* Out of check, what qsearch tries are the noisy ones of the legal moves.
LEMMA QsearchListed ==
  ASSUME Sound(board, us, st), BothKings, CheckersExact, EpBehind, st.checkersBB = {}, NEW m
  PROVE  m \in QsearchMoves <=> m \in LegalMoves /\ Noisy(AsPlayed(m))
<1>1. m \in QsearchMoves <=> m \in generate_all(CAPTURES) /\ legal(m)
  BY DEF QsearchMoves
<1>2. m \in generate_all(CAPTURES) => Wandering(m)
  <2>1. GenerationSplits
    BY SplitInTwo
  <2>2. m \in generate_all(CAPTURES) => m \in generate_all(NON_EVASIONS)
    BY <2>1 DEF GenerationSplits
  <2> QED BY <2>2, ListedOutOfCheck, CastlingIsQuiet
<1>3. Wandering(m) => (m \in generate_all(CAPTURES) <=> Noisy(AsPlayed(m)))
  BY CapturesAreNoisy
<1>4. Wandering(m) => (~Rules!InCheck(BoardAfter(m), us) <=> legal(m))
  BY SafeWandering
<1>5. m \in LegalMoves <=>
        \/ Wandering(m) /\ ~Rules!InCheck(BoardAfter(m), us)
        \/ m \in generate_castling /\ legal(m)
  BY LegalWandering
<1>6. m \in generate_castling => ~Noisy(AsPlayed(m))
  BY CastlingIsQuiet
<1> QED BY <1>1, <1>2, <1>3, <1>4, <1>5, <1>6

\* With a king a side, the checkers known and the crossed square out of every check's way,
\* generate<LEGAL> lists exactly the legal moves of chess, and qsearch the noisy ones.
LEMMA LegalMovesListed ==
  ASSUME Sound(board, us, st), BothKings, CheckersExact, EpBehind
  PROVE  LegalListed
<1> DEFINE L == Rules!Legal(Seen)
<1>1. \A r : r \in L <=> \E m \in LegalMoves : AsPlayed(m) = r
  BY LegalOneByOne
<1>2. st.checkersBB = {} => \A m : m \in QsearchMoves <=> m \in LegalMoves /\ Noisy(AsPlayed(m))
  BY QsearchListed
<1> HIDE DEF L
<1>3. {AsPlayed(m) : m \in LegalMoves} = L
  BY <1>1
<1>4. st.checkersBB = {} => {AsPlayed(m) : m \in QsearchMoves} = {r \in L : Noisy(r)}
  BY <1>1, <1>2
<1> QED BY <1>3, <1>4 DEF LegalListed, Noisy, L

\* However the position was reached, as long as both kings are on the board, the checkers
\* cached are those there are and no check passes over the square a pawn just crossed,
\* generate<LEGAL>, with its target squares and its few calls to legal(), lists the legal
\* moves of chess and no other (movegen.cpp: generate; position.cpp: legal).
THEOREM LegalAlwaysListed == Spec => []((BothKings /\ CheckersExact /\ EpBehind) => LegalMovesExact)
<1>1. WalkInv => ((BothKings /\ CheckersExact /\ EpBehind) => LegalListed)
  BY CurrentIsSound, LegalMovesListed
<1>2. WalkInv => GenerationSplits /\ PseudoLegalSuffices
  BY CurrentIsSound, SplitInTwo, PseudoLegalIsEnough
<1>3. WalkInv => ((BothKings /\ CheckersExact /\ EpBehind) => LegalMovesExact)
  BY <1>1, <1>2 DEF LegalMovesExact
<1> QED BY <1>3, WalkInvariant, PTL

-----------------------------------------------------------------------------
(* What a legal move leaves behind: both kings, the mover's safe. *)

\* The board after castling, square by square and file by file.
LEMMA CastlingBoard ==
  ASSUME Sound(board, us, st), NEW m, Fits(m), m.type = CASTLING,
         NEW cr, cr = <<us, Side(m.from, m.to)>>, NEW f, f = BoardAfter(m)
  PROVE  LET k == m.from  t == m.to  h == rook_home(cr)  r == rook_to(cr)
         IN  /\ k \in Square /\ t \in Square /\ h \in Square /\ r \in Square
             /\ k \in DOMAIN board /\ h \in DOMAIN board /\ t \notin DOMAIN board /\ r \notin DOMAIN board
             /\ board[k] = make_piece(us, KING) /\ board[h] = make_piece(us, ROOK)
             /\ DOMAIN f = (DOMAIN board \ {k, h}) \cup {t, r}
             /\ f[t] = make_piece(us, KING) /\ f[r] = make_piece(us, ROOK) /\ t # r
             /\ \A q \in DOMAIN f : q # t /\ q # r => f[q] = board[q]
             /\ rank_of(t) = rank_of(k) /\ rank_of(h) = rank_of(k) /\ rank_of(r) = rank_of(k)
             /\ rank_of(k) = 0 \/ rank_of(k) = 7
             /\ file_of(k) = 4
             /\ \/ file_of(r) = 5 /\ file_of(t) = 6 /\ file_of(h) = 7
                \/ file_of(r) = 3 /\ file_of(t) = 2 /\ file_of(h) = 0
<1> DEFINE k == m.from  t == m.to  h == rook_home(cr)  r == rook_to(cr)
<1>1. /\ cr \in CastlingRight /\ cr[1] = us /\ k = king_home(us) /\ t = king_to(cr)
      /\ StandsOn(board, make_piece(us, KING), k) /\ StandsOn(board, make_piece(us, ROOK), h)
      /\ t \notin DOMAIN board /\ r \notin DOMAIN board /\ k # h /\ t # r /\ r \in Square
  BY CastlingShape
<1>2. /\ k \in Square /\ h \in Square
      /\ k = 4 \/ k = 60
      /\ \/ h = k + 3 /\ t = k + 2 /\ r = k + 1
         \/ h = k - 4 /\ t = k - 2 /\ r = k - 1
  BY <1>1, CastlingSquares
<1>3. f = Castled(cr)
  BY BoardAfterCastling
<1>4. /\ DOMAIN f = (DOMAIN board \ {k, h}) \cup {t, r}
      /\ f[t] = make_piece(us, KING) /\ f[r] = make_piece(us, ROOK)
      /\ \A q \in DOMAIN f : q # t /\ q # r => f[q] = board[q]
  BY <1>1, <1>3 DEF Castled
<1> HIDE DEF k, t, h, r
<1>5. /\ t \in Square /\ rank_of(t) = rank_of(k) /\ rank_of(h) = rank_of(k) /\ rank_of(r) = rank_of(k)
      /\ rank_of(k) = 0 \/ rank_of(k) = 7
      /\ file_of(k) = 4
      /\ \/ file_of(r) = 5 /\ file_of(t) = 6 /\ file_of(h) = 7
         \/ file_of(r) = 3 /\ file_of(t) = 2 /\ file_of(h) = 0
  <2>1. /\ \A i \in 0 .. 7 : rank_of(i) = 0 /\ file_of(i) = i
        /\ \A i \in 0 .. 7 : rank_of(56 + i) = 7 /\ file_of(56 + i) = i
    BY DEF rank_of, file_of
  <2>2. CASE k = 4
    BY <1>2, <2>1, <2>2 DEF Square
  <2>3. CASE k = 60
    <3>1. k = 56 + 4
      BY <2>3
    <3>2. \/ h = 56 + 7 /\ t = 56 + 6 /\ r = 56 + 5
          \/ h = 56 + 0 /\ t = 56 + 2 /\ r = 56 + 3
      BY <1>2, <2>3
    <3> QED BY <2>1, <3>1, <3>2 DEF Square
  <2> QED BY <1>2, <2>2, <2>3
<1>6. /\ k \in DOMAIN board /\ h \in DOMAIN board /\ board[k] = make_piece(us, KING) /\ board[h] = make_piece(us, ROOK)
  BY <1>1 DEF StandsOn
<1> QED BY <1>1, <1>2, <1>4, <1>5, <1>6 DEF k, t, h, r

\* The king that has castled is not attacked: no line to it opens, but those its rook shuts.
LEMMA SafeAfterCastling ==
  ASSUME Sound(board, us, st), BothKings, NEW m \in generate_castling, legal(m)
  PROVE  ~Rules!InCheck(BoardAfter(m), us)
<1> DEFINE cr == <<us, Side(m.from, m.to)>>  f == BoardAfter(m)
           k == m.from  t == m.to  h == rook_home(cr)  r == rook_to(cr)
<1>1. Fits(m) /\ m.type = CASTLING
  BY CastlingMovesFit, Parts DEF generate_castling
<1>2. /\ k \in Square /\ t \in Square /\ h \in Square /\ r \in Square
      /\ k \in DOMAIN board /\ h \in DOMAIN board /\ t \notin DOMAIN board /\ r \notin DOMAIN board
      /\ board[k] = make_piece(us, KING) /\ board[h] = make_piece(us, ROOK)
      /\ DOMAIN f = (DOMAIN board \ {k, h}) \cup {t, r}
      /\ f[t] = make_piece(us, KING) /\ f[r] = make_piece(us, ROOK) /\ t # r
      /\ \A q \in DOMAIN f : q # t /\ q # r => f[q] = board[q]
  BY <1>1, CastlingBoard
<1>3. /\ rank_of(t) = rank_of(k) /\ rank_of(h) = rank_of(k) /\ rank_of(r) = rank_of(k)
      /\ file_of(k) = 4
      /\ \/ file_of(r) = 5 /\ file_of(t) = 6 /\ file_of(h) = 7
         \/ file_of(r) = 3 /\ file_of(t) = 2 /\ file_of(h) = 0
  BY <1>1, CastlingBoard
<1>4. /\ us \in Color /\ them \in Color /\ them # us /\ Rules!Other(us) = them
      /\ DOMAIN board \subseteq Square /\ \A q \in DOMAIN board : board[q] \in Piece
  BY TwoSides
<1>5. ~is_attacked_by(board, them, t)
  BY <1>1, Words DEF legal
<1>6. Rules!AttackersOf(board, them, t) = {}
  <2>1. attackers_to(board, t, pieces(board)) = {o \in DOMAIN board : Rules!Attacks(board, o, t)}
    BY <1>2, <1>4, AttackersByTheRules
  <2> QED BY <1>5, <2>1 DEF is_attacked_by, PiecesOf, Rules!AttackersOf
<1>7. IsBoard(f)
  BY <1>1, BoardStaysBoard
<1> HIDE DEF cr, f, k, t, h, r
<1>8. Rules!King(f, us) = t
  <2>1. t \in DOMAIN f /\ f[t][2] = KING
    BY <1>2 DEF make_piece
  <2>2. \A q \in DOMAIN f : f[q] = <<us, "king">> <=> q = t
    BY <1>2, <1>7, <2>1 DEF IsBoard, make_piece, KING
  <2> QED BY <2>1, <2>2 DEF Rules!King
<1>9. SUFFICES ASSUME NEW o \in Rules!AttackersOf(f, them, t) PROVE FALSE
  BY <1>4, <1>8 DEF Rules!InCheck, f
<1>10. /\ o \in DOMAIN board /\ o # t /\ o # r /\ o # k /\ o # h /\ o \in Square
       /\ f[o] = board[o] /\ board[o][1] = them /\ board[o] \in Piece /\ Rules!Attacks(f, o, t)
  <2>1. o \in DOMAIN f /\ f[o][1] = them /\ Rules!Attacks(f, o, t)
    BY DEF Rules!AttackersOf
  <2>2. f[t][1] = us /\ f[r][1] = us
    BY <1>2 DEF make_piece
  <2> QED BY <1>2, <1>4, <2>1, <2>2
<1>11. ~Rules!Attacks(board, o, t)
  BY <1>6, <1>10 DEF Rules!AttackersOf
<1>12. Sniper(board, them, t, o)
  BY <1>10, <1>11, OthersAttackAnyway
<1>13. Rules!ClearLine(f, o, t) /\ ~Rules!ClearLine(board, o, t)
  BY <1>10, <1>11, <1>12, SniperStrikes
<1>14. PICK q \in DOMAIN board : Rules!Interposed(q, o, t)
  BY <1>13 DEF Rules!ClearLine
<1>15. Shaped(QUEEN, o, t)
  BY <1>12, Words DEF Sniper, Shaped
<1>16. q \in {k, h} /\ ~Rules!Interposed(r, o, t)
  BY <1>2, <1>13, <1>14 DEF Rules!ClearLine
<1>17. Mid(q, o, t) /\ ~Mid(r, o, t)
  BY <1>2, <1>4, <1>10, <1>14, <1>15, <1>16, MidIsInterposed
<1>18. file_of(o) \in 0 .. 7 /\ rank_of(o) \in 0 .. 7 /\ rank_of(k) \in 0 .. 7 /\ ~(file_of(o) = file_of(r) /\ rank_of(o) = rank_of(r))
  <2>1. /\ o = 8 * rank_of(o) + file_of(o) /\ r = 8 * rank_of(r) + file_of(r)
        /\ file_of(o) \in 0 .. 7 /\ rank_of(o) \in 0 .. 7 /\ rank_of(k) \in 0 .. 7
    BY <1>2, <1>10, Coordinates
  <2> QED BY <1>10, <2>1
<1> DEFINE u == file_of(o)  v == rank_of(o)  x == file_of(t)  y == rank_of(t)
           p == file_of(q)  z == file_of(r)
<1>19. rank_of(q) = y /\ rank_of(r) = y /\ (p = 4 \/ p = file_of(h))
  BY <1>3, <1>16
<1>20. /\ ~(p = x /\ y = y) /\ ~(p = u /\ y = v)
       /\ Amid(p, x, u) /\ Amid(y, y, v)
       /\ \/ x = u /\ p = x
          \/ y = v /\ y = y
          \/ x - y = u - v /\ p - y = x - y
          \/ x + y = u + v /\ p + y = x + y
  BY <1>17, <1>19 DEF Mid
<1>21. ~(/\ ~(z = x /\ y = y) /\ ~(z = u /\ y = v)
         /\ Amid(z, x, u) /\ Amid(y, y, v)
         /\ \/ x = u /\ z = x
            \/ y = v /\ y = y
            \/ x - y = u - v /\ z - y = x - y
            \/ x + y = u + v /\ z + y = x + y)
  BY <1>17, <1>19 DEF Mid
<1>22. /\ u \in 0 .. 7 /\ v \in 0 .. 7 /\ y \in 0 .. 7 /\ ~(u = z /\ v = y)
       /\ \/ z = 5 /\ x = 6 /\ (p = 4 \/ p = 7)
          \/ z = 3 /\ x = 2 /\ (p = 4 \/ p = 0)
  BY <1>3, <1>18, <1>19
<1> HIDE DEF u, v, x, y, p, z
<1> QED BY ONLY <1>20, <1>21, <1>22 DEF Amid

\* The king that is not in check is not captured.
LEMMA TheirKingStays ==
  ASSUME Sound(board, us, st), BothKings, ~Rules!InCheck(board, them), NEW m,
         Wandering(m) \/ m \in generate_castling
  PROVE  LET k == king_square(board, them)  f == BoardAfter(m)
         IN  /\ k \in DOMAIN f /\ f[k] = make_piece(them, KING) /\ k \in Square
             /\ k # m.from /\ k # m.to
             /\ Rules!King(f, them) = k /\ king_square(f, them) = k
             /\ Rules!AttackersOf(board, us, k) = {}
<1> DEFINE k == king_square(board, them)  f == BoardAfter(m)  s == m.from  t == m.to
<1>1. /\ us \in Color /\ them \in Color /\ them # us /\ Rules!Other(them) = us
      /\ DOMAIN board \subseteq Square /\ \A q \in DOMAIN board : board[q] \in Piece
  BY TwoSides
<1>2. /\ k \in DOMAIN board /\ k \in Square /\ board[k] = make_piece(them, KING)
      /\ board[k][1] = them /\ board[k][2] = KING /\ Rules!King(board, them) = k
  BY <1>1, TheKing
<1>3. Rules!AttackersOf(board, us, k) = {}
  BY <1>1, <1>2 DEF Rules!InCheck
<1>4. Fits(m)
  BY WanderingFits, CastlingMovesFit
<1>5. s \in DOMAIN board /\ board[s][1] = us
  BY <1>4 DEF Fits
<1>6. t # k
  <2>1. SUFFICES ASSUME t = k PROVE FALSE
    OBVIOUS
  <2>2. CASE m \in generate_castling
    <3>1. m.type = CASTLING
      BY <2>2, Parts DEF generate_castling
    <3>2. t \notin DOMAIN board
      BY <1>4, <3>1, CastlingShape
    <3> QED BY <1>2, <2>1, <3>2
  <2>3. CASE Wandering(m)
    <3>1. Rules!Attacks(board, s, t)
      <4>1. s \in DOMAIN board /\ board[s] \in Piece /\ t \in Square
        BY <1>1, <1>2, <1>5, <2>1
      <4>2. /\ board[s][2] # PAWN => (Rules!Attacks(board, s, t) <=> t \in attacks_bb(board[s][2], s, pieces(board)))
            /\ board[s][2] = PAWN => (Rules!Attacks(board, s, t) <=> t \in PawnAttacks[us][s])
        BY <1>1, <1>5, <4>1, AttacksForward DEF pieces
      <4>3. /\ Roaming(m) <=> board[s][2] # PAWN
            /\ m.type = EN_PASSANT <=> Passing(m)
        BY <2>3, WanderingFits
      <4>4. CASE Roaming(m)
        BY <4>2, <4>3, <4>4, Anatomy
      <4>5. ~Passing(m)
        BY <1>2, <1>4, <2>1, <4>3, EnPassantShape
      <4>6. CASE ~Roaming(m)
        <5>1. Strikes(s, t) \/ Steps(s, t) \/ Jumps(s, t)
          BY <2>3, <4>5, <4>6, Anatomy DEF Wandering
        <5>2. Strikes(s, t)
          BY <1>2, <2>1, <5>1 DEF Steps, Jumps
        <5> QED BY <4>2, <4>3, <4>6, <5>2 DEF Strikes
      <4> QED BY <4>4, <4>6
    <3> QED BY <1>3, <1>5, <2>1, <3>1 DEF Rules!AttackersOf
  <2> QED BY <2>2, <2>3
<1>7. s # k
  BY <1>1, <1>2, <1>5
<1>8. k \in DOMAIN f /\ f[k] = make_piece(them, KING)
  <2>1. make_piece(them, KING)[2] # PAWN
    BY Words DEF make_piece
  <2>2. m.type = CASTLING => k # rook_home(<<us, Side(m.from, m.to)>>)
    <3>1. m.type = CASTLING => board[rook_home(<<us, Side(m.from, m.to)>>)] = make_piece(us, ROOK)
      BY <1>4, CastlingShape DEF StandsOn
    <3> QED BY <1>1, <1>2, <3>1 DEF make_piece
  <2>3. StandsOn(board, make_piece(them, KING), k)
    BY <1>2 DEF StandsOn
  <2> HIDE DEF k
  <2>4. StandsOn(BoardAfter(m), make_piece(them, KING), k)
    BY <1>4, <1>6, <1>7, <2>1, <2>2, <2>3, UntouchedStays
  <2> QED BY <2>4 DEF StandsOn
<1>9. IsBoard(f)
  BY <1>4, BoardStaysBoard
<1> HIDE DEF k, f
<1>10. Rules!King(f, them) = k /\ king_square(f, them) = k
  <2>1. f[k][2] = KING
    BY <1>8 DEF make_piece
  <2>2. \A q \in DOMAIN f : f[q] = <<them, "king">> <=> q = k
    BY <1>8, <1>9, <2>1 DEF IsBoard, make_piece, KING
  <2> QED BY <1>8, <2>2 DEF Rules!King, king_square, make_piece, KING
<1> QED BY <1>2, <1>3, <1>6, <1>7, <1>8, <1>10 DEF k, f

\* After a legal move both kings stand and the mover's is safe.
LEMMA SafelyMoved ==
  ASSUME Sound(board, us, st), BothKings, CheckersExact, EpBehind, ~Rules!InCheck(board, them),
         NEW m \in LegalMoves
  PROVE  /\ Wandering(m) \/ (m \in generate_castling /\ legal(m))
         /\ ~Rules!InCheck(BoardAfter(m), us)
         /\ \A c \in Color : \E q \in DOMAIN BoardAfter(m) : BoardAfter(m)[q] = make_piece(c, KING)
<1>1. \/ Wandering(m) /\ ~Rules!InCheck(BoardAfter(m), us)
      \/ m \in generate_castling /\ legal(m)
  BY LegalWandering
<1>2. ~Rules!InCheck(BoardAfter(m), us)
  BY <1>1, SafeAfterCastling
<1>3. us \in Color /\ them \in Color /\ \A c \in Color : c = us \/ c = them
  BY TwoSides DEF Color, Opposite, WHITE, BLACK
<1>4. \E q \in DOMAIN BoardAfter(m) : BoardAfter(m)[q] = make_piece(them, KING)
  BY <1>1, TheirKingStays
<1>5. \E q \in DOMAIN BoardAfter(m) : BoardAfter(m)[q] = make_piece(us, KING)
  <2> DEFINE f == BoardAfter(m)  k == king_square(board, us)
  <2>1. CASE Wandering(m)
    <3>1. Fits(m) /\ m.type # CASTLING
      BY <2>1, WanderingFits
    <3>2. k \in DOMAIN board /\ board[k] = make_piece(us, KING) /\ board[k][1] = us /\ board[k][2] = KING
      BY <1>3, TheKing
    <3>3. CASE m.from = k
      <4>1. f = Moved(m)
        BY <3>1, BoardAfterMove
      <4>2. m.to \in DOMAIN Moved(m) /\ Moved(m)[m.to] = Arrives(m)
        BY DEF Moved
      <4>3. Arrives(m) = board[k]
        <5>1. m.type = PROMOTION => board[m.from][2] = PAWN
          BY <3>1, PiecesOfMoves DEF make_piece
        <5> QED BY <3>2, <3>3, <5>1, Words DEF Arrives
      <4> QED BY <3>2, <4>1, <4>2, <4>3
    <3>4. CASE m.from # k
      <4>1. make_piece(us, KING)[2] # PAWN
        BY Words DEF make_piece
      <4>2. m.to # k
        BY <2>1, <3>2, WanderingFits DEF PiecesOf
      <4>3. StandsOn(board, make_piece(us, KING), k)
        BY <3>2 DEF StandsOn
      <4> HIDE DEF k
      <4>4. StandsOn(BoardAfter(m), make_piece(us, KING), k)
        BY <3>1, <3>4, <4>1, <4>2, <4>3, UntouchedStays
      <4> QED BY <4>4 DEF StandsOn
    <3> QED BY <3>3, <3>4
  <2>2. CASE m \in generate_castling
    <3>1. Fits(m) /\ m.type = CASTLING
      BY <2>2, CastlingMovesFit, Parts DEF generate_castling
    <3>2. m.to \in DOMAIN BoardAfter(m) /\ BoardAfter(m)[m.to] = make_piece(us, KING)
      BY <3>1, CastlingBoard
    <3> QED BY <3>2
  <2> QED BY <1>1, <2>1, <2>2
<1> QED BY <1>1, <1>2, <1>3, <1>4, <1>5

-----------------------------------------------------------------------------
(* A check is given only where gives_check looks for it. *)

\* What lies on a line of a slider's lies on such a line.
LEMMA ShapedBetween ==
  ASSUME NEW pt \in {BISHOP, ROOK, QUEEN}, NEW o \in Square, NEW k \in Square, NEW p \in Square,
         Shaped(pt, o, k), Rules!Interposed(p, o, k)
  PROVE  Shaped(pt, p, k)
<1>1. Shaped(QUEEN, o, k)
  BY Words DEF Shaped
<1>2. Mid(p, o, k)
  BY <1>1, MidIsInterposed
<1> DEFINE x == file_of(k)  y == rank_of(k)  u == file_of(o)  v == rank_of(o)  i == file_of(p)  j == rank_of(p)
<1>3. /\ Shaped(ROOK, o, k) <=> ~(u = x /\ v = y) /\ (u = x \/ v = y)
      /\ Shaped(BISHOP, o, k) <=> ~(u = x /\ v = y) /\ (u - v = x - y \/ u + v = x + y)
      /\ Shaped(QUEEN, o, k) <=> Shaped(ROOK, o, k) \/ Shaped(BISHOP, o, k)
  BY ShapedByCoordinates
<1>4. /\ Shaped(ROOK, p, k) <=> ~(i = x /\ j = y) /\ (i = x \/ j = y)
      /\ Shaped(BISHOP, p, k) <=> ~(i = x /\ j = y) /\ (i - j = x - y \/ i + j = x + y)
      /\ Shaped(QUEEN, p, k) <=> Shaped(ROOK, p, k) \/ Shaped(BISHOP, p, k)
  BY ShapedByCoordinates
<1>5. /\ x \in Int /\ y \in Int /\ u \in Int /\ v \in Int /\ i \in Int /\ j \in Int
  BY Coordinates
<1>6. /\ ~(i = x /\ j = y) /\ ~(i = u /\ j = v)
      /\ Amid(i, x, u) /\ Amid(j, y, v)
      /\ \/ x = u /\ i = x
         \/ y = v /\ j = y
         \/ x - y = u - v /\ i - j = x - y
         \/ x + y = u + v /\ i + j = x + y
  BY <1>2 DEF Mid
<1> HIDE DEF x, y, u, v, i, j
<1>7. ~(u = x /\ v = y) /\ (u = x \/ v = y) => i = x \/ j = y
  BY ONLY <1>5, <1>6 DEF Amid
<1>8. ~(u = x /\ v = y) /\ (u - v = x - y \/ u + v = x + y) => i - j = x - y \/ i + j = x + y
  BY ONLY <1>5, <1>6 DEF Amid
<1> QED BY <1>3, <1>4, <1>6, <1>7, <1>8

\* A piece whose departure opens a line to the king is one of the blockers, and it has not
\* kept to that line.
LEMMA Uncovered ==
  ASSUME NEW b, DOMAIN b \subseteq Square, \A q \in DOMAIN b : b[q] \in Piece,
         NEW e \in Color, NEW k \in DOMAIN b, Rules!AttackersOf(b, e, k) = {},
         NEW s \in DOMAIN b, NEW t \in Square, s # t, t # k,
         NEW f, DOMAIN f = (DOMAIN b \ {s}) \cup {t},
         NEW o \in DOMAIN b, o # t, f[o] = b[o], b[o][1] = e, o # s, Rules!Attacks(f, o, k)
  PROVE  /\ s \in slider_blockers(b, PiecesOf(b, e), k)
         /\ Sniper(b, e, k, o) /\ Shaped(QUEEN, o, k)
         /\ Rules!Interposed(s, o, k) /\ ~Rules!Interposed(t, o, k)
         /\ (Shaped(QUEEN, t, s) => \A q \in DOMAIN b : ~Rules!Interposed(q, t, s)) => ~aligned(s, t, k)
<1>1. k \in Square /\ o \in Square /\ s \in Square /\ b[o] \in Piece
  OBVIOUS
<1>2. ~Rules!Attacks(b, o, k)
  BY DEF Rules!AttackersOf
<1>3. Sniper(b, e, k, o)
  BY <1>1, <1>2, OthersAttackAnyway
<1>4. Shaped(QUEEN, o, k)
  BY <1>3, Words DEF Sniper, Shaped
<1>5. Rules!ClearLine(f, o, k)
  BY <1>3, SniperStrikes
<1>6. ~Rules!ClearLine(b, o, k)
  BY <1>2, <1>3, SniperStrikes
<1>7. Rules!Interposed(s, o, k)
  <2>1. PICK q \in DOMAIN b : Rules!Interposed(q, o, k)
    BY <1>6 DEF Rules!ClearLine
  <2>2. q = s
    BY <1>5, <2>1 DEF Rules!ClearLine
  <2> QED BY <2>1, <2>2
<1>8. ~Rules!Interposed(t, o, k)
  BY <1>5 DEF Rules!ClearLine
<1>9. s \in slider_blockers(b, PiecesOf(b, e), k)
  <2> DEFINE g == [q \in DOMAIN b \ {s} |-> b[q]]
  <2>1. DOMAIN g = DOMAIN b \ {s} /\ \A q \in DOMAIN g : g[q] = b[q]
    OBVIOUS
  <2> HIDE DEF g
  <2>2. o \in DOMAIN g /\ g[o] = b[o]
    BY <2>1
  <2>3. Rules!ClearLine(g, o, k)
    BY <1>5, <2>1 DEF Rules!ClearLine
  <2>4. Rules!Attacks(g, o, k)
    BY <1>3, <2>2, <2>3, SniperStrikes
  <2>5. Rules!AttackersOf(g, e, k) # {}
    BY <2>2, <2>4 DEF Rules!AttackersOf
  <2> QED BY <1>1, <2>1, <2>5, BlockersByTheRules
<1>10. ASSUME Shaped(QUEEN, t, s) => \A q \in DOMAIN b : ~Rules!Interposed(q, t, s), aligned(s, t, k) PROVE FALSE
  <2>1. /\ Shaped(QUEEN, t, s)
        /\ Rules!Interposed(t, o, k) \/ Rules!Interposed(o, t, s) \/ Rules!Interposed(k, t, s)
    BY <1>1, <1>4, <1>7, <1>10, StaysBetween
  <2> QED BY <1>8, <1>10, <2>1
<1> QED BY <1>3, <1>4, <1>7, <1>8, <1>9, <1>10

\* The squares that set_check_info caches: a piece that stands there gives check.
LEMMA CachedSquares ==
  ASSUME Sound(board, us, st), BothKings, st.checkSquares = checkSquares(board, us)
  PROVE  LET k == king_square(board, them)
         IN  /\ st.checkSquares[PAWN] = PawnAttacks[them][k]
             /\ \A pt \in {KNIGHT, BISHOP, ROOK, QUEEN} :
                  st.checkSquares[pt] = attacks_bb(pt, k, DOMAIN board)
<1>1. them = Opposite(us)
  BY TwoSides
<1>2. /\ PAWN \in PieceType /\ PAWN # KING /\ {KNIGHT, BISHOP, ROOK, QUEEN} \subseteq PieceType
      /\ \A pt \in {KNIGHT, BISHOP, ROOK, QUEEN} : pt # PAWN /\ pt # KING
  BY Words DEF PieceType
<1> DEFINE k == king_square(board, them)  F == checkSquares(board, us)
<1>3. F = [pt \in PieceType |-> CASE pt = PAWN -> PawnAttacks[them][k]
                                 [] pt = KING -> {}
                                 [] OTHER -> attacks_bb(pt, k, DOMAIN board)]
  BY <1>1 DEF checkSquares, pieces
<1> HIDE DEF k, F
<1>4. F[PAWN] = PawnAttacks[them][k]
  BY <1>2, <1>3
<1>5. ASSUME NEW pt \in {KNIGHT, BISHOP, ROOK, QUEEN} PROVE F[pt] = attacks_bb(pt, k, DOMAIN board)
  <2>1. pt \in PieceType /\ pt # PAWN /\ pt # KING
    BY <1>2
  <2> QED BY <1>3, <2>1
<1> QED BY <1>4, <1>5 DEF k, F

\* What stands on the square a move goes to, and on all the others, unless it castles or
\* takes en passant.
LEMMA BoardAfterPlain ==
  ASSUME Sound(board, us, st), NEW m, Wandering(m), m.type # EN_PASSANT, NEW f, f = BoardAfter(m)
  PROVE  /\ DOMAIN f = (DOMAIN board \ {m.from}) \cup {m.to}
         /\ f[m.to] = make_piece(us, IF m.type = PROMOTION THEN m.promotion ELSE board[m.from][2])
         /\ \A q \in DOMAIN f : q # m.to => f[q] = board[q]
<1>1. Fits(m) /\ m.type # CASTLING /\ m.from \in DOMAIN board /\ board[m.from][1] = us
  BY WanderingFits
<1>2. f = Moved(m) /\ Left(m) = {m.from}
  BY <1>1, BoardAfterMove DEF Left
<1>3. board[m.from] \in Piece
  BY <1>1, TwoSides
<1>4. Arrives(m) = make_piece(us, IF m.type = PROMOTION THEN m.promotion ELSE board[m.from][2])
  BY <1>1, <1>3 DEF Arrives, make_piece, Piece
<1> QED BY <1>2, <1>4 DEF Moved

\* The king's move gives no check itself: the kings do not meet.
LEMMA KingsKeepApart ==
  ASSUME Sound(board, us, st), BothKings, ~Rules!InCheck(board, them), NEW m, Wandering(m),
         ~Rules!InCheck(BoardAfter(m), us), BoardAfter(m)[m.to][2] = KING
  PROVE  ~Rules!Attacks(BoardAfter(m), m.to, king_square(board, them))
<1> DEFINE k == king_square(board, them)  f == BoardAfter(m)  t == m.to
<1>1. SUFFICES ASSUME Rules!Attacks(f, t, k) PROVE FALSE
  OBVIOUS
<1>2. us \in Color /\ them \in Color /\ them # us /\ them = Rules!Other(us)
  BY TwoSides
<1>3. /\ Fits(m) /\ m.type # CASTLING /\ t \in Square /\ board[m.from][1] = us /\ m.from \in DOMAIN board
  BY WanderingFits
<1>4. f = Moved(m) /\ f[t] = Arrives(m)
  BY <1>3, BoardAfterMove DEF Moved
<1>5. m.type # PROMOTION
  <2>1. ASSUME m.type = PROMOTION PROVE FALSE
    <3>1. f[t][2] = m.promotion /\ m.promotion # KING
      BY <1>3, <1>4, <2>1, PiecesOfMoves DEF Arrives
    <3> QED BY <3>1
  <2> QED BY <2>1
<1>6. board[m.from][2] = KING
  BY <1>4, <1>5 DEF Arrives
<1>7. m.from = king_square(board, us)
  BY <1>2, <1>3, <1>6, TheKing
<1>8. Rules!King(f, us) = t
  BY <1>7, KingAfter
<1>9. k \in DOMAIN f /\ f[k] = make_piece(them, KING) /\ k \in Square /\ k # t
  BY TheirKingStays
<1>10. f[k][1] = them /\ f[k][2] = KING
  BY <1>9 DEF make_piece
<1> HIDE DEF k, f, t
<1>11. Rules!Attacks(f, k, t)
  <2>1. Rules!X(k) \in Int /\ Rules!Y(k) \in Int /\ Rules!X(t) \in Int /\ Rules!Y(t) \in Int
    BY <1>3, <1>9 DEF Rules!X, Rules!Y, Square
  <2>2. Rules!Abs(Rules!X(t) - Rules!X(k)) = Rules!Abs(Rules!X(k) - Rules!X(t))
        /\ Rules!Abs(Rules!Y(t) - Rules!Y(k)) = Rules!Abs(Rules!Y(k) - Rules!Y(t))
    BY <2>1 DEF Rules!Abs
  <2>3. Rules!Abs(Rules!X(k) - Rules!X(t)) <= 1 /\ Rules!Abs(Rules!Y(k) - Rules!Y(t)) <= 1
    <3>1. f[t][2] = KING
      BY DEF f, t
    <3> QED BY <1>1, <3>1 DEF Rules!Attacks, KING
  <2> QED BY <1>9, <1>10, <2>2, <2>3 DEF Rules!Attacks, KING
<1>12. k \in Rules!AttackersOf(f, them, t)
  BY <1>9, <1>10, <1>11 DEF Rules!AttackersOf
<1>13. ~Rules!InCheck(f, us)
  BY DEF f
<1> QED BY <1>2, <1>8, <1>12, <1>13 DEF Rules!InCheck

\* Where the piece that has moved attacks the king from, gives_check finds it: by the
\* squares cached for its kind, or, for one just promoted, through the square it has left.
LEMMA DirectChecksFound ==
  ASSUME Sound(board, us, st), BothKings, st.checkSquares = checkSquares(board, us),
         ~Rules!InCheck(board, them), NEW m, Wandering(m), ~Rules!InCheck(BoardAfter(m), us),
         Rules!Attacks(BoardAfter(m), m.to, king_square(board, them))
  PROVE  gives_check(m)
<1> DEFINE k == king_square(board, them)  f == BoardAfter(m)  s == m.from  t == m.to
           pt == IF m.type = PROMOTION THEN m.promotion ELSE board[s][2]
<1>1. /\ us \in Color /\ them \in Color /\ them = Opposite(us)
      /\ DOMAIN board \subseteq Square /\ \A q \in DOMAIN board : board[q] \in Piece
  BY TwoSides
<1>2. /\ Fits(m) /\ m.type # CASTLING /\ s \in DOMAIN board /\ s \in Square /\ board[s][1] = us /\ t \in Square
      /\ s # t
      /\ Roaming(m) <=> board[s][2] # PAWN
      /\ Roaming(m) => m.type = NORMAL
  BY WanderingFits
<1>3. k \in DOMAIN f /\ k \in Square /\ k # s /\ k # t /\ Rules!AttackersOf(board, us, k) = {}
  BY TheirKingStays
<1>4. f[t] = make_piece(us, pt) /\ t \in DOMAIN f
  <2>1. f = Moved(m)
    BY <1>2, BoardAfterMove
  <2>2. Arrives(m) = make_piece(us, pt)
    BY <1>1, <1>2 DEF Arrives, make_piece, Piece
  <2> QED BY <2>1, <2>2 DEF Moved
<1>5. IsBoard(f)
  BY <1>2, BoardStaysBoard
<1>6. t \in st.checkSquares[pt] /\ pt # KING => gives_check(m)
  BY DEF gives_check
<1>7. special_check(m, k) => gives_check(m)
  BY DEF gives_check
<1>8. pt # KING
  <2>1. ASSUME pt = KING PROVE FALSE
    <3>1. f[t][2] = KING
      BY <1>4, <2>1 DEF make_piece
    <3> QED BY <3>1, KingsKeepApart
  <2> QED BY <2>1
<1>9. /\ st.checkSquares[PAWN] = PawnAttacks[them][k]
      /\ \A p \in {KNIGHT, BISHOP, ROOK, QUEEN} : st.checkSquares[p] = attacks_bb(p, k, DOMAIN board)
  BY CachedSquares
<1>10. pt \in {PAWN, KNIGHT, BISHOP, ROOK, QUEEN}
  <2>1. f[t] \in Piece
    BY <1>4, <1>5 DEF IsBoard
  <2>2. pt \in PieceType
    BY <1>4, <2>1 DEF Piece, make_piece
  <2> QED BY <1>8, <2>2 DEF PieceType
<1>11. DOMAIN f \subseteq Square /\ f[t] \in Piece /\ f[t][1] = us /\ f[t][2] = pt
  BY <1>4, <1>5 DEF IsBoard, make_piece
<1>12. Rules!Attacks(f, t, k)
  OBVIOUS
<1>13. m.type # EN_PASSANT => /\ DOMAIN f = (DOMAIN board \ {s}) \cup {t}
                              /\ \A q \in DOMAIN f : q # t => f[q] = board[q]
  BY BoardAfterPlain
<1>14. pt # PAWN => m.type # EN_PASSANT
  <2>1. m.type = EN_PASSANT => board[s][2] = PAWN
    BY <1>2, Words
  <2> QED BY <2>1, Words
<1>15. m.type = PROMOTION /\ k \in attacks_bb(pt, t, DOMAIN board \ {s}) => special_check(m, k)
  BY DEF special_check, pieces
<1>16. pt # PAWN /\ m.type # PROMOTION => /\ board[s][2] = pt /\ m.to \in attacks_bb(pt, s, DOMAIN board)
  <2>1. pt # PAWN /\ m.type # PROMOTION => Roaming(m)
    BY <1>2
  <2> QED BY <2>1, Anatomy DEF pieces
<1> HIDE DEF k, f, s, t, pt
<1>17. CASE pt = PAWN
  <2>1. k \in PawnAttacks[us][t]
    BY <1>3, <1>4, <1>11, <1>12, <1>17, AttacksForward
  <2>2. t \in PawnAttacks[them][k]
    BY <1>1, <1>2, <1>3, <2>1, PawnAttacksBack
  <2> QED BY <1>6, <1>8, <1>9, <1>17, <2>2
<1>18. CASE pt = KNIGHT
  <2>1. t \in leaper_attacks(KNIGHT, k)
    <3>1. {Rules!Abs(Rules!X(k) - Rules!X(t)), Rules!Abs(Rules!Y(k) - Rules!Y(t))} = {1, 2}
      BY <1>11, <1>12, <1>18 DEF Rules!Attacks, KNIGHT
    <3> QED BY <1>2, <1>3, <3>1, LeaperByTheRules DEF t
  <2>2. t \in attacks_bb(KNIGHT, k, DOMAIN board)
    BY <2>1 DEF attacks_bb
  <2> QED BY <1>6, <1>8, <1>9, <1>18, <2>2
<1>19. CASE pt \in {BISHOP, ROOK, QUEEN}
  <2>1. pt \notin {PAWN, KNIGHT, KING}
    BY <1>19, Words
  <2>2. Shaped(pt, t, k) /\ Rules!ClearLine(f, t, k)
    BY <1>11, <1>12, <1>19, <2>1 DEF Rules!Attacks, Shaped, PAWN, KNIGHT, KING, BISHOP, ROOK, QUEEN
  <2>3. Shaped(QUEEN, t, k)
    BY <1>19, <2>2, Words DEF Shaped
  <2>4. \A q \in DOMAIN board : q # s => q \in DOMAIN f
    BY <1>13, <1>14, <2>1
  <2>5. CASE Rules!ClearLine(board, t, k)
    <3>1. t \in sliding_attack(pt, k, DOMAIN board)
      BY <1>1, <1>2, <1>3, <1>19, <2>2, <2>5, SlidingByTheRules DEF t
    <3>2. t \in attacks_bb(pt, k, DOMAIN board)
      BY <2>1, <3>1 DEF attacks_bb
    <3> QED BY <1>6, <1>8, <1>9, <1>19, <3>2
  <2>6. CASE m.type = PROMOTION
    <3>1. Shaped(pt, k, t) /\ Rules!ClearLine(f, k, t)
      <4>1. \A q \in Square : Rules!Interposed(q, t, k) <=> Rules!Interposed(q, k, t)
        BY <1>2, <1>3, <2>3, LinesBothWays DEF t
      <4>2. Shaped(pt, k, t)
        BY <1>2, <1>3, <1>19, <2>2, LinesBothWays DEF t
      <4> QED BY <1>11, <2>2, <4>1, <4>2 DEF Rules!ClearLine
    <3> DEFINE occ == DOMAIN board \ {s}
    <3>2. occ \in SUBSET Square /\ \A q \in Square : q # k /\ q # t => (q \in occ <=> q \in DOMAIN f)
      BY <1>1, <1>13, <1>14, <2>1
    <3> HIDE DEF occ
    <3>3. k \in sliding_attack(pt, t, occ)
      <4>1. t \in Square
        BY <1>2 DEF t
      <4> QED BY <1>3, <1>11, <1>19, <3>1, <3>2, <4>1, SlidingThrough
    <3>4. k \in attacks_bb(pt, t, DOMAIN board \ {s})
      BY <2>1, <3>3 DEF attacks_bb, occ
    <3> QED BY <1>7, <1>15, <2>6, <3>4
  <2>7. CASE ~Rules!ClearLine(board, t, k) /\ m.type # PROMOTION
    <3>1. board[s][2] = pt /\ t \in attacks_bb(pt, s, DOMAIN board)
      BY <1>16, <2>1, <2>7 DEF t
    <3>2. PICK q \in DOMAIN board : Rules!Interposed(q, t, k)
      BY <2>7 DEF Rules!ClearLine
    <3>3. q = s
      BY <2>2, <2>4, <3>2 DEF Rules!ClearLine
    <3>4. Rules!Interposed(s, t, k)
      BY <3>2, <3>3
    <3>5. t \in Square /\ s \in Square /\ s \in DOMAIN board
      BY <1>2 DEF s, t
    <3>6. Shaped(pt, s, k)
      BY <1>3, <1>19, <2>2, <3>4, <3>5, ShapedBetween
    <3>7. Rules!ClearLine(board, s, k)
      <4>1. ASSUME NEW p \in DOMAIN board, Rules!Interposed(p, s, k) PROVE FALSE
        <5>1. p # s /\ p \in Square
          BY <1>1, <4>1 DEF Rules!Interposed
        <5>2. Rules!Interposed(p, t, k)
          BY <1>3, <2>3, <3>4, <3>5, <4>1, <5>1, BeforeWhatIsBefore
        <5> QED BY <2>2, <2>4, <5>1, <5>2 DEF Rules!ClearLine
      <4> QED BY <4>1 DEF Rules!ClearLine
    <3>8. Sniper(board, us, k, s)
      <4>1. board[s][1] = us
        BY <1>2 DEF s
      <4> QED BY <1>19, <3>1, <3>5, <3>6, <4>1, Words DEF Sniper, Shaped
    <3>9. Rules!Attacks(board, s, k)
      BY <3>7, <3>8, SniperStrikes
    <3>10. s \in Rules!AttackersOf(board, us, k)
      BY <3>8, <3>9 DEF Rules!AttackersOf, Sniper
    <3> QED BY <1>3, <3>10
  <2> QED BY <2>5, <2>6, <2>7
<1> QED BY <1>10, <1>17, <1>18, <1>19

\* A check by a piece that has not moved: gives_check finds it among the blockers, or, the
\* pawns of an en passant capture gone from the line, through the board they leave.
LEMMA DiscoveriesFound ==
  ASSUME Sound(board, us, st), BothKings, ~Rules!InCheck(board, them), NEW m, Wandering(m),
         NEW o \in DOMAIN BoardAfter(m), o # m.to, BoardAfter(m)[o][1] = us,
         Rules!Attacks(BoardAfter(m), o, king_square(board, them))
  PROVE  gives_check(m)
<1> DEFINE k == king_square(board, them)  f == BoardAfter(m)  s == m.from  t == m.to
<1>1. /\ us \in Color /\ them \in Color /\ them = Opposite(us) /\ us = Opposite(them)
      /\ DOMAIN board \subseteq Square /\ \A q \in DOMAIN board : board[q] \in Piece
  BY TwoSides
<1>2. /\ Fits(m) /\ m.type # CASTLING /\ s \in DOMAIN board /\ s \in Square /\ board[s][1] = us /\ t \in Square
      /\ s # t
  BY WanderingFits
<1>3. k \in DOMAIN f /\ k \in Square /\ k # s /\ k # t /\ Rules!AttackersOf(board, us, k) = {}
  BY TheirKingStays
<1>4. k \in DOMAIN board
  BY <1>1, TheKing
<1>5. CASE m.type # EN_PASSANT
  <2>1. /\ DOMAIN f = (DOMAIN board \ {s}) \cup {t}
        /\ \A q \in DOMAIN f : q # t => f[q] = board[q]
    BY <1>5, BoardAfterPlain
  <2>2. Shaped(QUEEN, t, s) => \A q \in DOMAIN board : ~Rules!Interposed(q, t, s)
    BY <1>5, ClearWay
  <2>3. o \in DOMAIN board /\ o # s /\ f[o] = board[o] /\ board[o][1] = us /\ o # t /\ Rules!Attacks(f, o, k)
    BY <2>1
  <2>4. s \in slider_blockers(board, PiecesOf(board, us), k) /\ ~aligned(s, t, k)
    <3> HIDE DEF k, f, s, t
    <3> QED BY <1>1, <1>2, <1>3, <1>4, <2>1, <2>2, <2>3, Uncovered
  <2>5. st.blockersForKing[them] = slider_blockers(board, PiecesOf(board, us), k)
    BY <1>1 DEF Sound, blockersForKing
  <2> QED BY <2>4, <2>5 DEF gives_check
<1>6. CASE m.type = EN_PASSANT
  <2> DEFINE x == ep_capture_square(m)
  <2>1. t \notin DOMAIN board /\ x \in DOMAIN board /\ x # s /\ x # t
    BY <1>2, <1>6, EnPassantShape DEF StandsOn
  <2>2. /\ DOMAIN f = (DOMAIN board \ {s, x}) \cup {t}
        /\ \A q \in DOMAIN f : q # t => f[q] = board[q]
    <3>1. f = Moved(m) /\ Left(m) = {s, x}
      BY <1>2, <1>6, BoardAfterMove, Words DEF Left
    <3> HIDE DEF s, t, x
    <3> QED BY <1>2, <3>1 DEF Moved, s, t
  <2>3. ep_occupancy(m) = DOMAIN f
    <3> HIDE DEF f
    <3> QED BY <2>2 DEF ep_occupancy, pieces
  <2>4. SlidersReach(us, k, DOMAIN f) => gives_check(m)
    BY <1>6, <2>3 DEF gives_check, special_check
  <2> HIDE DEF k, f, s, t, x
  <2>5. o \in DOMAIN board /\ f[o] = board[o] /\ board[o][1] = us /\ Rules!Attacks(f, o, k) /\ o \in Square
    BY <1>1, <2>2 DEF f, k, t
  <2>6. ~Rules!Attacks(board, o, k)
    BY <1>3, <2>5 DEF Rules!AttackersOf
  <2>7. Sniper(board, us, k, o)
    BY <1>1, <1>3, <2>5, <2>6, OthersAttackAnyway
  <2>8. Rules!ClearLine(f, o, k)
    BY <2>5, <2>7, SniperStrikes
  <2>9. DOMAIN f \subseteq Square
    BY <1>1, <1>2, <2>2 DEF t
  <2>10. SlidersReach(us, k, DOMAIN f)
    BY <1>1, <1>3, <2>5, <2>7, <2>8, <2>9, SlidersReaching
  <2> QED BY <2>4, <2>10
<1> QED BY <1>5, <1>6

\* Off the mover's back rank, castling uncovers nothing there: a line to the king meets the
\* rank once.
LEMMA RankMetOnce ==
  ASSUME NEW q \in Square, NEW o \in Square, NEW k \in Square, Shaped(QUEEN, o, k), Rules!Interposed(q, o, k),
         rank_of(q) = 0 \/ rank_of(q) = 7
  PROVE  rank_of(k) = rank_of(q)
<1>1. Mid(q, o, k)
  BY MidIsInterposed
<1> DEFINE x == file_of(k)  y == rank_of(k)  u == file_of(o)  v == rank_of(o)  i == file_of(q)  j == rank_of(q)
<1>2. /\ x \in 0 .. 7 /\ y \in 0 .. 7 /\ u \in 0 .. 7 /\ v \in 0 .. 7 /\ i \in 0 .. 7 /\ j \in 0 .. 7
  BY Coordinates
<1>3. /\ ~(i = x /\ j = y) /\ ~(i = u /\ j = v)
      /\ Amid(i, x, u) /\ Amid(j, y, v)
      /\ \/ x = u /\ i = x
         \/ y = v /\ j = y
         \/ x - y = u - v /\ i - j = x - y
         \/ x + y = u + v /\ i + j = x + y
  BY <1>1 DEF Mid
<1>4. j = 0 \/ j = 7
  OBVIOUS
<1> HIDE DEF x, y, u, v, i, j
<1>5. y = j
  BY ONLY <1>2, <1>3, <1>4 DEF Amid
<1> QED BY <1>5 DEF y, j

\* A rook's line to a king on another rank does not pass along its own.
LEMMA FilesLeaveTheRank ==
  ASSUME NEW q \in Square, NEW r \in Square, NEW k \in Square, Shaped(ROOK, r, k), Rules!Interposed(q, r, k),
         rank_of(k) # rank_of(r)
  PROVE  rank_of(q) # rank_of(r)
<1>1. Shaped(QUEEN, r, k)
  BY Words DEF Shaped
<1>2. Mid(q, r, k)
  BY <1>1, MidIsInterposed
<1> DEFINE x == file_of(k)  y == rank_of(k)  u == file_of(r)  v == rank_of(r)  i == file_of(q)  j == rank_of(q)
<1>3. /\ x \in 0 .. 7 /\ y \in 0 .. 7 /\ u \in 0 .. 7 /\ v \in 0 .. 7 /\ i \in 0 .. 7 /\ j \in 0 .. 7
  BY Coordinates
<1>4. u = x \/ v = y
  BY ShapedByCoordinates
<1>5. /\ ~(i = u /\ j = v) /\ Amid(i, x, u) /\ Amid(j, y, v)
  BY <1>2 DEF Mid
<1>6. y # v
  OBVIOUS
<1> HIDE DEF x, y, u, v, i, j
<1>7. j # v
  BY ONLY <1>3, <1>4, <1>5, <1>6 DEF Amid
<1> QED BY <1>7 DEF j, v

\* Unless the other king stands on the same rank, a check by castling is the rook's, along
\* the file it comes to.
LEMMA CastlingChecksFound ==
  ASSUME Sound(board, us, st), BothKings, ~Rules!InCheck(board, them), NEW m \in generate_castling, legal(m),
         rank_of(king_square(board, them)) # rank_of(m.from),
         NEW o \in DOMAIN BoardAfter(m), BoardAfter(m)[o][1] = us,
         Rules!Attacks(BoardAfter(m), o, king_square(board, them))
  PROVE  gives_check(m)
<1> DEFINE k == king_square(board, them)  f == BoardAfter(m)  s == m.from  t == m.to
           cr == <<us, Side(s, t)>>  h == rook_home(cr)  r == rook_to(cr)
<1>1. /\ us \in Color /\ them \in Color /\ them = Opposite(us) /\ us = Opposite(them) /\ us # them
      /\ DOMAIN board \subseteq Square /\ \A q \in DOMAIN board : board[q] \in Piece
  BY TwoSides
<1>2. Fits(m) /\ m.type = CASTLING
  BY CastlingMovesFit, Parts DEF generate_castling
<1>3. k \in DOMAIN f /\ k \in Square /\ k # s /\ k # t /\ Rules!AttackersOf(board, us, k) = {}
  BY TheirKingStays
<1>4. /\ k \in DOMAIN board /\ board[k] = make_piece(them, KING) /\ board[k][1] = them /\ board[k][2] = KING
  BY <1>1, TheKing
<1>5. /\ s \in Square /\ t \in Square /\ h \in Square /\ r \in Square
      /\ DOMAIN f = (DOMAIN board \ {s, h}) \cup {t, r}
      /\ f[t] = make_piece(us, KING) /\ f[r] = make_piece(us, ROOK)
      /\ \A q \in DOMAIN f : q # t /\ q # r => f[q] = board[q]
      /\ rank_of(t) = rank_of(s) /\ rank_of(h) = rank_of(s) /\ rank_of(r) = rank_of(s)
      /\ rank_of(s) = 0 \/ rank_of(s) = 7
  BY <1>2, CastlingBoard
<1>6. k \in attacks_bb(ROOK, r, DOMAIN board) => gives_check(m)
  BY <1>2 DEF gives_check, special_check, pieces
<1>7. ~is_attacked_by(board, them, t)
  BY <1>2, Words DEF legal
<1>8. rank_of(k) # rank_of(s)
  OBVIOUS
<1> HIDE DEF k, f, s, t, cr, h, r
<1>9. Rules!Attacks(f, o, k) /\ o \in DOMAIN f /\ f[o][1] = us
  BY DEF f, k
<1>10. ASSUME o = t PROVE FALSE
  <2>1. f[t][2] = KING
    BY <1>5 DEF make_piece
  <2>2. k # t /\ Rules!Abs(Rules!X(k) - Rules!X(t)) <= 1 /\ Rules!Abs(Rules!Y(k) - Rules!Y(t)) <= 1
    BY <1>3, <1>9, <1>10, <2>1 DEF Rules!Attacks, KING
  <2>3. Rules!X(k) \in Int /\ Rules!Y(k) \in Int /\ Rules!X(t) \in Int /\ Rules!Y(t) \in Int
    BY <1>3, <1>5 DEF Rules!X, Rules!Y, Square
  <2>4. Rules!Abs(Rules!X(t) - Rules!X(k)) <= 1 /\ Rules!Abs(Rules!Y(t) - Rules!Y(k)) <= 1
    BY <2>2, <2>3 DEF Rules!Abs
  <2>5. Rules!Attacks(board, k, t)
    BY <1>4, <2>2, <2>4 DEF Rules!Attacks, KING
  <2>6. k \in attackers_to(board, t, pieces(board))
    BY <1>1, <1>4, <1>5, <2>5, AttackersByTheRules
  <2> QED BY <1>4, <1>7, <2>6 DEF is_attacked_by, PiecesOf
<1>11. CASE o = r
  <2>1. f[r][2] = ROOK
    BY <1>5 DEF make_piece
  <2>2. Shaped(ROOK, r, k) /\ Rules!ClearLine(f, r, k)
    BY <1>9, <1>11, <2>1, Words DEF Rules!Attacks, Shaped, PAWN, KNIGHT, KING, BISHOP, ROOK, QUEEN
  <2>3. Rules!ClearLine(board, r, k)
    <3>1. ASSUME NEW q \in DOMAIN board, Rules!Interposed(q, r, k) PROVE FALSE
      <4>1. q \in {s, h}
        BY <1>5, <2>2, <3>1 DEF Rules!ClearLine
      <4>2. q \in Square /\ rank_of(q) = rank_of(r)
        BY <1>5, <4>1
      <4>3. rank_of(k) # rank_of(r)
        BY <1>5, <1>8
      <4> QED BY <1>3, <1>5, <2>2, <3>1, <4>2, <4>3, FilesLeaveTheRank
    <3> QED BY <3>1 DEF Rules!ClearLine
  <2>4. Shaped(ROOK, k, r) /\ Rules!ClearLine(board, k, r)
    <3>1. Shaped(QUEEN, r, k)
      BY <2>2, Words DEF Shaped
    <3>2. Shaped(ROOK, k, r) /\ \A q \in Square : Rules!Interposed(q, r, k) <=> Rules!Interposed(q, k, r)
      BY <1>3, <1>5, <2>2, <3>1, LinesBothWays
    <3> QED BY <1>1, <2>3, <3>2 DEF Rules!ClearLine
  <2>5. k \in sliding_attack(ROOK, r, DOMAIN board)
    BY <1>1, <1>3, <1>5, <2>4, SlidingByTheRules
  <2>6. k \in attacks_bb(ROOK, r, DOMAIN board)
    BY <2>5, Words DEF attacks_bb
  <2> QED BY <1>6, <2>6
<1>12. ASSUME o # t, o # r PROVE FALSE
  <2>1. o \in DOMAIN board /\ f[o] = board[o] /\ board[o][1] = us /\ o \in Square
    BY <1>1, <1>5, <1>9, <1>12
  <2>2. ~Rules!Attacks(board, o, k)
    BY <1>3, <2>1 DEF Rules!AttackersOf
  <2>3. Sniper(board, us, k, o)
    BY <1>1, <1>3, <1>9, <2>1, <2>2, OthersAttackAnyway
  <2>4. Rules!ClearLine(f, o, k) /\ ~Rules!ClearLine(board, o, k)
    BY <1>9, <2>1, <2>2, <2>3, SniperStrikes
  <2>5. PICK q \in DOMAIN board : Rules!Interposed(q, o, k)
    BY <2>4 DEF Rules!ClearLine
  <2>6. q \in {s, h}
    BY <1>5, <2>4, <2>5 DEF Rules!ClearLine
  <2>7. q \in Square /\ rank_of(q) = rank_of(s)
    BY <1>5, <2>6
  <2>8. Shaped(QUEEN, o, k)
    BY <2>3, Words DEF Sniper, Shaped
  <2>9. rank_of(k) = rank_of(q)
    BY <1>3, <1>5, <2>1, <2>5, <2>7, <2>8, RankMetOnce
  <2> QED BY <1>8, <2>7, <2>9
<1> QED BY <1>10, <1>11, <1>12

\* gives_check foresees every check, but for castling along the other king's rank.
LEMMA ChecksForeseen ==
  ASSUME Sound(board, us, st), BothKings, st.checkSquares = checkSquares(board, us),
         ~Rules!InCheck(board, them), NEW m, Wandering(m) \/ (m \in generate_castling /\ legal(m)),
         m.type = CASTLING => rank_of(king_square(board, them)) # rank_of(m.from),
         ~Rules!InCheck(BoardAfter(m), us), Rules!InCheck(BoardAfter(m), them)
  PROVE  gives_check(m)
<1> DEFINE k == king_square(board, them)  f == BoardAfter(m)
<1>1. us = Rules!Other(them)
  BY TwoSides
<1>2. Rules!King(f, them) = k
  BY TheirKingStays
<1>3. PICK o \in Rules!AttackersOf(f, us, k) : TRUE
  <2> HIDE DEF f, k
  <2>1. Rules!InCheck(f, them)
    BY DEF f
  <2> QED BY <1>1, <1>2, <2>1 DEF Rules!InCheck
<1>4. o \in DOMAIN f /\ f[o][1] = us /\ Rules!Attacks(f, o, k)
  BY <1>3 DEF Rules!AttackersOf
<1>5. CASE Wandering(m) /\ o = m.to
  BY <1>4, <1>5, DirectChecksFound
<1>6. CASE Wandering(m) /\ o # m.to
  BY <1>4, <1>6, DiscoveriesFound
<1>7. CASE m \in generate_castling /\ legal(m)
  <2>1. m.type = CASTLING
    BY <1>7, Parts DEF generate_castling
  <2> QED BY <1>4, <1>7, <2>1, CastlingChecksFound
<1> QED BY <1>5, <1>6, <1>7

\* The square a pawn crosses in a double step stops none of the checks there are then: a
\* line through it is the pawn's own file, where the pawn itself stands in the way.
LEMMA CrossedIsBehind ==
  ASSUME Sound(board, us, st), BothKings, ~Rules!InCheck(board, them), NEW m,
         Wandering(m) \/ m \in generate_castling,
         LET e == ep_square_after(m, BoardAfter(m))
         IN  e # SQ_NONE /\ \E o \in Rules!AttackersOf(BoardAfter(m), us, king_square(board, them)) :
                              Stops(e, o, king_square(board, them))
  PROVE  FALSE
<1> DEFINE k == king_square(board, them)  f == BoardAfter(m)  s == m.from  t == m.to  e == ep_square_after(m, f)
<1>1. /\ us \in Color /\ them \in Color /\ them = Opposite(us) /\ us = Opposite(them) /\ us # them
      /\ DOMAIN board \subseteq Square /\ \A q \in DOMAIN board : board[q] \in Piece
  BY TwoSides
<1>2. Fits(m)
  BY CastlingMovesFit, WanderingFits
<1>3. /\ board[s][2] = PAWN /\ Gap(s, t) = 16 /\ e = t - Up(us)
  BY DEF ep_square_after
<1>4. m.type = NORMAL /\ Jumps(s, t)
  BY <1>2, <1>3, SixteenIsAJump
<1>5. Wandering(m)
  <2>1. m \in generate_castling => m.type = CASTLING
    BY Parts DEF generate_castling
  <2> QED BY <1>4, <2>1, Words
<1>6. /\ s \in DOMAIN board /\ s \in Square /\ board[s][1] = us /\ t \in Square /\ s # t
      /\ t \notin DOMAIN board
  BY <1>4, <1>5, WanderingFits DEF Jumps
<1>7. k \in DOMAIN f /\ k \in Square /\ k # s /\ k # t /\ Rules!AttackersOf(board, us, k) = {}
  BY TheirKingStays
<1>8. k \in DOMAIN board
  BY <1>1, TheKing
<1>9. /\ DOMAIN f = (DOMAIN board \ {s}) \cup {t}
      /\ f[t] = make_piece(us, PAWN)
      /\ \A q \in DOMAIN f : q # t => f[q] = board[q]
  <2>1. m.type # EN_PASSANT /\ m.type # PROMOTION
    BY <1>4, Words
  <2>2. /\ DOMAIN f = (DOMAIN board \ {s}) \cup {t}
        /\ f[t] = make_piece(us, IF m.type = PROMOTION THEN m.promotion ELSE board[s][2])
        /\ \A q \in DOMAIN f : q # t => f[q] = board[q]
    BY <1>5, <2>1, BoardAfterPlain
  <2> HIDE DEF f, s, t
  <2> QED BY <1>3, <2>1, <2>2
<1>10. e = s + Up(us) /\ t = s + 2 * Up(us) /\ e \in Square
  <2>1. Up(us) \in {8, -8}
    BY DEF Up, NORTH
  <2>2. t = s + 2 * Up(us) /\ s + Up(us) \in Square
    BY <1>4 DEF Jumps
  <2>3. s \in Int
    BY <1>6 DEF Square
  <2> QED BY <1>3, <2>1, <2>2, <2>3
<1>11. PICK o \in Rules!AttackersOf(f, us, k) : Stops(e, o, k)
  OBVIOUS
<1>12. \E q \in DOMAIN f : e \notin DOMAIN f
  <2>1. e \notin DOMAIN board /\ e # t
    <3>1. e \notin DOMAIN board
      BY <1>4, <1>10 DEF Jumps
    <3>2. Up(us) \in {8, -8} /\ s \in Int
      BY <1>6 DEF Up, NORTH, Square
    <3> QED BY <1>10, <3>1, <3>2
  <2> QED BY <1>7, <1>9, <2>1
<1> HIDE DEF k, f, s, t, e
<1>13. o \in DOMAIN f /\ f[o][1] = us /\ Rules!Attacks(f, o, k) /\ o # e
  BY <1>11, <1>12 DEF Rules!AttackersOf
<1>14. Shaped(QUEEN, o, k) /\ Rules!Interposed(e, o, k)
  BY <1>11, <1>13 DEF Stops
<1>15. CASE o = t
  <2>1. f[t][2] = PAWN
    BY <1>9 DEF make_piece
  <2>2. Rules!Abs(Rules!X(k) - Rules!X(t)) = 1 /\ Rules!Y(k) - Rules!Y(t) = Rules!Forward(us)
    BY <1>9, <1>13, <1>15, <2>1 DEF Rules!Attacks, PAWN
  <2>3. Rules!Abs(Rules!X(k) - Rules!X(t)) <= 1 /\ Rules!Abs(Rules!Y(k) - Rules!Y(t)) <= 1
    BY <2>2 DEF Rules!Abs, Rules!Forward
  <2> QED BY <1>6, <1>7, <1>10, <1>14, <1>15, <2>3, NothingBetweenNeighbours
<1>16. CASE o # t
  <2>1. o \in DOMAIN board /\ o # s /\ f[o] = board[o] /\ board[o][1] = us /\ o \in Square
    BY <1>1, <1>9, <1>13, <1>16
  <2>2. Rules!Interposed(s, o, k) /\ ~Rules!Interposed(t, o, k)
    <3>1. ~Rules!Attacks(board, o, k)
      BY <1>7, <2>1 DEF Rules!AttackersOf
    <3>2. Sniper(board, us, k, o)
      BY <1>1, <1>7, <1>13, <2>1, <3>1, OthersAttackAnyway
    <3>3. Rules!ClearLine(f, o, k) /\ ~Rules!ClearLine(board, o, k)
      BY <1>13, <2>1, <3>1, <3>2, SniperStrikes
    <3>4. PICK q \in DOMAIN board : Rules!Interposed(q, o, k)
      BY <3>3 DEF Rules!ClearLine
    <3>5. q = s
      BY <1>9, <3>3, <3>4 DEF Rules!ClearLine
    <3> QED BY <1>9, <3>3, <3>4, <3>5 DEF Rules!ClearLine
  <2>3. Mid(s, o, k) /\ ~Mid(t, o, k) /\ Mid(e, o, k)
    BY <1>6, <1>7, <1>10, <1>14, <2>1, <2>2, MidIsInterposed
  <2> DEFINE x == file_of(k)  y == rank_of(k)  u == file_of(o)  v == rank_of(o)
             i == file_of(s)  j == rank_of(s)  d == IF us = WHITE THEN 1 ELSE -1
  <2>4. /\ x \in 0 .. 7 /\ y \in 0 .. 7 /\ u \in 0 .. 7 /\ v \in 0 .. 7 /\ i \in 0 .. 7 /\ j \in 0 .. 7
        /\ k = 8 * y + x /\ o = 8 * v + u
    BY <1>7, <2>1, <1>6, Coordinates
  <2>5. file_of(e) = i /\ rank_of(e) = j + d /\ file_of(t) = i /\ rank_of(t) = j + 2 * d /\ d \in {1, -1}
    <3>1. Up(us) = 8 * d /\ d \in {1, -1}
      BY DEF Up, NORTH
    <3>2. 2 * Up(us) = 16 * d
      BY <3>1
    <3>3. s = 8 * j + i
      BY <1>6, Coordinates
    <3>4. e = 8 * file_of(0) + (8 * j + i + 8 * d) /\ t = 8 * j + i + 16 * d
      BY <1>10, <3>1, <3>2, <3>3 DEF file_of
    <3> HIDE DEF d, i, j
    <3>5. e \div 8 = j + d /\ e % 8 = i /\ t \div 8 = j + 2 * d /\ t % 8 = i
      BY <2>4, <3>1, <3>4 DEF file_of
    <3> QED BY <3>1, <3>5 DEF file_of, rank_of
  <2>6. t # k /\ t # o
    BY <1>7, <1>16
  <2>7. ~(i = x /\ j + 2 * d = y) /\ ~(i = u /\ j + 2 * d = v)
    <3>1. t = 8 * rank_of(t) + file_of(t)
      BY <1>6, Coordinates
    <3> HIDE DEF d, i, j, x, y, u, v
    <3> QED BY <2>4, <2>5, <2>6, <3>1
  <2>8. /\ ~(i = x /\ j = y) /\ ~(i = u /\ j = v) /\ Amid(i, x, u) /\ Amid(j, y, v)
        /\ \/ x = u /\ i = x
           \/ y = v /\ j = y
           \/ x - y = u - v /\ i - j = x - y
           \/ x + y = u + v /\ i + j = x + y
    BY <2>3 DEF Mid
  <2>9. /\ ~(i = x /\ j + d = y) /\ ~(i = u /\ j + d = v) /\ Amid(i, x, u) /\ Amid(j + d, y, v)
        /\ \/ x = u /\ i = x
           \/ y = v /\ j + d = y
           \/ x - y = u - v /\ i - (j + d) = x - y
           \/ x + y = u + v /\ i + (j + d) = x + y
    <3> HIDE DEF d
    <3> QED BY <2>3, <2>5 DEF Mid
  <2>10. ~(/\ Amid(i, x, u) /\ Amid(j + 2 * d, y, v)
           /\ \/ x = u /\ i = x
              \/ y = v /\ j + 2 * d = y
              \/ x - y = u - v /\ i - (j + 2 * d) = x - y
              \/ x + y = u + v /\ i + (j + 2 * d) = x + y)
    <3> HIDE DEF d
    <3> QED BY <2>3, <2>5, <2>7 DEF Mid
  <2> HIDE DEF d, i, j, x, y, u, v
  <2>11. d = 1 \/ d = -1
    BY <2>5
  <2> QED BY ONLY <2>4, <2>7, <2>8, <2>9, <2>10, <2>11 DEF Amid
<1> QED BY <1>15, <1>16

-----------------------------------------------------------------------------
(* The material: a sum over a set, taken by recursion. *)

\* The officers of a side, what a piece is worth, and a heap with as many tokens for each
\* piece as it is worth: the sum is the size of the heap.
Officers(b, c) == PiecesOf(b, c) \ PiecesOfType(b, {PAWN})
Worth(b, s) == PieceValue[b[s][2]]
Tokens == 1 .. 1000
Heap(b, S) == {x \in S \X Tokens : x[2] <= Worth(b, x[1])}

\* The recursion by which the sum is taken.
Some(t) == CHOOSE x \in t : TRUE
Adds(b, S, g) ==
  g = [t \in SUBSET S |-> IF t = {} THEN 0 ELSE Worth(b, Some(t)) + g[t \ {Some(t)}]]

\* The material is what the recursion comes to.
LEMMA MaterialIsFold ==
  ASSUME NEW b, NEW c \in Color
  PROVE  NonPawnMaterial(b)[c] = (CHOOSE g : Adds(b, Officers(b, c), g))[Officers(b, c)]
BY DEF NonPawnMaterial, MapThenSumSet, MapThenFoldSet, Adds, Worth, Officers, Some

\* Pieces are worth something between nothing and a thousand.
LEMMA WorthBounded ==
  ASSUME NEW b, NEW s, b[s] \in Piece
  PROVE  Worth(b, s) \in 0 .. 1000
BY DEF Worth, Piece, PieceValue, PieceType, PAWN, KNIGHT, BISHOP, ROOK, QUEEN, KING

\* There are only so many tokens.
LEMMA TokensFinite == IsFiniteSet(Tokens)
<1>1. \A i, j \in Int : IsFiniteSet(i .. j)
  BY FS_Interval
<1> DEFINE one == 1  many == 1000
<1>2. one \in Int /\ many \in Int /\ Tokens = one .. many
  BY DEF Tokens
<1> HIDE DEF one, many
<1>3. IsFiniteSet(one .. many)
  BY ONLY <1>1, <1>2, Zenon
<1> QED BY <1>2, <1>3

\* One more piece heaps up as many more tokens.
LEMMA HeapGrows ==
  ASSUME NEW b, NEW S, IsFiniteSet(S), NEW x, x \notin S,
         \A s \in S \cup {x} : Worth(b, s) \in 0 .. 1000
  PROVE  /\ IsFiniteSet(Heap(b, S)) /\ Cardinality(Heap(b, S)) \in Nat
         /\ Cardinality(Heap(b, S \cup {x})) = Cardinality(Heap(b, S)) + Worth(b, x)
<1> DEFINE w == Worth(b, x)  P == {x} \X (1 .. w)  H == Heap(b, S)
<1>1. w \in 0 .. 1000
  OBVIOUS
<1>2. Heap(b, S \cup {x}) = H \cup P
  <2>1. ASSUME NEW y PROVE y \in Heap(b, S \cup {x}) <=> y \in H \cup P
    <3>1. y \in P <=> y \in {x} \X Tokens /\ y[2] <= Worth(b, y[1])
      BY <1>1 DEF Tokens
    <3> HIDE DEF P
    <3> QED BY <3>1 DEF Heap
  <2> HIDE DEF H, P
  <2> QED BY <2>1
<1>3. H \cap P = {}
  BY DEF Heap
<1>4. IsFiniteSet(P) /\ Cardinality(P) = w
  <2>1. IsFiniteSet({x}) /\ Cardinality({x}) = 1
    BY FS_Singleton
  <2>2. IsFiniteSet(1 .. w) /\ Cardinality(1 .. w) = w
    <3>1. 1 \in Int /\ w \in Int
      BY <1>1
    <3>2. IsFiniteSet(1 .. w) /\ Cardinality(1 .. w) = IF 1 > w THEN 0 ELSE w - 1 + 1
      BY <3>1, FS_Interval
    <3> HIDE DEF w
    <3> QED BY <1>1, <3>2
  <2> DEFINE N == 1 .. w
  <2>4. P = {x} \X N
    OBVIOUS
  <2> HIDE DEF w, N, P
  <2>5. IsFiniteSet(N) /\ Cardinality(N) = w
    BY <2>2 DEF N
  <2>6. \A A, B : IsFiniteSet(A) /\ IsFiniteSet(B)
          => IsFiniteSet(A \X B) /\ Cardinality(A \X B) = Cardinality(A) * Cardinality(B)
    BY FS_Product
  <2>7. /\ IsFiniteSet({x} \X N)
        /\ Cardinality({x} \X N) = Cardinality({x}) * Cardinality(N)
    BY <2>1, <2>5, <2>6, Zenon
  <2>3. IsFiniteSet({x} \X N) /\ Cardinality({x} \X N) = 1 * w
    BY <2>1, <2>5, <2>7
  <2> QED BY <1>1, <2>3, <2>4
<1>5. IsFiniteSet(H)
  <2>1. IsFiniteSet(S \X Tokens)
    <3>3. IsFiniteSet(Tokens)
      BY TokensFinite
    <3>4. \A A, B : IsFiniteSet(A) /\ IsFiniteSet(B) => IsFiniteSet(A \X B)
      BY FS_Product
    <3> QED BY ONLY <3>3, <3>4, IsFiniteSet(S), Zenon
  <2> QED BY <2>1, FS_Subset DEF Heap
<1> HIDE DEF w, P, H
<1>6. Cardinality(H) \in Nat
  BY <1>5, FS_CardinalityType
<1>7. Cardinality(H \cup P) = Cardinality(H) + w - Cardinality({})
  BY <1>3, <1>4, <1>5, FS_Union
<1>8. Cardinality({}) = 0
  BY FS_EmptySet
<1>9. Cardinality(H \cup P) = Cardinality(H) + w
  BY <1>1, <1>6, <1>7, <1>8
<1> QED BY <1>2, <1>5, <1>6, <1>9 DEF H, w

\* However the recursion picks the pieces, it counts the heap: a smallest set on which it
\* did not has a piece that it picks, and without it a smaller one.
LEMMA AddsUp ==
  ASSUME NEW b, NEW S, IsFiniteSet(S), \A s \in S : Worth(b, s) \in 0 .. 1000,
         NEW g, Adds(b, S, g)
  PROVE  \A t \in SUBSET S : g[t] = Cardinality(Heap(b, t))
<1> DEFINE T == {t \in SUBSET S : g[t] # Cardinality(Heap(b, t))}
<1> SUFFICES ASSUME T # {} PROVE FALSE
  OBVIOUS
<1>1. IsWellFoundedOn(StrictSubsetOrdering(S), SUBSET S)
  BY FS_StrictSubsetOrderingWellFounded, FS_FiniteSubsetsOfFinite
<1>2. T \subseteq SUBSET S
  OBVIOUS
<1> HIDE DEF T
<1>3. PICK t \in T : \A u \in T : <<u, t>> \notin StrictSubsetOrdering(S)
  BY <1>1, <1>2, WFMin
<1>4. t \in SUBSET S /\ g[t] # Cardinality(Heap(b, t))
  BY <1>3 DEF T
<1>5. t # {}
  <2>1. Heap(b, {}) = {} /\ Cardinality({}) = 0
    BY FS_EmptySet DEF Heap
  <2>2. t = {} => g[t] = 0
    BY <1>4 DEF Adds
  <2> QED BY <1>4, <2>1, <2>2
<1> DEFINE x == Some(t)  u == t \ {x}
<1>6. x \in t /\ u \in SUBSET S /\ x \notin u /\ u # t /\ t = u \cup {x}
  BY <1>4, <1>5 DEF Some
<1>7. g[t] = Worth(b, x) + g[u]
  BY <1>4, <1>5 DEF Adds
<1> HIDE DEF x, u
<1>8. u \notin T
  BY <1>3, <1>4, <1>6 DEF StrictSubsetOrdering
<1>9. g[u] = Cardinality(Heap(b, u))
  BY <1>6, <1>8 DEF T
<1>10. IsFiniteSet(u)
  BY <1>6, FS_Subset
<1>11. /\ Cardinality(Heap(b, t)) = Cardinality(Heap(b, u)) + Worth(b, x)
       /\ Cardinality(Heap(b, u)) \in Nat
  BY <1>4, <1>6, <1>10, HeapGrows
<1>12. Worth(b, x) \in Nat
  BY <1>4, <1>6
<1> QED BY <1>4, <1>7, <1>9, <1>11, <1>12

\* There is a sum to take: the size of the heap is one.
LEMMA SumExists ==
  ASSUME NEW b, NEW S, IsFiniteSet(S), \A s \in S : Worth(b, s) \in 0 .. 1000
  PROVE  \E g : Adds(b, S, g)
<1> DEFINE g == [t \in SUBSET S |-> Cardinality(Heap(b, t))]
<1>1. ASSUME NEW t \in SUBSET S
      PROVE  g[t] = IF t = {} THEN 0 ELSE Worth(b, Some(t)) + g[t \ {Some(t)}]
  <2>1. CASE t = {}
    <3>1. Heap(b, {}) = {} /\ Cardinality({}) = 0
      BY FS_EmptySet DEF Heap
    <3> QED BY <2>1, <3>1
  <2>2. CASE t # {}
    <3> DEFINE x == Some(t)  u == t \ {x}
    <3>1. x \in t /\ u \in SUBSET S /\ x \notin u /\ t = u \cup {x}
      BY <2>2 DEF Some
    <3>2. g[u] = Cardinality(Heap(b, u)) /\ g[t] = Cardinality(Heap(b, t))
      BY <3>1
    <3> HIDE DEF x, u, g
    <3>3. IsFiniteSet(u)
      BY <3>1, FS_Subset
    <3>4. /\ Cardinality(Heap(b, t)) = Cardinality(Heap(b, u)) + Worth(b, x)
          /\ Cardinality(Heap(b, u)) \in Nat
      BY <3>1, <3>3, HeapGrows
    <3>5. Worth(b, x) \in Nat
      BY <3>1
    <3>6. g[t] = Worth(b, x) + g[u]
      BY <3>2, <3>4, <3>5
    <3> QED BY <2>2, <3>6 DEF x, u
  <2> QED BY <2>1, <2>2
<1>2. g = [t \in SUBSET S |-> g[t]]
  OBVIOUS
<1> HIDE DEF g
<1>3. Adds(b, S, g)
  BY <1>1, <1>2 DEF Adds
<1> QED BY <1>3

\* The material of a side is the size of its officers' heap.
LEMMA MaterialIsHeap ==
  ASSUME NEW b, IsBoard(b), NEW c \in Color
  PROVE  /\ NonPawnMaterial(b)[c] = Cardinality(Heap(b, Officers(b, c)))
         /\ IsFiniteSet(Officers(b, c)) /\ \A s \in DOMAIN b : Worth(b, s) \in 0 .. 1000
<1> DEFINE S == Officers(b, c)
<1>1. S \subseteq DOMAIN b
  BY DEF Officers, PiecesOf
<1>2. \A s \in DOMAIN b : Worth(b, s) \in 0 .. 1000
  BY WorthBounded DEF IsBoard
<1>3. IsFiniteSet(Square)
  BY 0 \in Int, 63 \in Int, FS_Interval DEF Square
<1>4. DOMAIN b \subseteq Square
  BY DEF IsBoard
<1>5. IsFiniteSet(S)
  BY <1>1, <1>3, <1>4, FS_Subset
<1> DEFINE h == CHOOSE g : Adds(b, S, g)
<1>6. NonPawnMaterial(b)[c] = h[S]
  BY MaterialIsFold
<1> HIDE DEF S
<1>7. Adds(b, S, h)
  BY <1>1, <1>2, <1>5, SumExists
<1> HIDE DEF h
<1>8. h[S] = Cardinality(Heap(b, S))
  BY <1>1, <1>2, <1>5, <1>7, AddsUp
<1> QED BY <1>2, <1>5, <1>6, <1>8 DEF S

\* The worth of an officer of a side on a square, and what a side has on some squares.
MaterialAt(b, c, s) == IF s \in Officers(b, c) THEN Worth(b, s) ELSE 0
MaterialIn(b, c, A) == Cardinality(Heap(b, Officers(b, c) \cap A))

\* One more square counts what stands on it.
LEMMA MaterialSplits ==
  ASSUME NEW b, IsBoard(b), NEW c \in Color, NEW A \in SUBSET Square, NEW s \in Square, s \notin A
  PROVE  /\ MaterialIn(b, c, A \cup {s}) = MaterialIn(b, c, A) + MaterialAt(b, c, s)
         /\ MaterialIn(b, c, A) \in Nat /\ MaterialAt(b, c, s) \in 0 .. 1000
<1> DEFINE O == Officers(b, c)  S == O \cap A
<1>1. IsFiniteSet(O) /\ \A q \in DOMAIN b : Worth(b, q) \in 0 .. 1000
  BY MaterialIsHeap
<1>2. O \subseteq DOMAIN b
  BY DEF Officers, PiecesOf
<1>3. IsFiniteSet(S)
  BY <1>1, FS_Subset
<1>4. MaterialIn(b, c, A) = Cardinality(Heap(b, S))
  BY DEF MaterialIn
<1>5. s \notin S
  OBVIOUS
<1>6. CASE s \in O
  <2>1. O \cap (A \cup {s}) = S \cup {s}
    BY <1>6
  <2>2. MaterialIn(b, c, A \cup {s}) = Cardinality(Heap(b, S \cup {s}))
    BY <2>1 DEF MaterialIn
  <2>3. MaterialAt(b, c, s) = Worth(b, s) /\ Worth(b, s) \in 0 .. 1000
    BY <1>1, <1>2, <1>6 DEF MaterialAt
  <2>4. \A q \in S \cup {s} : Worth(b, q) \in 0 .. 1000
    BY <1>1, <1>2, <1>6
  <2> HIDE DEF S, O
  <2>5. /\ Cardinality(Heap(b, S)) \in Nat
        /\ Cardinality(Heap(b, S \cup {s})) = Cardinality(Heap(b, S)) + Worth(b, s)
    BY <1>3, <1>5, <2>4, HeapGrows
  <2> QED BY <1>4, <2>2, <2>3, <2>5
<1>7. CASE s \notin O
  <2>1. O \cap (A \cup {s}) = S
    BY <1>7
  <2>2. MaterialIn(b, c, A \cup {s}) = Cardinality(Heap(b, S))
    BY <2>1 DEF MaterialIn
  <2>3. MaterialAt(b, c, s) = 0
    BY <1>7 DEF MaterialAt
  <2>4. IsFiniteSet(Heap(b, S))
    <3>3. IsFiniteSet(Tokens)
      BY TokensFinite
    <3>4. \A B, C : IsFiniteSet(B) /\ IsFiniteSet(C) => IsFiniteSet(B \X C)
      BY FS_Product
    <3>5. IsFiniteSet(S \X Tokens)
      <4> HIDE DEF S
      <4> QED BY ONLY <1>3, <3>3, <3>4, Zenon
    <3> QED BY <3>5, FS_Subset DEF Heap
  <2>5. Cardinality(Heap(b, S)) \in Nat
    BY <2>4, FS_CardinalityType
  <2> QED BY <1>4, <2>2, <2>3, <2>5
<1> QED BY <1>6, <1>7

\* All of the board, and the board without a square.
LEMMA MaterialLess ==
  ASSUME NEW b, IsBoard(b), NEW c \in Color
  PROVE  /\ NonPawnMaterial(b)[c] = MaterialIn(b, c, Square)
         /\ \A A \in SUBSET Square : \A q \in A :
              /\ MaterialIn(b, c, A) = MaterialIn(b, c, A \ {q}) + MaterialAt(b, c, q)
              /\ MaterialIn(b, c, A \ {q}) \in Nat /\ MaterialAt(b, c, q) \in Nat
<1>1. NonPawnMaterial(b)[c] = MaterialIn(b, c, Square)
  <2>1. Officers(b, c) \cap Square = Officers(b, c)
    BY DEF Officers, PiecesOf, IsBoard
  <2> QED BY <2>1, MaterialIsHeap DEF MaterialIn
<1>2. ASSUME NEW A \in SUBSET Square, NEW q \in A
      PROVE  /\ MaterialIn(b, c, A) = MaterialIn(b, c, A \ {q}) + MaterialAt(b, c, q)
             /\ MaterialIn(b, c, A \ {q}) \in Nat /\ MaterialAt(b, c, q) \in Nat
  <2> DEFINE R == A \ {q}  w == MaterialAt(b, c, q)
  <2>1. A = R \cup {q} /\ R \in SUBSET Square /\ q \in Square /\ q \notin R
    OBVIOUS
  <2> HIDE DEF R
  <2>2. /\ MaterialIn(b, c, R \cup {q}) = MaterialIn(b, c, R) + MaterialAt(b, c, q)
        /\ MaterialIn(b, c, R) \in Nat /\ MaterialAt(b, c, q) \in 0 .. 1000
    BY <2>1, MaterialSplits, ZenonT(30)
  <2>3. w \in 0 .. 1000 => w \in Nat
    <3> HIDE DEF w
    <3> QED OBVIOUS
  <2> QED BY <2>1, <2>2, <2>3 DEF R
<1> QED BY <1>1, <1>2

\* The material of a side, with what stands on two, three or four squares set apart.
LEMMA MaterialOnTwo ==
  ASSUME NEW b, IsBoard(b), NEW c \in Color, NEW s \in Square, NEW t \in Square, s # t
  PROVE  /\ NonPawnMaterial(b)[c]
              = MaterialIn(b, c, Square \ {s, t}) + MaterialAt(b, c, s) + MaterialAt(b, c, t)
         /\ MaterialIn(b, c, Square \ {s, t}) \in Nat
         /\ MaterialAt(b, c, s) \in Nat /\ MaterialAt(b, c, t) \in Nat
<1> DEFINE A1 == Square \ {s}  A2 == Square \ {s, t}
<1>1. /\ A1 \in SUBSET Square /\ Square \in SUBSET Square
      /\ t \in A1 /\ A1 \ {t} = A2 /\ Square \ {s} = A1
  OBVIOUS
<1> HIDE DEF A1, A2
<1>2. NonPawnMaterial(b)[c] = MaterialIn(b, c, A1) + MaterialAt(b, c, s)
      /\ MaterialAt(b, c, s) \in Nat
  BY <1>1, MaterialLess
<1>3. MaterialIn(b, c, A1) = MaterialIn(b, c, A2) + MaterialAt(b, c, t)
      /\ MaterialIn(b, c, A2) \in Nat /\ MaterialAt(b, c, t) \in Nat
  BY <1>1, MaterialLess
<1>4. NonPawnMaterial(b)[c] = MaterialIn(b, c, A2) + MaterialAt(b, c, s) + MaterialAt(b, c, t)
  BY <1>2, <1>3
<1> QED BY <1>2, <1>3, <1>4 DEF A2

\* Three squares of the board, as a capture en passant changes them, and the rest of it.
LEMMA MaterialOnThree ==
  ASSUME NEW b, IsBoard(b), NEW c \in Color, NEW s \in Square, NEW t \in Square, NEW u \in Square,
         s # t, u \notin {s, t}
  PROVE  /\ NonPawnMaterial(b)[c]
              = MaterialIn(b, c, Square \ {s, t, u})
                  + MaterialAt(b, c, s) + MaterialAt(b, c, t) + MaterialAt(b, c, u)
         /\ MaterialIn(b, c, Square \ {s, t, u}) \in Nat
         /\ \A q \in {s, t, u} : MaterialAt(b, c, q) \in Nat
<1> DEFINE A2 == Square \ {s, t}  A3 == Square \ {s, t, u}
<1>1. A2 \in SUBSET Square /\ u \in A2 /\ A2 \ {u} = A3
  OBVIOUS
<1>2. /\ NonPawnMaterial(b)[c] = MaterialIn(b, c, A2) + MaterialAt(b, c, s) + MaterialAt(b, c, t)
      /\ MaterialAt(b, c, s) \in Nat /\ MaterialAt(b, c, t) \in Nat
  BY MaterialOnTwo
<1> HIDE DEF A2, A3
<1>3. MaterialIn(b, c, A2) = MaterialIn(b, c, A3) + MaterialAt(b, c, u)
      /\ MaterialIn(b, c, A3) \in Nat /\ MaterialAt(b, c, u) \in Nat
  BY <1>1, MaterialLess
<1>4. NonPawnMaterial(b)[c] = MaterialIn(b, c, A3) + MaterialAt(b, c, s) + MaterialAt(b, c, t)
                                + MaterialAt(b, c, u)
  BY <1>2, <1>3
<1> QED BY <1>2, <1>3, <1>4 DEF A3

\* Four squares of the board, as castling changes them, and the rest of it.
LEMMA MaterialOnFour ==
  ASSUME NEW b, IsBoard(b), NEW c \in Color,
         NEW s \in Square, NEW t \in Square, NEW u \in Square, NEW v \in Square,
         s # t, u \notin {s, t}, v \notin {s, t, u}
  PROVE  /\ NonPawnMaterial(b)[c]
              = MaterialIn(b, c, Square \ {s, t, u, v})
                  + MaterialAt(b, c, s) + MaterialAt(b, c, t) + MaterialAt(b, c, u)
                  + MaterialAt(b, c, v)
         /\ MaterialIn(b, c, Square \ {s, t, u, v}) \in Nat
<1> DEFINE A3 == Square \ {s, t, u}  A4 == Square \ {s, t, u, v}
<1>1. A3 \in SUBSET Square /\ v \in A3 /\ A3 \ {v} = A4
  OBVIOUS
<1>2. /\ NonPawnMaterial(b)[c] = MaterialIn(b, c, A3) + MaterialAt(b, c, s) + MaterialAt(b, c, t)
                                    + MaterialAt(b, c, u)
      /\ \A q \in {s, t, u} : MaterialAt(b, c, q) \in Nat
  BY MaterialOnThree
<1> HIDE DEF A3, A4
<1>3. MaterialIn(b, c, A3) = MaterialIn(b, c, A4) + MaterialAt(b, c, v)
      /\ MaterialIn(b, c, A4) \in Nat /\ MaterialAt(b, c, v) \in Nat
  BY <1>1, MaterialLess
<1>4. NonPawnMaterial(b)[c] = MaterialIn(b, c, A4) + MaterialAt(b, c, s) + MaterialAt(b, c, t)
                                + MaterialAt(b, c, u) + MaterialAt(b, c, v)
  BY <1>2, <1>3
<1> QED BY <1>3, <1>4 DEF A4

\* Squares on which two boards agree count the same.
LEMMA MaterialAgrees ==
  ASSUME NEW b, NEW b2, NEW c, NEW A,
         \A q \in A : /\ q \in DOMAIN b <=> q \in DOMAIN b2
                      /\ q \in DOMAIN b => b[q] = b2[q]
  PROVE  MaterialIn(b, c, A) = MaterialIn(b2, c, A)
<1>1. Officers(b, c) \cap A = Officers(b2, c) \cap A
  BY DEF Officers, PiecesOf, PiecesOfType
<1> DEFINE S == Officers(b, c) \cap A
<1>2. \A s \in S : Worth(b, s) = Worth(b2, s)
  BY DEF Officers, PiecesOf, Worth
<1> HIDE DEF S
<1>3. Heap(b, S) = Heap(b2, S)
  BY <1>2 DEF Heap
<1> QED BY <1>1, <1>3 DEF MaterialIn, S

\* What a piece adds to the material of a side.
Share(pc, c) == IF pc # NO_PIECE /\ pc[1] = c /\ pc[2] # PAWN THEN PieceValue[pc[2]] ELSE 0

\* A square counts what stands on it.
LEMMA MaterialHere ==
  ASSUME NEW b, IsBoard(b), NEW c, NEW s
  PROVE  /\ s \notin DOMAIN b => MaterialAt(b, c, s) = 0
         /\ s \in DOMAIN b => MaterialAt(b, c, s) = Share(b[s], c)
<1>1. s \in DOMAIN b => b[s] # NO_PIECE
  <2>1. \A x \in Color, y \in PieceType : <<x, y>> # <<>>
    OBVIOUS
  <2>2. s \in DOMAIN b => b[s] \in Piece
    BY DEF IsBoard
  <2> QED BY <2>1, <2>2 DEF Piece, NO_PIECE
<1> QED BY <1>1 DEF MaterialAt, Share, Officers, PiecesOf, PiecesOfType, Worth

\* A share is a number.
LEMMA SharesAreNumbers ==
  ASSUME NEW pc, pc # NO_PIECE => pc \in Piece, NEW c
  PROVE  Share(pc, c) \in Nat
BY DEF Share, Piece, PieceValue, PieceType, PAWN, KNIGHT, BISHOP, ROOK, QUEEN, KING

\* The boards before and after a castling: the king counts for nothing, and the rook
\* counts where it goes to.
LEMMA MaterialAfterCastling ==
  ASSUME Sound(board, us, st), NEW m, Fits(m), m.type = CASTLING, IsBoard(BoardAfter(m)), NEW c \in Color
  PROVE  NonPawnMaterial(BoardAfter(m))[c] = NonPawnMaterial(board)[c] /\ NonPawnMaterial(board)[c] \in Nat
<1> DEFINE cr == <<us, Side(m.from, m.to)>>  b == BoardAfter(m)
           kh == m.from  kt == m.to  rh == rook_home(cr)  rt == rook_to(cr)
           king == make_piece(us, KING)  rook == make_piece(us, ROOK)  A == Square \ {kh, kt, rh, rt}
<1>1. /\ kh \in DOMAIN board /\ board[kh] = king /\ rh \in DOMAIN board /\ board[rh] = rook
      /\ kt \notin DOMAIN board /\ rt \notin DOMAIN board /\ kh # rh /\ kt # rt /\ rt \in Square
      /\ cr[1] = us /\ kh = king_home(us) /\ kt = king_to(cr)
  BY CastlingShape DEF StandsOn
<1>2. IsBoard(board) /\ DOMAIN board \subseteq Square /\ kt \in Square
  BY DEF Sound, IsBoard, Fits, MoveRecord
<1>3. b = Castled(cr)
  BY BoardAfterCastling
<1>4. b = [q \in (DOMAIN board \ {kh, rh}) \cup {kt, rt} |->
             IF q = rt THEN rook ELSE IF q = kt THEN king ELSE board[q]]
  BY <1>1, <1>3 DEF Castled
<1>5. kt # kh /\ rh # kt /\ rt # kh /\ rt # rh
  BY <1>1
<1>6. Share(king, c) = 0
  BY DEF Share, make_piece, PieceValue, PieceType, PAWN, KNIGHT, BISHOP, ROOK, QUEEN, KING
<1>7. Share(rook, c) \in Nat
  <2>1. us \in Color
    BY DEF Sound
  <2>2. rook \in Piece
    BY <2>1 DEF make_piece, Piece, PieceType
  <2> QED BY <2>2, SharesAreNumbers
<1> HIDE DEF b, kh, kt, rh, rt, king, rook, cr
<1>8. IsBoard(b)
  BY DEF b
<1>9. /\ MaterialAt(board, c, kh) = 0 /\ MaterialAt(board, c, kt) = 0
      /\ MaterialAt(board, c, rh) = Share(rook, c) /\ MaterialAt(board, c, rt) = 0
  BY <1>1, <1>2, <1>6, MaterialHere
<1>10. /\ kh \notin DOMAIN b /\ rh \notin DOMAIN b
       /\ kt \in DOMAIN b /\ rt \in DOMAIN b /\ b[kt] = king /\ b[rt] = rook
  BY <1>1, <1>4, <1>5
<1>11. /\ MaterialAt(b, c, kh) = 0 /\ MaterialAt(b, c, kt) = 0
       /\ MaterialAt(b, c, rh) = 0 /\ MaterialAt(b, c, rt) = Share(rook, c)
  BY <1>6, <1>8, <1>10, MaterialHere
<1>12. \A q \in A : /\ q \in DOMAIN board <=> q \in DOMAIN b
                    /\ q \in DOMAIN board => board[q] = b[q]
  BY <1>4
<1> DEFINE M == MaterialIn(board, c, A)
<1>13. MaterialIn(b, c, A) = M
  <2> HIDE DEF A
  <2> QED BY <1>12, MaterialAgrees
<1>14. /\ kh \in Square /\ kt \in Square /\ rh \in Square /\ rt \in Square
       /\ kh # kt /\ rh \notin {kh, kt} /\ rt \notin {kh, kt, rh}
  BY <1>1, <1>2, <1>5
<1>15. /\ NonPawnMaterial(board)[c] = M + 0 + 0 + Share(rook, c) + 0
       /\ M \in Nat
  <2>1. /\ NonPawnMaterial(board)[c] = M + MaterialAt(board, c, kh) + MaterialAt(board, c, kt)
                                         + MaterialAt(board, c, rh) + MaterialAt(board, c, rt)
        /\ M \in Nat
    BY <1>2, <1>14, MaterialOnFour
  <2> QED BY <1>9, <2>1
<1>16. NonPawnMaterial(b)[c] = M + 0 + 0 + 0 + Share(rook, c)
  <2>1. /\ NonPawnMaterial(b)[c] = MaterialIn(b, c, A) + MaterialAt(b, c, kh) + MaterialAt(b, c, kt)
                                         + MaterialAt(b, c, rh) + MaterialAt(b, c, rt)
        /\ MaterialIn(b, c, A) \in Nat
    BY <1>8, <1>14, MaterialOnFour
  <2> QED BY <1>11, <1>13, <2>1
<1> HIDE DEF M
<1>17. NonPawnMaterial(b)[c] = NonPawnMaterial(board)[c] /\ NonPawnMaterial(board)[c] \in Nat
  BY <1>7, <1>15, <1>16
<1> QED BY <1>17 DEF b

\* In passing only pawns move or go.
LEMMA MaterialAfterPassing ==
  ASSUME Sound(board, us, st), NEW m, Fits(m), m.type = EN_PASSANT, IsBoard(BoardAfter(m)), NEW c \in Color
  PROVE  NonPawnMaterial(BoardAfter(m))[c] = NonPawnMaterial(board)[c] /\ NonPawnMaterial(board)[c] \in Nat
<1> DEFINE b == BoardAfter(m)  from == m.from  to == m.to  cap == ep_capture_square(m)
           A == Square \ {from, to, cap}  ours == make_piece(us, PAWN)  theirs == make_piece(them, PAWN)
<1>1. /\ to \in Square /\ to \notin DOMAIN board
      /\ from \in DOMAIN board /\ board[from] = ours /\ cap \in DOMAIN board /\ board[cap] = theirs
      /\ cap # from /\ cap # to
  BY EnPassantShape DEF StandsOn
<1>2. IsBoard(board) /\ DOMAIN board \subseteq Square
  BY DEF Sound, IsBoard
<1>3. EN_PASSANT # CASTLING /\ EN_PASSANT # PROMOTION
  BY DEF EN_PASSANT, CASTLING, PROMOTION
<1>4. b = Moved(m)
  BY <1>3, BoardAfterMove
<1>5. b = [q \in (DOMAIN board \ {from, cap}) \cup {to} |-> IF q = to THEN ours ELSE board[q]]
  BY <1>1, <1>3, <1>4 DEF Moved, Left, Arrives
<1>6. Share(ours, c) = 0 /\ Share(theirs, c) = 0
  BY DEF Share, make_piece
<1> HIDE DEF b, from, to, cap, ours, theirs
<1>7. IsBoard(b)
  BY DEF b
<1>8. /\ MaterialAt(board, c, from) = 0 /\ MaterialAt(board, c, to) = 0 /\ MaterialAt(board, c, cap) = 0
  BY <1>1, <1>2, <1>6, MaterialHere
<1>9. from \notin DOMAIN b /\ cap \notin DOMAIN b /\ to \in DOMAIN b /\ b[to] = ours
  BY <1>1, <1>5
<1>10. /\ MaterialAt(b, c, from) = 0 /\ MaterialAt(b, c, to) = 0 /\ MaterialAt(b, c, cap) = 0
  BY <1>6, <1>7, <1>9, MaterialHere
<1>11. \A q \in A : /\ q \in DOMAIN board <=> q \in DOMAIN b
                    /\ q \in DOMAIN board => board[q] = b[q]
  BY <1>5
<1> DEFINE M == MaterialIn(board, c, A)
<1>12. MaterialIn(b, c, A) = M
  <2> HIDE DEF A
  <2> QED BY <1>11, MaterialAgrees
<1>13. from \in Square /\ cap \in Square /\ from # to /\ cap \notin {from, to}
  BY <1>1, <1>2
<1>14. NonPawnMaterial(board)[c] = M + 0 + 0 + 0 /\ M \in Nat
  <2>1. /\ NonPawnMaterial(board)[c] = M + MaterialAt(board, c, from) + MaterialAt(board, c, to)
                                         + MaterialAt(board, c, cap)
        /\ M \in Nat
    BY <1>1, <1>2, <1>13, MaterialOnThree
  <2> QED BY <1>8, <2>1
<1>15. NonPawnMaterial(b)[c] = M + 0 + 0 + 0
  <2>1. NonPawnMaterial(b)[c] = MaterialIn(b, c, A) + MaterialAt(b, c, from) + MaterialAt(b, c, to)
                                         + MaterialAt(b, c, cap)
    BY <1>1, <1>2, <1>7, <1>13, MaterialOnThree
  <2> QED BY <1>10, <1>12, <2>1
<1> HIDE DEF M
<1>16. NonPawnMaterial(b)[c] = NonPawnMaterial(board)[c] /\ NonPawnMaterial(board)[c] \in Nat
  BY <1>14, <1>15
<1> QED BY <1>16 DEF b

\* Any other move takes its piece to a square where it may find one of the other side.
LEMMA MaterialAfterStep ==
  ASSUME Sound(board, us, st), NEW m, Fits(m), m.type # CASTLING, m.type # EN_PASSANT,
         m.to \notin PiecesOf(board, us), IsBoard(BoardAfter(m)), NEW c \in Color
  PROVE  /\ NonPawnMaterial(BoardAfter(m))[c] + Share(captured_by(m), c) + Share(board[m.from], c)
              = NonPawnMaterial(board)[c] + Share(Arrives(m), c)
         /\ NonPawnMaterial(BoardAfter(m))[c] \in Nat /\ NonPawnMaterial(board)[c] \in Nat
         /\ captured_by(m) # NO_PIECE => captured_by(m) \in Piece /\ captured_by(m)[1] = them
<1> DEFINE b == BoardAfter(m)  from == m.from  to == m.to  pc == board[from]  cap == captured_by(m)
           new == Arrives(m)  A == Square \ {from, to}
<1>1. /\ from \in DOMAIN board /\ from # to /\ to \in Square
      /\ IsBoard(board) /\ DOMAIN board \subseteq Square
  BY DEF Sound, IsBoard, Fits, MoveRecord
<1>2. b = [q \in (DOMAIN board \ {from}) \cup {to} |-> IF q = to THEN new ELSE board[q]]
  BY BoardAfterMove DEF Moved, Left
<1>3. cap = piece_on(to)
  <2>1. EN_PASSANT # CASTLING
    BY DEF EN_PASSANT, CASTLING
  <2> QED BY <2>1 DEF captured_by
<1>4. /\ cap = NO_PIECE <=> to \notin DOMAIN board
      /\ to \in DOMAIN board => cap = board[to] /\ board[to] \in Piece
  BY <1>1, <1>3, EmptySquares
<1>5. to \in DOMAIN board => board[to][1] # us
  BY DEF PiecesOf
<1>6. them \in Color /\ \A d \in Color : d # us => d = them
  BY DEF Sound, us, them, Opposite, Color, WHITE, BLACK
<1>7. cap # NO_PIECE => cap \in Piece /\ cap[1] = them
  BY <1>4, <1>5, <1>6 DEF Piece
<1>8. Share(NO_PIECE, c) = 0
  BY DEF Share
<1> HIDE DEF b, from, to, pc, cap, new
<1>9. IsBoard(b)
  BY DEF b
<1>10. /\ MaterialAt(board, c, from) = Share(pc, c)
       /\ MaterialAt(board, c, to) = Share(cap, c)
  <2>1. MaterialAt(board, c, from) = Share(pc, c)
    BY <1>1, MaterialHere DEF pc
  <2>2. MaterialAt(board, c, to) = Share(cap, c)
    BY <1>1, <1>4, <1>8, MaterialHere
  <2> QED BY <2>1, <2>2
<1>11. from \notin DOMAIN b /\ to \in DOMAIN b /\ b[to] = new
  BY <1>1, <1>2
<1>12. /\ MaterialAt(b, c, from) = 0 /\ MaterialAt(b, c, to) = Share(new, c)
  BY <1>9, <1>11, MaterialHere
<1>13. \A q \in A : /\ q \in DOMAIN board <=> q \in DOMAIN b
                    /\ q \in DOMAIN board => board[q] = b[q]
  BY <1>2
<1> DEFINE M == MaterialIn(board, c, A)
<1>14. MaterialIn(b, c, A) = M
  <2> HIDE DEF A
  <2> QED BY <1>13, MaterialAgrees
<1>15. from \in Square /\ to \in Square /\ from # to
  BY <1>1
<1>16. /\ NonPawnMaterial(board)[c] = M + Share(pc, c) + Share(cap, c) /\ M \in Nat
       /\ Share(pc, c) \in Nat /\ Share(cap, c) \in Nat
  <2>1. /\ NonPawnMaterial(board)[c] = M + MaterialAt(board, c, from) + MaterialAt(board, c, to)
        /\ M \in Nat
        /\ MaterialAt(board, c, from) \in Nat /\ MaterialAt(board, c, to) \in Nat
    BY <1>1, <1>15, MaterialOnTwo
  <2> QED BY <1>10, <2>1
<1>17. NonPawnMaterial(b)[c] = M + 0 + Share(new, c) /\ Share(new, c) \in Nat
  <2>1. /\ NonPawnMaterial(b)[c] = MaterialIn(b, c, A) + MaterialAt(b, c, from) + MaterialAt(b, c, to)
        /\ MaterialIn(b, c, A) \in Nat
        /\ MaterialAt(b, c, from) \in Nat /\ MaterialAt(b, c, to) \in Nat
    BY <1>9, <1>15, MaterialOnTwo
  <2> QED BY <1>12, <1>14, <2>1
<1> HIDE DEF M
<1>18. /\ NonPawnMaterial(b)[c] + Share(cap, c) + Share(pc, c) = NonPawnMaterial(board)[c] + Share(new, c)
       /\ NonPawnMaterial(b)[c] \in Nat /\ NonPawnMaterial(board)[c] \in Nat
  BY <1>16, <1>17
<1> QED BY <1>7, <1>18 DEF b, from, pc, cap, new

\* The material do_move updates is that of the position it makes.
LEMMA MaterialAfter ==
  ASSUME Sound(board, us, st), NEW m, Fits(m), IsBoard(BoardAfter(m)),
         m.type # CASTLING => m.to \notin PiecesOf(board, us),
         st.nonPawnMaterial = NonPawnMaterial(board)
  PROVE  material_after(m) = NonPawnMaterial(BoardAfter(m))
<1> DEFINE N == NonPawnMaterial(board)  N2 == NonPawnMaterial(BoardAfter(m))
           captured == captured_by(m)
           gain == IF m.type = PROMOTION THEN PieceValue[m.promotion] ELSE 0
           loss == IF captured = NO_PIECE \/ captured[2] = PAWN THEN 0 ELSE PieceValue[captured[2]]
<1>1. us \in Color /\ them \in Color /\ us # them /\ \A d \in Color : d = us \/ d = them
  BY DEF Sound, us, them, Opposite, Color, WHITE, BLACK
<1>2. N = [d \in Color |-> N[d]] /\ N2 = [d \in Color |-> N2[d]]
  BY DEF NonPawnMaterial
<1>3. EN_PASSANT # CASTLING /\ EN_PASSANT # PROMOTION /\ CASTLING # PROMOTION
  BY DEF EN_PASSANT, CASTLING, PROMOTION
<1>4. material_after(m) = [N EXCEPT ![us] = @ + gain, ![them] = @ - loss]
  BY DEF material_after
<1>5. N2[us] = N[us] + gain /\ N2[them] = N[them] - loss
  <2>1. CASE m.type = CASTLING
    <3>1. gain = 0 /\ loss = 0
      BY <1>3, <2>1 DEF captured_by
    <3>2. \A c \in Color : N2[c] = N[c] /\ N[c] \in Nat
      BY <2>1, MaterialAfterCastling
    <3> HIDE DEF N, N2, gain, loss
    <3> QED BY <1>1, <3>1, <3>2
  <2>2. CASE m.type = EN_PASSANT
    <3>1. gain = 0 /\ loss = 0
      <4>1. captured = make_piece(them, PAWN)
        BY <1>3, <2>2 DEF captured_by
      <4> QED BY <1>3, <2>2, <4>1 DEF make_piece
    <3>2. \A c \in Color : N2[c] = N[c] /\ N[c] \in Nat
      BY <2>2, MaterialAfterPassing
    <3> HIDE DEF N, N2, gain, loss
    <3> QED BY <1>1, <3>1, <3>2
  <2>3. CASE m.type # CASTLING /\ m.type # EN_PASSANT
    <3>1. \A c \in Color :
            /\ N2[c] + Share(captured, c) + Share(board[m.from], c) = N[c] + Share(Arrives(m), c)
            /\ N2[c] \in Nat /\ N[c] \in Nat
      BY <2>3, MaterialAfterStep
    <3>2. captured # NO_PIECE => captured \in Piece /\ captured[1] = them
      BY <1>1, <2>3, MaterialAfterStep
    <3>3. Share(captured, us) = 0 /\ Share(captured, them) = loss
      BY <1>1, <3>2 DEF Share
    <3>4. /\ board[m.from] \in Piece /\ board[m.from][1] = us
          /\ m.type = PROMOTION => board[m.from] = make_piece(us, PAWN) /\ m.promotion \in PieceType \ {PAWN, KING}
      BY PiecesOfMoves DEF Fits
    <3>5. Share(captured, us) \in Nat /\ Share(captured, them) \in Nat
          /\ Share(board[m.from], us) \in Nat /\ Share(board[m.from], them) \in Nat
      BY <3>2, <3>4, SharesAreNumbers
    <3>6. /\ Share(Arrives(m), us) = Share(board[m.from], us) + gain
          /\ Share(Arrives(m), them) = Share(board[m.from], them)
      <4>1. CASE m.type = PROMOTION
        <5>1. Arrives(m) = <<us, m.promotion>> /\ board[m.from] = <<us, PAWN>>
          BY <3>4, <4>1 DEF Arrives, make_piece
        <5>2. m.promotion # PAWN /\ <<us, m.promotion>> # <<>>
          BY <3>4, <4>1
        <5>3. Share(board[m.from], us) = 0 /\ Share(board[m.from], them) = 0
          BY <5>1 DEF Share
        <5>4. Share(Arrives(m), us) = PieceValue[m.promotion] /\ Share(Arrives(m), them) = 0
          BY <1>1, <5>1, <5>2 DEF Share, NO_PIECE
        <5>5. PieceValue[m.promotion] \in Nat
          BY <3>4, <4>1 DEF PieceValue, PieceType, PAWN, KNIGHT, BISHOP, ROOK, QUEEN, KING
        <5> QED BY <4>1, <5>3, <5>4, <5>5
      <4>2. CASE m.type # PROMOTION
        <5>1. Arrives(m) = board[m.from] /\ gain = 0
          BY <4>2 DEF Arrives
        <5> QED BY <3>5, <5>1
      <4> QED BY <4>1, <4>2
    <3>7. gain \in Nat /\ loss \in Nat
      <4>1. loss \in Nat
        BY <3>3, <3>5
      <4>2. gain \in Nat
        BY <3>4 DEF PieceValue, PieceType, PAWN, KNIGHT, BISHOP, ROOK, QUEEN, KING
      <4> QED BY <4>1, <4>2
    <3>8. /\ N2[us] + Share(captured, us) + Share(board[m.from], us) = N[us] + Share(Arrives(m), us)
          /\ N2[them] + Share(captured, them) + Share(board[m.from], them) = N[them] + Share(Arrives(m), them)
          /\ N2[us] \in Nat /\ N[us] \in Nat /\ N2[them] \in Nat /\ N[them] \in Nat
      BY <1>1, <3>1
    <3> HIDE DEF N, N2, gain, loss, captured
    <3> QED BY <3>3, <3>5, <3>6, <3>7, <3>8
  <2> QED BY <2>1, <2>2, <2>3
<1> HIDE DEF N, N2, gain, loss
<1>6. [N EXCEPT ![us] = @ + gain, ![them] = @ - loss] = N2
  BY <1>1, <1>2, <1>5
<1> QED BY <1>4, <1>6 DEF N2

-----------------------------------------------------------------------------
(* The walk from a legal position. *)

\* What the search relies on at every node: both kings, exact checkers, check squares and
\* material, the side that has moved not in check, and the square a pawn has just crossed behind
\* the checks.
LegalPosition(b, c, s) ==
  /\ \A d \in Color : \E q \in DOMAIN b : b[q] = make_piece(d, KING)
  /\ s.checkersBB = Rules!AttackersOf(b, Opposite(c), Rules!King(b, c))
  /\ s.checkSquares = checkSquares(b, c) /\ s.nonPawnMaterial = NonPawnMaterial(b)
  /\ ~Rules!InCheck(b, Opposite(c))
  /\ s.epSquare # SQ_NONE =>
       \A o \in Rules!AttackersOf(b, Opposite(c), Rules!King(b, c)) :
          ~Stops(s.epSquare, o, Rules!King(b, c))

\* Every position of the line is sound and legal: taking a move back finds it so.
LegalWalk ==
  /\ WalkInv
  /\ \E boards, sides : /\ Explains(boards, sides, board, sideToMove, chain, line)
                        /\ \A n \in 1 .. Len(chain) : LegalPosition(boards[n], sides[n], chain[n])

\* The position the walk is at is legal.
LEMMA CurrentIsLegal ==
  ASSUME LegalWalk
  PROVE  /\ Sound(board, us, st) /\ LegalPosition(board, us, st)
         /\ BothKings /\ CheckersExact /\ EpBehind /\ ~Rules!InCheck(board, them)
         /\ st.checkSquares = checkSquares(board, us) /\ st.nonPawnMaterial = NonPawnMaterial(board)
<1>1. PICK boards : \E sides : /\ Explains(boards, sides, board, sideToMove, chain, line)
                               /\ \A n \in 1 .. Len(chain) : LegalPosition(boards[n], sides[n], chain[n])
  BY DEF LegalWalk
<1>2. PICK sides : /\ Explains(boards, sides, board, sideToMove, chain, line)
                   /\ \A n \in 1 .. Len(chain) : LegalPosition(boards[n], sides[n], chain[n])
  BY <1>1
<1>3. Len(chain) \in 1 .. Len(chain)
  BY DEF LegalWalk, WalkInv
<1>4. LegalPosition(board, us, st)
  BY <1>2, <1>3 DEF Explains, us, st
<1>5. Sound(board, us, st) /\ them = Opposite(us)
  BY CurrentIsSound DEF LegalWalk, them, us
<1> QED BY <1>4, <1>5 DEF LegalPosition, BothKings, CheckersExact, EpBehind

\* What set_state and do_move compute as the checkers are the attackers of the king.
LEMMA ComputedCheckers ==
  ASSUME NEW b, IsBoard(b), NEW c \in Color, \E q \in DOMAIN b : b[q] = make_piece(c, KING), NEW e
  PROVE  attackers_to(b, king_square(b, c), pieces(b)) \cap PiecesOf(b, e)
           = Rules!AttackersOf(b, e, Rules!King(b, c))
<1> DEFINE k == king_square(b, c)
<1>1. DOMAIN b \subseteq Square /\ \A q \in DOMAIN b : b[q] \in Piece
  BY DEF IsBoard
<1>2. k \in DOMAIN b /\ Rules!King(b, c) = k
  BY DEF king_square, Rules!King, make_piece, KING
<1> HIDE DEF k
<1>3. attackers_to(b, k, pieces(b)) = {o \in DOMAIN b : Rules!Attacks(b, o, k)}
  BY <1>1, <1>2, AttackersByTheRules
<1>4. attackers_to(b, k, pieces(b)) \cap PiecesOf(b, e) = Rules!AttackersOf(b, e, k)
  BY <1>3 DEF PiecesOf, Rules!AttackersOf
<1> QED BY <1>2, <1>4 DEF k

\* A walk from a legal position starts legally.
LEMMA InitIsLegal ==
  ASSUME \A f \in StartPositions : LegalStart(f), Init
  PROVE  LegalWalk
<1>1. PICK f \in StartPositions :
        board = f.board /\ sideToMove = f.side /\ chain = <<SetUp(f)>> /\ line = <<>>
  BY DEF Init
<1> DEFINE first == SetUp(f)
<1>2. LegalStart(f)
  OBVIOUS
<1>3. f.side \in Color /\ IsBoard(f.board) /\ EpFits(f.board, f.side, f.ep)
  BY StartsAssumption
<1>4. /\ first.epSquare = f.ep /\ first.checkSquares = checkSquares(f.board, f.side)
      /\ first.checkersBB = attackers_to(f.board, king_square(f.board, f.side), pieces(f.board))
                              \cap PiecesOf(f.board, Opposite(f.side))
      /\ first.nonPawnMaterial = NonPawnMaterial(f.board)
  BY DEF SetUp
<1>5. first.checkersBB = Rules!AttackersOf(f.board, Opposite(f.side), Rules!King(f.board, f.side))
  BY <1>2, <1>3, <1>4, ComputedCheckers DEF LegalStart
<1>6. f.ep # SQ_NONE => \A o \in Rules!AttackersOf(f.board, Opposite(f.side), Rules!King(f.board, f.side)) :
                           ~Stops(f.ep, o, Rules!King(f.board, f.side))
  <2>1. f.ep # SQ_NONE => f.ep \notin DOMAIN f.board
    BY <1>3 DEF EpFits
  <2>2. \A o \in Rules!AttackersOf(f.board, Opposite(f.side), Rules!King(f.board, f.side)) : o \in DOMAIN f.board
    BY DEF Rules!AttackersOf
  <2> QED BY <1>2, <2>1, <2>2 DEF LegalStart, Stops
<1> HIDE DEF first
<1>7. LegalPosition(f.board, f.side, first)
  BY <1>2, <1>4, <1>5, <1>6 DEF LegalPosition, LegalStart
<1>8. chain = <<first>>
  BY <1>1 DEF first
<1>9. Len(chain) = 1 /\ chain[1] = first /\ Len(line) = 0
  BY <1>1, <1>8
<1>10. WalkInv
  BY InitWalks
<1>11. Sound(board, sideToMove, first)
  BY <1>9, <1>10, CurrentIsSound DEF st, us
<1> DEFINE boards == [n \in 1 .. 1 |-> board]  sides == [n \in 1 .. 1 |-> sideToMove]
<1>12. boards[1] = board /\ sides[1] = sideToMove
  OBVIOUS
<1> HIDE DEF boards, sides
<1>13. Explains(boards, sides, board, sideToMove, chain, line)
  BY <1>9, <1>11, <1>12 DEF Explains
<1>14. \A n \in 1 .. Len(chain) : LegalPosition(boards[n], sides[n], chain[n])
  BY <1>1, <1>7, <1>9, <1>12
<1> QED BY <1>10, <1>13, <1>14 DEF LegalWalk

\* A legal position linked to the chain keeps the walk legal.
LEMMA LinkKeepsLegal ==
  ASSUME LegalWalk, NEW m \in MoveRecord, NEW new,
         chain' = Append(chain, new), line' = Append(line, m),
         Sound(board', sideToMove', new), LegalPosition(board', sideToMove', new),
         TakesBack(board, sideToMove, board', sideToMove', m, new.capturedPiece)
  PROVE  LegalWalk'
<1>1. PICK boards : \E sides : /\ Explains(boards, sides, board, sideToMove, chain, line)
                               /\ \A n \in 1 .. Len(chain) : LegalPosition(boards[n], sides[n], chain[n])
  BY DEF LegalWalk
<1>2. PICK sides : /\ Explains(boards, sides, board, sideToMove, chain, line)
                   /\ \A n \in 1 .. Len(chain) : LegalPosition(boards[n], sides[n], chain[n])
  BY <1>1
<1> DEFINE k == Len(chain)  boards2 == Longer(boards, k, board')  sides2 == Longer(sides, k, sideToMove')
<1>3. WalkInv /\ WalkInv'
  BY LinkKeepsWalking DEF LegalWalk
<1>4. /\ Len(chain') = k + 1 /\ k \in Nat
      /\ chain'[k + 1] = new /\ \A n \in 1 .. k : chain'[n] = chain[n]
      /\ Explains(boards2, sides2, board', sideToMove', chain', line')
  BY <1>2, <1>3, LinkIsExplained
<1>5. /\ \A n \in 1 .. k + 1 : boards2[n] = (IF n = k + 1 THEN board' ELSE boards[n])
      /\ \A n \in 1 .. k + 1 : sides2[n] = (IF n = k + 1 THEN sideToMove' ELSE sides[n])
  BY DEF Longer
<1> HIDE DEF boards2, sides2
<1>6. \A n \in 1 .. k : LegalPosition(boards[n], sides[n], chain[n])
  BY <1>2
<1> HIDE DEF k
<1>7. ASSUME NEW n \in 1 .. k + 1 PROVE LegalPosition(boards2[n], sides2[n], chain'[n])
  <2>1. CASE n = k + 1
    BY <1>4, <1>5, <2>1
  <2>2. CASE n # k + 1
    <3>1. n \in 1 .. k
      BY <1>4, <2>2
    <3>2. boards2[n] = boards[n] /\ sides2[n] = sides[n] /\ chain'[n] = chain[n]
      BY <1>4, <1>5, <2>2, <3>1
    <3> QED BY <1>6, <3>1, <3>2
  <2> QED BY <2>1, <2>2
<1>8. \E bs, ss : /\ Explains(bs, ss, board', sideToMove', chain', line')
                  /\ \A n \in 1 .. Len(chain') : LegalPosition(bs[n], ss[n], chain'[n])
  BY <1>4, <1>7
<1> QED BY <1>3, <1>8 DEF LegalWalk

\* What is taken back was legal.
LEMMA TakingBackKeepsLegal ==
  ASSUME LegalWalk, line # <<>>, chain' = Front(chain), line' = Front(line), sideToMove' = them,
         board' = IF Last(line) = NullMove THEN board
                  ELSE Undone(board, them, st.capturedPiece, Last(line))
  PROVE  LegalWalk'
<1>1. PICK boards : \E sides : /\ Explains(boards, sides, board, sideToMove, chain, line)
                               /\ \A n \in 1 .. Len(chain) : LegalPosition(boards[n], sides[n], chain[n])
  BY DEF LegalWalk
<1>2. PICK sides : /\ Explains(boards, sides, board, sideToMove, chain, line)
                   /\ \A n \in 1 .. Len(chain) : LegalPosition(boards[n], sides[n], chain[n])
  BY <1>1
<1>3. WalkInv /\ WalkInv'
  BY TakingBackKeepsWalking DEF LegalWalk
<1>4. /\ Len(chain') = Len(chain) - 1 /\ Len(chain') \in Nat
      /\ \A n \in 1 .. Len(chain') : chain'[n] = chain[n]
      /\ Explains(boards, sides, board', sideToMove', chain', line')
  BY <1>2, <1>3, TakingBackIsExplained
<1>5. \A n \in 1 .. Len(chain') : LegalPosition(boards[n], sides[n], chain'[n])
  <2>1. Len(chain) \in Nat
    BY <1>3 DEF WalkInv
  <2>2. \A n \in 1 .. Len(chain') : n \in 1 .. Len(chain)
    BY <1>4, <2>1
  <2> QED BY <1>2, <1>4, <2>2
<1> QED BY <1>3, <1>4, <1>5 DEF LegalWalk

\* A legal move makes a legal position, and its StateInfo says so, but for a castling along
\* the other king's rank.
LEMMA MovesStayLegal ==
  ASSUME LegalWalk, NEW m \in LegalMoves,
         m.type = CASTLING => rank_of(king_square(board, them)) # rank_of(king_square(board, us)),
         NEW new, Sound(BoardAfter(m), them, new),
         new.epSquare = ep_square_after(m, BoardAfter(m)),
         new.checkersBB = CheckersAfter(m, gives_check(m)),
         new.nonPawnMaterial = material_after(m),
         new.checkSquares = checkSquares(BoardAfter(m), them)
  PROVE  LegalPosition(BoardAfter(m), them, new)
<1> DEFINE f == BoardAfter(m)  k == Rules!King(f, them)
<1>1. /\ Sound(board, us, st) /\ BothKings /\ CheckersExact /\ EpBehind
      /\ ~Rules!InCheck(board, them) /\ st.checkSquares = checkSquares(board, us)
      /\ st.nonPawnMaterial = NonPawnMaterial(board)
  BY CurrentIsLegal
<1>2. us \in Color /\ them \in Color /\ us = Opposite(them) /\ us = Rules!Other(them)
  BY <1>1, TwoSides
<1>3. /\ Wandering(m) \/ (m \in generate_castling /\ legal(m))
      /\ ~Rules!InCheck(f, us)
      /\ \A c \in Color : \E q \in DOMAIN f : f[q] = make_piece(c, KING)
  BY <1>1, SafelyMoved
<1>4. k = king_square(board, them)
  BY <1>1, <1>3, TheirKingStays
<1>5. m.type = CASTLING => rank_of(king_square(board, them)) # rank_of(m.from)
  <2>1. m.type = CASTLING => m.from = king_square(board, us)
    <3>1. Wandering(m) => m.type # CASTLING
      BY <1>1, WanderingFits
    <3>2. m \in generate_castling => m.from = king_square(board, us)
      BY Parts DEF generate_castling
    <3> QED BY <1>3, <3>1, <3>2
  <2> QED BY <2>1
<1>6. Rules!InCheck(f, them) => gives_check(m)
  BY <1>1, <1>3, <1>5, ChecksForeseen
<1>7. IsBoard(f)
  BY DEF Sound
<1>8. new.checkersBB = Rules!AttackersOf(f, us, k)
  <2>1. CASE gives_check(m)
    <3>1. new.checkersBB = attackers_to(f, king_square(f, them), pieces(f)) \cap PiecesOf(f, us)
      BY <2>1 DEF CheckersAfter
    <3> HIDE DEF f
    <3> QED BY <1>2, <1>3, <1>7, <3>1, ComputedCheckers
  <2>2. CASE ~gives_check(m)
    <3>1. ~Rules!InCheck(f, them)
      BY <1>6, <2>2
    <3>2. Rules!AttackersOf(f, us, k) = {}
      <4> HIDE DEF f
      <4> QED BY <1>2, <3>1 DEF Rules!InCheck
    <3> QED BY <2>2, <3>2 DEF CheckersAfter
  <2> QED BY <2>1, <2>2
<1>9. new.epSquare # SQ_NONE => \A o \in Rules!AttackersOf(f, us, k) : ~Stops(new.epSquare, o, k)
  BY <1>1, <1>3, <1>4, CrossedIsBehind
<1>10. new.nonPawnMaterial = NonPawnMaterial(f)
  <2>1. Fits(m)
    BY <1>1, LegalMovesFit
  <2>2. m.type # CASTLING => m.to \notin PiecesOf(board, us)
    <3>1. Wandering(m) => m.to \notin PiecesOf(board, us)
      BY <1>1, WanderingFits
    <3>2. m \in generate_castling => m.type = CASTLING
      BY Parts DEF generate_castling
    <3> QED BY <1>3, <3>1, <3>2
  <2>3. material_after(m) = NonPawnMaterial(BoardAfter(m))
    BY <1>1, <1>7, <2>1, <2>2, MaterialAfter
  <2> QED BY <2>3
<1> HIDE DEF f
<1>11. Opposite(them) = us /\ ~Rules!InCheck(f, Opposite(them))
  BY <1>2, <1>3
<1>12. new.checkSquares = checkSquares(f, them)
  BY DEF f
<1>13. LegalPosition(f, them, new)
  BY <1>3, <1>8, <1>9, <1>10, <1>11, <1>12 DEF LegalPosition
<1> QED BY <1>13 DEF f

\* A pass, which the search makes only out of check, leaves the position legal.
LEMMA PassesStayLegal ==
  ASSUME LegalWalk, st.checkersBB = {}, NEW new,
         new.epSquare = SQ_NONE, new.checkersBB = st.checkersBB, new.checkSquares = checkSquares(board, them),
         new.nonPawnMaterial = st.nonPawnMaterial
  PROVE  LegalPosition(board, them, new)
<1>1. /\ Sound(board, us, st) /\ BothKings /\ CheckersExact /\ ~Rules!InCheck(board, them)
      /\ st.nonPawnMaterial = NonPawnMaterial(board)
  BY CurrentIsLegal
<1>2. us \in Color /\ them \in Color /\ us = Opposite(them) /\ us = Rules!Other(them) /\ them = Rules!Other(us)
  BY <1>1, TwoSides
<1>3. Rules!AttackersOf(board, us, Rules!King(board, them)) = {}
  BY <1>1, <1>2 DEF Rules!InCheck
<1>4. ~Rules!InCheck(board, us)
  BY <1>1, <1>2 DEF Rules!InCheck, CheckersExact
<1> QED BY <1>1, <1>2, <1>3, <1>4 DEF LegalPosition, BothKings

\* Every step of the walk, a castling along the other king's rank apart, keeps it legal.
LEMMA StepsStayLegal ==
  ASSUME LegalWalk, [Next]_vars, [CastlesOffTheRank]_vars
  PROVE  LegalWalk'
<1>1. us \in Color /\ sideToMove = us /\ Opposite(them) = us
  <2>1. us \in {0, 1}
    BY CurrentIsSound DEF LegalWalk, Sound, Color, WHITE, BLACK
  <2> QED BY <2>1 DEF us, them, Opposite, Color, WHITE, BLACK
<1>2. ASSUME NEW m \in LegalMoves, Make(m) PROVE LegalWalk'
  <2>1. Sound(board, us, st) /\ Fits(m)
    BY CurrentIsSound, LegalMovesFit DEF LegalWalk
  <2> DEFINE check == gives_check(m)
  <2>2. do_move(m, check) /\ line' = Append(line, m)
    BY <1>2 DEF Make
  <2> HIDE DEF check
  <2>3. PICK new : /\ chain' = Append(chain, new)
                   /\ board' = BoardAfter(m) /\ sideToMove' = them
                   /\ new.capturedPiece = captured_by(m)
                   /\ new.epSquare = ep_square_after(m, BoardAfter(m))
                   /\ new.checkersBB = CheckersAfter(m, check)
                   /\ new.nonPawnMaterial = material_after(m)
                   /\ new.checkSquares = checkSquares(BoardAfter(m), them)
                   /\ Sound(BoardAfter(m), them, new)
    BY <2>1, <2>2, MoveLinks
  <2>4. m # NullMove /\ m \in MoveRecord
    <3>1. m.from # m.to /\ m \in MoveRecord
      BY <2>1 DEF Fits
    <3>2. NullMove.from = NullMove.to
      BY DEF NullMove, Move
    <3> QED BY <3>1, <3>2
  <2>5. Undone(board', us, new.capturedPiece, m) = board
    BY <2>1, <2>3, UndoneAfter
  <2>6. TakesBack(board, sideToMove, board', sideToMove', m, new.capturedPiece)
    BY <1>1, <2>3, <2>4, <2>5 DEF TakesBack
  <2>7. m.type = CASTLING => rank_of(king_square(board, them)) # rank_of(king_square(board, us))
    <3>1. line \in Seq(MoveRecord)
      BY DEF LegalWalk, WalkInv
    <3>2. Len(line') = Len(line) + 1 /\ Len(line) \in Nat /\ line'[Len(line')] = m
      BY <2>2, <2>4, <3>1
    <3>3. Len(line') > Len(line) /\ Last(line') = m
      BY <3>2 DEF Last
    <3>4. vars' # vars
      BY <3>2 DEF vars
    <3> QED BY <3>3, <3>4 DEF CastlesOffTheRank
  <2>8. LegalPosition(BoardAfter(m), them, new)
    BY <2>3, <2>7, MovesStayLegal DEF check
  <2>9. Sound(board', sideToMove', new) /\ LegalPosition(board', sideToMove', new)
    BY <2>3, <2>8
  <2> QED BY <2>2, <2>3, <2>4, <2>6, <2>9, LinkKeepsLegal
<1>3. ASSUME Pass PROVE LegalWalk'
  <2>1. do_null_move /\ line' = Append(line, NullMove) /\ st.checkersBB = {}
    BY <1>3 DEF Pass
  <2>2. PICK new : /\ chain' = Append(chain, new) /\ board' = board /\ sideToMove' = them
                   /\ new.epSquare = SQ_NONE
                   /\ new.checkersBB = st.checkersBB /\ new.checkSquares = checkSquares(board, them)
                   /\ new.nonPawnMaterial = st.nonPawnMaterial
                   /\ Sound(board, them, new)
    BY <2>1, CurrentIsLegal, PassLinks
  <2>3. NullMove \in MoveRecord
    BY DEF NullMove, Move, MoveRecord, Square, PieceType, KNIGHT
  <2>4. TakesBack(board, sideToMove, board', sideToMove', NullMove, new.capturedPiece)
    BY <1>1, <2>2 DEF TakesBack
  <2>5. LegalPosition(board, them, new)
    BY <2>1, <2>2, PassesStayLegal
  <2>6. Sound(board', sideToMove', new) /\ LegalPosition(board', sideToMove', new)
    BY <2>2, <2>5
  <2> QED BY <2>1, <2>2, <2>3, <2>4, <2>6, LinkKeepsLegal
<1>4. ASSUME Unmake PROVE LegalWalk'
  <2>1. /\ line # <<>> /\ Last(line) # NullMove /\ line' = Front(line)
        /\ chain' = Front(chain) /\ sideToMove' = them
    BY <1>4 DEF Unmake, undo_move
  <2>2. board' = Undone(board, them, st.capturedPiece, Last(line))
    BY <1>4 DEF Unmake, undo_move, Undone
  <2> QED BY <2>1, <2>2, TakingBackKeepsLegal
<1>5. ASSUME Unpass PROVE LegalWalk'
  <2>1. /\ line # <<>> /\ Last(line) = NullMove /\ line' = Front(line)
        /\ chain' = Front(chain) /\ sideToMove' = them /\ board' = board
    BY <1>5 DEF Unpass, undo_null_move
  <2> QED BY <2>1, TakingBackKeepsLegal
<1>6. ASSUME UNCHANGED vars PROVE LegalWalk'
  BY <1>6 DEF vars, LegalWalk, WalkInv
<1> QED BY <1>2, <1>3, <1>4, <1>5, <1>6 DEF Next

\* From legal positions, as long as no king castles along the rank of the other, every
\* position of the search's line is legal and its StateInfo exact, however it was reached.
THEOREM WalkAlwaysLegal ==
  ASSUME \A f \in StartPositions : LegalStart(f)
  PROVE  Spec /\ [][CastlesOffTheRank]_vars => []LegalWalk
<1>1. Init => LegalWalk
  BY InitIsLegal
<1>2. LegalWalk /\ [Next]_vars /\ [CastlesOffTheRank]_vars => LegalWalk'
  BY StepsStayLegal
<1> QED BY <1>1, <1>2, PTL DEF Spec

\* gives_check foresees every check: the checkers, which do_move computes only where it is
\* told of a check, are exactly the pieces that attack the king.
THEOREM CheckersAlwaysExact ==
  ASSUME \A f \in StartPositions : LegalStart(f)
  PROVE  Spec /\ [][CastlesOffTheRank]_vars => []CheckersExact
<1>1. LegalWalk => CheckersExact
  BY CurrentIsLegal
<1> QED BY <1>1, WalkAlwaysLegal, PTL

\* generate<LEGAL> lists the legal moves of chess and no other, at every position of the
\* line: the caches it trusts are exact there.
THEOREM LegalMovesAlwaysExact ==
  ASSUME \A f \in StartPositions : LegalStart(f)
  PROVE  Spec /\ [][CastlesOffTheRank]_vars => []LegalMovesExact
<1>1. LegalWalk => BothKings /\ CheckersExact /\ EpBehind
  BY CurrentIsLegal
<1> QED BY <1>1, WalkAlwaysLegal, LegalAlwaysListed, PTL

\* One king a side, and everything in range.
LEMMA LegalIsTyped ==
  ASSUME LegalWalk
  PROVE  TypeOK
<1>1. Sound(board, us, st) /\ BothKings
  BY CurrentIsLegal
<1>2. /\ DOMAIN board \subseteq Square /\ \A s \in DOMAIN board : board[s] \in Piece
      /\ \A s, t \in DOMAIN board : board[s] = board[t] /\ board[s][2] = KING => s = t
  BY <1>1 DEF Sound, IsBoard
<1>3. ASSUME NEW c \in Color
      PROVE  Cardinality({s \in DOMAIN board : board[s] = make_piece(c, KING)}) = 1
  <2>1. PICK k \in DOMAIN board : board[k] = make_piece(c, KING)
    BY <1>1 DEF BothKings
  <2>2. board[k][2] = KING
    BY <2>1 DEF make_piece
  <2>3. {s \in DOMAIN board : board[s] = make_piece(c, KING)} = {k}
    BY <1>2, <2>1, <2>2
  <2> QED BY <2>3, FS_Singleton
<1>4. sideToMove \in Color
  BY <1>1 DEF Sound, us
<1>5. Len(chain) = Len(line) + 1
  BY DEF LegalWalk, WalkInv
<1>6. st.castlingRights \subseteq CastlingRight /\ st.epSquare \in Square \cup {SQ_NONE}
  BY <1>1 DEF Sound, Agrees, RightsAtHome, EpFits
<1> QED BY <1>2, <1>3, <1>4, <1>5, <1>6 DEF TypeOK

\* What a node carries along the line is what a look at its board would find: hash keys,
\* material, checkers and the blockers of both kings.
THEOREM CachesAlwaysExact ==
  ASSUME \A f \in StartPositions : LegalStart(f)
  PROVE  Spec /\ [][CastlesOffTheRank]_vars => []CachesExact
<1>1. ASSUME LegalWalk PROVE CachesExact
  <2>1. TypeOK
    BY <1>1, LegalIsTyped
  <2>2. KeysFromScratch
    BY <1>1, CurrentIsLegal, CurrentIsSound DEF LegalWalk, Sound, HashKeysExact, KeysFromScratch, us
  <2>3. CheckersExact /\ BlockersExact
    BY <1>1, CurrentIsLegal, SoundBlockers
  <2> QED BY <2>1, <2>2, <2>3 DEF CachesExact
<1> QED BY <1>1, WalkAlwaysLegal, PTL
-----------------------------------------------------------------------------
(* The network's features (NetworkFeatures).  Pieces on different squares  *)
(* have different features, so a sum of features is a set of them, and     *)
(* taking some out and putting others in makes it the next board's.        *)

\* The sum in which each feature of a set is once.
Ones(S) == [f \in S |-> 1]

\* One more and one less.
LEMMA ChangedOnes ==
  ASSUME NEW S, NEW i
  PROVE  /\ i \notin S => Changed(Ones(S), i, 1) = Ones(S \cup {i})
         /\ i \in S => Changed(Ones(S), i, -1) = Ones(S \ {i})
<1>1. DOMAIN Ones(S) = S /\ \A f \in S : Ones(S)[f] = 1
  BY DEF Ones
<1>2. ASSUME i \notin S PROVE Changed(Ones(S), i, 1) = Ones(S \cup {i})
  <2>1. Count(Ones(S), i) = 0
    BY <1>1, <1>2 DEF Count
  <2>2. Changed(Ones(S), i, 1) = [x \in S \cup {i} |-> IF x = i THEN 0 + 1 ELSE Ones(S)[x]]
    BY <1>1, <2>1 DEF Changed
  <2> QED BY <1>1, <2>2 DEF Ones
<1>3. ASSUME i \in S PROVE Changed(Ones(S), i, -1) = Ones(S \ {i})
  <2>1. Count(Ones(S), i) = 1 /\ 1 + (-1) = 0
    BY <1>1, <1>3 DEF Count
  <2>2. Changed(Ones(S), i, -1) = [x \in S \ {i} |-> Ones(S)[x]]
    BY <1>1, <2>1 DEF Changed, Restrict
  <2> QED BY <1>1, <2>2 DEF Ones
<1> QED BY <1>2, <1>3

\* A sum taken by recursion over a set of places: pick says which place is next.
Folded(base, ix, pick, by, F, g) ==
  g = [t \in SUBSET F |-> IF t = {} THEN base ELSE Changed(g[t \ {pick[t]}], ix[pick[t]], by)]

\* What it should come to.
Image(ix, t) == {ix[s] : s \in t}
Outcome(S, ix, by, t) == IF by = 1 THEN S \cup Image(ix, t) ELSE S \ Image(ix, t)
Suits(S, ix, by, F) ==
  /\ by = 1 \/ by = -1
  /\ \A s, t \in F : ix[s] = ix[t] => s = t
  /\ \A s \in F : IF by = 1 THEN ix[s] \notin S ELSE ix[s] \in S
Picks(pick, F) == \A t \in SUBSET F : t # {} => pick[t] \in t

\* One place more.
LEMMA OutcomeGrows ==
  ASSUME NEW S, NEW ix, NEW by, NEW F, Suits(S, ix, by, F), NEW t \in SUBSET F, NEW x \in t
  PROVE  /\ Outcome(S, ix, by, {}) = S
         /\ Changed(Ones(Outcome(S, ix, by, t \ {x})), ix[x], by) = Ones(Outcome(S, ix, by, t))
<1> DEFINE u == t \ {x}  A == Image(ix, u)  B == Image(ix, t)
<1>1. Image(ix, {}) = {}
  BY DEF Image
<1>2. B = A \cup {ix[x]}
  <2>1. t = u \cup {x}
    OBVIOUS
  <2> QED BY <2>1 DEF Image
<1>3. ix[x] \notin A
  BY DEF Image, Suits
<1> HIDE DEF A, B, u
<1>4. CASE by = 1
  <2>1. ix[x] \notin S \cup A
    BY <1>3, <1>4 DEF Suits
  <2>2. (S \cup A) \cup {ix[x]} = S \cup B
    BY <1>2
  <2> DEFINE C == S \cup A  i == ix[x]
  <2> HIDE DEF C, i
  <2>3. Changed(Ones(C), i, 1) = Ones(C \cup {i})
    BY <2>1, ChangedOnes DEF C, i
  <2> QED BY <1>1, <1>4, <2>2, <2>3 DEF Outcome, A, B, C, i, u
<1>5. CASE by = -1
  <2>1. ix[x] \in S \ A
    BY <1>3, <1>5 DEF Suits
  <2>2. (S \ A) \ {ix[x]} = S \ B
    BY <1>2
  <2> DEFINE C == S \ A  i == ix[x]
  <2> HIDE DEF C, i
  <2>3. Changed(Ones(C), i, -1) = Ones(C \ {i})
    BY <2>1, ChangedOnes DEF C, i
  <2> QED BY <1>1, <1>5, <2>2, <2>3 DEF Outcome, A, B, C, i, u
<1> QED BY <1>4, <1>5 DEF Suits

\* However the recursion picks the places, it comes to that: a smallest set on which it
\* did not has a place that it picks, and without it a smaller one.
LEMMA FoldsTo ==
  ASSUME NEW S, NEW ix, NEW pick, NEW by, NEW F, IsFiniteSet(F), Suits(S, ix, by, F), Picks(pick, F),
         NEW g, Folded(Ones(S), ix, pick, by, F, g)
  PROVE  g[F] = Ones(Outcome(S, ix, by, F))
<1> DEFINE T == {t \in SUBSET F : g[t] # Ones(Outcome(S, ix, by, t))}
<1> SUFFICES ASSUME T # {} PROVE FALSE
  OBVIOUS
<1>1. IsWellFoundedOn(StrictSubsetOrdering(F), SUBSET F)
  BY FS_StrictSubsetOrderingWellFounded, FS_FiniteSubsetsOfFinite
<1>2. T \subseteq SUBSET F
  OBVIOUS
<1> HIDE DEF T
<1>3. PICK t \in T : \A u \in T : <<u, t>> \notin StrictSubsetOrdering(F)
  BY <1>1, <1>2, WFMin
<1>4. t \in SUBSET F /\ g[t] # Ones(Outcome(S, ix, by, t))
  BY <1>3 DEF T
<1>5. CASE t = {}
  <2>1. g[t] = Ones(S)
    BY <1>4, <1>5 DEF Folded
  <2>2. Outcome(S, ix, by, t) = S
    BY <1>5 DEF Outcome, Image
  <2> QED BY <1>4, <2>1, <2>2
<1>6. CASE t # {}
  <2> DEFINE x == pick[t]  u == t \ {x}
  <2>1. x \in t /\ u \in SUBSET F /\ u # t /\ u \subseteq t
    BY <1>4, <1>6 DEF Picks
  <2>2. g[t] = Changed(g[u], ix[x], by)
    BY <1>4, <1>6 DEF Folded
  <2> HIDE DEF x
  <2>3. u \notin T
    BY <1>3, <1>4, <2>1 DEF StrictSubsetOrdering
  <2>4. g[u] = Ones(Outcome(S, ix, by, u))
    BY <2>1, <2>3 DEF T
  <2>5. Changed(Ones(Outcome(S, ix, by, u)), ix[x], by) = Ones(Outcome(S, ix, by, t))
    BY <1>4, <2>1, OutcomeGrows
  <2> QED BY <1>4, <2>2, <2>4, <2>5
<1> QED BY <1>5, <1>6

\* There is such a sum.
LEMMA FoldExists ==
  ASSUME NEW S, NEW ix, NEW pick, NEW by, NEW F, Suits(S, ix, by, F), Picks(pick, F)
  PROVE  \E g : Folded(Ones(S), ix, pick, by, F, g)
<1> DEFINE g == [t \in SUBSET F |-> Ones(Outcome(S, ix, by, t))]
<1>1. ASSUME NEW t \in SUBSET F
      PROVE  g[t] = IF t = {} THEN Ones(S) ELSE Changed(g[t \ {pick[t]}], ix[pick[t]], by)
  <2>1. CASE t = {}
    BY <2>1 DEF Outcome, Image
  <2>2. CASE t # {}
    <3> DEFINE x == pick[t]  u == t \ {x}
    <3>1. x \in t /\ u \in SUBSET F
      BY <2>2 DEF Picks
    <3>2. g[u] = Ones(Outcome(S, ix, by, u)) /\ g[t] = Ones(Outcome(S, ix, by, t))
      BY <3>1
    <3> HIDE DEF g, x
    <3>3. Changed(Ones(Outcome(S, ix, by, u)), ix[x], by) = Ones(Outcome(S, ix, by, t))
      BY <3>1, OutcomeGrows
    <3> QED BY <2>2, <3>2, <3>3 DEF x
  <2> QED BY <2>1, <2>2
<1>2. g = [t \in SUBSET F |-> g[t]]
  OBVIOUS
<1> HIDE DEF g
<1>3. Folded(Ones(S), ix, pick, by, F, g)
  BY <1>1, <1>2 DEF Folded
<1> QED BY <1>3

\* The sum over squares of pieces with different features is the set of them.
LEMMA SumIsOnes ==
  ASSUME NEW arch, NEW c, NEW ksq, NEW b, NEW D, IsFiniteSet(D), NEW to,
         NEW F, F = {s \in D : IsFeature(arch, b[s])},
         \A s, t \in F : Index(arch, c, ksq, b[s], to[s]) = Index(arch, c, ksq, b[t], to[t]) => s = t
  PROVE  SumOf(arch, c, ksq, b, D, to) = Ones({Index(arch, c, ksq, b[s], to[s]) : s \in F})
<1> DEFINE ix == [s \in F |-> Index(arch, c, ksq, b[s], to[s])]
           pick == [t \in SUBSET F |-> Some(t)]
           Sums(g) == g = [t \in SUBSET F |-> IF t = {} THEN NoFeatures
                             ELSE Changed(g[t \ {Some(t)}], Index(arch, c, ksq, b[Some(t)], to[Some(t)]), 1)]
           h == CHOOSE g : Sums(g)
<1>1. SumOf(arch, c, ksq, b, D, to) = h[F]
  <2>1. SumOf(arch, c, ksq, b, D, to)
          = (CHOOSE g : g = [t \in SUBSET F |-> IF t = {} THEN NoFeatures
                ELSE Changed(g[t \ {Some(t)}], Index(arch, c, ksq, b[Some(t)], to[Some(t)]), 1)])[F]
    BY ONLY F = {s \in D : IsFeature(arch, b[s])} DEF SumOf, FoldSet, MapThenFoldSet, Some
  <2> QED BY ONLY <2>1
<1>2. NoFeatures = Ones({})
  BY DEF NoFeatures, Ones
<1>3. \A s \in F : ix[s] = Index(arch, c, ksq, b[s], to[s])
  OBVIOUS
<1>4. \A t \in SUBSET F : t # {} => Some(t) \in t
  BY DEF Some
<1>5. \A t \in SUBSET F : pick[t] = Some(t)
  OBVIOUS
<1>6. IsFiniteSet(F)
  BY FS_Subset
<1> HIDE DEF ix, pick, h
<1>7. Picks(pick, F)
  BY <1>4, <1>5 DEF Picks
<1>8. Suits({}, ix, 1, F)
  BY <1>3 DEF Suits
<1>9. ASSUME NEW g PROVE Sums(g) <=> Folded(Ones({}), ix, pick, 1, F, g)
  <2>1. ASSUME NEW t \in SUBSET F, t # {}
        PROVE  /\ g[t \ {pick[t]}] = g[t \ {Some(t)}]
               /\ ix[pick[t]] = Index(arch, c, ksq, b[Some(t)], to[Some(t)])
    <3>1. pick[t] = Some(t) /\ Some(t) \in F
      BY <1>4, <1>5, <2>1
    <3> QED BY <1>3, <3>1
  <2> QED BY <1>2, <2>1 DEF Folded
<1> HIDE DEF Sums
<1>10. Folded(Ones({}), ix, pick, 1, F, h)
  <2>1. \E g : Sums(g)
    BY <1>7, <1>8, <1>9, FoldExists
  <2> QED BY <1>9, <2>1 DEF h
<1>11. h[F] = Ones(Outcome({}, ix, 1, F))
  BY <1>6, <1>7, <1>8, <1>10, FoldsTo
<1>12. Outcome({}, ix, 1, F) = {Index(arch, c, ksq, b[s], to[s]) : s \in F}
  BY <1>3 DEF Outcome, Image
<1> QED BY <1>1, <1>11, <1>12

\* A nonempty finite set of numbers has a greatest.
LEMMA GreatestIsMax ==
  ASSUME NEW n \in Nat, NEW S \in SUBSET (1 .. n), S # {}
  PROVE  Max(S) \in S
<1> DEFINE T == {k \in Nat : \A x \in S : x <= k}
           Below == {1 .. k : k \in T}
<1>1. n \in T
  OBVIOUS
<1>2. \E x \in S : \A y \in S : y <= x
  <2>1. IsWellFoundedOn(StrictSubsetOrdering(Nat), FiniteSubsetsOf(Nat))
    BY FS_StrictSubsetOrderingWellFounded
  <2>2. Below \subseteq FiniteSubsetsOf(Nat)
    <3>1. \A k \in Nat : 1 .. k \in SUBSET Nat /\ IsFiniteSet(1 .. k)
      BY 1 \in Int, FS_Interval
    <3> QED BY <3>1 DEF FiniteSubsetsOf
  <2>3. Below # {}
    BY <1>1
  <2> HIDE DEF Below
  <2>4. PICK I \in Below : \A J \in Below : <<J, I>> \notin StrictSubsetOrdering(Nat)
    BY <2>1, <2>2, <2>3, WFMin
  <2> USE DEF Below
  <2>5. PICK k \in T : I = 1 .. k
    OBVIOUS
  <2>6. k \in S
    <3> SUFFICES ASSUME k \notin S PROVE FALSE
      OBVIOUS
    <3>1. \A x \in S : x < k /\ x >= 1
      BY <2>5
    <3>2. k >= 1 /\ k - 1 \in T
      <4>1. k \in Nat /\ \A x \in S : x \in Nat
        BY <2>5
      <4>2. PICK y \in S : y < k /\ y >= 1
        BY <3>1
      <4>3. k >= 1 /\ k - 1 \in Nat /\ \A x \in S : x <= k - 1
        BY ONLY <3>1, <4>1, <4>2
      <4> QED BY <4>3
    <3>3. 1 .. k - 1 \in Below /\ 1 .. k - 1 \subseteq 1 .. k /\ 1 .. k - 1 # 1 .. k
      BY <2>5, <3>2
    <3>4. <<1 .. k - 1, 1 .. k>> \in StrictSubsetOrdering(Nat)
      BY <2>5, <3>2, <3>3 DEF StrictSubsetOrdering
    <3> HIDE DEF Below
    <3> QED BY <2>4, <2>5, <3>3, <3>4
  <2>7. \A y \in S : y <= k
    BY <2>5
  <2> QED BY <2>6, <2>7
<1> QED BY <1>2 DEF Max

\* Features put in, one by one, that are not there yet, or taken out that are.
LEMMA ListIsOnes ==
  ASSUME NEW S, NEW q \in Seq(Int), \A i, j \in 1 .. Len(q) : q[i] = q[j] => i = j,
         NEW R, R = {q[i] : i \in 1 .. Len(q)}
  PROVE  /\ R \cap S = {} => AddAll(Ones(S), q) = Ones(S \cup R)
         /\ R \subseteq S => Subtract(Ones(S), q) = Ones(S \ R)
<1> DEFINE F == DOMAIN q
           pick == [t \in SUBSET F |-> Max(t)]
<1>1. F = 1 .. Len(q) /\ Len(q) \in Nat
  OBVIOUS
<1>2. \A t \in SUBSET F : t # {} => Max(t) \in t
  BY <1>1, GreatestIsMax
<1>3. \A t \in SUBSET F : pick[t] = Max(t)
  OBVIOUS
<1>4. IsFiniteSet(F)
  BY <1>1, 1 \in Int, FS_Interval
<1>5. Picks(pick, F)
  BY <1>2, <1>3 DEF Picks
<1>6. Image(q, F) = R
  BY DEF Image
<1> HIDE DEF pick, F
<1>7. ASSUME NEW by \in {1, -1}, Suits(S, q, by, F)
      PROVE  (CHOOSE g : g = [t \in SUBSET F |-> IF t = {} THEN Ones(S)
                                ELSE Changed(g[t \ {Max(t)}], q[Max(t)], by)])[F]
               = Ones(Outcome(S, q, by, F))
  <2> DEFINE Sums(g) == g = [t \in SUBSET F |-> IF t = {} THEN Ones(S)
                               ELSE Changed(g[t \ {Max(t)}], q[Max(t)], by)]
             h == CHOOSE g : Sums(g)
  <2>1. ASSUME NEW g PROVE Sums(g) <=> Folded(Ones(S), q, pick, by, F, g)
    <3>1. ASSUME NEW t \in SUBSET F
          PROVE  g[t \ {pick[t]}] = g[t \ {Max(t)}] /\ q[pick[t]] = q[Max(t)]
      BY ONLY <1>3, t \in SUBSET F
    <3> QED BY ONLY <3>1 DEF Folded
  <2> HIDE DEF Sums, h
  <2>2. Folded(Ones(S), q, pick, by, F, h)
    <3>1. \E g : Sums(g)
      BY <1>5, <1>7, <2>1, FoldExists
    <3> QED BY <2>1, <3>1 DEF h
  <2>3. h[F] = Ones(Outcome(S, q, by, F))
    BY <1>4, <1>5, <1>7, <2>2, FoldsTo
  <2> QED BY <2>3 DEF h, Sums
<1>8. ASSUME R \cap S = {} PROVE AddAll(Ones(S), q) = Ones(S \cup R)
  <2>1. Suits(S, q, 1, F)
    BY <1>1, <1>6, <1>8 DEF Suits, Image
  <2>2. Outcome(S, q, 1, F) = S \cup R
    BY <1>6 DEF Outcome
  <2>3. (CHOOSE g : g = [t \in SUBSET F |-> IF t = {} THEN Ones(S)
                           ELSE Changed(g[t \ {Max(t)}], q[Max(t)], 1)])[F] = Ones(S \cup R)
    BY <1>7, <2>1, <2>2
  <2>4. AddAll(Ones(S), q)
          = (CHOOSE g : g = [t \in SUBSET F |-> IF t = {} THEN Ones(S)
                           ELSE Changed(g[t \ {Max(t)}], q[Max(t)], 1)])[F]
    BY ONLY TRUE DEF F, AddAll, FoldLeft, MapThenFoldSet
  <2> QED BY ONLY <2>3, <2>4
<1>9. ASSUME R \subseteq S PROVE Subtract(Ones(S), q) = Ones(S \ R)
  <2>1. Suits(S, q, -1, F)
    BY <1>1, <1>6, <1>9 DEF Suits, Image
  <2>2. Outcome(S, q, -1, F) = S \ R
    BY <1>6 DEF Outcome
  <2>3. (CHOOSE g : g = [t \in SUBSET F |-> IF t = {} THEN Ones(S)
                           ELSE Changed(g[t \ {Max(t)}], q[Max(t)], -1)])[F] = Ones(S \ R)
    BY <1>7, <2>1, <2>2
  <2>4. Subtract(Ones(S), q)
          = (CHOOSE g : g = [t \in SUBSET F |-> IF t = {} THEN Ones(S)
                           ELSE Changed(g[t \ {Max(t)}], q[Max(t)], -1)])[F]
    BY ONLY TRUE DEF F, Subtract, FoldLeft, MapThenFoldSet
  <2> QED BY ONLY <2>3, <2>4
<1> QED BY <1>8, <1>9

-----------------------------------------------------------------------------
(* The index of a feature: a base for the king's square, a plane for the   *)
(* piece, and the square as that side sees it.                             *)

Turned(arch, c, ksq, s) == IF arch = HALFKP THEN orient_hk(c, s) ELSE orient_v4(c, s, ksq)
Based(arch, c, ksq) ==
  IF arch = HALFKP THEN 641 * orient_hk(c, ksq) + 1 ELSE 704 * KingBucket(orient_v4(c, ksq, ksq))

\* A square is made of its rank and its file.
LEMMA MadeOf ==
  ASSUME NEW r \in 0 .. 7, NEW f \in 0 .. 7
  PROVE  8 * r + f \in Square /\ rank_of(8 * r + f) = r /\ file_of(8 * r + f) = f
BY DEF Square, rank_of, file_of

\* What either side sees of a square, plain or from the king's half of the board.
LEMMA SeenSquares ==
  ASSUME NEW c \in Color, NEW s \in Square, NEW ksq \in Square
  PROVE  /\ relative_square(c, s) = 8 * (IF c = WHITE THEN rank_of(s) ELSE 7 - rank_of(s)) + file_of(s)
         /\ relative_square(c, s) \in Square
         /\ rank_of(relative_square(c, s)) = (IF c = WHITE THEN rank_of(s) ELSE 7 - rank_of(s))
         /\ file_of(relative_square(c, s)) = file_of(s)
         /\ orient_v4(c, s, ksq)
              = 8 * (IF c = WHITE THEN rank_of(s) ELSE 7 - rank_of(s))
                  + (IF file_of(ksq) < 4 THEN 7 - file_of(s) ELSE file_of(s))
         /\ orient_hk(c, s) = (IF c = WHITE THEN s ELSE 63 - s)
<1> DEFINE r == IF c = WHITE THEN rank_of(s) ELSE 7 - rank_of(s)
           t == relative_square(c, s)
<1>1. /\ rank_of(s) \in 0 .. 7 /\ file_of(s) \in 0 .. 7 /\ r \in 0 .. 7
  BY Coordinates
<1>2. t = 8 * r + file_of(s)
  BY DEF relative_square, relative_rank
<1>3. t \in Square /\ rank_of(t) = r /\ file_of(t) = file_of(s)
  BY <1>1, <1>2, MadeOf
<1>4. orient_v4(c, s, ksq) = IF file_of(ksq) < 4 THEN flip_file(t) ELSE t
  BY DEF orient_v4
<1>5. flip_file(t) = 8 * r + (7 - file_of(s))
  BY <1>1, <1>3 DEF flip_file
<1> QED BY <1>2, <1>3, <1>4, <1>5 DEF orient_hk

\* The planes: the kings' are one more than the others'.
LEMMA Planes ==
  ASSUME NEW c \in Color, NEW pc \in Piece
  PROVE  Plane(c, pc) \in 0 .. (IF pc[2] = KING THEN 10 ELSE 9)
<1>1. pc[2] \in PieceType
  BY DEF Piece
<1> DEFINE n == PieceNumber[pc[2]]
<1>2. n \in 0 .. 5 /\ (pc[2] = KING => n = 5) /\ (pc[2] # KING => n \in 0 .. 4)
  BY <1>1 DEF PieceNumber, PieceType, PAWN, KNIGHT, BISHOP, ROOK, QUEEN, KING
<1> HIDE DEF n
<1>3. Plane(c, pc) = 2 * n + (IF pc[1] = c \/ pc[2] = KING THEN 0 ELSE 1)
  BY DEF Plane, n
<1> QED BY <1>2, <1>3

\* The parts of an index and their bounds: squares are seen one by one.
LEMMA IndexParts ==
  ASSUME NEW arch \in Arch, NEW c \in Color, NEW ksq \in Square, NEW s \in Square
  PROVE  /\ \A pc \in Piece : Index(arch, c, ksq, pc, s) = Turned(arch, c, ksq, s) + 64 * Plane(c, pc) + Based(arch, c, ksq)
         /\ Turned(arch, c, ksq, s) \in 0 .. 63
         /\ \A t \in Square : Turned(arch, c, ksq, s) = Turned(arch, c, ksq, t) => s = t
         /\ Based(arch, c, ksq) \in 0 .. (IF arch = HALFKP THEN 40384 ELSE 21824)
<1>1. arch = HALFKP \/ (arch = HALFKAV2_HM /\ arch # HALFKP)
  BY DEF Arch, HALFKP, HALFKAV2_HM
<1>2. c = WHITE \/ (c = BLACK /\ c # WHITE)
  BY DEF Color, WHITE, BLACK
<1>3. s \in 0 .. 63 /\ ksq \in 0 .. 63 /\ Square = 0 .. 63
  BY DEF Square
<1>4. CASE arch = HALFKP
  <2>1. /\ orient_hk(c, s) \in 0 .. 63 /\ orient_hk(c, ksq) \in 0 .. 63
        /\ \A t \in Square : orient_hk(c, s) = orient_hk(c, t) => s = t
    BY <1>3 DEF orient_hk
  <2>2. Turned(arch, c, ksq, s) = orient_hk(c, s) /\ Based(arch, c, ksq) = 641 * orient_hk(c, ksq) + 1
    BY <1>4 DEF Turned, Based
  <2>3. \A pc : Index(arch, c, ksq, pc, s) = 641 * orient_hk(c, ksq) + 64 * Plane(c, pc) + 1 + orient_hk(c, s)
    BY <1>4 DEF Index, make_index_hk, PS_END
  <2>4. \A t \in Square : Turned(arch, c, ksq, t) = orient_hk(c, t)
    BY <1>4 DEF Turned
  <2>5. ASSUME NEW pc \in Piece PROVE Plane(c, pc) \in Int
    BY Planes
  <2> QED BY <1>4, <2>1, <2>2, <2>3, <2>4, <2>5, SMTT(30)
<1>5. CASE arch = HALFKAV2_HM /\ arch # HALFKP
  <2> DEFINE o(t) == orient_v4(c, t, ksq)
             f(t) == IF file_of(ksq) < 4 THEN 7 - file_of(t) ELSE file_of(t)
             r(t) == IF c = WHITE THEN rank_of(t) ELSE 7 - rank_of(t)
  <2>1. ASSUME NEW t \in Square
        PROVE  /\ o(t) = 8 * r(t) + f(t) /\ r(t) \in 0 .. 7 /\ f(t) \in 0 .. 7
               /\ o(t) \in Square /\ rank_of(o(t)) = r(t) /\ file_of(o(t)) = f(t)
    <3>1. rank_of(t) \in 0 .. 7 /\ file_of(t) \in 0 .. 7 /\ o(t) = 8 * r(t) + f(t)
      BY Coordinates, SeenSquares
    <3>2. r(t) \in 0 .. 7 /\ f(t) \in 0 .. 7
      BY <3>1
    <3> HIDE DEF o, f, r
    <3> QED BY <3>1, <3>2, MadeOf
  <2>2. ASSUME NEW t \in Square, o(s) = o(t) PROVE s = t
    <3>1. r(s) = r(t) /\ f(s) = f(t)
      BY <2>1, <2>2
    <3>2. /\ s = 8 * rank_of(s) + file_of(s) /\ t = 8 * rank_of(t) + file_of(t)
          /\ rank_of(s) \in 0 .. 7 /\ file_of(s) \in 0 .. 7 /\ rank_of(t) \in 0 .. 7 /\ file_of(t) \in 0 .. 7
      BY Coordinates
    <3>3. rank_of(s) = rank_of(t) /\ file_of(s) = file_of(t)
      BY <3>1, <3>2
    <3> QED BY ONLY <3>2, <3>3
  <2>3. KingBucket(o(ksq)) \in 0 .. 31
    <3>1. o(ksq) \in Square /\ rank_of(o(ksq)) \in 0 .. 7 /\ file_of(o(ksq)) = f(ksq) /\ f(ksq) \in 0 .. 7
      BY <2>1
    <3>2. f(ksq) \in 4 .. 7
      <4>1. file_of(ksq) \in 0 .. 7
        BY Coordinates
      <4> QED BY <4>1
    <3> HIDE DEF f, o
    <3> QED BY <3>1, <3>2 DEF KingBucket
  <2>4. Turned(arch, c, ksq, s) = o(s) /\ Based(arch, c, ksq) = 704 * KingBucket(o(ksq))
    BY <1>5 DEF Turned, Based
  <2>5. \A pc : Index(arch, c, ksq, pc, s) = o(s) + 64 * Plane(c, pc) + 704 * KingBucket(o(ksq))
    BY <1>5 DEF Index, make_index_v4, V4_PS_NB
  <2>6. \A t \in Square : Turned(arch, c, ksq, t) = o(t)
    BY <1>5 DEF Turned
  <2>7. o(s) \in 0 .. 63
    BY <2>1 DEF Square
  <2> HIDE DEF o, f, r
  <2> QED BY <1>5, <2>2, <2>3, <2>4, <2>5, <2>6, <2>7
<1> QED BY <1>1, <1>4, <1>5

\* Pieces on different squares have different features, within the network's inputs.
LEMMA IndexSeparates ==
  ASSUME NEW arch \in Arch, NEW c \in Color, NEW ksq \in Square, NEW pc \in Piece, NEW s \in Square
  PROVE  /\ \A t \in Square, qc \in Piece : Index(arch, c, ksq, pc, s) = Index(arch, c, ksq, qc, t) => s = t
         /\ Index(arch, c, ksq, pc, s) \in Nat
         /\ IsFeature(arch, pc) => Index(arch, c, ksq, pc, s) \in 0 .. (IF arch = HALFKP THEN 41024 ELSE 22528) - 1
<1> DEFINE T(t) == Turned(arch, c, ksq, t)  B == Based(arch, c, ksq)
<1>1. \A t \in Square : \A qc \in Piece : Index(arch, c, ksq, qc, t) = T(t) + 64 * Plane(c, qc) + B
  BY IndexParts
<1>2. \A t \in Square : T(t) \in 0 .. 63 /\ (T(s) = T(t) => s = t)
  BY IndexParts
<1>3. B \in 0 .. (IF arch = HALFKP THEN 40384 ELSE 21824) /\ B \in Nat
  BY IndexParts
<1>4. \A qc \in Piece : Plane(c, qc) \in Nat
  BY Planes
<1>5. Plane(c, pc) \in 0 .. (IF pc[2] = KING THEN 10 ELSE 9) /\ Plane(c, pc) <= 10
  BY Planes
<1> HIDE DEF T, B
<1>6. ASSUME NEW t \in Square, NEW qc \in Piece, Index(arch, c, ksq, pc, s) = Index(arch, c, ksq, qc, t)
      PROVE  s = t
  <2>1. T(s) + 64 * Plane(c, pc) + B = T(t) + 64 * Plane(c, qc) + B
    BY <1>1, <1>6
  <2>2. /\ T(s) \in 0 .. 63 /\ T(t) \in 0 .. 63 /\ Plane(c, pc) \in Nat /\ Plane(c, qc) \in Nat /\ B \in Nat
    BY <1>2, <1>3, <1>4
  <2>3. T(s) = T(t)
    <3> DEFINE x == T(s)  y == T(t)  p == Plane(c, pc)  q == Plane(c, qc)
    <3>1. x + 64 * p + B = y + 64 * q + B /\ x \in 0 .. 63 /\ y \in 0 .. 63 /\ p \in Nat /\ q \in Nat /\ B \in Nat
      BY ONLY <2>1, <2>2
    <3> SUFFICES x = y
      OBVIOUS
    <3> HIDE DEF x, y, p, q
    <3>2. x + 64 * p = y + 64 * q
      BY ONLY <3>1
    <3>3. p = q \/ p + 1 <= q \/ q + 1 <= p
      BY ONLY <3>1
    <3>4. CASE p = q
      BY ONLY <3>1, <3>2, <3>4
    <3>5. CASE p + 1 <= q
      BY ONLY <3>1, <3>2, <3>5
    <3>6. CASE q + 1 <= p
      BY ONLY <3>1, <3>2, <3>6
    <3> QED BY ONLY <3>3, <3>4, <3>5, <3>6
  <2> QED BY ONLY <1>2, <2>3, t \in Square
<1>7. IsFeature(arch, pc) => arch = HALFKAV2_HM \/ pc[2] # KING
  BY DEF IsFeature
<1>8. arch = HALFKP \/ (arch = HALFKAV2_HM /\ arch # HALFKP)
  BY DEF Arch, HALFKP, HALFKAV2_HM
<1> DEFINE x == T(s)  p == Plane(c, pc)  i == Index(arch, c, ksq, pc, s)
<1>9. x \in 0 .. 63 /\ i = x + 64 * p + B /\ p \in 0 .. (IF pc[2] = KING THEN 10 ELSE 9)
  BY <1>1, <1>2, <1>5
<1> HIDE DEF x, p, i
<1>10. IsFeature(arch, pc) => i \in 0 .. (IF arch = HALFKP THEN 41024 ELSE 22528) - 1
  <2>1. CASE arch = HALFKP /\ pc[2] # KING
    <3>1. B \in 0 .. 40384 /\ p \in 0 .. 9
      BY <1>3, <1>9, <2>1, SMTT(30)
    <3>2. i \in 0 .. 41023
      BY ONLY <1>9, <3>1, SMTT(30)
    <3> QED BY <2>1, <3>2
  <2>2. CASE arch = HALFKAV2_HM /\ arch # HALFKP
    <3>1. B \in 0 .. 21824 /\ p \in 0 .. 10
      BY <1>3, <1>9, <2>2, SMTT(30)
    <3>2. i \in 0 .. 22527
      BY ONLY <1>9, <3>1, SMTT(30)
    <3> QED BY <2>2, <3>2
  <2>3. ASSUME arch = HALFKP, pc[2] = KING PROVE ~IsFeature(arch, pc)
    BY <2>3 DEF IsFeature, HALFKP, HALFKAV2_HM
  <2> QED BY <1>8, <2>1, <2>2, <2>3
<1>11. i \in Nat
  BY <1>3, <1>9
<1> QED BY <1>6, <1>10, <1>11 DEF i

-----------------------------------------------------------------------------
(* The features of a position, and what a move changes in them. *)

\* The features of the pieces that b has on the squares of G.
FeatsOn(arch, c, ksq, b, G) ==
  {Index(arch, c, ksq, b[s], s) : s \in {q \in G \cap DOMAIN b : IsFeature(arch, b[q])}}
Feats(arch, c, ksq, b) == FeatsOn(arch, c, ksq, b, DOMAIN b)

\* The one square of a king.
LEMMA KingStandsOn ==
  ASSUME NEW b, IsBoard(b), NEW c, NEW k \in DOMAIN b, b[k] = make_piece(c, KING)
  PROVE  king_square(b, c) = k /\ k \in Square /\ c \in Color
<1>1. /\ \A s \in DOMAIN b : b[s] = b[k] => s = k
      /\ k \in Square /\ b[k] \in Piece /\ c = b[k][1]
  BY DEF IsBoard, make_piece
<1>2. c \in Color
  BY <1>1 DEF Piece
<1>3. king_square(b, c) \in DOMAIN b /\ b[king_square(b, c)] = make_piece(c, KING)
  BY DEF king_square
<1> QED BY <1>1, <1>2, <1>3

\* From scratch the sum is the set of the position's features.
LEMMA RefreshIsOnes ==
  ASSUME NEW arch \in Arch, NEW b, IsBoard(b), NEW c \in Color, NEW k \in Square, k = king_square(b, c)
  PROVE  refresh_perspective(arch, b, c) = Ones(Feats(arch, c, k, b))
<1> DEFINE D == DOMAIN b
           to == [s \in D |-> s]
           F == {s \in D : IsFeature(arch, b[s])}
<1>1. D \subseteq Square /\ \A s \in D : b[s] \in Piece
  BY DEF IsBoard
<1>2. IsFiniteSet(D)
  <2>1. IsFiniteSet(0 .. 63)
    BY 0 \in Int, 63 \in Int, FS_Interval
  <2> QED BY <1>1, <2>1, FS_Subset DEF Square
<1>3. \A s \in F : s \in D /\ to[s] = s
  OBVIOUS
<1>4. refresh_perspective(arch, b, c) = SumOf(arch, c, k, b, D, to)
  BY DEF refresh_perspective
<1>5. F = {s \in D : IsFeature(arch, b[s])} /\ F = {q \in D \cap D : IsFeature(arch, b[q])}
  OBVIOUS
<1> HIDE DEF D, to, F
<1>6. \A s, t \in F : Index(arch, c, k, b[s], to[s]) = Index(arch, c, k, b[t], to[t]) => s = t
  BY <1>1, <1>3, IndexSeparates
<1>7. SumOf(arch, c, k, b, D, to) = Ones({Index(arch, c, k, b[s], to[s]) : s \in F})
  BY <1>2, <1>5, <1>6, SumIsOnes
<1>8. {Index(arch, c, k, b[s], to[s]) : s \in F} = {Index(arch, c, k, b[s], s) : s \in F}
  BY <1>3
<1> QED BY <1>4, <1>5, <1>7, <1>8 DEF Feats, FeatsOn, D

\* Features by the squares they are of.
LEMMA FeatureOfSquare ==
  ASSUME NEW arch, NEW c, NEW k, NEW b, NEW G, NEW i
  PROVE  i \in FeatsOn(arch, c, k, b, G) <=>
           \E s \in G : s \in DOMAIN b /\ IsFeature(arch, b[s]) /\ i = Index(arch, c, k, b[s], s)
BY DEF FeatsOn

\* Two boards that differ only on some squares: taking the features there out and putting the
\* other board's in makes one into the other.
LEMMA FeatsChange ==
  ASSUME NEW arch \in Arch, NEW c \in Color, NEW k \in Square,
         NEW b, IsBoard(b), NEW f, IsBoard(f), NEW D,
         \A q : q \notin D => /\ q \in DOMAIN b <=> q \in DOMAIN f
                              /\ q \in DOMAIN b => b[q] = f[q],
         NEW R, R = FeatsOn(arch, c, k, b, D), NEW C, C = FeatsOn(arch, c, k, f, D)
  PROVE  /\ R \subseteq Feats(arch, c, k, b)
         /\ C \cap (Feats(arch, c, k, b) \ R) = {}
         /\ (Feats(arch, c, k, b) \ R) \cup C = Feats(arch, c, k, f)
<1> DEFINE B == Feats(arch, c, k, b)  E == Feats(arch, c, k, f)
<1>1. /\ DOMAIN b \subseteq Square /\ \A q \in DOMAIN b : b[q] \in Piece
      /\ DOMAIN f \subseteq Square /\ \A q \in DOMAIN f : f[q] \in Piece
  BY DEF IsBoard
<1>2. /\ \A i : i \in B <=> \E s \in DOMAIN b : IsFeature(arch, b[s]) /\ i = Index(arch, c, k, b[s], s)
      /\ \A i : i \in E <=> \E s \in DOMAIN f : IsFeature(arch, f[s]) /\ i = Index(arch, c, k, f[s], s)
  BY FeatureOfSquare DEF Feats
<1>3. /\ \A i : i \in R <=> \E s \in D : s \in DOMAIN b /\ IsFeature(arch, b[s]) /\ i = Index(arch, c, k, b[s], s)
      /\ \A i : i \in C <=> \E s \in D : s \in DOMAIN f /\ IsFeature(arch, f[s]) /\ i = Index(arch, c, k, f[s], s)
  BY FeatureOfSquare
<1> HIDE DEF B, E
<1>4. R \subseteq B
  BY <1>2, <1>3
<1>5. \A i : i \in B \ R <=> \E s \in DOMAIN b : s \notin D /\ IsFeature(arch, b[s]) /\ i = Index(arch, c, k, b[s], s)
  <2>1. ASSUME NEW i \in B \ R
        PROVE  \E s \in DOMAIN b : s \notin D /\ IsFeature(arch, b[s]) /\ i = Index(arch, c, k, b[s], s)
    BY <1>2, <1>3, <2>1
  <2>2. ASSUME NEW s \in DOMAIN b, s \notin D, IsFeature(arch, b[s])
        PROVE  Index(arch, c, k, b[s], s) \in B \ R
    <3> DEFINE i == Index(arch, c, k, b[s], s)
    <3>1. i \in B
      BY <1>2, <2>2
    <3>2. SUFFICES ASSUME i \in R PROVE FALSE
      BY <3>1
    <3>3. PICK t \in D : t \in DOMAIN b /\ i = Index(arch, c, k, b[t], t)
      BY <1>3, <3>2
    <3>4. s \in Square /\ t \in Square /\ b[s] \in Piece /\ b[t] \in Piece
      BY <1>1, <3>3
    <3>5. s = t
      BY ONLY <3>3, <3>4, arch \in Arch, c \in Color, k \in Square, IndexSeparates
    <3> QED BY <2>2, <3>5
  <2> QED BY <2>1, <2>2
<1>6. \A i : i \in B \ R <=> \E s \in DOMAIN f : s \notin D /\ IsFeature(arch, f[s]) /\ i = Index(arch, c, k, f[s], s)
  BY <1>5
<1>7. ASSUME NEW i \in C, i \in B \ R PROVE FALSE
  <2>1. PICK s \in DOMAIN f : s \notin D /\ i = Index(arch, c, k, f[s], s)
    BY <1>6, <1>7
  <2>2. PICK t \in D : t \in DOMAIN f /\ i = Index(arch, c, k, f[t], t)
    BY <1>3, <1>7
  <2>3. s \in Square /\ t \in Square /\ f[s] \in Piece /\ f[t] \in Piece
    BY <1>1, <2>2
  <2>4. s = t
    <3>1. Index(arch, c, k, f[s], s) = Index(arch, c, k, f[t], t)
      BY <2>1, <2>2
    <3> QED BY ONLY <2>3, <3>1, arch \in Arch, c \in Color, k \in Square, IndexSeparates
  <2> QED BY <2>1, <2>2, <2>4
<1>8. ASSUME NEW i PROVE i \in (B \ R) \cup C <=> i \in E
  BY <1>2, <1>3, <1>6
<1> QED BY <1>4, <1>7, <1>8 DEF B, E

\* The squares a move touches.
Touched(m) ==
  {m.from, kto(m), capture_square(m)}
    \cup (IF m.type = CASTLING
          THEN {rook_home(<<us, Side(m.from, m.to)>>), rook_to(<<us, Side(m.from, m.to)>>)} ELSE {})

\* Which pieces stand there before it, and which after.
LEMMA TouchedPieces ==
  ASSUME Sound(board, us, st), NEW m, Fits(m), m.type # CASTLING => m.to \notin PiecesOf(board, us)
  PROVE  LET f == BoardAfter(m)  cr == <<us, Side(m.from, m.to)>>
         IN  /\ \A q : q \notin Touched(m) => /\ q \in DOMAIN board <=> q \in DOMAIN f
                                              /\ q \in DOMAIN board => board[q] = f[q]
             /\ \A q : q \in DOMAIN board \cap Touched(m) <=>
                  \/ q = m.from
                  \/ m.type = CASTLING /\ q = rook_home(cr)
                  \/ captured_by(m) # NO_PIECE /\ q = capture_square(m)
             /\ \A q : q \in DOMAIN f \cap Touched(m) <=> q = kto(m) \/ (m.type = CASTLING /\ q = rook_to(cr))
             /\ m.from # capture_square(m) /\ kto(m) \in Square
             /\ m.type = CASTLING => /\ m.from # rook_home(cr) /\ captured_by(m) = NO_PIECE
                                     /\ board[rook_home(cr)] = make_piece(us, ROOK) /\ rook_home(cr) \in DOMAIN board
                                     /\ f[rook_to(cr)] = make_piece(us, ROOK) /\ rook_to(cr) \in DOMAIN f
                                     /\ kto(m) # rook_to(cr) /\ rook_to(cr) \notin DOMAIN board
             /\ captured_by(m) # NO_PIECE => board[capture_square(m)] = captured_by(m)
             /\ f[kto(m)] = placed_by(m) /\ kto(m) \in DOMAIN f
<1> DEFINE f == BoardAfter(m)  cr == <<us, Side(m.from, m.to)>>
           k == m.from  t == m.to  h == rook_home(cr)  r == rook_to(cr)  e == ep_capture_square(m)
<1>1. CASE m.type = CASTLING
  <2>1. /\ k \in DOMAIN board /\ h \in DOMAIN board /\ t \notin DOMAIN board /\ r \notin DOMAIN board
        /\ board[k] = make_piece(us, KING) /\ board[h] = make_piece(us, ROOK)
        /\ DOMAIN f = (DOMAIN board \ {k, h}) \cup {t, r}
        /\ f[t] = make_piece(us, KING) /\ f[r] = make_piece(us, ROOK) /\ t # r /\ t \in Square
        /\ \A q \in DOMAIN f : q # t /\ q # r => f[q] = board[q]
    BY <1>1, CastlingBoard
  <2>2. k # h /\ t = king_to(cr) /\ k # t
    BY <1>1, CastlingShape DEF Fits
  <2>3. captured_by(m) = NO_PIECE /\ capture_square(m) = t /\ kto(m) = t /\ placed_by(m) = board[k]
    BY <1>1, <2>2, Words DEF captured_by, capture_square, kto, placed_by
  <2>4. Touched(m) = {k, t, h, r}
    BY <1>1, <2>3 DEF Touched
  <2> HIDE DEF k, t, h, r
  <2>5. /\ \A q : q \notin {k, t, h, r} => /\ q \in DOMAIN board <=> q \in DOMAIN f
                                           /\ q \in DOMAIN board => board[q] = f[q]
        /\ \A q : q \in DOMAIN board \cap {k, t, h, r} <=> q = k \/ q = h
        /\ \A q : q \in DOMAIN f \cap {k, t, h, r} <=> q = t \/ q = r
    BY <2>1, <2>2
  <2> QED BY <1>1, <2>1, <2>2, <2>3, <2>4, <2>5 DEF k, t, h, r
<1>2. CASE m.type = EN_PASSANT
  <2>1. /\ t \in Square /\ t \notin DOMAIN board /\ StandsOn(board, make_piece(us, PAWN), k)
        /\ StandsOn(board, make_piece(them, PAWN), e) /\ make_piece(them, PAWN) # NO_PIECE
        /\ e # k /\ e # t
    BY <1>2, EnPassantShape
  <2>2. f = Moved(m) /\ Left(m) = {k, e} /\ Arrives(m) = board[k] /\ m.type # CASTLING
    BY <1>2, Words, BoardAfterMove DEF Left, Arrives
  <2>3. captured_by(m) = make_piece(them, PAWN) /\ capture_square(m) = e /\ kto(m) = t /\ placed_by(m) = board[k]
    BY <1>2, Words DEF captured_by, capture_square, kto, placed_by
  <2>4. Touched(m) = {k, t, e}
    BY <2>2, <2>3 DEF Touched
  <2>5. k # t /\ k \in DOMAIN board
    BY DEF Fits
  <2>6. /\ DOMAIN f = (DOMAIN board \ {k, e}) \cup {t}
        /\ f[t] = board[k] /\ \A q \in DOMAIN f : q # t => f[q] = board[q]
    BY <2>2 DEF Moved
  <2> HIDE DEF k, t, h, r, e
  <2>7. /\ \A q : q \notin {k, t, e} => /\ q \in DOMAIN board <=> q \in DOMAIN f
                                        /\ q \in DOMAIN board => board[q] = f[q]
        /\ \A q : q \in DOMAIN board \cap {k, t, e} <=> q = k \/ q = e
        /\ \A q : q \in DOMAIN f \cap {k, t, e} <=> q = t
    BY <2>1, <2>5, <2>6 DEF StandsOn
  <2> QED BY <2>1, <2>2, <2>3, <2>4, <2>5, <2>6, <2>7 DEF k, t, h, r, e, StandsOn
<1>3. CASE m.type # CASTLING /\ m.type # EN_PASSANT
  <2>1. f = Moved(m) /\ Left(m) = {k} /\ placed_by(m) = Arrives(m)
    BY <1>3, BoardAfterMove DEF Left, Arrives, placed_by
  <2>2. captured_by(m) = piece_on(t) /\ capture_square(m) = t /\ kto(m) = t
    BY <1>3 DEF captured_by, capture_square, kto
  <2>3. Touched(m) = {k, t}
    BY <1>3, <2>2 DEF Touched
  <2>4. k # t /\ k \in DOMAIN board /\ t \in Square
    BY DEF Fits, MoveRecord
  <2>5. /\ DOMAIN f = (DOMAIN board \ {k}) \cup {t}
        /\ f[t] = Arrives(m) /\ \A q \in DOMAIN f : q # t => f[q] = board[q]
    BY <2>1 DEF Moved
  <2>6. /\ piece_on(t) = NO_PIECE <=> t \notin DOMAIN board
        /\ t \in DOMAIN board => piece_on(t) = board[t]
    BY EmptySquares DEF Sound
  <2> HIDE DEF k, t, h, r
  <2>7. /\ \A q : q \notin {k, t} => /\ q \in DOMAIN board <=> q \in DOMAIN f
                                     /\ q \in DOMAIN board => board[q] = f[q]
        /\ \A q : q \in DOMAIN board \cap {k, t} <=> q = k \/ (t \in DOMAIN board /\ q = t)
        /\ \A q : q \in DOMAIN f \cap {k, t} <=> q = t
    BY <2>4, <2>5
  <2> QED BY <1>3, <2>1, <2>2, <2>3, <2>4, <2>5, <2>6, <2>7 DEF k, t, h, r
<1> QED BY <1>1, <1>2, <1>3

\* A list of different numbers, and two of them in a row.
Lists(l, S) == l \in Seq(Int) /\ (\A i, j \in 1 .. Len(l) : l[i] = l[j] => i = j) /\ S = {l[i] : i \in 1 .. Len(l)}

LEMMA Joined ==
  ASSUME NEW a, NEW b, NEW A, NEW B, Lists(a, A), Lists(b, B), A \cap B = {}
  PROVE  Lists(a \o b, A \cup B)
<1> DEFINE l == a \o b  m == Len(a)  n == Len(b)
<1>1. /\ a \in Seq(Int) /\ m \in Nat /\ \A i, j \in 1 .. m : a[i] = a[j] => i = j
      /\ b \in Seq(Int) /\ n \in Nat /\ \A i, j \in 1 .. n : b[i] = b[j] => i = j
  BY DEF Lists
<1>2. /\ \A v : v \in A <=> \E i \in 1 .. m : v = a[i]
      /\ \A v : v \in B <=> \E i \in 1 .. n : v = b[i]
  BY DEF Lists
<1>3. /\ l \in Seq(Int) /\ Len(l) = m + n
      /\ \A i \in 1 .. m + n : l[i] = IF i <= m THEN a[i] ELSE b[i - m]
  BY <1>1
<1> HIDE DEF l, m, n
<1>4. ASSUME NEW i \in 1 .. m + n
      PROVE  \/ i \in 1 .. m /\ l[i] = a[i] /\ l[i] \in A
             \/ i - m \in 1 .. n /\ ~(i <= m) /\ l[i] = b[i - m] /\ l[i] \in B
  BY <1>1, <1>2, <1>3
<1>5. ASSUME NEW i \in 1 .. m + n, NEW j \in 1 .. m + n, l[i] = l[j] PROVE i = j
  <2>1. \/ i \in 1 .. m /\ j \in 1 .. m /\ a[i] = a[j]
        \/ i - m \in 1 .. n /\ j - m \in 1 .. n /\ b[i - m] = b[j - m]
    BY <1>4, <1>5
  <2> QED BY <1>1, <2>1
<1>6. ASSUME NEW v PROVE v \in A \cup B <=> \E i \in 1 .. m + n : v = l[i]
  <2>1. ASSUME NEW i \in 1 .. m, v = a[i] PROVE \E j \in 1 .. m + n : v = l[j]
    <3>1. i \in 1 .. m + n /\ l[i] = a[i]
      BY <1>1, <1>3
    <3> QED BY <2>1, <3>1
  <2>2. ASSUME NEW i \in 1 .. n, v = b[i] PROVE \E j \in 1 .. m + n : v = l[j]
    <3>1. m + i \in 1 .. m + n /\ ~(m + i <= m) /\ (m + i) - m = i
      BY <1>1
    <3> QED BY <1>3, <2>2, <3>1
  <2> QED BY <1>2, <1>4, <2>1, <2>2
<1>7. A \cup B = {l[i] : i \in 1 .. m + n}
  BY <1>6
<1> QED BY <1>3, <1>5, <1>7 DEF Lists, l

\* A list put together of parts that may be missing.
Perhaps(yes, x) == IF yes THEN <<x>> ELSE <<>>
Only(yes, x) == IF yes THEN {x} ELSE {}

LEMMA ThreeJoined ==
  ASSUME NEW p \in BOOLEAN, NEW q \in BOOLEAN, NEW r \in BOOLEAN, NEW x, NEW y, NEW z,
         p => x \in Int, q => y \in Int, r => z \in Int, p /\ q => x # y, p /\ r => x # z, q /\ r => y # z
  PROVE  /\ Lists(Perhaps(p, x) \o Perhaps(q, y), Only(p, x) \cup Only(q, y))
         /\ Lists(Perhaps(p, x) \o Perhaps(q, y) \o Perhaps(r, z), Only(p, x) \cup Only(q, y) \cup Only(r, z))
<1>1. ASSUME NEW yes \in BOOLEAN, NEW v, yes => v \in Int PROVE Lists(Perhaps(yes, v), Only(yes, v))
  <2>1. v \in Int => Lists(<<v>>, {v})
    BY DEF Lists
  <2>2. Lists(<<>>, {})
    BY DEF Lists
  <2> QED BY <1>1, <2>1, <2>2 DEF Perhaps, Only
<1>2. Lists(Perhaps(p, x), Only(p, x)) /\ Lists(Perhaps(q, y), Only(q, y)) /\ Lists(Perhaps(r, z), Only(r, z))
  BY <1>1
<1>3. Only(p, x) \cap Only(q, y) = {} /\ (Only(p, x) \cup Only(q, y)) \cap Only(r, z) = {}
  BY DEF Only
<1>4. Lists(Perhaps(p, x) \o Perhaps(q, y), Only(p, x) \cup Only(q, y))
  BY <1>2, <1>3, Joined
<1> QED BY <1>2, <1>3, <1>4, Joined

\* The features that update takes out are those of the squares the move touches, each of them
\* once, and so are those it puts in.
LEMMA ListedFeatures ==
  ASSUME Sound(board, us, st), NEW m, Fits(m), m.type # CASTLING => m.to \notin PiecesOf(board, us),
         captured_by(m) # NO_PIECE => captured_by(m)[2] # KING, IsBoard(BoardAfter(m)),
         NEW arch \in Arch, NEW c \in Color, NEW k \in Square, k = king_square(board, c)
  PROVE  /\ Lists(subtracted(arch, c, m), FeatsOn(arch, c, k, board, Touched(m)))
         /\ Lists(added(arch, c, m), FeatsOn(arch, c, k, BoardAfter(m), Touched(m)))
<1> DEFINE f == BoardAfter(m)
           cr == <<us, Side(m.from, m.to)>>
           D == Touched(m)
           rook == make_piece(us, ROOK)
           h == rook_home(cr)
           g == rook_to(cr)
           e == capture_square(m)
           caught == captured_by(m)
           placed == placed_by(m)
           p == IsFeature(arch, board[m.from])
           q == m.type = CASTLING
           r == caught # NO_PIECE
           x == Index(arch, c, k, board[m.from], m.from)
           y == Index(arch, c, k, rook, h)
           z == Index(arch, c, k, caught, e)
           v == Index(arch, c, k, placed, kto(m))
           w == Index(arch, c, k, rook, g)
<1>1. /\ \A s : s \in DOMAIN board \cap D <=> s = m.from \/ (q /\ s = h) \/ (r /\ s = e)
      /\ \A s : s \in DOMAIN f \cap D <=> s = kto(m) \/ (q /\ s = g)
      /\ m.from # e /\ kto(m) \in Square
      /\ q => /\ m.from # h /\ ~r /\ board[h] = rook /\ h \in DOMAIN board
              /\ f[g] = rook /\ g \in DOMAIN f /\ kto(m) # g
      /\ r => board[e] = caught
      /\ f[kto(m)] = placed /\ kto(m) \in DOMAIN f
  BY TouchedPieces
<1>2. /\ DOMAIN board \subseteq Square /\ \A s \in DOMAIN board : board[s] \in Piece
      /\ DOMAIN f \subseteq Square /\ \A s \in DOMAIN f : f[s] \in Piece
      /\ m.from \in DOMAIN board
  BY DEF Sound, IsBoard, Fits
<1>3. /\ rook \in Piece /\ rook[2] # KING
  <2>1. us \in Color /\ ROOK \in PieceType /\ ROOK # KING
    BY TwoSides, Words DEF PieceType
  <2> QED BY <2>1 DEF make_piece, Piece
<1>4. IsFeature(arch, placed) <=> p
  <2>1. ASSUME m.type = PROMOTION PROVE board[m.from][2] # KING /\ placed[2] # KING
    <3>1. board[m.from] = make_piece(us, PAWN) /\ m.promotion \in PieceType \ {PAWN, KING}
      BY <2>1, PiecesOfMoves
    <3>2. board[m.from][2] = PAWN /\ placed[2] = m.promotion
      BY <2>1, <3>1 DEF placed_by, make_piece
    <3> QED BY <3>1, <3>2, Words
  <2>2. m.type # PROMOTION => placed = board[m.from]
    BY DEF placed_by
  <2> QED BY <2>1, <2>2 DEF IsFeature
<1>5. \A pc : pc[2] # KING => IsFeature(arch, pc)
  BY DEF IsFeature
<1>6. p \in BOOLEAN /\ q \in BOOLEAN /\ r \in BOOLEAN
  BY DEF IsFeature
<1>7. /\ subtracted(arch, c, m) = Perhaps(p, x) \o Perhaps(q, y) \o Perhaps(r, z)
      /\ added(arch, c, m) = Perhaps(p, v) \o Perhaps(q, w)
  BY DEF subtracted, added, Perhaps
<1>8. /\ \A i : i \in FeatsOn(arch, c, k, board, D) <=>
           \E s \in D : s \in DOMAIN board /\ IsFeature(arch, board[s]) /\ i = Index(arch, c, k, board[s], s)
      /\ \A i : i \in FeatsOn(arch, c, k, f, D) <=>
           \E s \in D : s \in DOMAIN f /\ IsFeature(arch, f[s]) /\ i = Index(arch, c, k, f[s], s)
  BY FeatureOfSquare
<1>9. q => h \in Square /\ g \in Square
  BY <1>1, <1>2
<1>10. r => e \in Square /\ caught \in Piece /\ IsFeature(arch, caught)
  BY <1>1, <1>2, <1>5
<1>11. m.from \in Square /\ board[m.from] \in Piece /\ placed \in Piece
  BY <1>1, <1>2
<1> HIDE DEF f, cr, D, rook, h, g, e, caught, placed, p, q, r
<1>12. /\ x \in Int /\ v \in Int
       /\ q => y \in Int /\ w \in Int
       /\ r => z \in Int
  BY <1>1, <1>3, <1>9, <1>10, <1>11, IndexSeparates
<1>13. /\ p /\ q => x # y /\ v # w
       /\ p /\ r => x # z
       /\ ~(q /\ r)
  <2>1. q => x # y
    BY <1>1, <1>3, <1>9, <1>11, IndexSeparates
  <2>2. q => v # w
    BY <1>1, <1>3, <1>9, <1>11, IndexSeparates
  <2>3. r => x # z
    BY <1>1, <1>10, <1>11, IndexSeparates
  <2> QED BY <1>1, <2>1, <2>2, <2>3
<1>14. FeatsOn(arch, c, k, board, D) = Only(p, x) \cup Only(q, y) \cup Only(r, z)
  <2>1. ASSUME NEW i \in FeatsOn(arch, c, k, board, D) PROVE (p /\ i = x) \/ (q /\ i = y) \/ (r /\ i = z)
    <3>1. PICK s \in D : s \in DOMAIN board /\ IsFeature(arch, board[s]) /\ i = Index(arch, c, k, board[s], s)
      BY <1>8, <2>1
    <3>2. s = m.from \/ (q /\ s = h) \/ (r /\ s = e)
      BY <1>1, <3>1
    <3> QED BY <1>1, <3>1, <3>2 DEF p
  <2>2. p => x \in FeatsOn(arch, c, k, board, D)
    <3>1. m.from \in D /\ m.from \in DOMAIN board
      BY <1>1, <1>2
    <3> QED BY <1>8, <3>1 DEF p
  <2>3. q => y \in FeatsOn(arch, c, k, board, D)
    <3>1. q => h \in D /\ h \in DOMAIN board /\ board[h] = rook /\ IsFeature(arch, rook)
      BY <1>1, <1>3, <1>5
    <3> QED BY <1>8, <3>1
  <2>4. r => z \in FeatsOn(arch, c, k, board, D)
    <3>1. r => e \in D /\ e \in DOMAIN board /\ board[e] = caught /\ IsFeature(arch, caught)
      BY <1>1, <1>10
    <3> QED BY <1>8, <3>1
  <2> HIDE DEF x, y, z
  <2> QED BY <2>1, <2>2, <2>3, <2>4 DEF Only
<1>15. FeatsOn(arch, c, k, f, D) = Only(p, v) \cup Only(q, w)
  <2>1. ASSUME NEW i \in FeatsOn(arch, c, k, f, D) PROVE (p /\ i = v) \/ (q /\ i = w)
    <3>1. PICK s \in D : s \in DOMAIN f /\ IsFeature(arch, f[s]) /\ i = Index(arch, c, k, f[s], s)
      BY <1>8, <2>1
    <3>2. s = kto(m) \/ (q /\ s = g)
      BY <1>1, <3>1
    <3> QED BY <1>1, <1>4, <3>1, <3>2
  <2>2. p => v \in FeatsOn(arch, c, k, f, D)
    <3>1. kto(m) \in D /\ kto(m) \in DOMAIN f /\ f[kto(m)] = placed
      BY <1>1
    <3> QED BY <1>4, <1>8, <3>1
  <2>3. q => w \in FeatsOn(arch, c, k, f, D)
    <3>1. q => g \in D /\ g \in DOMAIN f /\ f[g] = rook /\ IsFeature(arch, rook)
      BY <1>1, <1>3, <1>5
    <3> QED BY <1>8, <3>1
  <2> HIDE DEF v, w
  <2> QED BY <2>1, <2>2, <2>3 DEF Only
<1> HIDE DEF x, y, z, v, w
<1>16. Lists(subtracted(arch, c, m), FeatsOn(arch, c, k, board, D))
  <2>1. Lists(Perhaps(p, x) \o Perhaps(q, y) \o Perhaps(r, z), Only(p, x) \cup Only(q, y) \cup Only(r, z))
    <3>1. /\ p => x \in Int
          /\ q => y \in Int
          /\ r => z \in Int
          /\ p /\ q => x # y
          /\ p /\ r => x # z
          /\ q /\ r => y # z
      BY ONLY <1>12, <1>13
    <3> QED BY ONLY <1>6, <3>1, ThreeJoined
  <2> QED BY ONLY <1>7, <1>14, <2>1
<1>17. Lists(Perhaps(p, v) \o Perhaps(q, w), Only(p, v) \cup Only(q, w))
  <2>1. /\ p => v \in Int
        /\ q => w \in Int
        /\ p /\ q => v # w
    BY ONLY <1>12, <1>13
  <2>2. FALSE \in BOOLEAN
    OBVIOUS
  <2> QED BY ONLY <1>6, <2>1, <2>2, ThreeJoined
<1> QED BY <1>7, <1>15, <1>16, <1>17 DEF f, D

\* What update builds anew for a king that has moved are the features of the next board.
LEMMA RebuiltIsOnes ==
  ASSUME Sound(board, us, st), NEW m, Fits(m), m.type # CASTLING => m.to \notin PiecesOf(board, us),
         board[m.from][2] = KING, IsBoard(BoardAfter(m)), NEW arch \in Arch
  PROVE  rebuilt(arch, m) = Ones(Feats(arch, us, kto(m), BoardAfter(m)))
<1> DEFINE f == BoardAfter(m)
           cr == <<us, Side(m.from, m.to)>>
           D == Touched(m)
           h == rook_home(cr)
           g == rook_to(cr)
           e == capture_square(m)
           k == kto(m)
           a == m.from
           q == m.type = CASTLING
           r == captured_by(m) # NO_PIECE
           gone == IF captured_by(m) = NO_PIECE THEN {} ELSE {e}
           S == DOMAIN board \ gone
           to == [s \in DOMAIN board |-> IF s = a THEN k ELSE IF m.type = CASTLING /\ s = h THEN g ELSE s]
           F == {s \in S : IsFeature(arch, board[s])}
<1>1. /\ \A s : s \notin D => /\ s \in DOMAIN board <=> s \in DOMAIN f
                              /\ s \in DOMAIN board => board[s] = f[s]
      /\ \A s : s \in DOMAIN board \cap D <=> s = a \/ (q /\ s = h) \/ (r /\ s = e)
      /\ \A s : s \in DOMAIN f \cap D <=> s = k \/ (q /\ s = g)
      /\ a # e /\ k \in Square
      /\ q => /\ a # h /\ ~r /\ board[h] = make_piece(us, ROOK) /\ h \in DOMAIN board
              /\ f[g] = make_piece(us, ROOK) /\ g \in DOMAIN f /\ k # g
      /\ f[k] = placed_by(m) /\ k \in DOMAIN f
  BY TouchedPieces
<1>2. /\ DOMAIN board \subseteq Square /\ \A s \in DOMAIN board : board[s] \in Piece
      /\ DOMAIN f \subseteq Square /\ \A s \in DOMAIN f : f[s] \in Piece
      /\ a \in DOMAIN board /\ us \in Color
  BY DEF Sound, IsBoard, Fits
<1>3. placed_by(m) = board[a]
  <2>1. m.type # PROMOTION
    <3>1. m.type = PROMOTION => board[m.from] = make_piece(us, PAWN)
      BY PiecesOfMoves
    <3>2. PAWN # KING
      BY Words
    <3> QED BY <3>1, <3>2 DEF make_piece
  <2> QED BY <2>1 DEF placed_by
<1>4. rebuilt(arch, m) = SumOf(arch, us, k, board, S, to)
  BY DEF rebuilt
<1>5. \A s \in S : s \in DOMAIN board /\ to[s] = IF s = a THEN k ELSE IF q /\ s = h THEN g ELSE s
  OBVIOUS
<1>6. \A s : s \in S <=> s \in DOMAIN board /\ (r => s # e)
  OBVIOUS
<1>7. /\ F = {s \in S : IsFeature(arch, board[s])}
      /\ \A s : s \in F <=> s \in S /\ IsFeature(arch, board[s])
  OBVIOUS
<1>8. IsFiniteSet(S)
  <2>1. IsFiniteSet(0 .. 63)
    BY 0 \in Int, 63 \in Int, FS_Interval
  <2> QED BY <1>2, <2>1, FS_Subset DEF Square
<1> HIDE DEF f, cr, D, h, g, e, k, a, q, r, gone, S, to, F
<1>9. ASSUME NEW s \in S
      PROVE  /\ to[s] \in DOMAIN f /\ f[to[s]] = board[s]
             /\ \/ s = a /\ to[s] = k
                \/ s # a /\ q /\ s = h /\ to[s] = g
                \/ s # a /\ to[s] = s /\ s \notin D
  BY <1>1, <1>3, <1>5, <1>6
<1>10. k \in D /\ (q => g \in D)
  BY <1>1
<1>11. ASSUME NEW s \in S, NEW t \in S, to[s] = to[t] PROVE s = t
  BY <1>1, <1>9, <1>10, <1>11
<1>12. ASSUME NEW t \in DOMAIN f PROVE \E s \in S : to[s] = t
  <2>1. CASE t \in D
    <3>1. t = k \/ (q /\ t = g)
      BY <1>1, <2>1
    <3>2. a \in S /\ to[a] = k
      BY <1>1, <1>2, <1>5, <1>6
    <3>3. q => h \in S /\ to[h] = g
      BY <1>1, <1>5, <1>6
    <3> QED BY <3>1, <3>2, <3>3
  <2>2. CASE t \notin D
    <3>1. t \in DOMAIN board /\ t # a /\ ~(q /\ t = h) /\ ~(r /\ t = e)
      BY <1>1, <2>2
    <3> QED BY <1>5, <1>6, <3>1
  <2> QED BY <2>1, <2>2
<1>13. \A s, t \in F : Index(arch, us, k, board[s], to[s]) = Index(arch, us, k, board[t], to[t]) => s = t
  <2>1. ASSUME NEW s \in F, NEW t \in F, Index(arch, us, k, board[s], to[s]) = Index(arch, us, k, board[t], to[t])
        PROVE  s = t
    <3>1. s \in S /\ t \in S
      BY <1>7
    <3>2. to[s] \in Square /\ to[t] \in Square /\ board[s] \in Piece /\ board[t] \in Piece
      BY <1>2, <1>5, <1>9, <3>1
    <3>3. to[s] = to[t]
      BY ONLY <1>1, <1>2, <2>1, <3>2, arch \in Arch, IndexSeparates
    <3> QED BY <1>11, <3>1, <3>3
  <2> QED BY <2>1
<1>14. SumOf(arch, us, k, board, S, to) = Ones({Index(arch, us, k, board[s], to[s]) : s \in F})
  BY <1>7, <1>8, <1>13, SumIsOnes
<1>15. ASSUME NEW i
       PROVE  i \in {Index(arch, us, k, board[s], to[s]) : s \in F} <=> i \in Feats(arch, us, k, f)
  <2>1. i \in Feats(arch, us, k, f) <=>
          \E t \in DOMAIN f : IsFeature(arch, f[t]) /\ i = Index(arch, us, k, f[t], t)
    BY FeatureOfSquare DEF Feats
  <2>2. ASSUME NEW s \in F, i = Index(arch, us, k, board[s], to[s]) PROVE i \in Feats(arch, us, k, f)
    BY <1>7, <1>9, <2>1, <2>2
  <2>3. ASSUME NEW t \in DOMAIN f, IsFeature(arch, f[t]), i = Index(arch, us, k, f[t], t)
        PROVE  \E s \in F : i = Index(arch, us, k, board[s], to[s])
    <3>1. PICK s \in S : to[s] = t
      BY <1>12
    <3>2. f[t] = board[s]
      BY <1>9, <3>1
    <3> QED BY <1>7, <2>3, <3>1, <3>2
  <2> QED BY <2>1, <2>2, <2>3
<1> QED BY <1>4, <1>14, <1>15 DEF f, k

\* A position's features are within the network's inputs, and as many as its pieces.
LEMMA FeatsCounted ==
  ASSUME NEW arch \in Arch, NEW c \in Color, NEW k \in Square, NEW b, IsBoard(b)
  PROVE  /\ Feats(arch, c, k, b) \subseteq 0 .. (IF arch = HALFKP THEN 41024 ELSE 22528) - 1
         /\ Cardinality(Feats(arch, c, k, b)) = Cardinality({s \in DOMAIN b : IsFeature(arch, b[s])})
<1> DEFINE F == {s \in DOMAIN b : IsFeature(arch, b[s])}
           E == Feats(arch, c, k, b)
           ix == [s \in F |-> Index(arch, c, k, b[s], s)]
<1>1. DOMAIN b \subseteq Square /\ \A s \in DOMAIN b : b[s] \in Piece
  BY DEF IsBoard
<1>2. \A i : i \in E <=> \E s \in DOMAIN b : IsFeature(arch, b[s]) /\ i = Index(arch, c, k, b[s], s)
  BY FeatureOfSquare DEF Feats
<1>3. \A s : s \in F <=> s \in DOMAIN b /\ IsFeature(arch, b[s])
  OBVIOUS
<1>4. DOMAIN ix = F /\ \A s \in F : ix[s] = Index(arch, c, k, b[s], s)
  OBVIOUS
<1>5. IsFiniteSet(F)
  <2>1. IsFiniteSet(0 .. 63)
    BY 0 \in Int, 63 \in Int, FS_Interval
  <2> QED BY <1>1, <2>1, FS_Subset DEF Square
<1>6. ix \in [F -> E]
  <2>1. \A s \in F : Index(arch, c, k, b[s], s) \in E
    BY <1>2, <1>3
  <2> HIDE DEF E, F
  <2> QED BY <2>1
<1> HIDE DEF E, F, ix
<1>7. \A s, t \in F : ix[s] = ix[t] => s = t
  <2>1. ASSUME NEW s \in F, NEW t \in F, ix[s] = ix[t] PROVE s = t
    <3>1. s \in Square /\ t \in Square /\ b[s] \in Piece /\ b[t] \in Piece
      BY <1>1, <1>3
    <3>2. Index(arch, c, k, b[s], s) = Index(arch, c, k, b[t], t)
      BY <1>4, <2>1
    <3> QED BY ONLY <3>1, <3>2, arch \in Arch, c \in Color, k \in Square, IndexSeparates
  <2> QED BY <2>1
<1>8. \A i \in E : \E s \in F : ix[s] = i
  BY <1>2, <1>3, <1>4
<1>9. ix \in Bijection(F, E)
  BY <1>4, <1>6, <1>7, <1>8 DEF Bijection, Injection, Surjection, IsInjective
<1>10. Cardinality(E) = Cardinality(F)
  BY <1>5, <1>9, FS_Bijection DEF ExistsBijection
<1>11. ASSUME NEW i \in E PROVE i \in 0 .. (IF arch = HALFKP THEN 41024 ELSE 22528) - 1
  <2>1. PICK s \in DOMAIN b : IsFeature(arch, b[s]) /\ i = Index(arch, c, k, b[s], s)
    BY <1>2, <1>11
  <2>2. s \in Square /\ b[s] \in Piece
    BY <1>1
  <2> QED BY ONLY <2>1, <2>2, arch \in Arch, c \in Color, k \in Square, IndexSeparates
<1> QED BY <1>10, <1>11 DEF E, F

\* The modern architecture's index of a piece, and of its mirrored self for the other side.
LEMMA IndexMirrors ==
  ASSUME NEW c \in Color, NEW k \in Square, NEW s \in Square, NEW pc \in Piece
  PROVE  LET mirror(t) == relative_square(BLACK, t)
         IN  Index(HALFKAV2_HM, Opposite(c), mirror(k), make_piece(Opposite(pc[1]), pc[2]), mirror(s))
               = Index(HALFKAV2_HM, c, k, pc, s)
<1> DEFINE mirror(t) == relative_square(BLACK, t)
           d == Opposite(c)
           qc == make_piece(Opposite(pc[1]), pc[2])
<1>1. /\ BLACK \in Color /\ BLACK # WHITE /\ d \in Color /\ (d = WHITE <=> c # WHITE)
      /\ pc[1] \in Color /\ (Opposite(pc[1]) = d <=> pc[1] = c)
  BY DEF Color, WHITE, BLACK, Opposite, Piece
<1>2. \A t \in Square : /\ mirror(t) \in Square
                        /\ rank_of(mirror(t)) = 7 - rank_of(t) /\ file_of(mirror(t)) = file_of(t)
                        /\ rank_of(t) \in 0 .. 7 /\ file_of(t) \in 0 .. 7
  BY <1>1, SeenSquares, Coordinates
<1>3. Plane(d, qc) = Plane(c, pc)
  <2>1. qc[2] = pc[2] /\ qc[1] = Opposite(pc[1])
    BY DEF make_piece
  <2> HIDE DEF d, qc
  <2> QED BY <1>1, <2>1 DEF Plane
<1>4. ASSUME NEW t \in Square PROVE orient_v4(d, mirror(t), mirror(k)) = orient_v4(c, t, k)
  <2>1. orient_v4(c, t, k)
          = 8 * (IF c = WHITE THEN rank_of(t) ELSE 7 - rank_of(t))
              + (IF file_of(k) < 4 THEN 7 - file_of(t) ELSE file_of(t))
    BY SeenSquares
  <2>2. orient_v4(d, mirror(t), mirror(k))
          = 8 * (IF d = WHITE THEN rank_of(mirror(t)) ELSE 7 - rank_of(mirror(t)))
              + (IF file_of(mirror(k)) < 4 THEN 7 - file_of(mirror(t)) ELSE file_of(mirror(t)))
    BY <1>1, <1>2, SeenSquares
  <2> HIDE DEF mirror, d
  <2> QED BY <1>1, <1>2, <2>1, <2>2
<1>5. HALFKAV2_HM # HALFKP
  BY DEF HALFKP, HALFKAV2_HM
<1> HIDE DEF mirror, d, qc
<1> QED BY <1>3, <1>4, <1>5 DEF Index, make_index_v4, mirror, d, qc

\* The mirrored position, as NetworkExact has it.
Mirrored(b) ==
  [s \in {relative_square(BLACK, t) : t \in DOMAIN b} |->
     LET pc == b[relative_square(BLACK, s)] IN make_piece(Opposite(pc[1]), pc[2])]

\* It is a board, and either side sees in it what the other saw.
LEMMA MirrorSees ==
  ASSUME NEW b, IsBoard(b), NEW c \in Color, NEW k \in DOMAIN b, b[k] = make_piece(c, KING)
  PROVE  refresh_perspective(HALFKAV2_HM, Mirrored(b), Opposite(c)) = refresh_perspective(HALFKAV2_HM, b, c)
<1> DEFINE mirror(t) == relative_square(BLACK, t)
           turned(pc) == make_piece(Opposite(pc[1]), pc[2])
           f == Mirrored(b)
           d == Opposite(c)
           A == HALFKAV2_HM
<1>1. /\ DOMAIN b \subseteq Square /\ \A s \in DOMAIN b : b[s] \in Piece
      /\ \A s, t \in DOMAIN b : b[s] = b[t] /\ b[s][2] = KING => s = t
  BY DEF IsBoard
<1>2. ASSUME NEW t \in Square PROVE mirror(t) \in Square /\ mirror(mirror(t)) = t
  <2>1. BLACK \in Color /\ BLACK # WHITE
    BY DEF Color, WHITE, BLACK
  <2>2. ASSUME NEW s \in Square
        PROVE  /\ mirror(s) \in Square /\ mirror(s) = 8 * (7 - rank_of(s)) + file_of(s)
               /\ rank_of(mirror(s)) = 7 - rank_of(s) /\ file_of(mirror(s)) = file_of(s)
               /\ rank_of(s) \in 0 .. 7 /\ s = 8 * rank_of(s) + file_of(s)
    BY <2>1, SeenSquares, Coordinates
  <2> HIDE DEF mirror
  <2>3. mirror(t) \in Square /\ rank_of(mirror(t)) = 7 - rank_of(t) /\ file_of(mirror(t)) = file_of(t)
        /\ rank_of(t) \in 0 .. 7 /\ t = 8 * rank_of(t) + file_of(t)
    BY <2>2
  <2>4. mirror(mirror(t)) = 8 * (7 - rank_of(mirror(t))) + file_of(mirror(t))
    BY <2>2, <2>3
  <2>5. 7 - (7 - rank_of(t)) = rank_of(t)
    BY <2>3
  <2> QED BY <2>3, <2>4, <2>5
<1>3. \A pc \in Piece : /\ turned(pc) \in Piece /\ turned(pc)[2] = pc[2] /\ turned(pc)[1] = Opposite(pc[1])
                        /\ Opposite(turned(pc)[1]) = pc[1] /\ pc = <<pc[1], pc[2]>>
  BY DEF Piece, Color, WHITE, BLACK, Opposite, make_piece
<1>4. /\ f = [s \in {mirror(t) : t \in DOMAIN b} |-> turned(b[mirror(s)])]
      /\ DOMAIN f = {mirror(t) : t \in DOMAIN b}
      /\ \A s \in DOMAIN f : f[s] = turned(b[mirror(s)])
  BY DEF Mirrored
<1>5. turned(make_piece(c, KING)) = make_piece(d, KING) /\ d \in Color
  BY DEF make_piece, Color, WHITE, BLACK, Opposite
<1> HIDE DEF mirror, turned, f, d
<1>6. \A t \in DOMAIN b : mirror(t) \in DOMAIN f /\ f[mirror(t)] = turned(b[t]) /\ mirror(t) \in Square
  BY <1>1, <1>2, <1>4
<1>7. \A s \in DOMAIN f : mirror(s) \in DOMAIN b /\ s = mirror(mirror(s)) /\ s \in Square /\ f[s] = turned(b[mirror(s)])
  BY <1>1, <1>2, <1>4
<1>8. IsBoard(f)
  <2>1. DOMAIN f \subseteq Square /\ \A s \in DOMAIN f : f[s] \in Piece
    BY <1>1, <1>3, <1>7
  <2>2. ASSUME NEW s \in DOMAIN f, NEW t \in DOMAIN f, f[s] = f[t], f[s][2] = KING PROVE s = t
    <3>1. /\ mirror(s) \in DOMAIN b /\ mirror(t) \in DOMAIN b
          /\ turned(b[mirror(s)]) = turned(b[mirror(t)]) /\ turned(b[mirror(s)])[2] = KING
      BY <1>7, <2>2
    <3>2. b[mirror(s)] = b[mirror(t)] /\ b[mirror(s)][2] = KING
      BY <1>1, <1>3, <3>1
    <3>3. mirror(s) = mirror(t)
      BY <1>1, <3>1, <3>2
    <3> QED BY <1>7, <3>3
  <2>3. f = [s \in DOMAIN f |-> f[s]]
    BY <1>4, <1>7 DEF f, Mirrored
  <2> QED BY <2>1, <2>2, <2>3 DEF IsBoard
<1>9. /\ k \in Square /\ king_square(b, c) = k /\ mirror(k) \in Square /\ king_square(f, d) = mirror(k)
  <2>1. mirror(k) \in DOMAIN f /\ f[mirror(k)] = make_piece(d, KING)
    BY <1>5, <1>6
  <2> QED BY <1>8, <2>1, KingStandsOn
<1>10. A \in Arch
  BY DEF Arch
<1> HIDE DEF A
<1>11. /\ refresh_perspective(A, b, c) = Ones(Feats(A, c, k, b))
       /\ refresh_perspective(A, f, d) = Ones(Feats(A, d, mirror(k), f))
  BY <1>5, <1>8, <1>9, <1>10, RefreshIsOnes
<1>12. ASSUME NEW t \in DOMAIN b
       PROVE  /\ Index(A, d, mirror(k), f[mirror(t)], mirror(t)) = Index(A, c, k, b[t], t)
              /\ IsFeature(A, f[mirror(t)]) <=> IsFeature(A, b[t])
  <2>1. Index(A, d, mirror(k), turned(b[t]), mirror(t)) = Index(A, c, k, b[t], t)
    BY <1>1, <1>9, IndexMirrors DEF mirror, turned, d, A
  <2> QED BY <1>1, <1>3, <1>6, <2>1 DEF IsFeature
<1>13. ASSUME NEW i PROVE i \in Feats(A, d, mirror(k), f) <=> i \in Feats(A, c, k, b)
  <2>1. /\ i \in Feats(A, c, k, b) <=>
             \E t \in DOMAIN b : IsFeature(A, b[t]) /\ i = Index(A, c, k, b[t], t)
        /\ i \in Feats(A, d, mirror(k), f) <=>
             \E s \in DOMAIN f : IsFeature(A, f[s]) /\ i = Index(A, d, mirror(k), f[s], s)
    BY FeatureOfSquare DEF Feats
  <2>2. ASSUME NEW s \in DOMAIN f, IsFeature(A, f[s]), i = Index(A, d, mirror(k), f[s], s)
        PROVE  \E t \in DOMAIN b : IsFeature(A, b[t]) /\ i = Index(A, c, k, b[t], t)
    <3>1. mirror(s) \in DOMAIN b /\ s = mirror(mirror(s))
      BY <1>7
    <3>2. /\ Index(A, d, mirror(k), f[s], s) = Index(A, c, k, b[mirror(s)], mirror(s))
          /\ IsFeature(A, f[s]) <=> IsFeature(A, b[mirror(s)])
      BY <1>12, <3>1
    <3> QED BY <2>2, <3>1, <3>2
  <2>3. ASSUME NEW t \in DOMAIN b, IsFeature(A, b[t]), i = Index(A, c, k, b[t], t)
        PROVE  \E s \in DOMAIN f : IsFeature(A, f[s]) /\ i = Index(A, d, mirror(k), f[s], s)
    BY <1>6, <1>12, <2>3
  <2> QED BY <2>1, <2>2, <2>3
<1>14. Feats(A, d, mirror(k), f) = Feats(A, c, k, b)
  BY <1>13
<1> QED BY <1>11, <1>14 DEF f, d, A

\* No king is taken, and every king stands where it stood but for one that has moved.
LEMMA KingsAfterMove ==
  ASSUME Sound(board, us, st), BothKings, CheckersExact, EpBehind, ~Rules!InCheck(board, them),
         NEW m \in LegalMoves, NEW f, f = BoardAfter(m)
  PROVE  /\ Fits(m) /\ (m.type # CASTLING => m.to \notin PiecesOf(board, us)) /\ IsBoard(f)
         /\ captured_by(m) # NO_PIECE => captured_by(m)[2] # KING
         /\ \A c \in Color : c # us \/ board[m.from][2] # KING =>
              king_square(f, c) = king_square(board, c) /\ king_square(board, c) \in Square
         /\ board[m.from][2] = KING => king_square(f, us) = kto(m) /\ kto(m) \in Square
<1> DEFINE k == king_square(board, them)  j == king_square(board, us)
<1>1. Wandering(m) \/ (m \in generate_castling /\ legal(m))
  BY SafelyMoved
<1>2. Fits(m) /\ IsBoard(f)
  BY LegalMovesFit, BoardStaysBoard
<1>3. /\ Wandering(m) => m.type # CASTLING /\ m.to \notin PiecesOf(board, us)
      /\ m \in generate_castling => m.type = CASTLING
  BY WanderingFits, Parts DEF generate_castling
<1>4. /\ us \in Color /\ them \in Color /\ them # us /\ \A c \in Color : c = us \/ c = them
      /\ \A s \in DOMAIN board : board[s] \in Piece /\ (board[s][1] = us \/ board[s][1] = them)
  BY TwoSides DEF Color, Opposite, WHITE, BLACK
<1>5. /\ k \in Square /\ k # m.to /\ king_square(f, them) = k
  BY <1>1, TheirKingStays
<1>6. /\ j \in DOMAIN board /\ j \in Square /\ board[j] = make_piece(us, KING)
      /\ \A s \in DOMAIN board : board[s][1] = us /\ board[s][2] = KING => s = j
      /\ \A s \in DOMAIN board : board[s][1] = them /\ board[s][2] = KING => s = k
  BY <1>4, TheKing
<1>7. m.from \in DOMAIN board /\ board[m.from][1] = us /\ m.from # m.to
  BY <1>2 DEF Fits
<1>8. captured_by(m) # NO_PIECE => captured_by(m)[2] # KING
  <2>1. CASE m.type = EN_PASSANT
    BY <2>1, Words DEF captured_by, make_piece
  <2>2. CASE m.type = CASTLING
    BY <2>2, Words DEF captured_by
  <2>3. CASE m.type # EN_PASSANT /\ m.type # CASTLING
    <3>1. captured_by(m) = piece_on(m.to)
      BY <2>3 DEF captured_by
    <3>2. m.to \in DOMAIN board => board[m.to][2] # KING
      <4>1. m.to \notin PiecesOf(board, us)
        BY <1>1, <1>3, <2>3
      <4>2. m.to \in DOMAIN board => board[m.to][1] = them
        BY <1>4, <4>1 DEF PiecesOf
      <4> QED BY <1>5, <1>6, <4>2
    <3> QED BY <3>1, <3>2 DEF piece_on
  <2> QED BY <2>1, <2>2, <2>3
<1>9. ASSUME board[m.from][2] # KING PROVE king_square(f, us) = j
  <2>1. m.from # j
    BY <1>6, <1>9 DEF make_piece
  <2>2. m.type # CASTLING
    <3>1. m.type = CASTLING => board[m.from] = make_piece(us, KING)
      BY <1>2, CastlingShape DEF StandsOn
    <3> QED BY <1>9, <3>1 DEF make_piece
  <2>3. m.to # j
    <3>1. m.to \notin PiecesOf(board, us)
      BY <1>1, <1>3, <2>2
    <3> QED BY <1>6, <3>1 DEF PiecesOf, make_piece
  <2>4. make_piece(us, KING)[2] # PAWN
    BY Words DEF make_piece
  <2>5. StandsOn(board, make_piece(us, KING), j)
    BY <1>6 DEF StandsOn
  <2> HIDE DEF j
  <2>6. StandsOn(f, make_piece(us, KING), j)
    BY <1>2, <2>1, <2>2, <2>3, <2>4, <2>5, UntouchedStays
  <2> QED BY <1>2, <2>6, KingStandsOn DEF StandsOn
<1>10. ASSUME board[m.from][2] = KING PROVE king_square(f, us) = kto(m) /\ kto(m) \in Square
  <2>1. f[kto(m)] = placed_by(m) /\ kto(m) \in DOMAIN f
    <3>1. m.type # CASTLING => m.to \notin PiecesOf(board, us)
      BY <1>1, <1>3
    <3>2. Fits(m)
      BY <1>2
    <3>3. BoardAfter(m)[kto(m)] = placed_by(m) /\ kto(m) \in DOMAIN BoardAfter(m)
      BY ONLY Sound(board, us, st), <3>1, <3>2, TouchedPieces
    <3> QED BY ONLY f = BoardAfter(m), <3>3
  <2>2. m.type # PROMOTION
    <3>1. m.type = PROMOTION => board[m.from] = make_piece(us, PAWN)
      BY <1>2, PiecesOfMoves
    <3>2. PAWN # KING
      BY Words
    <3> QED BY <1>10, <3>1, <3>2 DEF make_piece
  <2>3. placed_by(m) = board[m.from]
    BY <2>2 DEF placed_by
  <2>4. board[m.from] = make_piece(us, KING)
    BY <1>6, <1>7, <1>10
  <2> QED BY <1>2, <2>1, <2>3, <2>4, KingStandsOn
<1> QED BY <1>1, <1>2, <1>3, <1>4, <1>5, <1>6, <1>8, <1>9, <1>10

\* update of what refresh has built comes to what it would build from the next board.
LEMMA UpdateIsRefresh ==
  ASSUME Sound(board, us, st), BothKings, CheckersExact, EpBehind, ~Rules!InCheck(board, them),
         NEW m \in LegalMoves, NEW arch \in Arch
  PROVE  update(arch, refresh(arch, board), m) = refresh(arch, BoardAfter(m))
<1> DEFINE f == BoardAfter(m)
           parent == refresh(arch, board)
           After(c) == IF c = us /\ board[m.from][2] = KING THEN rebuilt(arch, m)
                       ELSE AddAll(Subtract(parent[c], subtracted(arch, c, m)), added(arch, c, m))
<1>1. /\ Fits(m) /\ (m.type # CASTLING => m.to \notin PiecesOf(board, us)) /\ IsBoard(f)
      /\ captured_by(m) # NO_PIECE => captured_by(m)[2] # KING
      /\ \A c \in Color : c # us \/ board[m.from][2] # KING =>
           king_square(f, c) = king_square(board, c) /\ king_square(board, c) \in Square
      /\ board[m.from][2] = KING => king_square(f, us) = kto(m) /\ kto(m) \in Square
  BY KingsAfterMove
<1>2. us \in Color /\ IsBoard(board)
  BY DEF Sound
<1>3. \A c \in Color : parent[c] = refresh_perspective(arch, board, c)
  BY DEF refresh
<1>4. /\ update(arch, parent, m) = [c \in Color |-> After(c)]
      /\ refresh(arch, f) = [c \in Color |-> refresh_perspective(arch, f, c)]
  BY DEF update, refresh
<1>5. ASSUME NEW c \in Color PROVE After(c) = refresh_perspective(arch, f, c)
  <2>1. CASE c = us /\ board[m.from][2] = KING
    <3>1. rebuilt(arch, m) = Ones(Feats(arch, us, kto(m), f))
      BY <1>1, <2>1, RebuiltIsOnes
    <3>2. refresh_perspective(arch, f, us) = Ones(Feats(arch, us, kto(m), f))
      <4> HIDE DEF f
      <4> QED BY <1>1, <1>2, <2>1, RefreshIsOnes
    <3> QED BY <2>1, <3>1, <3>2
  <2>2. CASE c # us \/ board[m.from][2] # KING
    <3> DEFINE k == king_square(board, c)
               D == Touched(m)
               R == FeatsOn(arch, c, k, board, D)
               C == FeatsOn(arch, c, k, f, D)
               B == Feats(arch, c, k, board)
    <3>1. k \in Square /\ k = king_square(f, c)
      BY <1>1, <2>2
    <3>2. Lists(subtracted(arch, c, m), R) /\ Lists(added(arch, c, m), C)
      BY <1>1, <3>1, ListedFeatures
    <3>3. \A q : q \notin D => /\ q \in DOMAIN board <=> q \in DOMAIN f
                               /\ q \in DOMAIN board => board[q] = f[q]
      <4>1. Fits(m) /\ (m.type # CASTLING => m.to \notin PiecesOf(board, us))
        BY ONLY <1>1
      <4> QED BY ONLY Sound(board, us, st), <4>1, TouchedPieces
    <3>4. parent[c] = Ones(B)
      BY <1>2, <1>3, <3>1, RefreshIsOnes
    <3> HIDE DEF f, k, D, R, C, B, parent
    <3>5. refresh_perspective(arch, f, c) = Ones(Feats(arch, c, k, f))
      BY <1>1, <3>1, RefreshIsOnes
    <3>6. R \subseteq B /\ C \cap (B \ R) = {} /\ (B \ R) \cup C = Feats(arch, c, k, f)
      BY <1>1, <1>2, <3>1, <3>3, FeatsChange DEF R, C, B
    <3>7. Subtract(Ones(B), subtracted(arch, c, m)) = Ones(B \ R)
      <4> DEFINE l == subtracted(arch, c, m)
      <4>1. l \in Seq(Int) /\ (\A i, j \in 1 .. Len(l) : l[i] = l[j] => i = j) /\ R = {l[i] : i \in 1 .. Len(l)}
        BY ONLY <3>2 DEF Lists
      <4> HIDE DEF l
      <4>2. Subtract(Ones(B), l) = Ones(B \ R)
        <5>1. R \subseteq B
          BY ONLY <3>6
        <5> QED BY ONLY <4>1, <5>1, ListIsOnes, ZenonT(30)
      <4> QED BY <4>2 DEF l
    <3>8. AddAll(Ones(B \ R), added(arch, c, m)) = Ones((B \ R) \cup C)
      <4> DEFINE l == added(arch, c, m)  Rest == B \ R
      <4>1. l \in Seq(Int) /\ (\A i, j \in 1 .. Len(l) : l[i] = l[j] => i = j) /\ C = {l[i] : i \in 1 .. Len(l)}
        BY ONLY <3>2 DEF Lists
      <4>2. C \cap Rest = {}
        BY ONLY <3>6
      <4> HIDE DEF l, Rest
      <4>3. AddAll(Ones(Rest), l) = Ones(Rest \cup C)
        BY ONLY <4>1, <4>2, ListIsOnes
      <4> QED BY <4>3 DEF l, Rest
    <3>9. After(c) = AddAll(Subtract(parent[c], subtracted(arch, c, m)), added(arch, c, m))
      BY <2>2
    <3> HIDE DEF After
    <3> QED BY <3>4, <3>5, <3>6, <3>7, <3>8, <3>9
  <2> QED BY <2>1, <2>2
<1> HIDE DEF After, f
<1> QED BY <1>4, <1>5 DEF f

\* From legal positions, whatever the line: the accumulators that update derives from move to
\* move are those refresh builds from the board, for either architecture and side, through
\* castling, en passant, promotions and captures by the king; a position's features are of the
\* network's inputs and one for each piece; and a side sees the mirrored position as the other
\* side sees this one (nnue.cpp: refresh and update).
THEOREM NetworkAlwaysExact ==
  ASSUME \A f \in StartPositions : LegalStart(f)
  PROVE  Spec /\ [][CastlesOffTheRank]_vars => []NetworkExact
<1>1. ASSUME LegalWalk PROVE NetworkExact
  <2> DEFINE Inputs(arch) == IF arch = HALFKP THEN 41024 ELSE 22528
             Counted(arch, sum) ==
               /\ DOMAIN sum \subseteq 0 .. Inputs(arch) - 1
               /\ Cardinality(DOMAIN sum) = Cardinality({s \in DOMAIN board : IsFeature(arch, board[s])})
  <2>1. /\ Sound(board, us, st) /\ BothKings /\ CheckersExact /\ EpBehind /\ ~Rules!InCheck(board, them)
        /\ IsBoard(board)
    BY <1>1, CurrentIsLegal DEF Sound
  <2>2. \A c \in Color : /\ king_square(board, c) \in DOMAIN board /\ king_square(board, c) \in Square
                         /\ board[king_square(board, c)] = make_piece(c, KING)
    BY <2>1, TheKing
  <2>3. \A arch \in Arch : \A m \in LegalMoves : update(arch, refresh(arch, board), m) = refresh(arch, BoardAfter(m))
    BY <2>1, UpdateIsRefresh
  <2>4. ASSUME NEW arch \in Arch, NEW c \in Color PROVE Counted(arch, refresh(arch, board)[c])
    <3> DEFINE k == king_square(board, c)  E == Feats(arch, c, k, board)
    <3>1. refresh(arch, board)[c] = refresh_perspective(arch, board, c)
      BY DEF refresh
    <3>2. refresh_perspective(arch, board, c) = Ones(E)
      BY <2>1, <2>2, RefreshIsOnes
    <3>3. DOMAIN Ones(E) = E
      BY DEF Ones
    <3>4. /\ E \subseteq 0 .. Inputs(arch) - 1
          /\ Cardinality(E) = Cardinality({s \in DOMAIN board : IsFeature(arch, board[s])})
      BY <2>1, <2>2, FeatsCounted
    <3> HIDE DEF E, Inputs
    <3> QED BY <3>1, <3>2, <3>3, <3>4
  <2>5. ASSUME NEW c \in Color
        PROVE  refresh_perspective(HALFKAV2_HM, Mirrored(board), Opposite(c)) = refresh_perspective(HALFKAV2_HM, board, c)
    BY <2>1, <2>2, MirrorSees
  <2> QED BY <2>3, <2>4, <2>5 DEF NetworkExact, Mirrored
<1> QED BY <1>1, WalkAlwaysLegal, PTL

-----------------------------------------------------------------------------
(* The opening book (OpeningBook).  A move is known by its squares and its *)
(* promotion, so Polyglot's way of writing moves names each of them.       *)

\* What is written for a promotion, and for any other move.
LEMMA PromotionsWritten ==
  /\ PromoType[0] = "none"
  /\ \A p \in {QUEEN, ROOK, BISHOP, KNIGHT} : \E n \in 1 .. 4 : PromoType[n] = p
  /\ "none" \notin {QUEEN, ROOK, BISHOP, KNIGHT}
<1>1. PromoType[0] = "none" /\ PromoType[1] = KNIGHT /\ PromoType[2] = BISHOP /\ PromoType[3] = ROOK /\ PromoType[4] = QUEEN
  BY DEF PromoType
<1>2. "none" \notin {QUEEN, ROOK, BISHOP, KNIGHT}
  BY DEF QUEEN, ROOK, BISHOP, KNIGHT
<1> QED BY <1>1, <1>2

\* A plain move, made like the others.
LEMMA PlainMove ==
  ASSUME NEW s, NEW t
  PROVE  Move(s, t) = MakeMove(NORMAL, s, t, KNIGHT)
<1>1. Move(s, t).type = NORMAL /\ Move(s, t).promotion = KNIGHT
  BY Parts
<1>2. [Move(s, t) EXCEPT !.type = NORMAL, !.promotion = KNIGHT] = Move(s, t)
  BY ONLY <1>1 DEF Move
<1> QED BY <1>2 DEF MakeMove

\* A pawn takes onto another file than its own.
LEMMA TakesAside ==
  ASSUME Sound(board, us, st), NEW s \in DOMAIN board, NEW t \in PawnAttacks[us][s]
  PROVE  t # s + Up(us) /\ t # s + 2 * Up(us)
<1>1. us \in Color /\ s \in Square
  BY TwoSides
<1>2. t \in Square /\ (file_of(t) = file_of(s) + 1 \/ file_of(s) = file_of(t) + 1)
  BY <1>1, PawnTakesAhead
<1>3. Up(us) = 8 \/ Up(us) = -8
  BY DEF Up, NORTH
<1>4. s \in Int /\ file_of(s + Up(us)) = file_of(s) /\ file_of(s + 2 * Up(us)) = file_of(s)
  BY <1>1, <1>3 DEF file_of, Square
<1>5. file_of(s) \in Int /\ file_of(t) \in Int
  BY <1>1, <1>2 DEF file_of, Square
<1> QED BY <1>2, <1>4, <1>5

\* The squares, and the promotion if it is one, make the move: a pawn promotes from its seventh
\* rank and only from there, and passes where no move of its own leads.
LEMMA WanderingKnown ==
  ASSUME Sound(board, us, st), NEW m, Wandering(m)
  PROVE  /\ m = MakeMove(m.type, m.from, m.to, m.promotion)
         /\ m.type = (IF board[m.from][2] = PAWN /\ relative_rank(us, m.from) = 6 THEN PROMOTION
                      ELSE IF board[m.from][2] = PAWN /\ m.to = st.epSquare /\ m.from \in PawnAttacks[them][m.to]
                      THEN EN_PASSANT ELSE NORMAL)
         /\ m.promotion \in {QUEEN, ROOK, BISHOP, KNIGHT} /\ (m.type # PROMOTION => m.promotion = KNIGHT)
<1>1. /\ Fits(m) /\ m.from \in DOMAIN board /\ m.from \in Square /\ m.to \in Square
      /\ Roaming(m) <=> board[m.from][2] # PAWN
      /\ us \in Color /\ them = Opposite(us)
  BY WanderingFits, TwoSides
<1>2. m.to \in PawnAttacks[us][m.from] <=> m.from \in PawnAttacks[them][m.to]
  BY <1>1, PawnAttacksBack
<1>3. st.epSquare \notin DOMAIN board
  BY <1>1 DEF Sound, Agrees, EpFits, IsBoard, Square, SQ_NONE
<1>4. CASE Roaming(m)
  <2>1. PICK s, t : m = Move(s, t)
    BY <1>4 DEF Roaming
  <2>2. m.from = s /\ m.to = t /\ m.type = NORMAL /\ m.promotion = KNIGHT /\ m = MakeMove(NORMAL, s, t, KNIGHT)
    BY <2>1, Parts, PlainMove
  <2> QED BY <1>1, <1>4, <2>2, Words
<1>5. CASE Promoting(m, {QUEEN, ROOK, BISHOP, KNIGHT})
  <2>1. PICK s, t : \E pt \in {QUEEN, ROOK, BISHOP, KNIGHT} : m = MakeMove(PROMOTION, s, t, pt)
    BY <1>5 DEF Promoting
  <2>2. PICK pt \in {QUEEN, ROOK, BISHOP, KNIGHT} : m = MakeMove(PROMOTION, s, t, pt)
    BY <2>1
  <2>3. m.from = s /\ m.to = t /\ m.type = PROMOTION /\ m.promotion = pt
    BY <2>2, Parts
  <2>4. relative_rank(us, m.from) = 6 /\ board[m.from][2] = PAWN
    BY <1>5, Anatomy
  <2> QED BY <2>2, <2>3, <2>4
<1>6. CASE Pushing(m) \/ Capturing(m)
  <2>1. PICK s, t : m = Move(s, t)
    BY <1>6 DEF Pushing, Capturing
  <2>2. m.from = s /\ m.to = t /\ m.type = NORMAL /\ m.promotion = KNIGHT /\ m = MakeMove(NORMAL, s, t, KNIGHT)
    BY <2>1, Parts, PlainMove
  <2>3. /\ relative_rank(us, m.from) # 6 /\ board[m.from][2] = PAWN
        /\ Strikes(m.from, m.to) \/ Steps(m.from, m.to) \/ Jumps(m.from, m.to)
    BY <1>6, Anatomy
  <2>4. ~(m.to = st.epSquare /\ m.to \in PawnAttacks[us][m.from])
    <3>1. Strikes(m.from, m.to) => m.to \in DOMAIN board
      BY DEF Strikes, PiecesOf
    <3>2. Steps(m.from, m.to) \/ Jumps(m.from, m.to) => m.to \notin PawnAttacks[us][m.from]
      BY <1>1, TakesAside DEF Steps, Jumps
    <3> QED BY <1>3, <2>3, <3>1, <3>2
  <2> QED BY <1>2, <2>2, <2>3, <2>4, Words
<1>7. CASE Passing(m)
  <2>1. PICK s : relative_rank(us, s) # 6 /\ m = MakeMove(EN_PASSANT, s, st.epSquare, KNIGHT)
    BY <1>7 DEF Passing
  <2>2. m.from = s /\ m.to = st.epSquare /\ m.type = EN_PASSANT /\ m.promotion = KNIGHT
    BY <2>1, Parts
  <2>3. m.from \in PawnAttacks[them][m.to] /\ board[m.from][2] = PAWN
    BY <1>7, Anatomy
  <2> QED BY <2>1, <2>2, <2>3, Words
<1> QED BY <1>4, <1>5, <1>6, <1>7 DEF Wandering

\* A castling move is known by its side, the rook's side.
LEMMA CastlingKnown ==
  ASSUME Sound(board, us, st), NEW m, m \in generate_castling, Fits(m)
  PROVE  /\ m.type = CASTLING /\ Side(m.from, m.to) \in CastlingSide
         /\ m = MakeMove(CASTLING, king_square(board, us), king_to(<<us, Side(m.from, m.to)>>), KNIGHT)
         /\ StandsOn(board, make_piece(us, KING), m.from)
         /\ StandsOn(board, make_piece(us, ROOK), rook_home(<<us, Side(m.from, m.to)>>))
         /\ file_of(m.to) > file_of(m.from) <=> Side(m.from, m.to) = "king"
         /\ file_of(rook_home(<<us, Side(m.from, m.to)>>)) > file_of(m.from) <=> Side(m.from, m.to) = "king"
<1> DEFINE w == Side(m.from, m.to)  cr == <<us, w>>
<1>1. PICK v \in CastlingSide : m = MakeMove(CASTLING, king_square(board, us), king_to(<<us, v>>), KNIGHT)
  BY CastlingListed
<1>2. m.from = king_square(board, us) /\ m.to = king_to(<<us, v>>) /\ m.type = CASTLING
  BY <1>1, Parts
<1>3. /\ cr \in CastlingRight /\ m.from = king_home(us) /\ m.to = king_to(cr)
      /\ StandsOn(board, make_piece(us, KING), m.from) /\ StandsOn(board, make_piece(us, ROOK), rook_home(cr))
  BY <1>2, CastlingShape
<1>4. /\ cr[1] = us /\ cr[2] = w /\ w \in CastlingSide
      /\ king_home(us) = (IF us = WHITE THEN 4 ELSE 60)
      /\ IF w = "king" THEN rook_home(cr) = king_home(us) + 3 /\ king_to(cr) = king_home(us) + 2
                       ELSE rook_home(cr) = king_home(us) - 4 /\ king_to(cr) = king_home(us) - 2
  BY <1>3, CastlingSquares
<1>5. m = MakeMove(CASTLING, king_square(board, us), king_to(cr), KNIGHT)
  BY <1>1, <1>2, <1>3
<1> HIDE DEF w, cr
<1> DEFINE h == rook_home(cr)
<1>6. /\ file_of(m.to) > file_of(m.from) <=> w = "king"
      /\ file_of(h) > file_of(m.from) <=> w = "king"
  <2>1. m.from \in {4, 60}
    BY <1>3, <1>4
  <2>2. IF w = "king" THEN h = m.from + 3 /\ m.to = m.from + 2 ELSE h = m.from - 4 /\ m.to = m.from - 2
    BY <1>3, <1>4
  <2> HIDE DEF h
  <2>3. CASE m.from = 4
    BY <2>2, <2>3 DEF file_of
  <2>4. CASE m.from = 60
    BY <2>2, <2>4 DEF file_of
  <2> QED BY <2>1, <2>3, <2>4
<1> QED BY <1>2, <1>3, <1>4, <1>5, <1>6 DEF w, cr, h

\* What is written for a move.
LEMMA Written ==
  ASSUME NEW m
  PROVE  /\ InBook(m).from = m.from
         /\ InBook(m).to = (IF m.type = CASTLING THEN rook_home(<<us, Side(m.from, m.to)>>) ELSE m.to)
         /\ m.type # PROMOTION => InBook(m).promo = 0
         /\ m.type = PROMOTION /\ m.promotion \in {QUEEN, ROOK, BISHOP, KNIGHT} =>
              InBook(m).promo \in 1 .. 4 /\ PromoType[InBook(m).promo] = m.promotion
<1>1. ASSUME m.type = PROMOTION, m.promotion \in {QUEEN, ROOK, BISHOP, KNIGHT}
      PROVE  InBook(m).promo \in 1 .. 4 /\ PromoType[InBook(m).promo] = m.promotion
  <2> DEFINE c == CHOOSE n \in 1 .. 4 : PromoType[n] = m.promotion
  <2>1. c \in 1 .. 4 /\ PromoType[c] = m.promotion
    BY <1>1, PromotionsWritten
  <2>2. InBook(m).promo = c
    BY <1>1 DEF InBook
  <2> QED BY <2>1, <2>2
<1> QED BY <1>1 DEF InBook

\* A legal move is what Polyglot writes for it means, and nothing else is.
LEMMA MeansItself ==
  ASSUME Sound(board, us, st), BothKings, CheckersExact, EpBehind, NEW m \in LegalMoves, NEW n \in LegalMoves
  PROVE  Means(InBook(m), n) <=> n = m
<1> DEFINE e == InBook(m)
<1>1. /\ e.from = m.from
      /\ e.to = (IF m.type = CASTLING THEN rook_home(<<us, Side(m.from, m.to)>>) ELSE m.to)
      /\ m.type # PROMOTION => e.promo = 0
      /\ m.type = PROMOTION /\ m.promotion \in {QUEEN, ROOK, BISHOP, KNIGHT} =>
           e.promo \in 1 .. 4 /\ PromoType[e.promo] = m.promotion
  BY Written
<1> HIDE DEF e
<1>2. /\ Wandering(m) \/ (m \in generate_castling /\ Fits(m))
      /\ Wandering(n) \/ (n \in generate_castling /\ Fits(n))
  BY LegalWandering, LegalMovesFit
<1>3. \A x : Wandering(x) => x.type # CASTLING /\ x.to \notin PiecesOf(board, us)
  BY WanderingFits
<1>4. make_piece(us, ROOK)[1] = us /\ make_piece(us, ROOK) # NO_PIECE /\ us \in Color
  BY TwoSides DEF make_piece, NO_PIECE
<1>5. CASE n \in generate_castling /\ Fits(n) /\ Wandering(m)
  <2>1. n.type = CASTLING
    BY <1>5, CastlingKnown
  <2>2. piece_on(m.to) # make_piece(us, ROOK)
    BY <1>3, <1>4, <1>5 DEF piece_on, PiecesOf
  <2>3. m.type # CASTLING /\ e.to = m.to
    BY <1>1, <1>3, <1>5
  <2>4. ~isKingFromRook(e)
    BY <2>2, <2>3 DEF isKingFromRook
  <2>5. ~Means(e, n)
    BY <2>1, <2>4 DEF Means
  <2> QED BY <2>1, <2>3, <2>5 DEF e
<1>6. CASE n \in generate_castling /\ Fits(n) /\ m \in generate_castling /\ Fits(m)
  <2> DEFINE v == Side(m.from, m.to)  w == Side(n.from, n.to)
  <2>1. /\ m.type = CASTLING /\ v \in CastlingSide
        /\ m = MakeMove(CASTLING, king_square(board, us), king_to(<<us, v>>), KNIGHT)
        /\ StandsOn(board, make_piece(us, KING), m.from)
        /\ StandsOn(board, make_piece(us, ROOK), rook_home(<<us, v>>))
        /\ file_of(rook_home(<<us, v>>)) > file_of(m.from) <=> v = "king"
    BY <1>6, CastlingKnown
  <2>2. /\ n.type = CASTLING /\ w \in CastlingSide
        /\ n = MakeMove(CASTLING, king_square(board, us), king_to(<<us, w>>), KNIGHT)
        /\ file_of(n.to) > file_of(n.from) <=> w = "king"
    BY <1>6, CastlingKnown
  <2>3. n.from = m.from
    BY <2>1, <2>2, Parts
  <2>4. n = m <=> v = w
    <3>1. n = m => v = w
      OBVIOUS
    <3> HIDE DEF v, w
    <3> QED BY <2>1, <2>2, <3>1
  <2> HIDE DEF v, w
  <2>5. v = w <=> (v = "king" <=> w = "king")
    BY <2>1, <2>2 DEF CastlingSide
  <2>6. e.to = rook_home(<<us, v>>)
    BY <1>1, <2>1 DEF v
  <2>7. isKingFromRook(e)
    <3>1. piece_on(m.from) = make_piece(us, KING) /\ piece_on(e.to) = make_piece(us, ROOK)
      BY <2>1, <2>6 DEF StandsOn, piece_on
    <3> QED BY <1>1, <1>4, <3>1 DEF isKingFromRook
  <2>8. Means(e, n) <=> /\ isKingFromRook(e) /\ n.from = e.from
                        /\ (file_of(e.to) > file_of(e.from) <=> file_of(n.to) > file_of(n.from))
    BY <2>2 DEF Means
  <2> QED BY <1>1, <2>1, <2>2, <2>3, <2>4, <2>5, <2>6, <2>7, <2>8 DEF e
<1>7. CASE Wandering(n) /\ m \in generate_castling /\ Fits(m)
  <2>1. m.type = CASTLING /\ StandsOn(board, make_piece(us, ROOK), rook_home(<<us, Side(m.from, m.to)>>))
    BY <1>7, CastlingKnown
  <2>2. n.type # CASTLING /\ n.to \notin PiecesOf(board, us)
    BY <1>3, <1>7
  <2>3. e.to \in PiecesOf(board, us)
    BY <1>1, <1>4, <2>1 DEF StandsOn, PiecesOf
  <2>4. Means(e, n) => n.to = e.to
    BY <2>2 DEF Means
  <2> QED BY <2>1, <2>2, <2>3, <2>4 DEF e
<1>8. CASE Wandering(n) /\ Wandering(m)
  <2>1. n.type # CASTLING /\ m.type # CASTLING /\ e.to = m.to
    BY <1>1, <1>3, <1>8
  <2>2. /\ m = MakeMove(m.type, m.from, m.to, m.promotion)
        /\ n = MakeMove(n.type, n.from, n.to, n.promotion)
        /\ m.promotion \in {QUEEN, ROOK, BISHOP, KNIGHT} /\ (m.type # PROMOTION => m.promotion = KNIGHT)
        /\ n.promotion \in {QUEEN, ROOK, BISHOP, KNIGHT} /\ (n.type # PROMOTION => n.promotion = KNIGHT)
        /\ n.from = m.from /\ n.to = m.to => n.type = m.type
    BY <1>8, WanderingKnown
  <2>3. Means(e, n) <=> /\ n.from = m.from /\ n.to = m.to
                        /\ IF n.type = PROMOTION THEN PromoType[e.promo] = n.promotion ELSE PromoType[e.promo] = "none"
    BY <1>1, <2>1 DEF Means
  <2>4. IF m.type = PROMOTION THEN PromoType[e.promo] = m.promotion ELSE PromoType[e.promo] = "none"
    BY <1>1, <2>2, PromotionsWritten
  <2>5. ASSUME Means(e, n) PROVE n = m
    <3>1. n.from = m.from /\ n.to = m.to /\ n.type = m.type
      BY <2>2, <2>3, <2>5
    <3>2. n.promotion = m.promotion
      BY <2>2, <2>3, <2>4, <2>5, <3>1
    <3> QED BY <2>2, <3>1, <3>2
  <2> QED BY <2>3, <2>4, <2>5 DEF e
<1> QED BY <1>2, <1>5, <1>6, <1>7, <1>8 DEF e

\* So a book's entry made for a legal move is read as that move.
LEMMA ReadAsWritten ==
  ASSUME Sound(board, us, st), BothKings, CheckersExact, EpBehind
  PROVE  MovesInBook(LegalMoves)
<1>1. ASSUME NEW m \in LegalMoves PROVE polyglot_to_engine(InBook(m), LegalMoves) = {m}
  <2> DEFINE e == InBook(m)
  <2>1. \A n \in LegalMoves : Means(e, n) <=> n = m
    BY MeansItself
  <2> HIDE DEF e
  <2>2. {n \in LegalMoves : Means(e, n)} = {m}
    BY <2>1
  <2> QED BY <2>2 DEF polyglot_to_engine, e
<1> QED BY <1>1 DEF MovesInBook

-----------------------------------------------------------------------------
(* Functions defined by recursion: from each place but the last ones the   *)
(* recursion goes to a place of lower rank, the ranks being finite sets.   *)

Descends(D, Z, pred, rank, U) ==
  /\ Z \subseteq D
  /\ \A d \in D : rank[d] \in FiniteSubsetsOf(U)
  /\ \A d \in D \ Z : pred[d] \in D /\ rank[pred[d]] \subseteq rank[d] /\ rank[pred[d]] # rank[d]

\* What holds of the last places, and of each place if of the next, holds of all.
LEMMA ByDescent ==
  ASSUME NEW D, NEW Z, NEW pred, NEW rank, NEW U, Descends(D, Z, pred, rank, U),
         NEW T, Z \subseteq T, \A d \in D \ Z : pred[d] \in T => d \in T
  PROVE  D \subseteq T
<1> DEFINE B == {d \in D : d \notin T}  Ranks == {rank[d] : d \in B}
<1> SUFFICES ASSUME B # {} PROVE FALSE
  OBVIOUS
<1>1. IsWellFoundedOn(StrictSubsetOrdering(U), FiniteSubsetsOf(U))
  BY FS_StrictSubsetOrderingWellFounded
<1>2. Ranks \subseteq FiniteSubsetsOf(U) /\ Ranks # {}
  BY DEF Descends
<1> HIDE DEF Ranks
<1>3. PICK r \in Ranks : \A q \in Ranks : <<q, r>> \notin StrictSubsetOrdering(U)
  BY <1>1, <1>2, WFMin
<1>4. PICK d \in B : r = rank[d]
  BY <1>3 DEF Ranks
<1> DEFINE p == pred[d]
<1>5. d \in D \ Z /\ p \in B /\ rank[p] \subseteq r /\ rank[p] # r
  BY <1>4 DEF Descends
<1> HIDE DEF p, B
<1>6. rank[p] \in Ranks
  BY <1>5 DEF Ranks
<1>7. rank[p] \in SUBSET U /\ r \in SUBSET U
  BY <1>2, <1>3, <1>6 DEF FiniteSubsetsOf
<1> DEFINE q == rank[p]
<1>8. q \subseteq r /\ q # r /\ q \in SUBSET U
  BY <1>5, <1>7
<1> HIDE DEF q
<1>9. <<q, r>> \in StrictSubsetOrdering(U)
  BY <1>7, <1>8 DEF StrictSubsetOrdering
<1> QED BY <1>3, <1>6, <1>9 DEF q

\* The recursion's value on part of the places.
Partial(D, Z, pred, base, step, g, S) ==
  /\ S \subseteq D
  /\ \A d \in S : IF d \in Z THEN g[d] = base ELSE pred[d] \in S /\ g[d] = step[d][g[pred[d]]]

Recurs(D, Z, pred, base, step, f) == f = [d \in D |-> IF d \in Z THEN base ELSE step[d][f[pred[d]]]]

\* There is one function that the recursion defines.
LEMMA RecursionExists ==
  ASSUME NEW D, NEW Z, NEW pred, NEW rank, NEW U, Descends(D, Z, pred, rank, U), NEW base, NEW step
  PROVE  \E f : Recurs(D, Z, pred, base, step, f)
<1> DEFINE Part(g, S) == Partial(D, Z, pred, base, step, g, S)
           Value(d, v) == \E g, S : Part(g, S) /\ d \in S /\ g[d] = v
<1>1. ASSUME NEW g, NEW S, Part(g, S), NEW h, NEW R, Part(h, R)
      PROVE  \A d \in S \cap R : g[d] = h[d]
  <2> DEFINE T == {d \in D : d \in S \cap R => g[d] = h[d]}
  <2>1. Z \subseteq T
    BY <1>1 DEF Partial, Descends
  <2>2. \A d \in D \ Z : pred[d] \in T => d \in T
    BY <1>1 DEF Partial
  <2>3. D \subseteq T
    <3> HIDE DEF T
    <3> QED BY <2>1, <2>2, ByDescent
  <2> QED BY <1>1, <2>3 DEF Partial
<1>2. ASSUME NEW d, NEW v, NEW w, Value(d, v), Value(d, w) PROVE v = w
  BY <1>1, <1>2
<1>3. \A d \in D : \E v : Value(d, v)
  <2> DEFINE T == {d \in D : \E v : Value(d, v)}
  <2>1. ASSUME NEW d \in Z PROVE d \in T
    <3> DEFINE g == [x \in {d} |-> base]
    <3>1. Part(g, {d})
      BY DEF Partial, Descends
    <3>2. Value(d, g[d]) /\ d \in D
      BY <3>1 DEF Descends
    <3> QED BY <3>2
  <2>2. ASSUME NEW d \in D \ Z, pred[d] \in T PROVE d \in T
    <3>1. PICK g, S : Part(g, S) /\ pred[d] \in S
      BY <2>2
    <3> DEFINE u == step[d][g[pred[d]]]  R == S \cup {d}  h == [x \in R |-> IF x = d THEN u ELSE g[x]]
    <3>2. CASE d \in S
      BY <3>1, <3>2
    <3>3. CASE d \notin S
      <4>1. h[d] = u /\ d \in R /\ R \subseteq D /\ d \notin Z /\ pred[d] \in R /\ h[pred[d]] = g[pred[d]]
        BY <3>1, <3>3 DEF Partial
      <4>2. \A x \in S : h[x] = g[x] /\ x \in R
        BY <3>3
      <4>3. \A x \in R : x = d \/ x \in S
        OBVIOUS
      <4>4. u = step[d][h[pred[d]]]
        BY <4>1
      <4> HIDE DEF h, u, R
      <4>5. ASSUME NEW x \in S
            PROVE  IF x \in Z THEN h[x] = base ELSE pred[x] \in R /\ h[x] = step[x][h[pred[x]]]
        BY <3>1, <4>2 DEF Partial
      <4>6. Part(h, R)
        BY <4>1, <4>3, <4>4, <4>5 DEF Partial
      <4>7. Value(d, h[d])
        BY <4>1, <4>6
      <4> QED BY <4>7
    <3> QED BY <3>2, <3>3
  <2>3. D \subseteq T
    <3> HIDE DEF T
    <3> QED BY <2>1, <2>2, ByDescent
  <2> QED BY <2>3
<1> DEFINE f == [d \in D |-> CHOOSE v : Value(d, v)]
<1>4. \A d \in D : Value(d, f[d])
  <2> HIDE DEF Value
  <2>1. \A d \in D : f[d] = CHOOSE v : Value(d, v)
    OBVIOUS
  <2> QED BY <1>3, <2>1
<1>5. f = [d \in D |-> f[d]]
  OBVIOUS
<1> HIDE DEF f
<1>6. ASSUME NEW d \in D
      PROVE  f[d] = IF d \in Z THEN base ELSE step[d][f[pred[d]]]
  <2>1. PICK g, S : Part(g, S) /\ d \in S /\ g[d] = f[d]
    BY <1>4
  <2>2. CASE d \in Z
    BY <2>1, <2>2 DEF Partial
  <2>3. CASE d \notin Z
    <3>1. pred[d] \in S /\ pred[d] \in D /\ g[d] = step[d][g[pred[d]]]
      BY <2>1, <2>3 DEF Partial
    <3>2. Value(pred[d], g[pred[d]]) /\ Value(pred[d], f[pred[d]])
      BY <1>4, <2>1, <3>1
    <3>3. g[pred[d]] = f[pred[d]]
      <4> HIDE DEF Value
      <4> QED BY <1>2, <3>2
    <3> QED BY <2>1, <2>3, <3>1, <3>3
  <2> QED BY <2>2, <2>3
<1>7. f = [d \in D |-> IF d \in Z THEN base ELSE step[d][f[pred[d]]]]
  BY <1>5, <1>6
<1> QED BY <1>7 DEF Recurs

-----------------------------------------------------------------------------
(* The book's search.                                                      *)

Middle(w) == w[1] + (w[2] - w[1]) \div 2

\* The entries of a book in the order of their keys.
Sorted(entries) ==
  /\ Len(entries) \in Nat /\ \A i \in 1 .. Len(entries) : entries[i].key \in Int
  /\ \A i, j \in 1 .. Len(entries) : i <= j => entries[i].key <= entries[j].key

\* What is below the window has smaller keys, what is above has not, and n steps have made it
\* smaller by as many places.
Bracket(entries, key, n, w) ==
  /\ w \in (0 .. Len(entries)) \X (0 .. Len(entries))
  /\ w[1] <= w[2] /\ w[2] - w[1] <= Len(entries) - n
  /\ \A i \in 1 .. Len(entries) : (i <= w[1] => entries[i].key < key) /\ (i > w[2] => entries[i].key >= key)

\* A step of the bisection keeps it so.
LEMMA BracketHalved ==
  ASSUME NEW entries, Sorted(entries), NEW key \in Int, NEW n \in 1 .. Len(entries),
         NEW w, Bracket(entries, key, n - 1, w)
  PROVE  Bracket(entries, key, n, IF w[1] >= w[2] THEN w
                                 ELSE IF entries[Middle(w) + 1].key < key THEN <<Middle(w) + 1, w[2]>> ELSE <<w[1], Middle(w)>>)
<1> DEFINE N == Len(entries)  a == w[1]  b == w[2]  m == Middle(w)
<1>1. /\ N \in Nat /\ a \in 0 .. N /\ b \in 0 .. N /\ a <= b /\ b - a <= N - (n - 1) /\ w = <<a, b>> /\ n \in 1 .. N
      /\ \A i \in 1 .. N : (i <= a => entries[i].key < key) /\ (i > b => entries[i].key >= key)
  BY DEF Bracket, Sorted
<1>2. m = a + (b - a) \div 2
  BY DEF Middle
<1>3. ASSUME NEW c \in 0 .. N, NEW d \in 0 .. N, c <= d, d - c <= N - n,
             \A i \in 1 .. N : (i <= c => entries[i].key < key) /\ (i > d => entries[i].key >= key)
      PROVE  Bracket(entries, key, n, <<c, d>>)
  BY <1>3 DEF Bracket
<1>4. \A i, j \in 1 .. N : i <= j => entries[i].key <= entries[j].key
  BY DEF Sorted
<1>5. \A i \in 1 .. N : entries[i].key \in Int
  BY DEF Sorted
<1> HIDE DEF N, a, b, m
<1>6. CASE a >= b
  <2>1. b - a <= N - n
    BY <1>1, <1>6
  <2> QED BY <1>1, <1>3, <1>6, <2>1 DEF a, b
<1>7. CASE ~(a >= b)
  <2>1. m \in Int /\ a <= m /\ m < b /\ m + 1 \in 1 .. N /\ m \in 0 .. N
    BY <1>1, <1>2, <1>7
  <2>2. CASE entries[m + 1].key < key
    <3>1. \A i \in 1 .. N : i <= m + 1 => entries[i].key < key
      BY <1>4, <1>5, <2>1, <2>2
    <3>2. b - (m + 1) <= N - n /\ m + 1 <= b /\ m + 1 \in 0 .. N
      BY <1>1, <2>1
    <3>3. Bracket(entries, key, n, <<m + 1, b>>)
      BY <1>1, <1>3, <3>1, <3>2
    <3> QED BY <1>7, <2>2, <3>3 DEF a, b, m
  <2>3. CASE ~(entries[m + 1].key < key)
    <3>1. \A i \in 1 .. N : i > m => entries[i].key >= key
      BY <1>4, <1>5, <2>1, <2>3
    <3>2. m - a <= N - n
      BY <1>1, <2>1
    <3>3. Bracket(entries, key, n, <<a, m>>)
      BY <1>1, <1>3, <2>1, <3>1, <3>2
    <3> QED BY <1>7, <2>3, <3>3 DEF a, b, m
  <2> QED BY <2>2, <2>3
<1> QED BY <1>6, <1>7 DEF a, b, m

\* Whatever the number of entries, the bisection comes to the first one whose key is not
\* smaller: the first of its key, if there is one.
THEOREM BisectionExact ==
  ASSUME NEW entries, Sorted(entries), NEW key \in Int
  PROVE  /\ lower_bound(entries, key) \in 0 .. Len(entries)
         /\ \A i \in 1 .. Len(entries) : i <= lower_bound(entries, key) <=> entries[i].key < key
<1> DEFINE N == Len(entries)  D == 0 .. N
           Half(w) == IF w[1] >= w[2] THEN w
                      ELSE IF entries[Middle(w) + 1].key < key THEN <<Middle(w) + 1, w[2]>> ELSE <<w[1], Middle(w)>>
           Steps2(f) == f = [n \in 0 .. N |-> IF n = 0 THEN <<0, N>> ELSE Half(f[n - 1])]
           h == CHOOSE f : Steps2(f)
           pred == [n \in D |-> n - 1]  rank == [n \in D |-> 1 .. n]
           step == [n \in D |-> [w \in D \X D |-> Half(w)]]
           Good(f) == {n \in D : Bracket(entries, key, n, f[n])}
<1>1. lower_bound(entries, key) = h[N][1]
  <2>1. lower_bound(entries, key)
          = (CHOOSE f : f = [n \in 0 .. N |-> IF n = 0 THEN <<0, N>> ELSE Half(f[n - 1])])[N][1]
    BY ONLY TRUE DEF lower_bound, Middle
  <2> QED BY ONLY <2>1
<1>2. N \in Nat
  BY DEF Sorted
<1>3. Descends(D, {0}, pred, rank, Nat)
  <2>1. \A n \in D : n \in Nat /\ pred[n] = n - 1 /\ rank[n] = 1 .. n
    BY <1>2
  <2>2. \A n \in D : rank[n] \in FiniteSubsetsOf(Nat)
    <3>1. \A n \in D : 1 .. n \in SUBSET Nat /\ IsFiniteSet(1 .. n)
      BY <2>1, 1 \in Int, FS_Interval
    <3> HIDE DEF D, rank
    <3> QED BY <2>1, <3>1 DEF FiniteSubsetsOf
  <2>3. ASSUME NEW n \in D \ {0}
        PROVE  pred[n] \in D /\ rank[pred[n]] \subseteq rank[n] /\ rank[pred[n]] # rank[n]
    <3>1. n - 1 \in D /\ n \in 1 .. n /\ n \notin 1 .. (n - 1) /\ 1 .. (n - 1) \subseteq 1 .. n
      BY <1>2
    <3>2. pred[n] = n - 1 /\ rank[n - 1] = 1 .. (n - 1) /\ rank[n] = 1 .. n
      BY <2>1, <3>1
    <3> HIDE DEF pred, rank, D
    <3> QED BY <3>1, <3>2
  <2>4. 0 \in D
    BY <1>2
  <2> HIDE DEF pred, rank, D
  <2> QED BY <2>2, <2>3, <2>4 DEF Descends
<1>4. \A n \in D : pred[n] = n - 1
  OBVIOUS
<1>5. \A n \in D, w \in D \X D : step[n][w] = Half(w)
  OBVIOUS
<1> HIDE DEF Half, pred, rank, step
<1>6. ASSUME NEW n \in D, NEW w, n # 0, Bracket(entries, key, n - 1, w)
      PROVE  Bracket(entries, key, n, Half(w)) /\ w \in D \X D
  <2>1. n \in 1 .. Len(entries)
    BY <1>2, <1>6
  <2> QED BY <1>6, <2>1, BracketHalved DEF Half, Bracket
<1>7. Bracket(entries, key, 0, <<0, N>>)
  BY <1>2 DEF Bracket
<1> HIDE DEF N
<1>8. \E f : Steps2(f)
  <2> DEFINE Z == {0}  base == <<0, N>>
  <2> HIDE DEF Z, base, D
  <2>1. PICK f : Recurs(D, Z, pred, base, step, f)
    BY <1>3, RecursionExists DEF Z
  <2>8. f = [n \in D |-> IF n \in Z THEN base ELSE step[n][f[pred[n]]]]
    BY <2>1 DEF Recurs
  <2>9. \A n \in D : f[n] = IF n \in Z THEN base ELSE step[n][f[pred[n]]]
    BY <2>8
  <2>2. 0 \in D /\ \A n \in D : f[n] = IF n = 0 THEN <<0, N>> ELSE step[n][f[n - 1]]
    BY <1>2, <1>4, <2>9 DEF Z, base, D
  <2>3. 0 \in Good(f)
    BY <1>7, <2>2
  <2>4. ASSUME NEW n \in D \ {0}, pred[n] \in Good(f) PROVE n \in Good(f) /\ f[n] = Half(f[n - 1])
    <3>1. Bracket(entries, key, n - 1, f[n - 1])
      BY <1>4, <2>4
    <3>2. Bracket(entries, key, n, Half(f[n - 1])) /\ f[n - 1] \in D \X D
      BY <1>6, <3>1
    <3>3. f[n] = Half(f[n - 1])
      BY <1>5, <2>2, <3>2
    <3> QED BY <3>2, <3>3
  <2>5. D \subseteq Good(f)
    <3> HIDE DEF Good
    <3>1. {0} \subseteq Good(f)
      BY <2>3
    <3> QED BY <1>3, <2>4, <3>1, ByDescent
  <2>6. \A n \in D : f[n] = IF n = 0 THEN <<0, N>> ELSE Half(f[n - 1])
    <3>1. \A n \in D \ {0} : pred[n] \in Good(f)
      BY <1>3, <2>5 DEF Descends
    <3> QED BY <2>2, <2>4, <3>1
  <2>7. f = [n \in D |-> IF n = 0 THEN <<0, N>> ELSE Half(f[n - 1])]
    <3>1. f = [n \in D |-> f[n]]
      BY <2>8
    <3> QED BY <2>6, <3>1
  <2> QED BY <2>7 DEF Steps2, D
<1>9. Steps2(h)
  BY <1>8
<1> HIDE DEF h
<1>10. D \subseteq Good(h)
  <2>1. \A n \in D : h[n] = IF n = 0 THEN <<0, N>> ELSE Half(h[n - 1])
    BY <1>9
  <2>2. 0 \in Good(h)
    BY <1>2, <1>7, <2>1
  <2>3. \A n \in D \ {0} : pred[n] \in Good(h) => n \in Good(h)
    BY <1>4, <1>6, <2>1
  <2> HIDE DEF Good, D
  <2>4. {0} \subseteq Good(h)
    BY <2>2
  <2> QED BY <1>3, <2>3, <2>4, ByDescent
<1>11. Bracket(entries, key, N, h[N])
  BY <1>2, <1>10
<1> QED BY <1>1, <1>2, <1>11 DEF Bracket, Sorted, N

-----------------------------------------------------------------------------
(* What a probe gathers from the entries it has found.                     *)

\* A sequence is folded element by element: its first i make what its first i - 1 do, and one step.
FoldsOn(V, step, g, t) == g[t \ {Max(t)}] \in V => g[t] = step[Max(t)][g[t \ {Max(t)}]]

FoldsInTurn(n, V, base, step, g) ==
  g[{}] = base /\ (\A t \in SUBSET (1 .. n) : t # {} => FoldsOn(V, step, g, t)) =>
    g[1 .. 0] = base /\ \A i \in 1 .. n : g[1 .. i - 1] \in V /\ g[1 .. i] = step[i][g[1 .. i - 1]]

\* Such a fold exists, whatever the step.
LEMMA FoldInTurn ==
  ASSUME NEW n \in Nat, NEW V, NEW base \in V, NEW step \in [1 .. n -> [V -> V]]
  PROVE  /\ \E g : /\ g = [t \in SUBSET (1 .. n) |-> g[t]] /\ g[{}] = base
                   /\ \A t \in SUBSET (1 .. n) : t # {} => g[t \ {Max(t)}] \in V /\ FoldsOn(V, step, g, t)
         /\ \A g : FoldsInTurn(n, V, base, step, g)
<1> DEFINE D == SUBSET (1 .. n)  Z == {{}}
           pred == [t \in D |-> t \ {Max(t)}]  rank == [t \in D |-> t]
           far == [t \in D |-> step[Max(t)]]
           Good(g) == {t \in D : g[t] \in V}
<1>1. \A t \in D \ Z : Max(t) \in t
  BY GreatestIsMax
<1>2. \A t \in D : pred[t] = t \ {Max(t)} /\ rank[t] = t /\ far[t] = step[Max(t)] /\ IsFiniteSet(t)
  <2>1. \A t \in D : pred[t] = t \ {Max(t)} /\ rank[t] = t /\ far[t] = step[Max(t)]
    OBVIOUS
  <2>2. IsFiniteSet(1 .. n)
    BY 1 \in Int, FS_Interval
  <2>3. \A t \in D : IsFiniteSet(t)
    BY <2>2, FS_Subset
  <2> QED BY <2>1, <2>3
<1>3. {} \in D /\ Z \subseteq D /\ \A t \in D : rank[t] \in FiniteSubsetsOf(1 .. n)
  BY <1>2 DEF FiniteSubsetsOf
<1> HIDE DEF pred, rank, far
<1>4. Descends(D, Z, pred, rank, 1 .. n)
  <2>1. ASSUME NEW t \in D \ Z
        PROVE  pred[t] \in D /\ rank[pred[t]] \subseteq rank[t] /\ rank[pred[t]] # rank[t]
    <3>1. pred[t] = t \ {Max(t)} /\ pred[t] \in D /\ Max(t) \in t
      BY <1>1, <1>2
    <3> DEFINE p == pred[t]
    <3>2. rank[p] = p /\ rank[t] = t
      BY <1>2, <3>1
    <3> HIDE DEF p
    <3>3. p \subseteq t /\ p # t
      BY <3>1 DEF p
    <3> QED BY <3>1, <3>2, <3>3 DEF p
  <2> HIDE DEF D, Z
  <2> QED BY <1>3, <2>1 DEF Descends
<1>5. ASSUME NEW g, g[{}] = base, \A t \in D : t # {} => FoldsOn(V, step, g, t)
      PROVE  \A t \in D : g[t] \in V
  <2>1. Z \subseteq Good(g)
    BY <1>3, <1>5
  <2>2. ASSUME NEW t \in D \ Z, pred[t] \in Good(g) PROVE t \in Good(g)
    <3>1. g[t] = step[Max(t)][g[t \ {Max(t)}]] /\ g[t \ {Max(t)}] \in V
      BY <1>2, <1>5, <2>2 DEF FoldsOn
    <3>2. Max(t) \in 1 .. n
      BY <1>1
    <3> DEFINE x == Max(t)  v == g[t \ {Max(t)}]
    <3>3. step[x] \in [V -> V]
      BY <3>2
    <3>4. step[x][v] \in V
      BY <3>1, <3>3
    <3> QED BY <3>1, <3>4
  <2>3. D \subseteq Good(g)
    <3> HIDE DEF Good, D, Z
    <3> QED BY <1>4, <2>1, <2>2, ByDescent
  <2> QED BY <2>3
<1>6. \E g : /\ g = [t \in D |-> g[t]] /\ g[{}] = base
             /\ \A t \in D : t # {} => g[t \ {Max(t)}] \in V /\ FoldsOn(V, step, g, t)
  <2>1. PICK g : Recurs(D, Z, pred, base, far, g)
    <3> HIDE DEF D, Z
    <3> QED BY <1>4, RecursionExists
  <2>2. g = [t \in D |-> IF t \in Z THEN base ELSE far[t][g[pred[t]]]]
    BY <2>1 DEF Recurs
  <2>3. g = [t \in D |-> g[t]] /\ \A t \in D : g[t] = IF t \in Z THEN base ELSE far[t][g[pred[t]]]
    <3> HIDE DEF D, Z
    <3> QED BY <2>2
  <2>4. g[{}] = base
    BY <1>3, <2>3
  <2>5. \A t \in D : t # {} => FoldsOn(V, step, g, t) /\ t \ {Max(t)} \in D
    BY <1>2, <2>3 DEF FoldsOn
  <2>6. \A t \in D : g[t] \in V
    BY <1>5, <2>4, <2>5
  <2> QED BY <2>3, <2>4, <2>5, <2>6
<1>7. ASSUME NEW g, g[{}] = base, \A t \in D : t # {} => FoldsOn(V, step, g, t)
      PROVE  g[1 .. 0] = base /\ \A i \in 1 .. n : g[1 .. i - 1] \in V /\ g[1 .. i] = step[i][g[1 .. i - 1]]
  <2>1. \A t \in D : g[t] \in V
    BY <1>5, <1>7
  <2>2. ASSUME NEW i \in 1 .. n PROVE g[1 .. i - 1] \in V /\ g[1 .. i] = step[i][g[1 .. i - 1]]
    <3> DEFINE t == 1 .. i  u == 1 .. (i - 1)
    <3>1. t \in D /\ t # {} /\ u \in D /\ i \in t /\ u = t \ {i} /\ \A j \in t : j <= i
      <4>1. t \subseteq 1 .. n /\ u \subseteq 1 .. n /\ i \in t /\ \A j \in t : j <= i
        OBVIOUS
      <4>2. \A j : j \in u <=> j \in t /\ j # i
        OBVIOUS
      <4> HIDE DEF t, u
      <4> QED BY <4>1, <4>2
    <3>2. Max(t) = i
      <4>1. Max(t) \in t /\ i \in t /\ i \in Int /\ \A j \in t : j \in Int
        BY <1>1, <3>1
      <4>2. \A j \in t : (\A k \in t : k <= j) <=> j = i
        BY <3>1, <4>1
      <4> HIDE DEF t
      <4> QED BY <4>1, <4>2 DEF Max
    <3> HIDE DEF t, u
    <3>3. FoldsOn(V, step, g, t)
      BY <1>7, <3>1
    <3>4. g[t] = step[i][g[u]] /\ g[u] \in V
      BY <2>1, <3>1, <3>2, <3>3 DEF FoldsOn
    <3> QED BY <3>4 DEF t, u
  <2>3. 1 .. 0 = {}
    OBVIOUS
  <2> QED BY <1>7, <2>2, <2>3
<1> QED BY <1>6, <1>7 DEF FoldsInTurn

\* One more entry: kept if it means a legal move, with its weight, or 1 if it has none.
Weighed(e) == IF e.weight = 0 THEN 1 ELSE e.weight
Kept(moves, e) == [moves |-> polyglot_to_engine(e, moves), weight |-> Weighed(e)]
Gathered(moves, cands, e) ==
  IF polyglot_to_engine(e, moves) = {} THEN cands ELSE Append(cands, Kept(moves, e))
GatheredFrom(moves, q) == FoldLeft(LAMBDA cands, e : Gathered(moves, cands, e), <<>>, q)

GathersInTurn(moves, n, q) ==
  \E c : /\ c[0] = <<>> /\ \A i \in 1 .. n : c[i] = Gathered(moves, c[i - 1], q[i])
         /\ GatheredFrom(moves, q) = c[n]

\* The candidates of a run of entries, entry by entry.
LEMMA GatheredInTurn ==
  ASSUME NEW moves, NEW n \in Nat, NEW q, DOMAIN q = 1 .. n, \A i \in 1 .. n : q[i].weight \in Nat
  PROVE  GathersInTurn(moves, n, q)
<1> DEFINE C == [moves : SUBSET moves, weight : Nat]  V == Seq(C)  F == DOMAIN q
           step == [i \in 1 .. n |-> [v \in V |-> Gathered(moves, v, q[i])]]
           Folding(g) == g = [t \in SUBSET F |-> IF t = {} THEN <<>> ELSE Gathered(moves, g[t \ {Max(t)}], q[Max(t)])]
           h == CHOOSE g : Folding(g)
<1>1. GatheredFrom(moves, q) = h[F]
  <2>1. GatheredFrom(moves, q)
          = (CHOOSE g : g = [t \in SUBSET F |-> IF t = {} THEN <<>>
                               ELSE Gathered(moves, g[t \ {Max(t)}], q[Max(t)])])[F]
    BY ONLY TRUE DEF F, GatheredFrom, FoldLeft, MapThenFoldSet
  <2> QED BY ONLY <2>1
<1>2. F = 1 .. n /\ <<>> \in V
  OBVIOUS
<1>3. \A i \in 1 .. n, v \in V : Gathered(moves, v, q[i]) \in V
  <2> SUFFICES ASSUME NEW i \in 1 .. n, NEW v \in V PROVE Gathered(moves, v, q[i]) \in V
    OBVIOUS
  <2>1. Kept(moves, q[i]) \in C
    <3>1. polyglot_to_engine(q[i], moves) \in SUBSET moves
      BY DEF polyglot_to_engine
    <3>2. Weighed(q[i]) \in Nat
      BY DEF Weighed
    <3> QED BY <3>1, <3>2 DEF Kept
  <2> HIDE DEF C
  <2> QED BY <2>1 DEF Gathered
<1>4. step \in [1 .. n -> [V -> V]] /\ \A i \in 1 .. n, v \in V : step[i][v] = Gathered(moves, v, q[i])
  <2> HIDE DEF V
  <2> QED BY <1>3
<1>5. ASSUME NEW t \in SUBSET (1 .. n), t # {} PROVE Max(t) \in 1 .. n
  BY <1>5, GreatestIsMax
<1> HIDE DEF step, V, h, F
<1>6. \E g : Folding(g)
  <2>1. PICK g : /\ g = [t \in SUBSET (1 .. n) |-> g[t]] /\ g[{}] = <<>>
                 /\ \A t \in SUBSET (1 .. n) : t # {} => g[t \ {Max(t)}] \in V /\ FoldsOn(V, step, g, t)
    BY <1>2, <1>4, FoldInTurn
  <2>2. ASSUME NEW t \in SUBSET (1 .. n), t # {} PROVE g[t] = Gathered(moves, g[t \ {Max(t)}], q[Max(t)])
    BY <1>4, <1>5, <2>1, <2>2 DEF FoldsOn
  <2>3. g = [t \in SUBSET (1 .. n) |-> IF t = {} THEN <<>> ELSE Gathered(moves, g[t \ {Max(t)}], q[Max(t)])]
    BY <2>1, <2>2
  <2> QED BY <1>2, <2>3
<1>7. Folding(h)
  BY <1>6 DEF h
<1>8. /\ h[{}] = <<>>
      /\ \A t \in SUBSET (1 .. n) : t # {} => h[t] = Gathered(moves, h[t \ {Max(t)}], q[Max(t)])
  BY <1>2, <1>7
<1>9. \A t \in SUBSET (1 .. n) : t # {} => FoldsOn(V, step, h, t)
  BY <1>4, <1>5, <1>8 DEF FoldsOn
<1>10. h[1 .. 0] = <<>> /\ \A i \in 1 .. n : h[1 .. i - 1] \in V /\ h[1 .. i] = step[i][h[1 .. i - 1]]
  <2>1. FoldsInTurn(n, V, <<>>, step, h)
    BY <1>2, <1>4, FoldInTurn
  <2>2. h[{}] = <<>>
    BY <1>8
  <2> QED BY ONLY <1>9, <2>1, <2>2 DEF FoldsInTurn
<1> DEFINE c == [i \in 0 .. n |-> h[1 .. i]]
<1>11. c[0] = <<>> /\ c[n] = h[F]
  BY <1>2, <1>10
<1>12. ASSUME NEW i \in 1 .. n PROVE c[i] = Gathered(moves, c[i - 1], q[i])
  <2>1. c[i] = h[1 .. i] /\ c[i - 1] = h[1 .. i - 1]
    OBVIOUS
  <2> QED BY <1>4, <1>10, <2>1
<1> HIDE DEF c
<1> QED BY <1>1, <1>11, <1>12 DEF GathersInTurn

WeighsInTurn(n, q) ==
  \E w : w[0] = 0 /\ (\A i \in 1 .. n : w[i] = w[i - 1] + q[i].weight) /\ totalWeight(q) = w[n]

\* The weights of a list, added in turn.
LEMMA WeighedInTurn ==
  ASSUME NEW n \in Nat, NEW q, DOMAIN q = 1 .. n, \A i \in 1 .. n : q[i].weight \in Int
  PROVE  WeighsInTurn(n, q)
<1> DEFINE V == Int  F == DOMAIN q
           step == [i \in 1 .. n |-> [v \in V |-> v + q[i].weight]]
           Folding(g) == g = [t \in SUBSET F |-> IF t = {} THEN 0 ELSE g[t \ {Max(t)}] + q[Max(t)].weight]
           h == CHOOSE g : Folding(g)
<1>1. totalWeight(q) = h[F]
  <2>1. totalWeight(q) = (CHOOSE g : g = [t \in SUBSET F |-> IF t = {} THEN 0
                                            ELSE g[t \ {Max(t)}] + q[Max(t)].weight])[F]
    BY ONLY TRUE DEF F, totalWeight, FoldLeft, MapThenFoldSet
  <2> QED BY ONLY <2>1
<1>2. F = 1 .. n /\ 0 \in V
  OBVIOUS
<1>4. step \in [1 .. n -> [V -> V]] /\ \A i \in 1 .. n, v \in V : step[i][v] = v + q[i].weight
  OBVIOUS
<1>5. ASSUME NEW t \in SUBSET (1 .. n), t # {} PROVE Max(t) \in 1 .. n
  BY <1>5, GreatestIsMax
<1> HIDE DEF step, V, h, F
<1>6. \E g : Folding(g)
  <2>1. PICK g : /\ g = [t \in SUBSET (1 .. n) |-> g[t]] /\ g[{}] = 0
                 /\ \A t \in SUBSET (1 .. n) : t # {} => g[t \ {Max(t)}] \in V /\ FoldsOn(V, step, g, t)
    BY <1>2, <1>4, FoldInTurn
  <2>2. ASSUME NEW t \in SUBSET (1 .. n), t # {} PROVE g[t] = g[t \ {Max(t)}] + q[Max(t)].weight
    BY <1>4, <1>5, <2>1, <2>2 DEF FoldsOn
  <2>3. g = [t \in SUBSET (1 .. n) |-> IF t = {} THEN 0 ELSE g[t \ {Max(t)}] + q[Max(t)].weight]
    BY <2>1, <2>2
  <2> QED BY <1>2, <2>3
<1>7. Folding(h)
  BY <1>6 DEF h
<1>8. /\ h[{}] = 0
      /\ \A t \in SUBSET (1 .. n) : t # {} => h[t] = h[t \ {Max(t)}] + q[Max(t)].weight
  BY <1>2, <1>7
<1>9. \A t \in SUBSET (1 .. n) : t # {} => FoldsOn(V, step, h, t)
  BY <1>4, <1>5, <1>8 DEF FoldsOn
<1>10. h[1 .. 0] = 0 /\ \A i \in 1 .. n : h[1 .. i - 1] \in V /\ h[1 .. i] = step[i][h[1 .. i - 1]]
  <2>1. FoldsInTurn(n, V, 0, step, h)
    BY <1>2, <1>4, FoldInTurn
  <2>2. h[{}] = 0
    BY <1>8
  <2> QED BY ONLY <1>9, <2>1, <2>2 DEF FoldsInTurn
<1> DEFINE w == [i \in 0 .. n |-> h[1 .. i]]
<1>11. w[0] = 0 /\ w[n] = h[F]
  BY <1>2, <1>10
<1>12. ASSUME NEW i \in 1 .. n PROVE w[i] = w[i - 1] + q[i].weight
  <2>1. w[i] = h[1 .. i] /\ w[i - 1] = h[1 .. i - 1]
    OBVIOUS
  <2> QED BY <1>4, <1>10, <2>1
<1> HIDE DEF w
<1> QED BY <1>1, <1>11, <1>12 DEF WeighsInTurn

-----------------------------------------------------------------------------
(* The key of a book.                                                      *)

\* The key has a file for en passant only where a pawn stands beside the one that has moved.
LEMMA BesideOrNone ==
  ASSUME Sound(board, us, st),
         {s \in DOMAIN board : board[s] = make_piece(us, PAWN) /\ st.epSquare \in PawnAttacks[us][s]} = {}
  PROVE  \A f \in 0 .. 7 : <<"enpassant", f>> \notin polyglot_key
<1>1. us \in Color /\ EpFits(board, us, st.epSquare) /\ DOMAIN board \subseteq Square
  BY DEF Sound, Agrees, IsBoard
<1>2. st.epSquare = SQ_NONE
  <2> SUFFICES ASSUME st.epSquare # SQ_NONE PROVE FALSE
    OBVIOUS
  <2>1. /\ st.epSquare \in Square
        /\ \E s \in PawnAttacks[Opposite(us)][st.epSquare] : StandsOn(board, make_piece(us, PAWN), s)
    BY <1>1 DEF EpFits
  <2>2. PICK s \in PawnAttacks[Opposite(us)][st.epSquare] : StandsOn(board, make_piece(us, PAWN), s)
    BY <2>1
  <2>3. s \in DOMAIN board /\ s \in Square /\ board[s] = make_piece(us, PAWN)
    BY <1>1, <2>2 DEF StandsOn
  <2>4. st.epSquare \in PawnAttacks[us][s]
    BY <1>1, <2>1, <2>2, <2>3, PawnAttacksBack
  <2> QED BY <2>3, <2>4
<1> DEFINE Kind(pc) == 2 * Min({i \in 0 .. 5 : pc[2] = <<PAWN, KNIGHT, BISHOP, ROOK, QUEEN, KING>>[i + 1]})
                      + (IF pc[1] = WHITE THEN 1 ELSE 0)
           Pieces == {<<"piece", Kind(board[s]), s>> : s \in DOMAIN board}
           Rights == {<<"castling", cr>> : cr \in st.castlingRights}
           Turn == IF us = WHITE THEN {<<"white">>} ELSE {}
<1>3. polyglot_key = Pieces \cup Rights
                       \cup (IF st.epSquare = SQ_NONE THEN {} ELSE {<<"enpassant", file_of(st.epSquare)>>}) \cup Turn
  BY ONLY TRUE DEF polyglot_key
<1> HIDE DEF Kind
<1>4. ASSUME NEW f \in 0 .. 7 PROVE <<"enpassant", f>> \notin Pieces /\ <<"enpassant", f>> \notin Rights
                                    /\ <<"enpassant", f>> \notin Turn
  <2>1. <<"enpassant", f>> \notin Pieces
    OBVIOUS
  <2>2. <<"enpassant", f>> \notin Rights
    OBVIOUS
  <2>3. <<"enpassant", f>> \notin Turn
    OBVIOUS
  <2> QED BY <2>1, <2>2, <2>3
<1> HIDE DEF Pieces, Rights, Turn
<1> QED BY <1>2, <1>3, <1>4

-----------------------------------------------------------------------------
(* A probe. *)

\* The least of a set of integers is its Min.
LEMMA LeastIs ==
  ASSUME NEW S \in SUBSET Int, NEW x \in S, \A y \in S : x <= y
  PROVE  Min(S) = x
<1>1. \A z \in S : (\A y \in S : z <= y) <=> z = x
  OBVIOUS
<1> QED BY <1>1 DEF Min

ProbesInTurn(entries, moves, key, a, b) ==
  \E c : /\ c[0] = <<>> /\ \A i \in 1 .. b - a : c[i] = Gathered(moves, c[i - 1], entries[a + i])
         /\ candidates(entries, key, moves) = c[b - a]

\* The entries of a key are those between what is smaller and what is greater, and a probe gathers
\* just these, in the order of the file.
LEMMA ProbeInTurn ==
  ASSUME NEW V, NEW entries \in Seq(V), Sorted(entries), \A i \in 1 .. Len(entries) : entries[i].weight \in Nat,
         NEW moves, NEW key \in Int, NEW a \in 0 .. Len(entries), NEW b \in a .. Len(entries),
         \A i \in 1 .. Len(entries) : /\ i <= a => entries[i].key < key
                                      /\ i > a /\ i <= b => entries[i].key = key
                                      /\ i > b => entries[i].key > key
  PROVE  ProbesInTurn(entries, moves, key, a, b)
<1> DEFINE N == Len(entries)  L == lower_bound(entries, key)
           others == {i \in L + 1 .. N : entries[i].key # key}
           to == IF others = {} THEN N ELSE Min(others) - 1
           q == SubSeq(entries, L + 1, to)
<1>1. candidates(entries, key, moves) = GatheredFrom(moves, q)
  BY ONLY TRUE DEF candidates, GatheredFrom, Gathered, Kept, Weighed, FoldLeft, MapThenFoldSet
<1>2. N \in Nat /\ a \in Int /\ b \in Int /\ 0 <= a /\ a <= b /\ b <= N
  OBVIOUS
<1>3. \A i \in 1 .. N : entries[i].key \in Int
  BY DEF Sorted
<1>4. L = a
  <2>1. L \in 0 .. N /\ \A i \in 1 .. N : i <= L <=> entries[i].key < key
    BY BisectionExact
  <2> HIDE DEF L
  <2>2. CASE L < a
    <3>1. a \in 1 .. N /\ entries[a].key < key
      BY <1>2, <2>1, <2>2
    <3> QED BY <2>1, <2>2, <3>1
  <2>3. CASE L > a
    <3>1. L \in 1 .. N /\ entries[L].key < key /\ entries[L].key >= key /\ entries[L].key \in Int
      BY <1>2, <1>3, <2>1, <2>3
    <3> QED BY <3>1
  <2> QED BY <1>2, <2>1, <2>2, <2>3
<1>5. to = b
  <2>1. others = b + 1 .. N
    <3>1. \A i \in 1 .. N : i > a => (entries[i].key # key <=> i > b)
      BY <1>2, <1>3
    <3> HIDE DEF L
    <3> QED BY <1>2, <1>4, <3>1
  <2> HIDE DEF others
  <2>2. CASE b = N
    BY <1>2, <2>1, <2>2
  <2>3. CASE b < N
    <3>1. b + 1 \in others /\ others \in SUBSET Int /\ \A y \in others : b + 1 <= y
      BY <1>2, <2>1, <2>3
    <3>2. Min(others) = b + 1
      BY <3>1, LeastIs
    <3> QED BY <1>2, <3>1, <3>2
  <2> QED BY <1>2, <2>2, <2>3
<1>6. q = SubSeq(entries, a + 1, b)
  BY <1>4, <1>5
<1> HIDE DEF q, L, to, others
<1>7. DOMAIN q = 1 .. (b - a) /\ \A i \in 1 .. b - a : q[i] = entries[a + i] /\ a + i \in 1 .. N
  <2>1. Len(q) = b - a /\ q \in Seq(V)
    BY <1>2, <1>6
  <2>2. \A i \in 1 .. b - a : q[i] = entries[a + i] /\ a + i \in 1 .. N
    BY <1>2, <1>6
  <2> QED BY <1>2, <2>1, <2>2
<1>8. \A i \in 1 .. b - a : q[i].weight \in Nat
  BY <1>7
<1> DEFINE n == b - a
<1>9. n \in Nat
  BY <1>2
<1>10. PICK c : /\ c[0] = <<>> /\ \A i \in 1 .. n : c[i] = Gathered(moves, c[i - 1], q[i])
                /\ GatheredFrom(moves, q) = c[n]
  <2>1. DOMAIN q = 1 .. n /\ \A i \in 1 .. n : q[i].weight \in Nat
    BY <1>7, <1>8
  <2>2. GathersInTurn(moves, n, q)
    <3> HIDE DEF n
    <3> QED BY <1>9, <2>1, GatheredInTurn
  <2> QED BY <2>2 DEF GathersInTurn
<1> QED BY <1>1, <1>7, <1>10 DEF ProbesInTurn

-----------------------------------------------------------------------------
(* What the small book answers. *)

\* An entry is read by its squares and its promotion alone.
LEMMA ReadBySquares ==
  ASSUME NEW d, NEW e, d.from = e.from, d.to = e.to, d.promo = e.promo, NEW moves
  PROVE  polyglot_to_engine(d, moves) = polyglot_to_engine(e, moves)
<1>1. \A m : Means(d, m) <=> Means(e, m)
  BY DEF Means, isKingFromRook
<1> QED BY <1>1 DEF polyglot_to_engine

\* The five entries, in the order of their keys.
IsSmallBook(B, some, other) ==
  /\ B \in Seq({B[1], B[2], B[3], B[4], B[5]}) /\ Len(B) = 5 /\ Sorted(B)
  /\ B[1].key = 1 /\ B[2].key = 2 /\ B[3].key = 2 /\ B[4].key = 2 /\ B[5].key = 3
  /\ B[1].weight = 3 /\ B[2].weight = 2 /\ B[3].weight = 9 /\ B[4].weight = 0 /\ B[5].weight = 7
  /\ polyglot_to_engine(B[1], LegalMoves) = {other} /\ polyglot_to_engine(B[2], LegalMoves) = {some}
  /\ polyglot_to_engine(B[3], LegalMoves) = {} /\ polyglot_to_engine(B[4], LegalMoves) = {other}
  /\ polyglot_to_engine(B[5], LegalMoves) = {some}

\* So they read, if both moves are legal.
LEMMA SmallBookRead ==
  ASSUME Sound(board, us, st), BothKings, CheckersExact, EpBehind,
         NEW some \in LegalMoves, NEW other \in LegalMoves
  PROVE  IsSmallBook(SmallBook(some, other), some, other)
<1> DEFINE Entry(k, e, w) == [key |-> k, weight |-> w, from |-> e.from, to |-> e.to, promo |-> e.promo]
           impossible == [from |-> king_square(board, them), to |-> 0, promo |-> 0]
           o == InBook(other)  s == InBook(some)
           e1 == Entry(1, o, 3)  e2 == Entry(2, s, 2)  e3 == Entry(2, impossible, 9)
           e4 == Entry(2, o, 0)  e5 == Entry(3, s, 7)
           V == {e1, e2, e3, e4, e5}  B == SmallBook(some, other)
<1>1. B = <<e1, e2, e3, e4, e5>>
  BY ONLY TRUE DEF SmallBook
<1>2. /\ e1.key = 1 /\ e2.key = 2 /\ e3.key = 2 /\ e4.key = 2 /\ e5.key = 3
      /\ e1.weight = 3 /\ e2.weight = 2 /\ e3.weight = 9 /\ e4.weight = 0 /\ e5.weight = 7
  OBVIOUS
<1>3. /\ e1.from = o.from /\ e1.to = o.to /\ e1.promo = o.promo
      /\ e2.from = s.from /\ e2.to = s.to /\ e2.promo = s.promo
      /\ e3.from = king_square(board, them)
      /\ e4.from = o.from /\ e4.to = o.to /\ e4.promo = o.promo
      /\ e5.from = s.from /\ e5.to = s.to /\ e5.promo = s.promo
  OBVIOUS
<1>4. polyglot_to_engine(o, LegalMoves) = {other} /\ polyglot_to_engine(s, LegalMoves) = {some}
  BY ReadAsWritten DEF MovesInBook
<1>5. \A m \in LegalMoves : m.from # king_square(board, them)
  <2>1. \A m \in LegalMoves : board[m.from][1] = us
    BY LegalMovesFit DEF Fits
  <2>2. them \in Color /\ them # us
    BY DEF Sound, Color, WHITE, BLACK, Opposite, us, them
  <2>3. board[king_square(board, them)][1] = them
    BY <2>2, TheKing
  <2> QED BY <2>1, <2>2, <2>3
<1> HIDE DEF e1, e2, e3, e4, e5, B, o, s
<1>6. polyglot_to_engine(e3, LegalMoves) = {}
  BY <1>3, <1>5 DEF polyglot_to_engine, Means
<1>7. /\ polyglot_to_engine(e1, LegalMoves) = {other} /\ polyglot_to_engine(e2, LegalMoves) = {some}
      /\ polyglot_to_engine(e4, LegalMoves) = {other} /\ polyglot_to_engine(e5, LegalMoves) = {some}
  <2>1. polyglot_to_engine(e1, LegalMoves) = polyglot_to_engine(o, LegalMoves)
    BY <1>3, ReadBySquares
  <2>2. polyglot_to_engine(e2, LegalMoves) = polyglot_to_engine(s, LegalMoves)
    BY <1>3, ReadBySquares
  <2>3. polyglot_to_engine(e4, LegalMoves) = polyglot_to_engine(o, LegalMoves)
    BY <1>3, ReadBySquares
  <2>4. polyglot_to_engine(e5, LegalMoves) = polyglot_to_engine(s, LegalMoves)
    BY <1>3, ReadBySquares
  <2> QED BY <1>4, <2>1, <2>2, <2>3, <2>4
<1>8. B \in Seq(V) /\ Len(B) = 5 /\ B[1] = e1 /\ B[2] = e2 /\ B[3] = e3 /\ B[4] = e4 /\ B[5] = e5
  BY <1>1
<1>9. \A i \in 1 .. 5 : i = 1 \/ i = 2 \/ i = 3 \/ i = 4 \/ i = 5
  OBVIOUS
<1>10. Sorted(B)
  <2>1. \A i \in 1 .. 5 : B[i].key = IF i = 1 THEN 1 ELSE IF i < 5 THEN 2 ELSE 3
    BY <1>2, <1>8, <1>9
  <2>2. \A i, j \in 1 .. 5 : i <= j => B[i].key <= B[j].key
    BY <2>1
  <2>3. \A i \in 1 .. 5 : B[i].key \in Int
    BY <2>1
  <2> QED BY <1>8, <2>2, <2>3 DEF Sorted
<1> HIDE DEF V
<1> QED BY <1>2, <1>6, <1>7, <1>8, <1>10 DEF B, V, IsSmallBook

\* What a probe of the small book gathers, key by key.
LEMMA SmallBookProbed ==
  ASSUME NEW B, NEW some, NEW other, IsSmallBook(B, some, other)
  PROVE  /\ candidates(B, 0, LegalMoves) = <<>>
         /\ candidates(B, 1, LegalMoves) = <<[moves |-> {other}, weight |-> 3]>>
         /\ candidates(B, 2, LegalMoves)
              = <<[moves |-> {some}, weight |-> 2], [moves |-> {other}, weight |-> 1]>>
         /\ candidates(B, 3, LegalMoves) = <<[moves |-> {some}, weight |-> 7]>>
         /\ candidates(B, 4, LegalMoves) = <<>>
<1> DEFINE V == {B[1], B[2], B[3], B[4], B[5]}
           Key(i) == IF i = 1 THEN 1 ELSE IF i < 5 THEN 2 ELSE 3
<1>1. B \in Seq(V) /\ Len(B) = 5 /\ Sorted(B)
  BY DEF IsSmallBook
<1>2. \A i \in 1 .. 5 : i = 1 \/ i = 2 \/ i = 3 \/ i = 4 \/ i = 5
  OBVIOUS
<1>3. \A i \in 1 .. 5 : B[i].key = Key(i)
  BY <1>2 DEF IsSmallBook
<1>4. \A i \in 1 .. 5 : B[i].weight \in Nat
  BY <1>2 DEF IsSmallBook
<1> HIDE DEF V
<1>5. ASSUME NEW key \in Int, NEW a \in 0 .. 5, NEW b \in a .. 5,
             \A i \in 1 .. 5 : /\ i <= a => Key(i) < key
                               /\ i > a /\ i <= b => Key(i) = key
                               /\ i > b => Key(i) > key
      PROVE  ProbesInTurn(B, LegalMoves, key, a, b)
  <2>1. \A i \in 1 .. Len(B) : /\ i <= a => B[i].key < key
                               /\ i > a /\ i <= b => B[i].key = key
                               /\ i > b => B[i].key > key
    BY <1>1, <1>3, <1>5
  <2> HIDE DEF Key
  <2> QED BY <1>1, <1>4, <2>1, ProbeInTurn
<1>6. ASSUME NEW c, NEW e, NEW m, polyglot_to_engine(e, LegalMoves) = {m}
      PROVE  Gathered(LegalMoves, c, e) = Append(c, [moves |-> {m}, weight |-> IF e.weight = 0 THEN 1 ELSE e.weight])
  BY <1>6 DEF Gathered, Kept, Weighed
<1>7. candidates(B, 0, LegalMoves) = <<>>
  <2>1. ProbesInTurn(B, LegalMoves, 0, 0, 0)
    BY <1>5
  <2> QED BY <2>1 DEF ProbesInTurn
<1>8. candidates(B, 4, LegalMoves) = <<>>
  <2>1. ProbesInTurn(B, LegalMoves, 4, 5, 5)
    BY <1>5
  <2> QED BY <2>1 DEF ProbesInTurn
<1>9. candidates(B, 1, LegalMoves) = <<[moves |-> {other}, weight |-> 3]>>
  <2>1. ProbesInTurn(B, LegalMoves, 1, 0, 1)
    BY <1>5
  <2>2. PICK c : c[0] = <<>> /\ c[1] = Gathered(LegalMoves, c[0], B[1]) /\ candidates(B, 1, LegalMoves) = c[1]
    BY <2>1 DEF ProbesInTurn
  <2>3. Gathered(LegalMoves, c[0], B[1]) = Append(c[0], [moves |-> {other}, weight |-> 3])
    <3>1. polyglot_to_engine(B[1], LegalMoves) = {other} /\ B[1].weight = 3
      BY DEF IsSmallBook
    <3>2. Gathered(LegalMoves, c[0], B[1])
            = Append(c[0], [moves |-> {other}, weight |-> IF B[1].weight = 0 THEN 1 ELSE B[1].weight])
      BY ONLY <1>6, <3>1, Zenon
    <3>3. (IF B[1].weight = 0 THEN 1 ELSE B[1].weight) = 3
      BY ONLY <3>1
    <3> QED BY ONLY <3>2, <3>3
  <2> QED BY <2>2, <2>3
<1>10. candidates(B, 3, LegalMoves) = <<[moves |-> {some}, weight |-> 7]>>
  <2>1. ProbesInTurn(B, LegalMoves, 3, 4, 5)
    BY <1>5
  <2>2. PICK c : c[0] = <<>> /\ c[1] = Gathered(LegalMoves, c[0], B[5]) /\ candidates(B, 3, LegalMoves) = c[1]
    BY <2>1 DEF ProbesInTurn
  <2>3. Gathered(LegalMoves, c[0], B[5]) = Append(c[0], [moves |-> {some}, weight |-> 7])
    <3>1. polyglot_to_engine(B[5], LegalMoves) = {some} /\ B[5].weight = 7
      BY DEF IsSmallBook
    <3>2. Gathered(LegalMoves, c[0], B[5])
            = Append(c[0], [moves |-> {some}, weight |-> IF B[5].weight = 0 THEN 1 ELSE B[5].weight])
      BY ONLY <1>6, <3>1, Zenon
    <3>3. (IF B[5].weight = 0 THEN 1 ELSE B[5].weight) = 7
      BY ONLY <3>1
    <3> QED BY ONLY <3>2, <3>3
  <2> QED BY <2>2, <2>3
<1>11. candidates(B, 2, LegalMoves) = <<[moves |-> {some}, weight |-> 2], [moves |-> {other}, weight |-> 1]>>
  <2>1. ProbesInTurn(B, LegalMoves, 2, 1, 4)
    BY <1>5
  <2>2. PICK c : /\ c[0] = <<>> /\ \A i \in 1 .. 3 : c[i] = Gathered(LegalMoves, c[i - 1], B[1 + i])
                 /\ candidates(B, 2, LegalMoves) = c[3]
    BY <2>1 DEF ProbesInTurn
  <2>3. /\ c[1] = Gathered(LegalMoves, c[0], B[2]) /\ c[2] = Gathered(LegalMoves, c[1], B[3])
        /\ c[3] = Gathered(LegalMoves, c[2], B[4])
    BY <2>2
  <2>4. Gathered(LegalMoves, c[0], B[2]) = Append(c[0], [moves |-> {some}, weight |-> 2])
    <3>1. polyglot_to_engine(B[2], LegalMoves) = {some} /\ B[2].weight = 2
      BY DEF IsSmallBook
    <3>2. Gathered(LegalMoves, c[0], B[2])
            = Append(c[0], [moves |-> {some}, weight |-> IF B[2].weight = 0 THEN 1 ELSE B[2].weight])
      BY ONLY <1>6, <3>1, Zenon
    <3>3. (IF B[2].weight = 0 THEN 1 ELSE B[2].weight) = 2
      BY ONLY <3>1
    <3> QED BY ONLY <3>2, <3>3
  <2>5. Gathered(LegalMoves, c[1], B[3]) = c[1]
    BY DEF IsSmallBook, Gathered
  <2>6. Gathered(LegalMoves, c[2], B[4]) = Append(c[2], [moves |-> {other}, weight |-> 1])
    <3>1. polyglot_to_engine(B[4], LegalMoves) = {other}
      BY DEF IsSmallBook
    <3>2. Gathered(LegalMoves, c[2], B[4])
            = Append(c[2], [moves |-> {other}, weight |-> IF B[4].weight = 0 THEN 1 ELSE B[4].weight])
      BY ONLY <1>6, <3>1, Zenon
    <3>3. (IF B[4].weight = 0 THEN 1 ELSE B[4].weight) = 1
      BY DEF IsSmallBook
    <3> QED BY ONLY <3>2, <3>3
  <2> DEFINE x == [moves |-> {some}, weight |-> 2]  y == [moves |-> {other}, weight |-> 1]
  <2>7. c[2] = Append(<<>>, x) /\ candidates(B, 2, LegalMoves) = Append(c[2], y)
    BY <2>2, <2>3, <2>4, <2>5, <2>6
  <2> HIDE DEF x, y
  <2>8. candidates(B, 2, LegalMoves) = <<x, y>>
    BY <2>7
  <2> QED BY <2>8 DEF x, y
<1> QED BY <1>7, <1>8, <1>9, <1>10, <1>11

\* The heavier of two, the draw among three: two shares and one.
LEMMA TwoToOne ==
  ASSUME NEW v, NEW w
  PROVE  BestOfTwo(<<[moves |-> {v}, weight |-> 2], [moves |-> {w}, weight |-> 1]>>, v, w)
<1> DEFINE x == [moves |-> {v}, weight |-> 2]  y == [moves |-> {w}, weight |-> 1]  q == <<x, y>>
<1>1. x.moves = {v} /\ x.weight = 2 /\ y.moves = {w} /\ y.weight = 1 /\ x # y
  OBVIOUS
<1> HIDE DEF x, y
<1>2. DOMAIN q = {1, 2} /\ q[1] = x /\ q[2] = y /\ Len(q) = 2 /\ q \in Seq({x, y})
  OBVIOUS
<1>3. \A i \in 1 .. 2 : DOMAIN SubSeq(q, 1, i) = 1 .. i /\ \A j \in 1 .. i : SubSeq(q, 1, i)[j] = q[j]
  <2>1. \A i \in 1 .. 2 : Len(SubSeq(q, 1, i)) = i /\ SubSeq(q, 1, i) \in Seq({x, y})
    BY <1>2
  <2>2. \A i \in 1 .. 2 : \A j \in 1 .. i : SubSeq(q, 1, i)[j] = q[j]
    BY <1>2
  <2> HIDE DEF q
  <2> QED BY <2>1, <2>2
<1> HIDE DEF q
<1>4. [i \in DOMAIN q |-> q[i].moves] = <<{v}, {w}>>
  <2>1. DOMAIN <<{v}, {w}>> = {1, 2} /\ <<{v}, {w}>>[1] = {v} /\ <<{v}, {w}>>[2] = {w}
    OBVIOUS
  <2> QED BY <1>1, <1>2, <2>1
<1>5. best(q) = x
  <2> DEFINE S == {i \in DOMAIN q : \A j \in DOMAIN q : q[j].weight <= q[i].weight}
  <2>1. S = {1}
    BY <1>1, <1>2
  <2> HIDE DEF S
  <2>2. Min(S) = 1
    BY <2>1, LeastIs
  <2> QED BY <1>2, <2>2 DEF best, S
<1>6. ASSUME NEW p, NEW n \in 1 .. 2, DOMAIN p = 1 .. n, \A j \in 1 .. n : p[j] = q[j]
      PROVE  totalWeight(p) = n + 1
  <2>1. n \in Nat /\ \A i \in 1 .. n : p[i].weight = 3 - i /\ p[i].weight \in Int
    BY <1>1, <1>2, <1>6
  <2>2. WeighsInTurn(n, p)
    BY <1>6, <2>1, WeighedInTurn
  <2>3. PICK t : t[0] = 0 /\ (\A i \in 1 .. n : t[i] = t[i - 1] + p[i].weight) /\ totalWeight(p) = t[n]
    BY <2>2 DEF WeighsInTurn
  <2>4. t[1] = 2 /\ (n = 2 => t[2] = 3)
    BY <2>1, <2>3
  <2> QED BY <2>3, <2>4
<1>7. totalWeight(q) = 3 /\ totalWeight(SubSeq(q, 1, 1)) = 2 /\ totalWeight(SubSeq(q, 1, 2)) = 3
  <2>1. DOMAIN q = 1 .. 2
    BY <1>2
  <2>2. totalWeight(q) = 2 + 1
    BY <1>6, <2>1
  <2>3. \A i \in 1 .. 2 : totalWeight(SubSeq(q, 1, i)) = i + 1
    BY <1>3, <1>6
  <2> QED BY <2>2, <2>3
<1>8. ASSUME NEW p \in 0 .. 2 PROVE drawn(q, p) = IF p < 2 THEN x ELSE y
  <2> DEFINE S == {i \in DOMAIN q : p < totalWeight(SubSeq(q, 1, i))} \cup {Len(q)}
  <2>1. S = IF p < 2 THEN {1, 2} ELSE {2}
    BY <1>2, <1>7
  <2> HIDE DEF S
  <2>2. Min(S) = IF p < 2 THEN 1 ELSE 2
    BY <2>1, LeastIs
  <2> QED BY <1>2, <2>2 DEF drawn, S
<1>9. DrawnByWeight(q)
  <2> DEFINE D(i) == {p \in 0 .. totalWeight(q) - 1 : drawn(q, p) = q[i]}
  <2>1. D(1) = {0, 1} /\ D(2) = {2}
    BY <1>1, <1>2, <1>7, <1>8
  <2>2. Cardinality({0, 1}) = 2 /\ Cardinality({2}) = 1
    <3>1. \A a : IsFiniteSet({a}) /\ Cardinality({a}) = 1
      BY FS_Singleton
    <3>2. Cardinality(0 .. 1) = 2
      <4>1. \A a, b \in Int : Cardinality(a .. b) = IF a > b THEN 0 ELSE b - a + 1
        BY FS_Interval
      <4>2. Cardinality(0 .. 1) = IF 0 > 1 THEN 0 ELSE 1 - 0 + 1
        BY ONLY <4>1, 0 \in Int, 1 \in Int
      <4> QED BY ONLY <4>2
    <3>3. 0 .. 1 = {0, 1}
      OBVIOUS
    <3>4. Cardinality({2}) = 1
      BY <3>1
    <3> QED BY ONLY <3>2, <3>3, <3>4
  <2>3. \A i \in DOMAIN q : q[i].weight = Cardinality(D(i))
    <3> HIDE DEF D
    <3> QED BY <1>1, <1>2, <2>1, <2>2
  <2> QED BY <2>3 DEF DrawnByWeight
<1>10. BestOfTwo(q, v, w)
  BY <1>1, <1>4, <1>5, <1>9 DEF BestOfTwo
<1> QED BY <1>10 DEF q, x, y

\* A probe of the small book is as the book is, for any two legal moves.
LEMMA BookAnswersExact ==
  ASSUME Sound(board, us, st), BothKings, CheckersExact, EpBehind
  PROVE  BookAnswers(LegalMoves)
<1> SUFFICES ASSUME NEW some \in LegalMoves
             PROVE  LET other == CHOOSE m \in LegalMoves : LegalMoves = {some} \/ m # some
                    IN  ProbesExact(SmallBook(some, other), LegalMoves, some, other)
  BY DEF BookAnswers
<1> DEFINE other == CHOOSE m \in LegalMoves : LegalMoves = {some} \/ m # some
           B == SmallBook(some, other)
<1>1. other \in LegalMoves
  OBVIOUS
<1> HIDE DEF other
<1>2. IsSmallBook(B, some, other)
  BY <1>1, SmallBookRead
<1> HIDE DEF B
<1>3. BestOfTwo(candidates(B, 2, LegalMoves), some, other)
  BY <1>2, SmallBookProbed, TwoToOne
<1>4. \A k \in 0 .. 4 : Len(candidates(B, k, LegalMoves)) = <<0, 1, 2, 1, 0>>[k + 1]
  <2>1. /\ Len(candidates(B, 0, LegalMoves)) = 0 /\ Len(candidates(B, 1, LegalMoves)) = 1
        /\ Len(candidates(B, 2, LegalMoves)) = 2 /\ Len(candidates(B, 3, LegalMoves)) = 1
        /\ Len(candidates(B, 4, LegalMoves)) = 0
    BY <1>2, SmallBookProbed
  <2>2. \A k \in 0 .. 4 : k = 0 \/ k = 1 \/ k = 2 \/ k = 3 \/ k = 4
    OBVIOUS
  <2>3. <<0, 1, 2, 1, 0>>[0 + 1] = 0 /\ <<0, 1, 2, 1, 0>>[1 + 1] = 1 /\ <<0, 1, 2, 1, 0>>[2 + 1] = 2
        /\ <<0, 1, 2, 1, 0>>[3 + 1] = 1 /\ <<0, 1, 2, 1, 0>>[4 + 1] = 0
    OBVIOUS
  <2> QED BY <2>1, <2>2, <2>3
<1> QED BY <1>3, <1>4 DEF ProbesExact, B, other

\* From legal positions, whatever the line: every legal move is what Polyglot writes for it and
\* nothing else is; the key counts en passant only where a pawn stands beside the one that has
\* moved; and a probe, for any two legal moves, finds all entries of its key and no other's,
\* passes over a move that is not legal here, takes the heaviest and draws each in its weight's
\* share, a weight of 0 being 1 (book.cpp: polyglot_key, polyglot_to_engine, probe).
THEOREM BookAlwaysExact ==
  ASSUME \A f \in StartPositions : LegalStart(f)
  PROVE  Spec /\ [][CastlesOffTheRank]_vars => []BookExact
<1>1. ASSUME LegalWalk PROVE BookExact
  <2>1. Sound(board, us, st) /\ BothKings /\ CheckersExact /\ EpBehind
    BY <1>1, CurrentIsLegal
  <2>2. MovesInBook(LegalMoves) /\ BookAnswers(LegalMoves)
    BY <2>1, ReadAsWritten, BookAnswersExact
  <2>3. {s \in DOMAIN board : board[s] = make_piece(us, PAWN) /\ st.epSquare \in PawnAttacks[us][s]} = {}
          => \A f \in 0 .. 7 : <<"enpassant", f>> \notin polyglot_key
    BY <2>1, BesideOrNone
  <2> QED BY <2>2, <2>3 DEF BookExact
<1> QED BY <1>1, WalkAlwaysLegal, PTL
=============================================================================
