----------------------------- MODULE Bitboards -----------------------------
(***************************************************************************)
(* The geometry of the board: types.hpp, bitboard.hpp/.cpp, attacks.hpp/   *)
(* .cpp.  A Bitboard is the set of the squares whose bit is set.  The      *)
(* magic tables are modelled by what they look up, the ray walk of         *)
(* sliding_attack that fills them; between_bb and line_bb are computed     *)
(* from slider attacks as Bitboards::init does.  A board is a function     *)
(* from the occupied squares to the pieces on them.                        *)
(***************************************************************************)
EXTENDS Integers, Sequences, FiniteSetsExt, Functions

Square == 0 .. 63
SQ_NONE == 64
file_of(s) == s % 8
rank_of(s) == s \div 8

WHITE == 0
BLACK == 1
Color == {WHITE, BLACK}
Opposite(c) == 1 - c

\* Black sees the board mirrored from rank to rank.
relative_rank(c, s) == IF c = WHITE THEN rank_of(s) ELSE 7 - rank_of(s)
relative_square(c, s) == 8 * relative_rank(c, s) + file_of(s)

NORTH == 8
EAST == 1
Up(c) == IF c = WHITE THEN NORTH ELSE -NORTH

PAWN == "pawn"
KNIGHT == "knight"
BISHOP == "bishop"
ROOK == "rook"
QUEEN == "queen"
KING == "king"
PieceType == {PAWN, KNIGHT, BISHOP, ROOK, QUEEN, KING}
make_piece(c, pt) == <<c, pt>>
Piece == Color \X PieceType
NO_PIECE == <<>>

PieceValue == [pt \in PieceType |->
    CASE pt = PAWN -> 100 [] pt = KNIGHT -> 320 [] pt = BISHOP -> 330
      [] pt = ROOK -> 500 [] pt = QUEEN -> 900 [] pt = KING -> 0]

----------------------------------------------------------------------------
(* Attacks. *)

Gap(i, j) == IF i < j THEN j - i ELSE i - j

SquareDistance == [a \in Square |-> [b \in Square |->
    LET df == Gap(file_of(a), file_of(b))
        dr == Gap(rank_of(a), rank_of(b))
    IN  IF df > dr THEN df ELSE dr]]

Directions(pt) ==
    (IF pt = BISHOP THEN {} ELSE {NORTH, -NORTH, EAST, -EAST})
      \cup (IF pt = ROOK THEN {} ELSE {NORTH + EAST, NORTH - EAST, EAST - NORTH, -NORTH - EAST})

\* The squares of a ray in the order the walk visits them: it ends where the
\* next step leaves the board or wraps round its edge.
Ray == [s \in Square |-> [d \in Directions(QUEEN) |->
    LET OnBoard(n) == \A k \in 1 .. n :
            /\ s + k * d \in Square
            /\ SquareDistance[s + (k - 1) * d][s + k * d] = 1
    IN  [n \in 1 .. Cardinality({n \in 1 .. 7 : OnBoard(n)}) |-> s + n * d]]]

\* Along each ray up to and including the first occupied square.
sliding_attack(pt, s, occupied) ==
    UNION {{ray[n] : n \in {i \in DOMAIN ray : \A k \in 1 .. i - 1 : ray[k] \notin occupied}} :
              ray \in {Ray[s][d] : d \in Directions(pt)}}

leaper_steps(pt) ==
    IF pt = KNIGHT THEN {17, 15, 10, 6, -17, -15, -10, -6} ELSE {9, 8, 7, 1, -9, -8, -7, -1}

leaper_attacks(pt, s) ==
    {t \in {s + d : d \in leaper_steps(pt)} \cap Square : SquareDistance[s][t] <= 2}

PawnAttacks == [c \in Color |-> [s \in Square |->
    {t \in {s + Up(c) + EAST, s + Up(c) - EAST} \cap Square :
        SquareDistance[s][t] = 1}]]

attacks_bb(pt, s, occupied) ==
    IF pt \in {KNIGHT, KING} THEN leaper_attacks(pt, s) ELSE sliding_attack(pt, s, occupied)

PseudoAttacks == [pt \in PieceType \ {PAWN} |-> [s \in Square |-> attacks_bb(pt, s, {})]]

\* Both tables are empty for two squares on no common line.
SliderJoining(a, b) == {pt \in {BISHOP, ROOK} : b \in PseudoAttacks[pt][a]}

BetweenBB == [a \in Square |-> [b \in Square |->
    UNION {attacks_bb(pt, a, {b}) \cap attacks_bb(pt, b, {a}) :
              pt \in SliderJoining(a, b)}]]

LineBB == [a \in Square |-> [b \in Square |->
    UNION {(PseudoAttacks[pt][a] \cap PseudoAttacks[pt][b]) \cup {a, b} :
              pt \in SliderJoining(a, b)}]]

aligned(a, b, c) == c \in LineBB[a][b]

----------------------------------------------------------------------------
(* The pieces of a board and its low-level mutation. *)

pieces(b) == DOMAIN b
PiecesOf(b, c) == {s \in DOMAIN b : b[s][1] = c}
PiecesOfType(b, types) == {s \in DOMAIN b : b[s][2] \in types}
king_square(b, c) == CHOOSE s \in DOMAIN b : b[s] = make_piece(c, KING)

put_piece(b, pc, s) ==
    [t \in DOMAIN b \cup {s} |-> IF t = s THEN pc ELSE b[t]]
remove_piece(b, s) == Restrict(b, DOMAIN b \ {s})
move_piece(b, from, to) == put_piece(remove_piece(b, from), b[from], to)
============================================================================
