----------------------------- MODULE HandCrafted -----------------------------
(***************************************************************************)
(* The hand-crafted evaluation (eval.cpp), which scores a position while   *)
(* no network is loaded or "Use NNUE" is off.  A score is a pair, for the  *)
(* middlegame and the endgame.  Of the piece-square tables only that every *)
(* piece on every square has a value of its own is kept.                   *)
(***************************************************************************)
EXTENDS MoveGen

Nil == <<0, 0>>
Plus(a, b) == <<a[1] + b[1], a[2] + b[2]>>
Times(k, a) == <<k * a[1], k * a[2]>>
Total(terms) == FoldFunction(Plus, Nil, terms)

\* Division as C++ has it: towards zero.
Quotient(a, b) == IF a >= 0 THEN a \div b ELSE -((-a) \div b)

----------------------------------------------------------------------------
(* The tables. *)

Value2 == [pt \in PieceType |->
    CASE pt = PAWN -> <<82, 94>> [] pt = KNIGHT -> <<337, 281>> [] pt = BISHOP -> <<365, 297>>
      [] pt = ROOK -> <<477, 512>> [] pt = QUEEN -> <<1025, 936>> [] pt = KING -> Nil]

psqt == [pt \in PieceType, s \in Square |->
    LET nth == Value2[pt][1] + s IN <<(nth * 37) % 131, (nth * 53) % 127>>]

\* Black's squares are seen from its own side.
Table == [c \in Color, pt \in PieceType, s \in Square |-> Plus(Value2[pt], psqt[pt, relative_square(c, s)])]

Tempo == 10

\* By the number of safe squares, from none.
Mobility == [pt \in {KNIGHT, BISHOP, ROOK, QUEEN} |->
    CASE pt = KNIGHT -> <<<<-30, -20, -6, 0, 6, 12, 17, 21, 24>>,
                          <<-30, -20, -6, 0, 6, 12, 17, 21, 24>>>>
      [] pt = BISHOP -> <<<<-25, -12, 2, 8, 14, 19, 23, 26, 28, 30, 31, 32, 33, 34>>,
                          <<-30, -15, -3, 5, 12, 20, 26, 30, 33, 35, 37, 38, 39, 40>>>>
      [] pt = ROOK -> <<<<-30, -16, -4, -2, 0, 2, 5, 8, 10, 12, 13, 14, 15, 16, 16>>,
                        <<-40, -18, 4, 14, 24, 32, 40, 48, 54, 58, 62, 64, 66, 68, 69>>>>
      [] pt = QUEEN -> <<<<-20, -12, -4, -2, 2, 5, 7, 9, 11, 13, 14, 15, 16, 17, 18, 18, 19, 19,
                           20, 20, 21, 21, 22, 22, 23, 23, 23, 24>>,
                         <<-25, -15, -8, 0, 7, 14, 20, 25, 29, 33, 36, 39, 41, 43, 45, 47, 48, 49,
                           50, 51, 52, 52, 53, 53, 54, 54, 55, 55>>>>]

IsolatedPawn == <<-8, -12>>
DoubledPawn == <<-8, -18>>
BackwardPawn == <<-6, -10>>
PassedPawn == <<<<2, 8>>, <<6, 12>>, <<12, 22>>, <<24, 45>>, <<45, 80>>, <<75, 130>>>>
BishopPair == <<25, 45>>
RookOpenFile == <<28, 12>>
RookSemiOpenFile == <<12, 8>>
RookOn7th == <<12, 24>>
PawnShield == <<8, 0>>
KingAttackWeight == [pt \in {KNIGHT, BISHOP, ROOK, QUEEN} |->
    CASE pt = KNIGHT -> 2 [] pt = BISHOP -> 2 [] pt = ROOK -> 3 [] pt = QUEEN -> 5]
KingDanger == <<0, 0, 2, 5, 9, 14, 20, 27, 35, 44, 54, 65, 77, 90, 104, 119>>
SpaceBonus == <<2, 0>>

----------------------------------------------------------------------------
(* The spans of a pawn. *)

file_bb(f) == {s \in Square : file_of(s) = f}
rank_bb(r) == {s \in Square : rank_of(s) = r}
forward_file_bb(c, s) == {t \in file_bb(file_of(s)) : relative_rank(c, t) > relative_rank(c, s)}
Beside(squares) == {t \in Square : \E s \in squares : rank_of(t) = rank_of(s) /\ Gap(file_of(t), file_of(s)) = 1}
passed_span_bb(c, s) == LET front == forward_file_bb(c, s) IN front \cup Beside(front)
adjacent_files_bb(s) == Beside(file_bb(file_of(s)))

pawns(b, c) == {s \in DOMAIN b : b[s] = make_piece(c, PAWN)}
Of(b, c, pt) == {s \in DOMAIN b : b[s] = make_piece(c, pt)}
pawn_attacks_bb(b, c) == UNION {PawnAttacks[c][s] : s \in pawns(b, c)}

----------------------------------------------------------------------------
(* The terms of one side. *)

mobility(b, c) ==
    LET area == (Square \ PiecesOf(b, c)) \ pawn_attacks_bb(b, Opposite(c))
    IN  Total([s \in PiecesOf(b, c) \cap PiecesOfType(b, DOMAIN Mobility) |->
                 LET pt == b[s][2]
                     n == Cardinality(attacks_bb(pt, s, DOMAIN b) \cap area)
                 IN  <<Mobility[pt][1][n + 1], Mobility[pt][2][n + 1]>>])

rook_activity(b, c) ==
    Total([s \in Of(b, c, ROOK) |->
             LET f == file_bb(file_of(s))
             IN  Plus(IF (pawns(b, WHITE) \cup pawns(b, BLACK)) \cap f = {} THEN RookOpenFile
                      ELSE IF pawns(b, c) \cap f = {} THEN RookSemiOpenFile ELSE Nil,
                      IF relative_rank(c, s) = 6 THEN RookOn7th ELSE Nil)])

bishop_pair(b, c) == IF Cardinality(Of(b, c, BISHOP)) >= 2 THEN BishopPair ELSE Nil

isolated(b, c, s) == pawns(b, c) \cap adjacent_files_bb(s) = {}
passed(b, c, s) == pawns(b, Opposite(c)) \cap passed_span_bb(c, s) = {}

\* The span behind the pawn is of its own file, so that beside it only pawns of
\* its own rank count as support.
backward(b, c, s) ==
    /\ ~isolated(b, c, s)
    /\ LET behindIncl == forward_file_bb(Opposite(c), s) \cup rank_bb(rank_of(s))
       IN  pawns(b, c) \cap adjacent_files_bb(s) \cap behindIncl = {}
    /\ s + Up(c) \in pawn_attacks_bb(b, Opposite(c))

pawn_structure(b, c) ==
    LET alone == [s \in pawns(b, c) |->
            Plus(IF isolated(b, c, s) THEN IsolatedPawn
                 ELSE IF backward(b, c, s) THEN BackwardPawn ELSE Nil,
                 IF passed(b, c, s) THEN PassedPawn[relative_rank(c, s)] ELSE Nil)]
        extra(f) == Cardinality(pawns(b, c) \cap file_bb(f)) - 1
        doubled == [f \in 0 .. 7 |-> IF extra(f) > 0 THEN Times(extra(f), DoubledPawn) ELSE Nil]
    IN  Plus(Total(alone), Total(doubled))

\* The two ranks before the king; on Black's second rank, the first, where no pawn is.
ShieldZone(c, ksq) ==
    LET kr == rank_of(ksq)
    IN  IF c = WHITE THEN (IF kr <= 5 THEN rank_bb(kr + 1) ELSE {}) \cup (IF kr <= 4 THEN rank_bb(kr + 2) ELSE {})
        ELSE (IF kr >= 1 THEN rank_bb(kr - 1) ELSE {}) \cup (IF kr >= 2 THEN rank_bb(kr - 2) ELSE {})

attack_weight(b, c) ==
    LET ring == PseudoAttacks[KING][king_square(b, c)] \cup {king_square(b, c)}
        attackers == {s \in PiecesOf(b, Opposite(c)) :
                        b[s][2] \in DOMAIN KingAttackWeight /\ attacks_bb(b[s][2], s, DOMAIN b) \cap ring # {}}
        weight == MapThenSumSet(LAMBDA s : KingAttackWeight[b[s][2]], attackers)
    IN  IF weight > 15 THEN 15 ELSE weight

king_safety(b, c) ==
    LET ksq == king_square(b, c)
        files == file_bb(file_of(ksq)) \cup adjacent_files_bb(ksq)
        shield == Cardinality(pawns(b, c) \cap files \cap ShieldZone(c, ksq))
    IN  Plus(Times(shield, PawnShield), <<-KingDanger[attack_weight(b, c) + 1], 0>>)

\* Shifts by one, two and four ranks carry a pawn's mark to every square behind it.
space(b, c) ==
    LET spread(squares, ranks) == squares \cup ({s - ranks * Up(c) : s \in squares} \cap Square)
        behind == spread(spread(spread(pawns(b, c), 1), 2), 4)
        safe == ({s \in behind : file_of(s) \in 2 .. 5} \ DOMAIN b) \ pawn_attacks_bb(b, Opposite(c))
    IN  Times(Cardinality(safe), SpaceBonus)

extended(b, c) ==
    Plus(Plus(Plus(mobility(b, c), rook_activity(b, c)), Plus(bishop_pair(b, c), pawn_structure(b, c))),
         Plus(king_safety(b, c), space(b, c)))

----------------------------------------------------------------------------
(* The whole: the mover's view of the two scores blended by the material left. *)

Dark(s) == (file_of(s) + rank_of(s)) % 2 = 0

\* Bishops of opposite colors and nothing else but pawns.
endgame_scale(b) ==
    LET one(c) == Cardinality(Of(b, c, BISHOP)) = 1
        dark(c) == Dark(Min(Of(b, c, BISHOP)))
    IN  IF one(WHITE) /\ one(BLACK) /\ dark(WHITE) # dark(BLACK)
           /\ PiecesOfType(b, {KNIGHT, ROOK, QUEEN}) = {} THEN 22 ELSE 64

game_phase(b) ==
    LET n(pt) == Cardinality(PiecesOfType(b, {pt}))
        phase == n(KNIGHT) + n(BISHOP) + 2 * n(ROOK) + 4 * n(QUEEN)
    IN  IF phase < 24 THEN phase ELSE 24

blend(score, scale, phase) ==
    Quotient(score[1] * phase + Quotient(score[2] * scale, 64) * (24 - phase), 24)

evaluate(b, side) ==
    LET placed(c) == Total([s \in PiecesOf(b, c) |-> Table[c, b[s][2], s]])
        score(c) == Plus(placed(c), extended(b, c))
        white == blend(Plus(score(WHITE), Times(-1, score(BLACK))), endgame_scale(b), game_phase(b))
    IN  (IF side = WHITE THEN 1 ELSE -1) * white + Tempo

----------------------------------------------------------------------------
\* The hand-crafted evaluation is "exactly color-symmetric" (eval.cpp:341): the
\* position with the colors exchanged has the same value for its mover, through
\* every span, shield and rounding; and the pawns it calls passed are those that no
\* pawn of the other side stands before, or can be pushed to attack on its way.
HandCraftedFair ==
    LET flipped == [s \in {relative_square(BLACK, t) : t \in DOMAIN board} |->
                       LET pc == board[relative_square(BLACK, s)] IN make_piece(Opposite(pc[1]), pc[2])]
        pushes(c, t) == {t} \cup forward_file_bb(c, t)
        guarded(c) == UNION {pushes(c, t) \cup UNION {PawnAttacks[c][r] : r \in pushes(c, t)} : t \in pawns(board, c)}
    IN  /\ evaluate(flipped, Opposite(us)) = evaluate(board, us)
        /\ \A c \in Color : \A s \in pawns(board, c) :
             passed(board, c, s) <=> ({s} \cup forward_file_bb(c, s)) \cap guarded(Opposite(c)) = {}
=============================================================================
