--------------------------- MODULE StaticExchange ---------------------------
(***************************************************************************)
(* Static exchange evaluation (Position::see_ge): would capturing and      *)
(* recapturing on one square leave the mover at least threshold ahead?     *)
(***************************************************************************)
EXTENDS MoveGen

\* The least valuable type of piece that a set of attackers holds.
ByValue == <<PAWN, KNIGHT, BISHOP, ROOK, QUEEN, KING>>
LeastType(attackers) ==
    ByValue[Min({i \in DOMAIN ByValue : \E s \in attackers : board[s][2] = ByValue[i]})]

\* Mutant: nothing is uncovered behind a rook.
XRaysNotRook(pt, to, occupied) ==
    UNION {attacks_bb(line, to, occupied) \cap SlidersOn(board, line) :
             line \in CASE pt \in {PAWN, BISHOP} -> {BISHOP}
                        [] pt = QUEEN -> {BISHOP, ROOK}
                        [] OTHER -> {}}

\* The sliders a departing piece of type pt may uncover behind it.
XRays(pt, to, occupied) ==
    UNION {attacks_bb(line, to, occupied) \cap SlidersOn(board, line) :
             line \in CASE pt \in {PAWN, BISHOP} -> {BISHOP}
                        [] pt = ROOK -> {ROOK}
                        [] pt = QUEEN -> {BISHOP, ROOK}
                        [] OTHER -> {}}

\* The loop of see_ge, one capture of stm's opponent at a time.
RECURSIVE exchange(_, _, _, _, _, _)
exchange(to, stm, swap, res, occupied, candidates) ==
    LET side == Opposite(stm)
        attackers == candidates \cap occupied
        stmAttackers == attackers \cap PiecesOf(board, side)
        pt == LeastType(stmAttackers)
        next == PieceValue[pt] - swap
        left == occupied \ {Min({s \in stmAttackers : board[s][2] = pt})}
    IN  CASE stmAttackers = {} -> res
          [] stmAttackers # {} /\ pt = KING ->
                IF attackers \ PiecesOf(board, side) # {} THEN res ELSE 1 - res
          [] stmAttackers # {} /\ pt # KING /\ next < 1 - res -> 1 - res
          [] OTHER -> exchange(to, side, next, 1 - res, left,
                               attackers \cup XRays(pt, to, left))

see_ge(m, threshold) ==
    LET victim == piece_on(m.to)
        gain == (IF victim = NO_PIECE THEN 0 ELSE PieceValue[victim[2]]) - threshold
        risk == PieceValue[board[m.from][2]] - gain
        occupied == SymDiff(SymDiff(pieces(board), {m.from}), {m.to})
    IN  IF m.type # NORMAL THEN 0 >= threshold
        ELSE /\ gain >= 0
             /\ \/ risk <= 0
                \/ exchange(m.to, us, risk, 1, occupied, attackers_to(board, m.to, occupied)) = 1

----------------------------------------------------------------------------
(* The reference: the material each side wins if it may stop at will and   *)
(* captures with its least valuable piece, on boards that really lose the  *)
(* pieces as they capture.                                                 *)

LOCAL R == INSTANCE ChessRules

RECURSIVE Winnings(_, _, _, _)
Winnings(b, c, to, prize) ==
    LET attackers == R!AttackersOf(b, c, to)
        pt == LeastType(attackers)
        left == remove_piece(b, Min({s \in attackers : b[s][2] = pt}))
    IN  IF attackers = {} \/ (pt = KING /\ R!AttackersOf(b, Opposite(c), to) # {})
        THEN 0
        ELSE LET kept == prize - Winnings(left, Opposite(c), to, PieceValue[pt])
             IN  IF kept > 0 THEN kept ELSE 0

\* The thresholds the search asks about: in qsearch, for its order of captures, and for
\* its pruning of every depth; with 0 and one that a move has to gain.
Thresholds == {-100, -50, 0, 100} \cup {-25 * depth * depth : depth \in 1 .. 6}

\* What see_ge answers is whether the exchange, played out, reaches the
\* threshold, for the thresholds the search asks about before it makes a move.
SeeExact == \A m \in {n \in LegalMoves : n.type = NORMAL}, threshold \in Thresholds :
    LET victim == piece_on(m.to)
        prize == IF victim = NO_PIECE THEN 0 ELSE PieceValue[victim[2]]
        b == Restrict(board, DOMAIN board \ {m.from, m.to})
    IN  see_ge(m, threshold)
          <=> prize - Winnings(b, them, m.to, PieceValue[board[m.from][2]]) >= threshold
=============================================================================
