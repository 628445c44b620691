------------------------------ MODULE MoveGen ------------------------------
(***************************************************************************)
(* Move generation (movegen.cpp): the pseudo-legal generators by type, and *)
(* generate<LEGAL>, which filters them through legal() only where it must. *)
(* A list of moves is a set: the order is the move ordering's business.    *)
(***************************************************************************)
EXTENDS Position

CAPTURES == "captures"
QUIETS == "quiets"
EVASIONS == "evasions"
NON_EVASIONS == "non_evasions"

\* Every promotion piece comes out once over CAPTURES and QUIETS.
promotion_pieces(type) ==
    CASE type = CAPTURES -> {QUEEN}
      [] type = QUIETS -> {ROOK, BISHOP, KNIGHT}
      [] OTHER -> {QUEEN, ROOK, BISHOP, KNIGHT}

\* In EVASIONS target is the checker and the squares that block it.
generate_pawn_moves(type, target) ==
    LET up == Up(us)
        empty == Square \ pieces(board)
        enemies == IF type = EVASIONS THEN st.checkersBB ELSE PiecesOf(board, them)
        pawns == PiecesOf(board, us) \cap PiecesOfType(board, {PAWN})
        pawnsOn7 == {s \in pawns : relative_rank(us, s) = 6}
        pawnsNotOn7 == pawns \ pawnsOn7
        wanted(s) == type = EVASIONS => s \in target
        single == {s \in pawnsNotOn7 : s + up \in empty}
        double == {s \in single : relative_rank(us, s) = 1 /\ s + 2 * up \in empty}
        captures == UNION {{Move(s, t) : t \in PawnAttacks[us][s] \cap enemies} : s \in pawnsNotOn7}
        pushes == {Move(s, s + up) : s \in {p \in single : wanted(p + up)}}
                    \cup {Move(s, s + 2 * up) : s \in {p \in double : wanted(p + 2 * up)}}
        promoting == UNION {{Move(s, t) : t \in (PawnAttacks[us][s] \cap enemies)
                                            \cup {q \in {s + up} \cap empty : wanted(q)}} : s \in pawnsOn7}
        promotions == UNION {{MakeMove(PROMOTION, m.from, m.to, pt) : pt \in promotion_pieces(type)} :
                                m \in promoting}
        ep == st.epSquare
        enPassant == IF ep = SQ_NONE \/ (type = EVASIONS /\ ep - up \notin target) THEN {}
                     ELSE {MakeMove(EN_PASSANT, s, ep, KNIGHT) : s \in pawnsNotOn7 \cap PawnAttacks[them][ep]}
    IN  promotions
          \cup (IF type = CAPTURES THEN {} ELSE pushes)
          \cup (IF type = QUIETS THEN {} ELSE captures \cup enPassant)

generate_moves(types, target) ==
    UNION {{Move(s, t) : t \in attacks_bb(board[s][2], s, pieces(board)) \cap target} :
              s \in PiecesOf(board, us) \cap PiecesOfType(board, types)}

generate_castling == {MakeMove(CASTLING, king_square(board, us), king_to(cr), KNIGHT) :
    cr \in {r \in {us} \X CastlingSide : can_castle(r) /\ ~castling_impeded(r)}}

generate_all(type) ==
    LET ksq == king_square(board, us)
        checkers == st.checkersBB
        reachable == CASE type = CAPTURES -> PiecesOf(board, them)
                       [] type = QUIETS -> Square \ pieces(board)
                       [] OTHER -> Square \ PiecesOf(board, us)
        target == IF type = EVASIONS
                  THEN BetweenBB[ksq][Min(checkers)] \cup checkers ELSE reachable
    IN  generate_moves({KING}, reachable)
          \cup (IF type \in {QUIETS, NON_EVASIONS} THEN generate_castling ELSE {})
          \cup (IF type = EVASIONS /\ Cardinality(checkers) > 1 THEN {}
                ELSE generate_pawn_moves(type, target)
                       \cup generate_moves({KNIGHT, BISHOP, ROOK, QUEEN}, target))

\* generate<LEGAL> trusts every move but those of a pinned piece, of the king,
\* and en passant captures.
LegalMoves ==
    LET pinned == st.blockersForKing[us] \cap PiecesOf(board, us)
        suspect(m) == m.from \in pinned \/ m.from = king_square(board, us) \/ m.type = EN_PASSANT
        generated == generate_all(IF st.checkersBB # {} THEN EVASIONS ELSE NON_EVASIONS)
    IN  {m \in generated : suspect(m) => legal(m)}

\* What qsearch tries when it is not in check.
QsearchMoves == {m \in generate_all(CAPTURES) : legal(m)}

\* A pawn captures, pushes, or pushes two squares.
pawn_reaches(m) ==
    LET up == Up(us)
    IN  \/ m.to \in PawnAttacks[us][m.from] \cap PiecesOf(board, them)
        \/ m.to = m.from + up /\ m.to \notin pieces(board)
        \/ /\ m.to = m.from + 2 * up /\ relative_rank(us, m.from) = 1
           /\ {m.to, m.from + up} \cap pieces(board) = {}

\* pseudo_legal: does an arbitrary move fit the position?
pseudo_legal(m) ==
    LET pc == piece_on(m.from)
        cr == <<us, Side(m.from, m.to)>>
    IN  /\ pc # NO_PIECE /\ pc[1] = us
        /\ m.to \notin PiecesOf(board, us)
        /\ CASE m.type = EN_PASSANT ->
                  /\ pc[2] = PAWN /\ m.to = st.epSquare /\ m.to \notin pieces(board)
                  /\ piece_on(ep_capture_square(m)) = make_piece(them, PAWN)
                  /\ m.to \in PawnAttacks[us][m.from]
             [] m.type = CASTLING ->
                  /\ pc[2] = KING /\ can_castle(cr) /\ ~castling_impeded(cr)
                  /\ st.checkersBB = {} /\ m.to = king_to(cr)
             [] m.type = PROMOTION ->
                  /\ pc[2] = PAWN /\ pawn_reaches(m)
                  /\ relative_rank(us, m.from) = 6 /\ relative_rank(us, m.to) = 7
             [] m.type = NORMAL /\ pc[2] = PAWN -> pawn_reaches(m) /\ relative_rank(us, m.to) # 7
             [] OTHER -> m.to \in attacks_bb(pc[2], m.from, pieces(board))
=============================================================================
