--------------------------- MODULE WizardMoveGen ---------------------------
(***************************************************************************)
(* Move generation of the wizard engine (wizard/movegen.cpp), and the      *)
(* questions of position.cpp that are about moves: whether a remembered    *)
(* move fits the position, whether some move repeats an earlier one, and   *)
(* whether an exchange of pieces pays.                                     *)
(***************************************************************************)
EXTENDS WizardPosition

CAPTURES == "captures"
QUIETS == "quiets"
EVASIONS == "evasions"
NON_EVASIONS == "non_evasions"

\* make_promotions: CAPTURES has every promotion that captures and the quiet
\* queens, QUIETS the quiet underpromotions.
promotion_pieces(type, enemy) ==
    CASE type = CAPTURES -> IF enemy THEN {QUEEN, ROOK, BISHOP, KNIGHT} ELSE {QUEEN}
      [] type = QUIETS -> IF enemy THEN {} ELSE {ROOK, BISHOP, KNIGHT}
      [] OTHER -> {QUEEN, ROOK, BISHOP, KNIGHT}

\* In EVASIONS target is the checker and the squares that block it; an en
\* passant capture is left out only when its square is one the check passes.
generate_pawn_moves(type, target) ==
    LET up == Up(us)
        empty == Square \ pieces(board)
        enemies == IF type = EVASIONS THEN st.checkersBB ELSE PiecesOf(board, them)
        pawns == PiecesOf(board, us) \cap PiecesOfType(board, {PAWN})
        pawnsOn7 == {s \in pawns : relative_rank(us, s) = 6}
        pawnsNotOn7 == pawns \ pawnsOn7
        wanted == IF type = EVASIONS THEN target ELSE Square
        single == {s \in pawnsNotOn7 : s + up \in empty}
        double == {s \in single : relative_rank(us, s) = 1 /\ s + 2 * up \in empty}
        pushes == {Move(s, s + up) : s \in {p \in single : p + up \in wanted}}
                    \cup {Move(s, s + 2 * up) : s \in {p \in double : p + 2 * up \in wanted}}
        captures == UNION {{Move(s, t) : t \in PawnAttacks[us][s] \cap enemies} : s \in pawnsNotOn7}
        Promotions(s, t, enemy) ==
            {MakeMove(PROMOTION, s, t, pt) : pt \in promotion_pieces(type, enemy)}
        promotions == UNION {(UNION {Promotions(s, t, TRUE) : t \in PawnAttacks[us][s] \cap enemies})
                               \cup (UNION {Promotions(s, t, FALSE) : t \in {s + up} \cap empty \cap wanted}) :
                                 s \in pawnsOn7}
        ep == st.epSquare
        enPassant == IF ep = SQ_NONE \/ (type = EVASIONS /\ ep + up \in target) THEN {}
                     ELSE {MakeMove(EN_PASSANT, s, ep, KNIGHT) : s \in pawnsNotOn7 \cap PawnAttacks[them][ep]}
    IN  promotions
          \cup (IF type = CAPTURES THEN {} ELSE pushes)
          \cup (IF type = QUIETS THEN {} ELSE captures \cup enPassant)

generate_moves(types, target) ==
    UNION {{Move(s, t) : t \in attacks_bb(board[s][2], s, pieces(board)) \cap target} :
              s \in PiecesOf(board, us) \cap PiecesOfType(board, types)}

generate_castling == {MakeMove(CASTLING, square(board, us), castling_rook_square(cr), KNIGHT) :
    cr \in {r \in st.castlingRights : r[1] = us /\ ~castling_impeded(r)}}

generate_all(type) ==
    LET ksq == square(board, us)
        reachable == CASE type = CAPTURES -> PiecesOf(board, them)
                       [] type = QUIETS -> Square \ pieces(board)
                       [] OTHER -> Square \ PiecesOf(board, us)
        target == IF type = EVASIONS THEN BetweenTable[ksq, Min(st.checkersBB)] ELSE reachable
    IN  generate_moves({KING}, reachable)
          \cup (IF type = EVASIONS /\ Cardinality(st.checkersBB) > 1 THEN {}
                ELSE generate_pawn_moves(type, target)
                       \cup generate_moves({KNIGHT, BISHOP, ROOK, QUEEN}, target))
          \cup (IF type \in {QUIETS, NON_EVASIONS} THEN generate_castling ELSE {})

Generated == generate_all(IF st.checkersBB # {} THEN EVASIONS ELSE NON_EVASIONS)

\* generate<LEGAL> asks legal() only of pinned pieces, the king and en passant.
LegalMoves ==
    LET suspect(m) == \/ m.from \in st.blockersForKing[us]
                      \/ m.from = square(board, us)
                      \/ m.type = EN_PASSANT
    IN  {m \in Generated : suspect(m) => legal(m)}

----------------------------------------------------------------------------
(* pseudo_legal: does an arbitrary move, one read from the table say, fit? *)

capture(m) == (m.to \in DOMAIN board /\ m.type # CASTLING) \/ m.type = EN_PASSANT
capture_stage(m) == capture(m) \/ (m.type = PROMOTION /\ m.promotion = QUEEN)

pawn_reaches(m) ==
    LET up == Up(us)
        empty == Square \ pieces(board)
    IN  \/ m.to \in PawnAttacks[us][m.from] \cap PiecesOf(board, them)
        \/ m.to = m.from + up /\ m.to \in empty
        \/ m.to = m.from + 2 * up /\ relative_rank(us, m.from) = 1 /\ {m.to, m.to - up} \subseteq empty

\* In check legal() relies on the evasion generator, whose filter this repeats.
evades(m) ==
    IF board[m.from][2] = KING THEN ~attackers_to_exist(board, m.to, pieces(board) \ {m.from}, them)
    ELSE /\ Cardinality(st.checkersBB) = 1
         /\ m.to \in BetweenTable[square(board, us), Min(st.checkersBB)]

pseudo_legal(m) ==
    IF m.type # NORMAL THEN m \in Generated
    ELSE /\ m.from \in PiecesOf(board, us) /\ m.to \notin PiecesOf(board, us)
         /\ IF board[m.from][2] = PAWN THEN rank_of(m.to) \notin {0, 7} /\ pawn_reaches(m)
            ELSE m.to \in attacks_bb(board[m.from][2], m.from, pieces(board))
         /\ st.checkersBB # {} => evades(m)

----------------------------------------------------------------------------
(* Draws. *)

is_repetition(s, ply) == s.repetition # 0 /\ s.repetition < ply
is_draw(ply) == \/ st.rule50 > 99 /\ (st.checkersBB = {} \/ LegalMoves # {})
                \/ is_repetition(st, ply)

\* The cuckoo tables hold, for a difference of keys, the reversible move that
\* makes it: one piece, not a pawn, between two squares it attacks.
CuckooMoves(moveKey) ==
    LET squares == {f[3] : f \in {g \in moveKey : g[1] = "psq"}}
    IN  {<<s1, s2>> \in squares \X squares : s1 < s2 /\ \E pc \in Piece :
            /\ pc[2] # PAWN /\ s2 \in PseudoAttacks[pc[2]][s1]
            /\ moveKey = {<<"psq", pc, s1>>, <<"psq", pc, s2>>, <<"side">>}}

\* At or before the root the position found must itself be a repetition.
upcoming_counts(stp, ply, i) == ply > i \/ stp.repetition # 0

\* `other` is empty when the opponent's pieces are back where they stood i plies ago.
upcoming_repetition(ply) ==
    LET n == Len(chain)
        end == IF st.rule50 < st.pliesFromNull THEN st.rule50 ELSE st.pliesFromNull
        Key(i) == chain[n - i].key
        other(i) == Xor({}, [k \in 1 .. (i + 1) \div 2 |->
                               Xor(Key(2 * (k - 1)), <<Key(2 * k - 1), side_feature>>)])
    IN  \E i \in {j \in 3 .. end : j % 2 = 1} :
          /\ other(i) = {}
          /\ \E mv \in CuckooMoves(SymDiff(st.key, Key(i))) :
                (BetweenTable[mv[1], mv[2]] \ {mv[2]}) \cap pieces(board) = {}
          /\ upcoming_counts(chain[n - i], ply, i)

----------------------------------------------------------------------------
(* see_ge: does the exchange that m opens on its square reach threshold?   *)

ByValue == <<PAWN, KNIGHT, BISHOP, ROOK, QUEEN, KING>>
LeastType(attackers) ==
    ByValue[Min({i \in DOMAIN ByValue : \E s \in attackers : board[s][2] = ByValue[i]})]

\* Mutant: a pinned piece may not capture even when its pinner has gone.
exchange_attackers_static(attackers, side, occupied) ==
    (attackers \cap PiecesOf(board, side)) \ st.blockersForKing[side]

\* Pinned pieces may not capture while any pinner stands on its square.
exchange_attackers(attackers, side, occupied) ==
    (attackers \cap PiecesOf(board, side))
      \ (IF st.pinners[Opposite(side)] \cap occupied # {} THEN st.blockersForKing[side] ELSE {})

\* What a departing piece uncovers behind it: nothing behind a knight.
XRays(pt, to, occupied) ==
    UNION {attacks_bb(line, to, occupied) \cap SlidersOn(board, line) :
             line \in CASE pt \in {PAWN, BISHOP} -> {BISHOP}
                        [] pt = ROOK -> {ROOK}
                        [] pt = QUEEN -> {BISHOP, ROOK}
                        [] OTHER -> {}}

\* The loop of see_ge, one capture of stm's opponent at a time.
RECURSIVE exchange(_, _, _, _, _, _)
exchange(to, stm, swap, res, occupied, candidates) ==
    LET side == Opposite(stm)
        attackers == candidates \cap occupied
        stmAttackers == exchange_attackers(attackers, side, occupied)
        pt == LeastType(stmAttackers)
        next == MaterialValue[pt] - swap
        left == occupied \ {Min({s \in stmAttackers : board[s][2] = pt})}
    IN  CASE stmAttackers = {} -> res
          [] stmAttackers # {} /\ pt = KING ->
               IF attackers \ PiecesOf(board, side) # {} THEN res ELSE 1 - res
          [] stmAttackers # {} /\ pt \notin {QUEEN, KING} /\ next < 1 - res -> 1 - res
          [] OTHER -> exchange(to, side, next, 1 - res, left, attackers \cup XRays(pt, to, left))

see_ge(m, threshold) ==
    LET ValueOn(s) == IF piece_on(s) = NO_PIECE THEN 0 ELSE MaterialValue[piece_on(s)[2]]
        gain == ValueOn(m.to) - threshold
        risk == ValueOn(m.from) - gain
        occupied == SymDiff(SymDiff(pieces(board), {m.from}), {m.to})
    IN  IF m.type # NORMAL THEN 0 >= threshold
        ELSE /\ gain >= 0
             /\ \/ risk <= 0
                \/ exchange(m.to, us, risk, 1, occupied, attackers_to(board, m.to, occupied)) = 1
=============================================================================
