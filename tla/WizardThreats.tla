--------------------------- MODULE WizardThreats ---------------------------
(***************************************************************************)
(* What a move reports to the evaluation network (wizard/position.cpp):    *)
(* the DirtyPiece, the pieces that leave and arrive, and the               *)
(* DirtyThreats, the pairs of an attacking and an attacked piece that      *)
(* appear or vanish.  The network adds and subtracts what is reported and  *)
(* never looks at the board, so a report short of one pair leaves its sums *)
(* wrong for the rest of the line.                                         *)
(*                                                                         *)
(* A report is a sequence of signed entries, written while the pieces are  *)
(* lifted and put down one at a time; a board here is an intermediate one. *)
(***************************************************************************)
EXTENDS WizardMoveGen

\* The bag of everything a piece on s does to the pieces round it on board b.
AttacksOf(pc, s, b) ==
    (IF pc[2] = PAWN THEN PawnAttacks[pc[1]][s] ELSE attacks_bb(pc[2], s, DOMAIN b)) \cap DOMAIN b

Threat(pc, victim, from, to) == <<pc, victim, from, to>>

SlidersAt(b, s) == UNION {attacks_bb(pt, s, DOMAIN b) \cap SlidersOn(b, pt) : pt \in {ROOK, BISHOP}}

\* The first piece behind s on the line of the slider at a.
Discovered(b, a, s) ==
    (RayTable[a, s] \ BetweenTable[a, s])
      \cap (UNION {attacks_bb(pt, s, DOMAIN b) : pt \in {ROOK, BISHOP}}) \cap DOMAIN b

\* A piece sliding along the slider's own line uncovers nothing.
uncovers(b, a, s, noRaysContaining) ==
    Discovered(b, a, s) # {} /\ ~(noRaysContaining \subseteq RayTable[a, s])

\* The lines that a piece on s closes, and that its leaving opens.
crossed_threats(b, s, noRaysContaining) ==
    {LET d == CHOOSE t \in Discovered(b, a, s) : TRUE IN Threat(b[a], b[d], a, d) :
        a \in {x \in SlidersAt(b, s) : uncovers(b, x, s, noRaysContaining)}}

\* What pc attacks from s, and what attacks it there.
direct_threats(pc, s, b) ==
    {Threat(pc, b[t], s, t) : t \in AttacksOf(pc, s, b) \ {s}}
      \cup {Threat(b[a], pc, a, s) : a \in attackers_to(b, s, DOMAIN b) \ {s}}

\* update_piece_threats<PutPiece, ComputeRay>, as entries of the report.  All of
\* the 64 squares, which no line contains, stand for "no exception".
update_piece_threats(sign, computeRay, pc, s, b, noRaysContaining) ==
    <<[sign |-> sign, threats |-> direct_threats(pc, s, b)]>>
      \o (IF computeRay
          THEN <<[sign |-> -sign, threats |-> crossed_threats(b, s, noRaysContaining)]>>
          ELSE <<>>)

PutReport(b, pc, s) == update_piece_threats(1, TRUE, pc, s, put_piece(b, pc, s), Square)
RemoveReport(b, s) == update_piece_threats(-1, TRUE, b[s], s, b, Square)
MoveReport(b, from, to) ==
    update_piece_threats(-1, TRUE, b[from], from, b, {from, to})
      \o update_piece_threats(1, TRUE, b[from], to, move_piece(b, from, to), {from, to})
\* The lines stay as they are: one piece stands where another stood.
SwapReport(b, s, pc) ==
    update_piece_threats(-1, FALSE, b[s], s, remove_piece(b, s), Square)
      \o update_piece_threats(1, FALSE, pc, s, put_piece(b, pc, s), Square)

CastlingReport(b, cr) ==
    LET king == make_piece(cr[1], KING)
        noKing == remove_piece(b, setup.king[cr])
        neither == remove_piece(noKing, setup.rook[cr])
    IN  RemoveReport(b, setup.king[cr]) \o RemoveReport(noKing, setup.rook[cr])
          \o PutReport(neither, king, king_to(cr))
          \o PutReport(put_piece(neither, king, king_to(cr)), make_piece(cr[1], ROOK), rook_to(cr))

\* The report of do_move(m): a capture is a removal and a swap, an en passant
\* capture a removal and a slide, a promotion a swap at the end.
DirtyThreats(m) ==
    LET pc == board[m.from]
        b == IF m.type = EN_PASSANT THEN remove_piece(board, capture_square(m)) ELSE board
        moved == move_piece(b, m.from, m.to)
    IN  IF m.type = CASTLING THEN CastlingReport(board, <<us, WingOf(m.from, m.to)>>)
        ELSE (IF m.type = EN_PASSANT THEN RemoveReport(board, capture_square(m)) ELSE <<>>)
               \o (IF m.to \in DOMAIN b
                   THEN RemoveReport(b, m.from) \o SwapReport(remove_piece(b, m.from), m.to, pc)
                   ELSE MoveReport(b, m.from, m.to))
               \o (IF m.type = PROMOTION
                   THEN SwapReport(moved, m.to, make_piece(us, m.promotion)) ELSE <<>>)

\* The DirtyPiece: what moved, what was removed, what was added.  A promotion
\* adds another piece than the one that moved, which then arrives nowhere.
DirtyPiece(m) ==
    LET pc == board[m.from]
        cr == <<us, WingOf(m.from, m.to)>>
        rook == make_piece(us, ROOK)
        Dirty(to, removed, from, added, at) ==
            [pc |-> pc, from |-> m.from, to |-> to, remove_pc |-> removed, remove_sq |-> from,
             add_pc |-> added, add_sq |-> at]
        captureSq == IF captured_by(m) = NO_PIECE THEN SQ_NONE ELSE capture_square(m)
    IN  CASE m.type = CASTLING -> Dirty(king_to(cr), rook, setup.rook[cr], rook, rook_to(cr))
          [] m.type = PROMOTION ->
               Dirty(SQ_NONE, captured_by(m), captureSq, make_piece(us, m.promotion), m.to)
          [] OTHER -> Dirty(m.to, captured_by(m), captureSq, NO_PIECE, SQ_NONE)

\* The pieces a DirtyPiece takes off their squares, and puts on new ones.
Removed(dp) == <<<<dp.pc, dp.from>>>>
    \o (IF dp.remove_sq = SQ_NONE THEN <<>> ELSE <<<<dp.remove_pc, dp.remove_sq>>>>)
Added(dp) == (IF dp.to = SQ_NONE THEN <<>> ELSE <<<<dp.pc, dp.to>>>>)
    \o (IF dp.add_sq = SQ_NONE THEN <<>> ELSE <<<<dp.add_pc, dp.add_sq>>>>)
=============================================================================
