------------------------------ MODULE Position ------------------------------
(***************************************************************************)
(* class Position (position.hpp, position.cpp): the board, the side to     *)
(* move, the chain of StateInfos, and the moves made and unmade on them.   *)
(*                                                                         *)
(* The three copies of the board (mailbox, bitboards, counts) that         *)
(* put_piece, remove_piece and move_piece keep together are one function.  *)
(* A Zobrist key is the set of the features whose random words it is the   *)
(* XOR of, and XOR is symmetric difference: two keys are equal only when   *)
(* their features are (no hash collisions).  pinners, gamePly and          *)
(* pieceCount, which nothing here reads, are left out.                     *)
(***************************************************************************)
EXTENDS Bitboards, StateChain, SequencesExt

VARIABLES
    board,        \* the pieces, by occupied square
    sideToMove,
    chain         \* the StateInfos from the root to the current position

st == chain[Len(chain)]
us == sideToMove
them == Opposite(sideToMove)
piece_on(s) == IF s \in DOMAIN board THEN board[s] ELSE NO_PIECE

NORMAL == "normal"
PROMOTION == "promotion"
EN_PASSANT == "en_passant"
CASTLING == "castling"
Move(from, to) == [from |-> from, to |-> to, type |-> NORMAL, promotion |-> KNIGHT]
MakeMove(type, from, to, pt) == [Move(from, to) EXCEPT !.type = type, !.promotion = pt]

----------------------------------------------------------------------------
(* Castling.  A right is a color and a side. *)

CastlingSide == {"king", "queen"}
CastlingRight == Color \X CastlingSide
Side(from, to) == IF to > from THEN "king" ELSE "queen"

king_home(c) == relative_square(c, 4)
rook_home(cr) == relative_square(cr[1], IF cr[2] = "king" THEN 7 ELSE 0)
king_to(cr) == relative_square(cr[1], IF cr[2] = "king" THEN 6 ELSE 2)
rook_to(cr) == relative_square(cr[1], IF cr[2] = "king" THEN 5 ELSE 3)

\* Mutant: only the king's move loses rights.
castlingRightsMaskOfKing(s) == {cr \in CastlingRight : s = king_home(cr[1])}

castlingRightsMask(s) ==
    {cr \in CastlingRight : s = king_home(cr[1]) \/ s = rook_home(cr)}

castlingPath(cr) ==
    (BetweenBB[rook_home(cr)][rook_to(cr)] \cup BetweenBB[king_home(cr[1])][king_to(cr)])
    \ {king_home(cr[1]), rook_home(cr)}

can_castle(cr) == cr \in st.castlingRights
castling_impeded(cr) == pieces(board) \cap castlingPath(cr) # {}

----------------------------------------------------------------------------
(* Attacks, pins and checks on a given board. *)

SlidersOn(b, pt) == PiecesOfType(b, {pt, QUEEN})

\* The pieces of both colors that attack s through the occupancy occ.
attackers_to(b, s, occ) ==
    (UNION {PawnAttacks[Opposite(c)][s] \cap PiecesOf(b, c) \cap PiecesOfType(b, {PAWN}) :
              c \in Color})
    \cup (PseudoAttacks[KNIGHT][s] \cap PiecesOfType(b, {KNIGHT}))
    \cup (attacks_bb(ROOK, s, occ) \cap SlidersOn(b, ROOK))
    \cup (attacks_bb(BISHOP, s, occ) \cap SlidersOn(b, BISHOP))
    \cup (PseudoAttacks[KING][s] \cap PiecesOfType(b, {KING}))

is_attacked_by(b, c, s) == attackers_to(b, s, pieces(b)) \cap PiecesOf(b, c) # {}

BlocksTogether(o) == o # {}   \* mutant: two pieces on the line block it too
BlocksAlone(o) == Cardinality(o) = 1

\* The pieces that stand alone between s and one of the given sliders; two
\* snipers in a row do not hide each other.
slider_blockers(b, sliders, s) ==
    LET snipers == ((PseudoAttacks[ROOK][s] \cap SlidersOn(b, ROOK))
                      \cup (PseudoAttacks[BISHOP][s] \cap SlidersOn(b, BISHOP)))
                   \cap sliders
        occupancy == pieces(b) \ snipers
        obstacles == {BetweenBB[s][sniper] \cap occupancy : sniper \in snipers}
    IN  UNION {o \in obstacles : BlocksAlone(o)}

\* What set_check_info caches for the side to move c.
blockersForKing(b) ==
    [k \in Color |-> slider_blockers(b, PiecesOf(b, Opposite(k)), king_square(b, k))]

checkSquares(b, c) ==
    LET ksq == king_square(b, Opposite(c))
    IN  [pt \in PieceType |->
           CASE pt = PAWN -> PawnAttacks[Opposite(c)][ksq]
             [] pt = KING -> {}
             [] OTHER -> attacks_bb(pt, ksq, pieces(b))]

----------------------------------------------------------------------------
(* The keys and the material of a position, from scratch (set_state). *)

psq(pc, s) == <<"psq", pc, s>>
ep_feature(s) == IF s = SQ_NONE THEN {} ELSE {<<"enpassant", file_of(s)>>}
castling_feature(rights) == {<<"castling", rights>>}
side_feature == {<<"side">>}

\* XOR, in which a word is its own inverse.
a ++ b == SymDiff(a, b)

PositionKey(b, c, rights, ep) ==
    {psq(b[s], s) : s \in DOMAIN b} \cup ep_feature(ep) \cup castling_feature(rights)
        \cup (IF c = BLACK THEN side_feature ELSE {})

PawnKey(b) == {psq(b[s], s) : s \in PiecesOfType(b, {PAWN})}

NonPawnMaterial(b) ==
    [c \in Color |-> MapThenSumSet(LAMBDA s : PieceValue[b[s][2]],
                                   PiecesOf(b, c) \ PiecesOfType(b, {PAWN}))]

\* Position::set on a parsed FEN f; set_state computes the rest.
SetUp(f) ==
    [key |-> PositionKey(f.board, f.side, f.rights, f.ep),
     pawnKey |-> PawnKey(f.board),
     nonPawnMaterial |-> NonPawnMaterial(f.board),
     castlingRights |-> f.rights,
     rule50 |-> f.rule50,
     pliesFromNull |-> 0,
     epSquare |-> f.ep,
     checkersBB |-> attackers_to(f.board, king_square(f.board, f.side), pieces(f.board))
                       \cap PiecesOf(f.board, Opposite(f.side)),
     capturedPiece |-> NO_PIECE,
     blockersForKing |-> blockersForKing(f.board),
     checkSquares |-> checkSquares(f.board, f.side),
     repetition |-> 0]

----------------------------------------------------------------------------
(* Queries about a move. *)

ep_capture_square(m) == m.to - Up(us)

\* Mutant: the captured pawn still blocks.
ep_occupancy_both(m) == (pieces(board) \ {m.from}) \cup {m.to}

\* The occupancy after an en passant capture, while both pawns still stand.
ep_occupancy(m) == (pieces(board) \ {m.from, ep_capture_square(m)}) \cup {m.to}

\* Do the sliders of c reach s through the occupancy occ?
SlidersReach(c, s, occ) == \E pt \in {ROOK, BISHOP} :
    attacks_bb(pt, s, occ) \cap SlidersOn(board, pt) \cap PiecesOf(board, c) # {}

\* legal: m is pseudo-legal; does it leave our king safe?
legal(m) ==
    LET ksq == king_square(board, us)
    IN  CASE m.type = EN_PASSANT -> ~SlidersReach(them, ksq, ep_occupancy(m))
          [] m.type = CASTLING ->
                \A s \in BetweenBB[m.from][m.to] \cup {m.to} : ~is_attacked_by(board, them, s)
          [] m.from = ksq /\ m.type # CASTLING ->
                attackers_to(board, m.to, pieces(board) \ {m.from})
                    \cap PiecesOf(board, them) = {}
          [] OTHER -> m.from \in st.blockersForKing[us] => aligned(m.from, m.to, ksq)

\* The switch of gives_check on the type of move.
special_check(m, ksq) ==
    \/ /\ m.type = PROMOTION
       /\ ksq \in attacks_bb(m.promotion, m.to, pieces(board) \ {m.from})
    \/ m.type = EN_PASSANT /\ SlidersReach(us, ksq, ep_occupancy(m))
    \/ /\ m.type = CASTLING
       /\ ksq \in attacks_bb(ROOK, rook_to(<<us, Side(m.from, m.to)>>), pieces(board))

\* gives_check reads the cached check squares and blockers, and looks through
\* the present occupancy.
gives_check(m) ==
    LET ksq == king_square(board, them)
        pt == IF m.type = PROMOTION THEN m.promotion ELSE board[m.from][2]
    IN  \/ pt # KING /\ m.to \in st.checkSquares[pt]
        \/ m.from \in st.blockersForKing[them] /\ ~aligned(m.from, m.to, ksq)
        \/ special_check(m, ksq)

----------------------------------------------------------------------------
(* Making and unmaking moves. *)

do_castling(b, cr) ==
    put_piece(put_piece(Restrict(b, DOMAIN b \ {king_home(cr[1]), rook_home(cr)}),
                        make_piece(cr[1], KING), king_to(cr)),
              make_piece(cr[1], ROOK), rook_to(cr))

undo_castling(b, cr) ==
    put_piece(put_piece(Restrict(b, DOMAIN b \ {king_to(cr), rook_to(cr)}),
                        make_piece(cr[1], KING), king_home(cr[1])),
              make_piece(cr[1], ROOK), rook_home(cr))

\* The capturedPiece of m, and where it stands.
captured_by(m) == CASE m.type = EN_PASSANT -> make_piece(them, PAWN)
                    [] m.type = CASTLING -> NO_PIECE
                    [] OTHER -> piece_on(m.to)
capture_square(m) == IF m.type = EN_PASSANT THEN ep_capture_square(m) ELSE m.to

\* The board once m has been made.
BoardAfter(m) ==
    LET cleared == IF captured_by(m) = NO_PIECE THEN board
                   ELSE remove_piece(board, capture_square(m))
        moved == IF m.type = CASTLING
                 THEN do_castling(cleared, <<us, Side(m.from, m.to)>>)
                 ELSE move_piece(cleared, m.from, m.to)
    IN  IF m.type = PROMOTION
        THEN put_piece(moved, make_piece(us, m.promotion), m.to)
        ELSE moved

\* A double push sets the en passant square only if a pawn could capture there.
ep_square_after(m, b) ==
    IF /\ board[m.from][2] = PAWN
       /\ Gap(m.from, m.to) = 16
       /\ \E s \in PawnAttacks[us][m.to - Up(us)] \cap DOMAIN b : b[s] = make_piece(them, PAWN)
    THEN m.to - Up(us)
    ELSE SQ_NONE

ep_change(old, new) == ep_feature(old) ++ ep_feature(new)

\* do_move's XORs of the full key, in its order; a change of rights or of the
\* en passant square XORs the old word out and the new one in.
key_after(m, rights, ep) ==
    LET pc == board[m.from]
        captured == captured_by(m)
        cr == <<us, Side(m.from, m.to)>>
        rook == make_piece(us, ROOK)
        promoted == make_piece(us, m.promotion)
    IN  st.key ++ side_feature
          ++ (IF m.type = CASTLING THEN {psq(rook, rook_home(cr)), psq(rook, rook_to(cr))} ELSE {})
          ++ (IF captured = NO_PIECE THEN {} ELSE {psq(captured, capture_square(m))})
          ++ castling_feature(st.castlingRights) ++ castling_feature(rights)
          ++ ep_change(st.epSquare, ep)
          ++ (IF m.type = PROMOTION THEN {psq(pc, m.to), psq(promoted, m.to)} ELSE {})
          ++ {psq(pc, m.from), psq(pc, m.to)}

pawn_key_after(m) ==
    LET pc == board[m.from]
        captured == captured_by(m)
        IsPawn(x) == x # NO_PIECE /\ x[2] = PAWN
    IN  st.pawnKey
          ++ (IF IsPawn(captured) THEN {psq(captured, capture_square(m))} ELSE {})
          ++ (IF m.type = PROMOTION THEN {psq(pc, m.to)} ELSE {})
          ++ (IF IsPawn(pc) THEN {psq(pc, m.from), psq(pc, m.to)} ELSE {})

material_after(m) ==
    LET captured == captured_by(m)
        gain == IF m.type = PROMOTION THEN PieceValue[m.promotion] ELSE 0
        loss == IF captured = NO_PIECE \/ captured[2] = PAWN THEN 0 ELSE PieceValue[captured[2]]
    IN  [st.nonPawnMaterial EXCEPT ![us] = @ + gain, ![them] = @ - loss]

\* do_move(m, newSt, givesCheck).
do_move(m, givesCheck) ==
    LET b == BoardAfter(m)
        rights == st.castlingRights \ (castlingRightsMask(m.from) \cup castlingRightsMask(m.to))
        ep == ep_square_after(m, b)
        irreversible == captured_by(m) # NO_PIECE \/ board[m.from][2] = PAWN
        new == [key |-> key_after(m, rights, ep),
                pawnKey |-> pawn_key_after(m),
                nonPawnMaterial |-> material_after(m),
                castlingRights |-> rights,
                rule50 |-> IF irreversible THEN 0 ELSE st.rule50 + 1,
                pliesFromNull |-> st.pliesFromNull + 1,
                epSquare |-> ep,
                checkersBB |-> IF ~givesCheck THEN {}
                               ELSE attackers_to(b, king_square(b, them), pieces(b))
                                       \cap PiecesOf(b, us),
                capturedPiece |-> captured_by(m),
                blockersForKing |-> blockersForKing(b),
                checkSquares |-> checkSquares(b, them),
                repetition |-> 0]
    IN  /\ board' = b
        /\ sideToMove' = them
        /\ chain' = Append(chain, [new EXCEPT !.repetition = Repetition(chain, new)])

\* undo_move(m): m was made by the side that is not to move now.
undo_move(m) ==
    LET mover == them
        pc == IF m.type = PROMOTION THEN make_piece(mover, PAWN) ELSE board[m.to]
        back == put_piece(remove_piece(board, m.to), pc, m.from)
        capsq == IF m.type = EN_PASSANT THEN m.to - Up(mover) ELSE m.to
    IN  /\ board' = CASE m.type = CASTLING -> undo_castling(board, <<mover, Side(m.from, m.to)>>)
                      [] m.type # CASTLING /\ st.capturedPiece # NO_PIECE ->
                            put_piece(back, st.capturedPiece, capsq)
                      [] OTHER -> back
        /\ sideToMove' = mover
        /\ chain' = Front(chain)

\* do_null_move copies the whole StateInfo; only set_check_info runs again.
do_null_move ==
    /\ sideToMove' = them
    /\ chain' = Append(chain,
          [st EXCEPT !.key = @ ++ side_feature ++ ep_feature(st.epSquare),
                     !.epSquare = SQ_NONE,
                     !.rule50 = @ + 1,
                     !.pliesFromNull = 0,
                     !.blockersForKing = blockersForKing(board),
                     !.checkSquares = checkSquares(board, them),
                     !.repetition = 0])
    /\ UNCHANGED board

undo_null_move ==
    /\ sideToMove' = them
    /\ chain' = Front(chain)
    /\ UNCHANGED board
=============================================================================
