--------------------------- MODULE WizardPosition ---------------------------
(***************************************************************************)
(* class Position of the wizard engine (wizard/position.cpp, bitboard.h):  *)
(* the board, the chain of StateInfos, legality and the cached attack      *)
(* information.  Where it differs from the own engine's Position: castling *)
(* is written "king takes rook" and starts from any squares (Chess960),    *)
(* the line tables are semi-open, and there are six keys.                  *)
(*                                                                         *)
(* As there, the three copies of the board are one function, and a key is  *)
(* the set of the features whose random words it is the XOR of.            *)
(***************************************************************************)
EXTENDS Bitboards, SequencesExt

VARIABLES
    board,        \* the pieces, by occupied square
    sideToMove,
    chain,        \* the StateInfos from the root to the current position
    setup         \* what set() fixes: chess960, and the squares castling starts from

st == chain[Len(chain)]
us == sideToMove
them == Opposite(sideToMove)
piece_on(s) == IF s \in DOMAIN board THEN board[s] ELSE NO_PIECE
square(b, c) == king_square(b, c)
count(b, pc) == Cardinality({s \in DOMAIN b : b[s] = pc})

NORMAL == "normal"
PROMOTION == "promotion"
EN_PASSANT == "en_passant"
CASTLING == "castling"
Move(from, to) == [from |-> from, to |-> to, type |-> NORMAL, promotion |-> KNIGHT]
MakeMove(type, from, to, pt) == [Move(from, to) EXCEPT !.type = type, !.promotion = pt]

MaterialValue == [pt \in PieceType |->
    CASE pt = PAWN -> 208 [] pt = KNIGHT -> 781 [] pt = BISHOP -> 825
      [] pt = ROOK -> 1276 [] pt = QUEEN -> 2538 [] pt = KING -> 0]

----------------------------------------------------------------------------
(* Bitboards::init: between_bb leaves out its first square and includes    *)
(* its second; RayPassBB is the line from s1 through s2 and beyond.        *)

between_bb(s1, s2) ==
    (UNION {attacks_bb(pt, s1, {s2}) \cap attacks_bb(pt, s2, {s1}) : pt \in SliderJoining(s1, s2)})
      \cup {s2}

line_bb(s1, s2) ==
    UNION {(attacks_bb(pt, s1, {}) \cap attacks_bb(pt, s2, {})) \cup {s1, s2} :
              pt \in SliderJoining(s1, s2)}

RayPassBB(s1, s2) ==
    UNION {attacks_bb(pt, s1, {}) \cap (attacks_bb(pt, s2, {s1}) \cup {s2}) :
              pt \in SliderJoining(s1, s2)}

BetweenTable == [s1 \in Square, s2 \in Square |-> between_bb(s1, s2)]
LineTable == [s1 \in Square, s2 \in Square |-> line_bb(s1, s2)]
RayTable == [s1 \in Square, s2 \in Square |-> RayPassBB(s1, s2)]

----------------------------------------------------------------------------
(* Castling: setup.king and setup.rook give the squares of each right.     *)

CastlingSide == {"king", "queen"}
CastlingRight == Color \X CastlingSide
WingOf(from, to) == IF to > from THEN "king" ELSE "queen"
king_to(cr) == relative_square(cr[1], IF cr[2] = "king" THEN 6 ELSE 2)
rook_to(cr) == relative_square(cr[1], IF cr[2] = "king" THEN 5 ELSE 3)
castling_rook_square(cr) == setup.rook[cr]

castlingRightsMask(s) == {cr \in DOMAIN setup.rook : s \in {setup.king[cr], setup.rook[cr]}}

castlingPath(cr) ==
    LET kfrom == setup.king[cr]
        rfrom == setup.rook[cr]
    IN  (BetweenTable[rfrom, rook_to(cr)] \cup BetweenTable[kfrom, king_to(cr)]) \ {kfrom, rfrom}

can_castle(cr) == cr \in st.castlingRights
castling_impeded(cr) == pieces(board) \cap castlingPath(cr) # {}

----------------------------------------------------------------------------
(* Attacks, pins and checks. *)

SlidersOn(b, pt) == PiecesOfType(b, {pt, QUEEN})

attackers_to(b, s, occupied) ==
    (attacks_bb(ROOK, s, occupied) \cap SlidersOn(b, ROOK))
      \cup (attacks_bb(BISHOP, s, occupied) \cap SlidersOn(b, BISHOP))
      \cup (UNION {PawnAttacks[Opposite(c)][s] \cap PiecesOf(b, c) \cap PiecesOfType(b, {PAWN}) :
                     c \in Color})
      \cup (PseudoAttacks[KNIGHT][s] \cap PiecesOfType(b, {KNIGHT}))
      \cup (PseudoAttacks[KING][s] \cap PiecesOfType(b, {KING}))

\* Looks at the occupied lines only when a slider stands on an empty-board line.
attackers_to_exist(b, s, occupied, c) ==
    \/ \E pt \in {ROOK, BISHOP} :
         LET sliders == SlidersOn(b, pt) \cap PiecesOf(b, c)
         IN  /\ PseudoAttacks[pt][s] \cap sliders # {}
             /\ attacks_bb(pt, s, occupied) \cap sliders # {}
    \/ PawnAttacks[Opposite(c)][s] \cap PiecesOf(b, c) \cap PiecesOfType(b, {PAWN}) # {}
    \/ \E pt \in {KNIGHT, KING} : PseudoAttacks[pt][s] \cap PiecesOf(b, c) \cap PiecesOfType(b, {pt}) # {}

\* The snipers of b that would attack the king of c on an empty board.
Snipers(b, c) ==
    {s \in PiecesOf(b, Opposite(c)) : \E pt \in {ROOK, BISHOP} :
        b[s][2] \in {pt, QUEEN} /\ s \in PseudoAttacks[pt][square(b, c)]}

\* What stands between the king of c and a sniper once all snipers are lifted.
Obstacles(b, c, sniper) == BetweenTable[square(b, c), sniper] \cap (DOMAIN b \ Snipers(b, c))

\* update_slider_blockers(c).
blockersForKing(b) == [c \in Color |->
    UNION {o \in {Obstacles(b, c, s) : s \in Snipers(b, c)} : Cardinality(o) = 1}]

pinners(b) == [by \in Color |->
    LET c == Opposite(by)
    IN  {s \in Snipers(b, c) : Cardinality(Obstacles(b, c, s)) = 1
                                 /\ Obstacles(b, c, s) \subseteq PiecesOf(b, c)}]

\* set_check_info, for the side c to move.
checkSquares(b, c) ==
    LET ksq == square(b, Opposite(c))
    IN  [pt \in PieceType |->
           CASE pt = PAWN -> PawnAttacks[Opposite(c)][ksq]
             [] pt = KING -> {}
             [] OTHER -> attacks_bb(pt, ksq, pieces(b))]

----------------------------------------------------------------------------
(* set_state: the keys and the material of a position from scratch. *)

psq(pc, s) ==
    IF pc[2] = PAWN /\ relative_rank(pc[1], s) = 7 THEN {} ELSE {<<"psq", pc, s>>}
ep_feature(s) == IF s = SQ_NONE THEN {} ELSE {<<"enpassant", file_of(s)>>}
castling_feature(rights) == {<<"castling", rights>>}
side_feature == {<<"side">>}

Xor(key, features) == FoldLeft(SymDiff, key, features)
Features(b, squares) == UNION {psq(b[s], s) : s \in squares}

PositionKey(b, c, rights, ep) ==
    Features(b, DOMAIN b) \cup ep_feature(ep) \cup castling_feature(rights)
      \cup (IF c = BLACK THEN side_feature ELSE {})

MINOR == {KNIGHT, BISHOP}
KeysOf(b) ==
    [pawnKey |-> Features(b, PiecesOfType(b, {PAWN})),
     minorPieceKey |-> Features(b, PiecesOfType(b, MINOR)),
     nonPawnKey |-> [c \in Color |-> Features(b, PiecesOf(b, c) \ PiecesOfType(b, {PAWN}))],
     materialKey |-> UNION {{pc} \X (0 .. count(b, pc) - 1) : pc \in Piece},
     nonPawnMaterial |-> [c \in Color |->
        MapThenSumSet(LAMBDA s : MaterialValue[b[s][2]], PiecesOf(b, c) \ PiecesOfType(b, {PAWN}))]]

----------------------------------------------------------------------------
(* set(): a FEN f gives the board, the side, the castling tokens (a color  *)
(* and "K", "Q" or the rook's file), an en passant square and the counter. *)

FileNamed == [A |-> 0, B |-> 1, C |-> 2, D |-> 3, E |-> 4, F |-> 5, G |-> 6, H |-> 7]

\* "K" and "Q" mean the outermost rook of the wing, a file that very square.
rook_of_token(b, c, token) ==
    LET rooks == {s \in DOMAIN b : b[s] = make_piece(c, ROOK) /\ relative_rank(c, s) = 0}
    IN  CASE token = "K" -> Max(rooks)
          [] token = "Q" -> Min(rooks)
          [] OTHER -> relative_square(c, FileNamed[token])

right_of_token(b, c, token) == <<c, WingOf(square(b, c), rook_of_token(b, c, token))>>

\* The square is kept only if a pawn of the side to move threatens it, an enemy
\* pawn stands in front of it, and nothing on it or behind it.
ep_of_fen(f) ==
    LET up == Up(f.side)
        PawnsOf(c) == {s \in DOMAIN f.board : f.board[s] = make_piece(c, PAWN)}
    IN  IF /\ f.ep # SQ_NONE /\ relative_rank(f.side, f.ep) = 5
           /\ PawnAttacks[Opposite(f.side)][f.ep] \cap PawnsOf(f.side) # {}
           /\ f.ep - up \in PawnsOf(Opposite(f.side))
           /\ {f.ep, f.ep + up} \cap DOMAIN f.board = {}
        THEN f.ep ELSE SQ_NONE

set_state(b, c, rights, ep, rule50) ==
    LET keys == KeysOf(b)
    IN  [key |-> PositionKey(b, c, rights, ep), pawnKey |-> keys.pawnKey,
         minorPieceKey |-> keys.minorPieceKey, nonPawnKey |-> keys.nonPawnKey,
         materialKey |-> keys.materialKey, nonPawnMaterial |-> keys.nonPawnMaterial,
         castlingRights |-> rights, rule50 |-> rule50, pliesFromNull |-> 0, epSquare |-> ep,
         checkersBB |-> attackers_to(b, square(b, c), pieces(b)) \cap PiecesOf(b, Opposite(c)),
         blockersForKing |-> blockersForKing(b), pinners |-> pinners(b),
         checkSquares |-> checkSquares(b, c), capturedPiece |-> NO_PIECE, repetition |-> 0]

set(f) ==
    LET rights == {right_of_token(f.board, t[1], t[2]) : t \in f.castling}
        RookOf(cr) == rook_of_token(f.board, cr[1],
            (CHOOSE t \in f.castling : right_of_token(f.board, t[1], t[2]) = cr)[2])
    IN  /\ board = f.board
        /\ sideToMove = f.side
        /\ setup = [chess960 |-> f.chess960,
                    king |-> [cr \in rights |-> square(f.board, cr[1])],
                    rook |-> [cr \in rights |-> RookOf(cr)]]
        /\ chain = <<set_state(f.board, f.side, rights, ep_of_fen(f), f.rule50)>>

----------------------------------------------------------------------------
(* Queries about a move. *)

\* The occupancy after an en passant capture from one square to another.
ep_occupied(b, from, capsq, to) == (pieces(b) \ {from, capsq}) \cup {to}

SlidersReach(b, c, s, occupied) == \E pt \in {ROOK, BISHOP} :
    attacks_bb(pt, s, occupied) \cap SlidersOn(b, pt) \cap PiecesOf(b, c) # {}

\* Mutant: the castling rook is taken to shield the king still.
castling_legal_unshielded(m) ==
    LET to == king_to(<<us, WingOf(m.from, m.to)>>)
        crossed == {s \in Square : \/ m.from < s /\ s <= to
                                   \/ to <= s /\ s < m.from}
    IN  \A s \in crossed : ~attackers_to_exist(board, s, pieces(board), them)

\* Every square from the king's destination back to its start, which is left
\* out; in Chess960 the rook must not have shielded the king either.
castling_legal(m) ==
    LET to == king_to(<<us, WingOf(m.from, m.to)>>)
        crossed == {s \in Square : \/ m.from < s /\ s <= to
                                   \/ to <= s /\ s < m.from}
    IN  /\ \A s \in crossed : ~attackers_to_exist(board, s, pieces(board), them)
        /\ ~setup.chess960 \/ m.to \notin st.blockersForKing[us]

\* legal: m is pseudo-legal; does it leave our king safe?
legal(m) ==
    LET ksq == square(board, us)
    IN  CASE m.type = EN_PASSANT ->
               ~SlidersReach(board, them, ksq, ep_occupied(board, m.from, m.to - Up(us), m.to))
          [] m.type = CASTLING -> castling_legal(m)
          [] m.from = ksq /\ m.type # CASTLING ->
               ~attackers_to_exist(board, m.to, pieces(board) \ {m.from}, them)
          [] OTHER -> m.from \notin st.blockersForKing[us] \/ ksq \in LineTable[m.from, m.to]

\* A blocker that leaves its line uncovers a check; so does a castling king.
discovered_check(m, ksq) == ksq \notin LineTable[m.from, m.to] \/ m.type = CASTLING

gives_check(m) ==
    LET ksq == square(board, them)
    IN  \/ m.to \in st.checkSquares[board[m.from][2]]
        \/ m.from \in st.blockersForKing[them] /\ discovered_check(m, ksq)
        \/ /\ m.from \notin st.blockersForKing[them]
           /\ CASE m.type = NORMAL -> FALSE
                [] m.type = PROMOTION -> ksq \in attacks_bb(m.promotion, m.to, pieces(board) \ {m.from})
                [] m.type = EN_PASSANT ->
                     SlidersReach(board, us, ksq, ep_occupied(board, m.from,
                        8 * rank_of(m.from) + file_of(m.to), m.to))
                [] m.type = CASTLING -> rook_to(<<us, WingOf(m.from, m.to)>>) \in st.checkSquares[ROOK]

----------------------------------------------------------------------------
(* Making moves: the board. *)

captured_by(m) == CASE m.type = EN_PASSANT -> make_piece(them, PAWN)
                    [] m.type = CASTLING -> NO_PIECE
                    [] OTHER -> piece_on(m.to)
capture_square(m) == IF m.type = EN_PASSANT THEN m.to - Up(us) ELSE m.to

\* Mutant: the rook is put back before the king has left its square.
do_castling_in_turn(b, cr) ==
    remove_piece(put_piece(put_piece(remove_piece(b, setup.rook[cr]), make_piece(cr[1], ROOK), rook_to(cr)),
                           make_piece(cr[1], KING), king_to(cr)), setup.king[cr])

\* do_castling: both pieces leave first, for their squares may overlap.
do_castling(b, cr) ==
    put_piece(put_piece(remove_piece(remove_piece(b, setup.king[cr]), setup.rook[cr]),
                        make_piece(cr[1], KING), king_to(cr)),
              make_piece(cr[1], ROOK), rook_to(cr))

undo_castling(b, cr) ==
    put_piece(put_piece(remove_piece(remove_piece(b, king_to(cr)), rook_to(cr)),
                        make_piece(cr[1], KING), setup.king[cr]),
              make_piece(cr[1], ROOK), setup.rook[cr])

BoardAfter(m) ==
    LET moved == IF m.type = EN_PASSANT
                 THEN move_piece(remove_piece(board, capture_square(m)), m.from, m.to)
                 ELSE move_piece(board, m.from, m.to)
    IN  CASE m.type = CASTLING -> do_castling(board, <<us, WingOf(m.from, m.to)>>)
          [] m.type = PROMOTION -> put_piece(moved, make_piece(us, m.promotion), m.to)
          [] OTHER -> moved

----------------------------------------------------------------------------
(* do_move: the keys, term by term. *)

\* The pieceCount the code reads: an en passant pawn has already been removed,
\* another victim not yet.
captured_index(m) == count(board, captured_by(m)) - 1

IsPawn(pc) == pc # NO_PIECE /\ pc[2] = PAWN
IsMinor(pc) == pc # NO_PIECE /\ pc[2] \in MINOR
When(condition, feature) == IF condition THEN feature ELSE {}

rights_after(m) == st.castlingRights \ (castlingRightsMask(m.from) \cup castlingRightsMask(m.to))

\* The full key but for the new en passant square.
key_moved(m) ==
    LET pc == board[m.from]
        captured == captured_by(m)
        cr == <<us, WingOf(m.from, m.to)>>
        rook == make_piece(us, ROOK)
    IN  Xor(st.key,
            <<side_feature,
              When(captured # NO_PIECE, psq(captured, capture_square(m))),
              IF m.type = CASTLING
              THEN SymDiff(psq(rook, setup.rook[cr]), psq(rook, rook_to(cr))) ELSE {},
              IF m.type = CASTLING
              THEN SymDiff(psq(pc, m.from), psq(pc, king_to(cr)))
              ELSE SymDiff(psq(pc, m.from), psq(pc, m.to)),
              ep_feature(st.epSquare),
              castling_feature(st.castlingRights), castling_feature(rights_after(m)),
              When(m.type = PROMOTION, psq(make_piece(us, m.promotion), m.to))>>)

\* The keys StateInfo copies from move to move.
keys_moved(m) ==
    LET pc == board[m.from]
        captured == captured_by(m)
        capsq == capture_square(m)
        cr == <<us, WingOf(m.from, m.to)>>
        rook == make_piece(us, ROOK)
        promoted == make_piece(us, m.promotion)
        lost == When(captured # NO_PIECE, psq(captured, capsq))
        gained == When(m.type = PROMOTION, psq(promoted, m.to))
        moved == IF m.type = CASTLING THEN SymDiff(psq(pc, m.from), psq(pc, king_to(cr)))
                 ELSE SymDiff(psq(pc, m.from), psq(pc, m.to))
        castled == IF m.type = CASTLING
                   THEN SymDiff(psq(rook, setup.rook[cr]), psq(rook, rook_to(cr))) ELSE {}
    IN  [pawnKey |-> Xor(st.pawnKey, <<When(IsPawn(captured), lost), When(IsPawn(pc), moved)>>),
         minorPieceKey |-> Xor(st.minorPieceKey,
            <<When(IsMinor(captured), lost), When(IsMinor(promoted), gained),
              When(IsMinor(pc), moved)>>),
         nonPawnKey |-> [st.nonPawnKey EXCEPT
            ![us] = Xor(@, <<castled, gained, When(~IsPawn(pc), moved)>>),
            ![them] = Xor(@, <<When(~IsPawn(captured), lost)>>)],
         materialKey |-> Xor(st.materialKey,
            <<When(captured # NO_PIECE, {<<captured, captured_index(m)>>}),
              When(m.type = PROMOTION, {<<promoted, count(board, promoted)>>,
                                        <<pc, count(board, pc) - 1>>})>>),
         nonPawnMaterial |-> [st.nonPawnMaterial EXCEPT
            ![us] = @ + (IF m.type = PROMOTION THEN MaterialValue[m.promotion] ELSE 0),
            ![them] = @ - (IF captured = NO_PIECE \/ IsPawn(captured) THEN 0
                           ELSE MaterialValue[captured[2]])]]

----------------------------------------------------------------------------
(* do_move: the en passant square, set only if a capture is really legal.  *)

\* Mutant: with two pawns the last test looks at the wrong one.
ep_capturer_any(pawns, theirs, b) == Min(pawns)

\* The pawn the last test is made for: the only one, or the one off the king's file.
ep_capturer(pawns, theirs, b) ==
    IF Cardinality(pawns) > 1
    THEN CHOOSE s \in pawns : file_of(s) # file_of(square(b, theirs))
    ELSE CHOOSE s \in pawns : TRUE

\* b is the board after a double push to square to; the pawns of `theirs` may
\* capture.  Two pawns of which one is free need no further test; two pinned
\* ones with none on the king's file cannot capture.
ep_legal(b, to, mover, checkers) ==
    LET theirs == Opposite(mover)
        pawns == {s \in PawnAttacks[mover][to - Up(mover)] \cap DOMAIN b : b[s] = make_piece(theirs, PAWN)}
        pinned == blockersForKing(b)[theirs] \cap pawns
        onKingFile == {s \in pawns : file_of(s) = file_of(square(b, theirs))}
        s == ep_capturer(pawns, theirs, b)
    IN  /\ pawns # {} /\ checkers \subseteq {to}
        /\ \/ Cardinality(pawns) > 1 /\ Cardinality(pinned) <= 1
           \/ /\ Cardinality(pawns) > 1 => Cardinality(pinned) > 1 /\ onKingFile # {}
              /\ ~SlidersReach(b, mover, square(b, theirs), ep_occupied(b, s, to, to - Up(mover)))

ep_square_after(m, b, checkers) ==
    IF board[m.from][2] = PAWN /\ Gap(m.from, m.to) = 16 /\ ep_legal(b, m.to, us, checkers)
    THEN m.to - Up(us) ELSE SQ_NONE

\* The repetition walk: from four plies back, two at a time, negative for a third.
repetition_info(key, rule50, pliesFromNull) ==
    LET n == Len(chain) + 1
        end == IF rule50 < pliesFromNull THEN rule50 ELSE pliesFromNull
        hits == {i \in 4 .. end : i % 2 = 0 /\ chain[n - i].key = key}
    IN  CASE hits = {} -> 0
          [] hits # {} /\ chain[n - Min(hits)].repetition # 0 -> -Min(hits)
          [] OTHER -> Min(hits)

\* do_move(m, newSt, givesCheck).
do_move(m, givesCheck) ==
    LET b == BoardAfter(m)
        checkers == IF givesCheck THEN attackers_to(b, square(b, them), pieces(b)) \cap PiecesOf(b, us)
                    ELSE {}
        ep == ep_square_after(m, b, checkers)
        key == Xor(key_moved(m), <<ep_feature(ep)>>)
        rule50 == IF captured_by(m) # NO_PIECE \/ board[m.from][2] = PAWN THEN 0 ELSE st.rule50 + 1
    IN  /\ board' = b
        /\ sideToMove' = them
        /\ chain' = Append(chain,
              keys_moved(m) @@
              [key |-> key,
               castlingRights |-> rights_after(m), rule50 |-> rule50,
               pliesFromNull |-> st.pliesFromNull + 1, epSquare |-> ep, checkersBB |-> checkers,
               blockersForKing |-> blockersForKing(b), pinners |-> pinners(b),
               checkSquares |-> checkSquares(b, them), capturedPiece |-> captured_by(m),
               repetition |-> repetition_info(key, rule50, st.pliesFromNull + 1)])
        /\ UNCHANGED setup

\* undo_move(m): m was made by the side that is not to move now.
undo_move(m) ==
    LET back == put_piece(remove_piece(board, m.to),
                          IF m.type = PROMOTION THEN make_piece(them, PAWN) ELSE board[m.to], m.from)
        capsq == IF m.type = EN_PASSANT THEN m.to - Up(them) ELSE m.to
    IN  /\ board' = CASE m.type = CASTLING -> undo_castling(board, <<them, WingOf(m.from, m.to)>>)
                      [] m.type # CASTLING /\ st.capturedPiece # NO_PIECE ->
                            put_piece(back, st.capturedPiece, capsq)
                      [] OTHER -> back
        /\ sideToMove' = them
        /\ chain' = Front(chain)
        /\ UNCHANGED setup

\* do_null_move copies the whole StateInfo; the fifty-move counter stays.
do_null_move ==
    /\ sideToMove' = them
    /\ chain' = Append(chain,
          [st EXCEPT !.key = Xor(@, <<ep_feature(st.epSquare), side_feature>>),
                     !.epSquare = SQ_NONE, !.pliesFromNull = 0, !.repetition = 0,
                     !.blockersForKing = blockersForKing(board), !.pinners = pinners(board),
                     !.checkSquares = checkSquares(board, them)])
    /\ UNCHANGED <<board, setup>>

undo_null_move ==
    /\ sideToMove' = them
    /\ chain' = Front(chain)
    /\ UNCHANGED <<board, setup>>
=============================================================================
