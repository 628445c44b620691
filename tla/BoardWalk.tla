----------------------------- MODULE BoardWalk -----------------------------
(***************************************************************************)
(* A search's walk over positions: from a node whose predecessors are      *)
(* forgotten, as set_state computes it, it makes the moves generate<LEGAL> *)
(* lists, passes by a null move where Thread::search may, and takes each   *)
(* of them back in turn (search.cpp).                                      *)
(* Every property compares what Position and movegen.cpp maintain step by  *)
(* step with what a direct look at the board, or the rules of chess, say.  *)
(***************************************************************************)
EXTENDS MoveGen

CONSTANTS
    StartPositions,  \* records of a parsed FEN: board, side, rights, ep, rule50
    MaxLine          \* bound: the longest line searched

\* A board of pieces, no color with a second king; rights whose king and rook are at
\* home; and an en passant square behind a pawn that may have crossed it, which a pawn of
\* the side to move can take.
IsBoard(b) ==
    /\ b \in [DOMAIN b -> Piece] /\ DOMAIN b \subseteq Square
    /\ \A s, t \in DOMAIN b : b[s] = b[t] /\ b[s][2] = KING => s = t

StandsOn(b, pc, s) == s \in DOMAIN b /\ b[s] = pc

RightsAtHome(b, rights) ==
    /\ rights \subseteq CastlingRight
    /\ \A cr \in rights : /\ StandsOn(b, make_piece(cr[1], KING), king_home(cr[1]))
                          /\ StandsOn(b, make_piece(cr[1], ROOK), rook_home(cr))

EpFits(b, c, ep) == ep # SQ_NONE =>
    /\ ep \in Square \ DOMAIN b /\ relative_rank(c, ep) = 5
    /\ StandsOn(b, make_piece(Opposite(c), PAWN), ep - Up(c))
    /\ \E s \in PawnAttacks[Opposite(c)][ep] : StandsOn(b, make_piece(c, PAWN), s)

\* What Position::set makes of the FEN of a position of standard chess.
ASSUME StartsAssumption == \A f \in StartPositions :
    /\ f.side \in Color
    /\ IsBoard(f.board)
    /\ RightsAtHome(f.board, f.rights)
    /\ EpFits(f.board, f.side, f.ep)

VARIABLE line        \* the moves made and not yet taken back; NullMove for a pass

vars == <<board, sideToMove, chain, line>>
Rules == INSTANCE ChessRules

\* Move::null(), b1 to b1.
NullMove == Move(1, 1)

Init == \E f \in StartPositions :
    /\ board = f.board
    /\ sideToMove = f.side
    /\ chain = <<SetUp(f)>>
    /\ line = <<>>

Make(m) ==
    /\ Len(line) < MaxLine
    /\ do_move(m, gives_check(m))
    /\ line' = Append(line, m)

Unmake ==
    /\ line # <<>> /\ Last(line) # NullMove
    /\ undo_move(Last(line))
    /\ line' = Front(line)

\* Null-move pruning: never in check, in a pawn ending, or twice in a row.
Pass ==
    /\ Len(line) < MaxLine
    /\ st.checkersBB = {}
    /\ st.nonPawnMaterial[us] > 0
    /\ line # <<>> => Last(line) # NullMove
    /\ do_null_move
    /\ line' = Append(line, NullMove)

Unpass ==
    /\ line # <<>> /\ Last(line) = NullMove
    /\ undo_null_move
    /\ line' = Front(line)

Next == (\E m \in LegalMoves : Make(m)) \/ Unmake \/ Pass \/ Unpass
Spec == Init /\ [][Next]_vars

----------------------------------------------------------------------------
(* Properties. *)

\* The position as the rules see it, and a move as the rules name it.
Seen == [board |-> board, side |-> sideToMove, rights |-> st.castlingRights,
         crossed |-> st.epSquare]
AsPlayed(m) == [from |-> m.from, to |-> m.to,
                promotion |-> IF m.type = PROMOTION THEN m.promotion ELSE ""]

\* The position has one king a side, squares and rights in range, and a chain
\* one longer than the line.
TypeOK ==
    /\ DOMAIN board \subseteq Square /\ \A s \in DOMAIN board : board[s] \in Piece
    /\ \A c \in Color : Cardinality({s \in DOMAIN board : board[s] = make_piece(c, KING)}) = 1
    /\ sideToMove \in Color
    /\ Len(chain) = Len(line) + 1
    /\ st.castlingRights \subseteq CastlingRight
    /\ st.epSquare \in Square \cup {SQ_NONE}

\* However the position was reached, by moves, passes and take-backs, the keys
\* and the material that do_move updates term by term are those set_state
\* computes from the board: no hash entry of another position is ever probed,
\* and a take-back brings back the very board that was left.
HashKeysExact ==
    /\ st.key = PositionKey(board, sideToMove, st.castlingRights, st.epSquare)
    /\ st.pawnKey = PawnKey(board)
KeysFromScratch == HashKeysExact /\ st.nonPawnMaterial = NonPawnMaterial(board)

\* checkersBB, which do_move fills only when gives_check predicts a check, is
\* exactly the set of pieces that attack the king to move.
CheckersExact ==
    st.checkersBB = Rules!AttackersOf(board, them, Rules!King(board, us))

\* The cached blockers of a king not in check are what legal() and gives_check()
\* take them for: the pieces of either color whose removal exposes it.
BlockersExact == \A c \in {k \in Color : ~Rules!InCheck(board, k)} :
    \A s \in DOMAIN board \ {Rules!King(board, c)} :
        s \in st.blockersForKing[c] <=> Rules!InCheck(remove_piece(board, s), c)

\* What a node carries along the line is what a look at its board would find:
\* keys, material, checkers and blockers (position.cpp: do_move, undo_move,
\* set_check_info).
CachesExact == TypeOK /\ KeysFromScratch /\ CheckersExact /\ BlockersExact

\* generate<LEGAL>, which calls legal() only on pinned pieces, the king and en
\* passant captures, lists the legal moves of chess and no other; and qsearch's
\* filtered captures are the legal captures and queen promotions among them.
LegalListed ==
    LET legalMoves == Rules!Legal(Seen)
        noisy(m) == \/ m.promotion = QUEEN
                    \/ m.to \in DOMAIN board /\ m.promotion = ""
                    \/ m.to = st.epSquare /\ board[m.from][2] = PAWN
    IN  /\ {AsPlayed(m) : m \in LegalMoves} = legalMoves
        /\ st.checkersBB = {} =>
             {AsPlayed(m) : m \in QsearchMoves} = {m \in legalMoves : noisy(m)}

\* CAPTURES and QUIETS split NON_EVASIONS with no overlap and no omission.
GenerationSplits ==
    /\ generate_all(CAPTURES) \cap generate_all(QUIETS) = {}
    /\ generate_all(CAPTURES) \cup generate_all(QUIETS) = generate_all(NON_EVASIONS)

\* Out of check, an arbitrary move (one remembered from another position, say)
\* that passes pseudo_legal and legal is a legal move, and every legal move
\* passes.  (In check it need not be: legal() does not ask for an evasion.)
PseudoLegalSuffices ==
    LET candidates ==
          {MakeMove(type, from, to, pt) : type \in {NORMAL, EN_PASSANT, CASTLING},
               from \in PiecesOf(board, us), to \in Square, pt \in {KNIGHT}}
          \cup {MakeMove(PROMOTION, from, to, QUEEN) :
               from \in PiecesOf(board, us), to \in Square}
        underpromotion(m) == m.type = PROMOTION /\ m.promotion # QUEEN
    IN  st.checkersBB = {} =>
          {m \in candidates : pseudo_legal(m) /\ legal(m)}
            = {m \in LegalMoves : ~underpromotion(m)}

\* The three of them, however a move comes to be tried: listed at once, in
\* stages, or remembered (movegen.cpp: generate; position.cpp: pseudo_legal, legal).
LegalMovesExact == LegalListed /\ GenerationSplits /\ PseudoLegalSuffices

\* What the rules make of the step: a move changes the position as they say, up to an
\* en passant square nobody can use; a pass changes the side to move and forgets it.
StepOfTheRules ==
    Len(line') > Len(line) =>
      LET made == Last(line')
          p == IF made = NullMove THEN [Seen EXCEPT !.side = them, !.crossed = SQ_NONE]
               ELSE Rules!Play(Seen, AsPlayed(made))
          usable == \E s \in DOMAIN p.board :
                       /\ p.board[s] = make_piece(p.side, PAWN)
                       /\ p.crossed \in PawnAttacks[p.side][s]
      IN  Seen' = IF usable THEN p ELSE [p EXCEPT !.crossed = SQ_NONE]

\* Every move and pass the search makes plays by the rules of chess (position.cpp: do_move,
\* do_null_move).
PlaysByTheRules == [][StepOfTheRules]_vars

----------------------------------------------------------------------------
(* Where the caches can be trusted. *)

\* A starting position that play can reach has both kings, the side that has moved is not
\* in check, and no check comes through the square a pawn has just crossed.  (Position::set
\* asks for none of it.)
LegalStart(f) ==
    LET king == Rules!King(f.board, f.side)
    IN  /\ \A c \in Color : \E s \in DOMAIN f.board : f.board[s] = make_piece(c, KING)
        /\ ~Rules!InCheck(f.board, Opposite(f.side))
        /\ f.ep # SQ_NONE =>
             \A s \in Rules!AttackersOf(f.board, Opposite(f.side), king) :
                ~Rules!Interposed(f.ep, s, king)

\* A step that castles does so while the other king is off the castling king's rank:
\* there gives_check looks for the rook's check through the king that has left.
CastlesOffTheRank ==
    Len(line') > Len(line) /\ Last(line').type = CASTLING =>
      rank_of(king_square(board, them)) # rank_of(king_square(board, us))
=============================================================================
