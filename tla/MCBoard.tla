------------------------------ MODULE MCBoard ------------------------------
(***************************************************************************)
(* Roots for BoardWalk, each built round one of the delicate moves.        *)
(***************************************************************************)
EXTENDS BoardWalk, StaticExchange, NetworkFeatures, HandCrafted, OpeningBook, TLC

\* The board whose pieces of each color are given as <<kind, file, rank>>.
Placed(whites, blacks) ==
    LET Sq(x) == 8 * (x[3] - 1) + x[2] - 1
        At(c, placed) == [s \in {Sq(x) : x \in placed} |->
                            make_piece(c, (CHOOSE x \in placed : Sq(x) = s)[1])]
    IN  At(WHITE, whites) @@ At(BLACK, blacks)

Root(whites, blacks, side, rights) ==
    [board |-> Placed(whites, blacks), side |-> side, rights |-> rights,
     ep |-> SQ_NONE, rule50 |-> 3]

\* Both sides may castle on both wings; a bishop bears on one crossed square,
\* and every rook may be taken or moved.
Castles == Root(
    {<<KING, 5, 1>>, <<ROOK, 1, 1>>, <<ROOK, 8, 1>>, <<PAWN, 6, 2>>},
    {<<KING, 5, 8>>, <<ROOK, 1, 8>>, <<ROOK, 8, 8>>, <<BISHOP, 1, 6>>},
    WHITE, CastlingRight)

\* After 1... c5 the capture bxc6 would take both pawns off the rook's rank.
EpPinned == Root(
    {<<KING, 1, 5>>, <<PAWN, 2, 5>>},
    {<<KING, 5, 8>>, <<ROOK, 8, 5>>, <<PAWN, 3, 7>>}, BLACK, {})

\* 1... d5 checks the king and may be taken en passant, and only so or by the
\* king; 1... f5 does not check.
EpEvasion == Root(
    {<<KING, 5, 4>>, <<PAWN, 5, 5>>},
    {<<KING, 8, 8>>, <<PAWN, 4, 7>>, <<PAWN, 6, 7>>, <<KNIGHT, 2, 8>>}, BLACK, {})

\* After 1... e5 2. dxe6 both pawns leave the rank and uncover the rook.
EpUncovers == Root(
    {<<KING, 1, 1>>, <<ROOK, 1, 5>>, <<PAWN, 4, 5>>},
    {<<KING, 8, 5>>, <<PAWN, 5, 7>>, <<PAWN, 7, 7>>}, BLACK, {})

\* bxa8 takes the castling rook; gxh1 likewise; pins and a checked king follow.
Promotions == Root(
    {<<KING, 5, 1>>, <<ROOK, 8, 1>>, <<PAWN, 2, 7>>},
    {<<KING, 5, 8>>, <<ROOK, 1, 8>>, <<PAWN, 7, 2>>},
    WHITE, {<<WHITE, "king">>, <<BLACK, "queen">>})

\* The promoted pawn checks through the square it has left, on the file and on
\* the diagonal.
PromotesThrough == Root(
    {<<KING, 1, 4>>, <<PAWN, 7, 7>>},
    {<<KING, 7, 4>>, <<ROOK, 8, 8>>, <<KNIGHT, 6, 8>>}, WHITE, {})

\* A knight uncovers a rook, for double checks, among pins on both kings.
Discoveries == Root(
    {<<KING, 1, 1>>, <<ROOK, 5, 1>>, <<KNIGHT, 5, 4>>, <<BISHOP, 2, 2>>, <<QUEEN, 4, 3>>},
    {<<KING, 5, 8>>, <<ROOK, 1, 7>>, <<KNIGHT, 4, 6>>, <<BISHOP, 8, 8>>, <<PAWN, 6, 5>>},
    WHITE, {})

\* Batteries bear on d5 from both sides: exchanges with x-rays, and kings last.
Exchanges == Root(
    {<<KING, 3, 4>>, <<ROOK, 4, 2>>, <<QUEEN, 4, 1>>, <<BISHOP, 7, 2>>, <<PAWN, 5, 4>>},
    {<<KING, 5, 6>>, <<ROOK, 4, 8>>, <<PAWN, 4, 5>>, <<KNIGHT, 6, 6>>, <<BISHOP, 1, 8>>},
    WHITE, {})

\* Opposite bishops, with a passed pawn, a backward one and doubled ones.
OpposedBishops == Root(
    {<<KING, 7, 2>>, <<BISHOP, 3, 1>>, <<PAWN, 1, 5>>, <<PAWN, 4, 4>>, <<PAWN, 5, 3>>},
    {<<KING, 5, 8>>, <<BISHOP, 3, 8>>, <<PAWN, 6, 5>>, <<PAWN, 8, 6>>, <<PAWN, 8, 4>>},
    WHITE, {})

\* The same position with the colors exchanged.
Mirrored(f) ==
    LET flip(s) == relative_square(BLACK, s)
    IN  [f EXCEPT !.board = [s \in {flip(t) : t \in DOMAIN f.board} |->
                                make_piece(Opposite(f.board[flip(s)][1]), f.board[flip(s)][2])],
                  !.side = Opposite(@),
                  !.rights = {<<Opposite(cr[1]), cr[2]>> : cr \in @}]

Roots == LET given == {Castles, EpPinned, EpEvasion, EpUncovers, Promotions,
                       PromotesThrough, Discoveries, Exchanges, OpposedBishops}
         IN  given \cup {Mirrored(f) : f \in given}

\* The black king has walked to White's back rank, behind the king that may
\* still castle.
BackRankKing == {Root(
    {<<KING, 5, 1>>, <<ROOK, 8, 1>>},
    {<<KING, 3, 1>>, <<PAWN, 1, 3>>}, WHITE, {<<WHITE, "king">>})}

\* Every root is a position play can reach, as the proofs about these walks assume.
ASSUME RootsAreLegal == \A f \in Roots \cup BackRankKing : LegalStart(f)

\* Along every line both evaluations read the position as it is: the network's
\* accumulators are those of the board, and the hand-crafted terms favor no color.
EvaluationsExact == NetworkExact /\ HandCraftedFair
=============================================================================
