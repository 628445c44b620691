------------------------------ MODULE MCWizard ------------------------------
(***************************************************************************)
(* Roots for WizardWalk, each built round one of the delicate moves.       *)
(***************************************************************************)
EXTENDS WizardWalk, TLC

CONSTANTS
    ShufflePlies,   \* bound: the longest line from the root with few moves
    Evaluations     \* bound: the evaluations on a scripted line

Sq(file, rank) == 8 * (rank - 1) + file - 1

\* The board whose pieces of each color are given as <<kind, file, rank>>.
Placed(whites, blacks) ==
    LET At(c, placed) == [s \in {Sq(x[2], x[3]) : x \in placed} |->
                            make_piece(c, (CHOOSE x \in placed : Sq(x[2], x[3]) = s)[1])]
    IN  At(WHITE, whites) @@ At(BLACK, blacks)

Root(whites, blacks, side, castling) ==
    [board |-> Placed(whites, blacks), side |-> side, castling |-> castling,
     ep |-> SQ_NONE, rule50 |-> 0, chess960 |-> FALSE,
     plies |-> 2, script |-> <<>>, evaluations |-> 0]

\* Both may castle on both wings; a bishop bears on a crossed square, and every
\* rook may be taken or moved.
Castles == Root(
    {<<KING, 5, 1>>, <<ROOK, 1, 1>>, <<ROOK, 8, 1>>, <<PAWN, 6, 2>>},
    {<<KING, 5, 8>>, <<ROOK, 1, 8>>, <<ROOK, 8, 8>>, <<BISHOP, 1, 6>>},
    WHITE, Color \X {"K", "Q"})

\* Chess960: the queenside rook shields its king, which need not move, from a
\* queen that may come to a1; the kingside rook stands where the king goes.
Shielded == [Root(
    {<<KING, 3, 1>>, <<ROOK, 2, 1>>, <<ROOK, 7, 1>>},
    {<<KING, 8, 8>>, <<QUEEN, 1, 8>>, <<PAWN, 8, 7>>},
    BLACK, {<<WHITE, "B">>, <<WHITE, "K">>}) EXCEPT !.chess960 = TRUE]

\* A king behind whose back rank partner the castling king stands.
BackRank == Root(
    {<<KING, 5, 1>>, <<ROOK, 8, 1>>, <<PAWN, 2, 6>>},
    {<<KING, 3, 1>>, <<PAWN, 1, 3>>}, WHITE, {<<WHITE, "K">>})

\* Two pawns may take on e6, one of them pinned; one on c6.
EpPins == Root(
    {<<KING, 7, 2>>, <<PAWN, 2, 5>>, <<PAWN, 4, 5>>, <<PAWN, 6, 5>>},
    {<<KING, 8, 8>>, <<ROOK, 5, 8>>, <<PAWN, 5, 7>>, <<PAWN, 3, 7>>, <<BISHOP, 2, 7>>}, BLACK, {})

EpRank == Root(
    {<<KING, 1, 5>>, <<PAWN, 2, 5>>, <<PAWN, 4, 5>>},
    {<<KING, 5, 8>>, <<ROOK, 8, 5>>, <<PAWN, 3, 7>>, <<PAWN, 7, 7>>}, BLACK, {})

\* Both capturers of e6 are pinned by bishops: by none, one, or both, as the
\* king in front of them walks.
EpBishops == Root(
    {<<KING, 5, 4>>, <<PAWN, 4, 5>>, <<PAWN, 6, 5>>},
    {<<KING, 8, 8>>, <<BISHOP, 2, 7>>, <<BISHOP, 8, 7>>, <<PAWN, 5, 7>>}, BLACK, {})

\* One capturer of e6 stands before its king on the d-file under a rook, the
\* other is pinned by a bishop: along its capture, then across it.
EpFileAlong == Root(
    {<<KING, 4, 7>>, <<PAWN, 4, 5>>, <<PAWN, 6, 5>>},
    {<<KING, 8, 8>>, <<ROOK, 4, 1>>, <<BISHOP, 8, 3>>, <<PAWN, 5, 7>>}, BLACK, {})
EpFileAcross == Root(
    {<<KING, 4, 3>>, <<PAWN, 4, 5>>, <<PAWN, 6, 5>>},
    {<<KING, 8, 8>>, <<ROOK, 4, 8>>, <<BISHOP, 8, 7>>, <<PAWN, 5, 7>>}, BLACK, {})

\* Promotions with and without capture, one taking a castling rook, and one that
\* checks through the square the pawn has left.
Promotions == Root(
    {<<KING, 5, 1>>, <<ROOK, 8, 1>>, <<PAWN, 2, 7>>},
    {<<KING, 5, 8>>, <<ROOK, 1, 8>>, <<PAWN, 7, 2>>},
    WHITE, {<<WHITE, "K">>, <<BLACK, "Q">>})

\* A knight uncovers a rook, for double checks, among pins on both kings.
Discoveries == Root(
    {<<KING, 1, 1>>, <<ROOK, 5, 1>>, <<KNIGHT, 5, 4>>, <<BISHOP, 2, 2>>, <<QUEEN, 4, 3>>},
    {<<KING, 5, 8>>, <<ROOK, 1, 7>>, <<KNIGHT, 4, 6>>, <<BISHOP, 8, 8>>, <<PAWN, 6, 5>>},
    WHITE, {})

\* A caged bishop and two caged kings shuffle: it may come back in three moves
\* as well as in two, jumping over the square between.
Shuffle == [Root(
    {<<KING, 1, 1>>, <<PAWN, 1, 2>>, <<PAWN, 3, 2>>, <<PAWN, 5, 2>>, <<PAWN, 5, 4>>, <<PAWN, 7, 4>>,
     <<PAWN, 6, 6>>, <<PAWN, 8, 6>>, <<BISHOP, 8, 1>>},
    {<<KING, 8, 8>>, <<PAWN, 8, 7>>, <<PAWN, 6, 7>>, <<PAWN, 1, 3>>, <<PAWN, 3, 3>>, <<PAWN, 5, 3>>,
     <<PAWN, 5, 5>>, <<PAWN, 7, 5>>},
    WHITE, {}) EXCEPT !.plies = ShufflePlies]

\* Everybody bears on d5: rooks behind each other, a bishop behind a pawn, a
\* queen behind a rook, a knight pinned to its king on either side, both kings.
Exchange == [Root(
    {<<KING, 3, 5>>, <<ROOK, 4, 1>>, <<ROOK, 4, 2>>, <<PAWN, 5, 4>>, <<BISHOP, 6, 3>>, <<KNIGHT, 3, 3>>,
     <<ROOK, 5, 8>>},
    {<<KING, 5, 6>>, <<PAWN, 4, 5>>, <<KNIGHT, 5, 7>>, <<ROOK, 4, 7>>, <<QUEEN, 4, 8>>, <<BISHOP, 2, 7>>,
     <<ROOK, 3, 1>>},
    WHITE, {}) EXCEPT !.plies = 1]

\* Scripts: one line each, to be evaluated anywhere on the way down and back.
Scripted(root, script) ==
    [root EXCEPT !.plies = Len(script), !.evaluations = Evaluations,
                 !.script = [i \in DOMAIN script |-> {script[i]}]]
Passes == <<1, 1>>

\* A capture, the recapture, castling to the other half of the board, another
\* capture, a pass.
CastlingLine == Scripted(
    Root({<<KING, 5, 1>>, <<ROOK, 1, 1>>, <<KNIGHT, 3, 3>>, <<PAWN, 1, 2>>},
         {<<KING, 7, 8>>, <<QUEEN, 1, 8>>, <<KNIGHT, 4, 5>>, <<KNIGHT, 6, 6>>}, WHITE, {<<WHITE, "Q">>}),
    <<<<Sq(3, 3), Sq(4, 5)>>, <<Sq(6, 6), Sq(4, 5)>>, <<Sq(5, 1), Sq(1, 1)>>,
      <<Sq(1, 8), Sq(1, 2)>>, Passes>>)

\* A double push taken en passant, the capturer taken, and that one too: what
\* is left goes to the small network.
EnPassantLine == Scripted(
    Root({<<KING, 2, 1>>, <<ROOK, 4, 1>>, <<PAWN, 5, 5>>},
         {<<KING, 7, 8>>, <<ROOK, 4, 8>>, <<PAWN, 4, 7>>}, BLACK, {}),
    <<<<Sq(4, 7), Sq(4, 5)>>, <<Sq(5, 5), Sq(4, 6)>>, <<Sq(4, 8), Sq(4, 6)>>,
      <<Sq(4, 1), Sq(4, 6)>>>>)

\* A promotion by capture to any piece, and its capture by a slider that another
\* stands behind; then the black king changes sides.
PromotionLine == Scripted(
    Root({<<KING, 7, 1>>, <<PAWN, 2, 7>>, <<ROOK, 1, 2>>},
         {<<KING, 5, 5>>, <<ROOK, 1, 8>>, <<BISHOP, 4, 5>>, <<QUEEN, 6, 6>>}, WHITE, {}),
    <<<<Sq(2, 7), Sq(1, 8)>>, <<Sq(4, 5), Sq(1, 8)>>, <<Sq(1, 2), Sq(1, 8)>>,
      <<Sq(5, 5), Sq(4, 5)>>>>)

Roots == {Shuffle, Castles, Shielded, BackRank, EpPins, EpRank, EpBishops,
          EpFileAlong, EpFileAcross, Promotions, Discoveries, Exchange,
          CastlingLine, EnPassantLine, PromotionLine}
=============================================================================
