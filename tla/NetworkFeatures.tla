--------------------------- MODULE NetworkFeatures ---------------------------
(***************************************************************************)
(* The accumulators of the engine's networks (nnue.cpp): which features a  *)
(* position has for each architecture, and how the accumulators of a child *)
(* are derived from its parent's and the move, before it is made.          *)
(*                                                                         *)
(* A row of the accumulator, and of the buckets' sums, is the bias and the *)
(* weights of the features added less those subtracted: here it is how     *)
(* often each feature is in it.  The layers behind it read nothing else,   *)
(* and are left out.                                                       *)
(***************************************************************************)
EXTENDS MoveGen

HALFKP == "HalfKP"
HALFKAV2_HM == "HalfKAv2_hm"
Arch == {HALFKP, HALFKAV2_HM}

PieceNumber == [pt \in PieceType |-> CASE pt = PAWN -> 0 [] pt = KNIGHT -> 1 [] pt = BISHOP -> 2
                                       [] pt = ROOK -> 3 [] pt = QUEEN -> 4 [] pt = KING -> 5]
\* Own pieces and the other side's have planes of their own, but the two kings
\* of the modern architecture share one.
Plane(c, pc) == 2 * PieceNumber[pc[2]] + (IF pc[1] = c \/ pc[2] = KING THEN 0 ELSE 1)

----------------------------------------------------------------------------
(* The feature of piece pc on s for the side c whose king is on ksq. *)

PS_END == 641
orient_hk(c, s) == IF c = WHITE THEN s ELSE 63 - s
make_index_hk(c, ksq, pc, s) == PS_END * orient_hk(c, ksq) + 64 * Plane(c, pc) + 1 + orient_hk(c, s)

V4_PS_NB == 704
flip_file(s) == 8 * rank_of(s) + 7 - file_of(s)
orient_v4(c, s, ksq) == LET t == relative_square(c, s) IN IF file_of(ksq) < 4 THEN flip_file(t) ELSE t
KingBucket(s) == 31 - 4 * rank_of(s) - (file_of(s) - 4)
make_index_v4(c, s, pc, ksq) ==
    orient_v4(c, s, ksq) + 64 * Plane(c, pc) + V4_PS_NB * KingBucket(orient_v4(c, ksq, ksq))

Index(arch, c, ksq, pc, s) ==
    IF arch = HALFKP THEN make_index_hk(c, ksq, pc, s) ELSE make_index_v4(c, s, pc, ksq)
IsFeature(arch, pc) == arch = HALFKAV2_HM \/ pc[2] # KING

----------------------------------------------------------------------------
(* Sums of features. *)

Count(sum, f) == IF f \in DOMAIN sum THEN sum[f] ELSE 0
Changed(sum, f, by) == IF Count(sum, f) + by = 0 THEN Restrict(sum, DOMAIN sum \ {f})
                       ELSE [x \in DOMAIN sum \cup {f} |-> IF x = f THEN Count(sum, f) + by ELSE sum[x]]
Subtract(sum, features) == FoldLeft(LAMBDA r, f : Changed(r, f, -1), sum, features)
AddAll(sum, features) == FoldLeft(LAMBDA r, f : Changed(r, f, 1), sum, features)
NoFeatures == [f \in {} |-> 0]

\* The sum of the pieces of b on squares, each counted where "to" says it stands.
SumOf(arch, c, ksq, b, squares, to) ==
    FoldSet(LAMBDA s, r : Changed(r, Index(arch, c, ksq, b[s], to[s]), 1), NoFeatures,
            {s \in squares : IsFeature(arch, b[s])})

refresh_perspective(arch, b, c) ==
    SumOf(arch, c, king_square(b, c), b, DOMAIN b, [s \in DOMAIN b |-> s])
refresh(arch, b) == [c \in Color |-> refresh_perspective(arch, b, c)]

----------------------------------------------------------------------------
(* update: the child's sums, from the position before move m. *)

kto(m) == IF m.type = CASTLING THEN king_to(<<us, Side(m.from, m.to)>>) ELSE m.to
placed_by(m) == IF m.type = PROMOTION THEN make_piece(us, m.promotion) ELSE board[m.from]

\* Mutant: a king that takes a piece leaves it in its own sums.
rebuilt_over(arch, m) ==
    LET cr == <<us, Side(m.from, m.to)>>
        to == [s \in DOMAIN board |-> IF s = m.from THEN kto(m)
                 ELSE IF m.type = CASTLING /\ s = rook_home(cr) THEN rook_to(cr) ELSE s]
    IN  SumOf(arch, us, kto(m), board, DOMAIN board, to)

\* The mover's own king moved: every feature of its side has a new index.
rebuilt(arch, m) ==
    LET cr == <<us, Side(m.from, m.to)>>
        gone == IF captured_by(m) = NO_PIECE THEN {} ELSE {capture_square(m)}
        to == [s \in DOMAIN board |-> IF s = m.from THEN kto(m)
                 ELSE IF m.type = CASTLING /\ s = rook_home(cr) THEN rook_to(cr) ELSE s]
    IN  SumOf(arch, us, kto(m), board, DOMAIN board \ gone, to)

\* The features that leave and those that come, for a side whose king stays.
subtracted(arch, c, m) ==
    LET ix(pc, s) == Index(arch, c, king_square(board, c), pc, s)
        cr == <<us, Side(m.from, m.to)>>
    IN  (IF IsFeature(arch, board[m.from]) THEN <<ix(board[m.from], m.from)>> ELSE <<>>)
        \o (IF m.type = CASTLING THEN <<ix(make_piece(us, ROOK), rook_home(cr))>> ELSE <<>>)
        \o (IF captured_by(m) # NO_PIECE THEN <<ix(captured_by(m), capture_square(m))>> ELSE <<>>)
added(arch, c, m) ==
    LET ix(pc, s) == Index(arch, c, king_square(board, c), pc, s)
        cr == <<us, Side(m.from, m.to)>>
    IN  (IF IsFeature(arch, board[m.from]) THEN <<ix(placed_by(m), kto(m))>> ELSE <<>>)
        \o (IF m.type = CASTLING THEN <<ix(make_piece(us, ROOK), rook_to(cr))>> ELSE <<>>)

update(arch, parent, m) ==
    [c \in Color |-> IF c = us /\ board[m.from][2] = KING THEN rebuilt(arch, m)
                     ELSE AddAll(Subtract(parent[c], subtracted(arch, c, m)), added(arch, c, m))]

----------------------------------------------------------------------------
\* Along any line the accumulators that update derives from move to move are those
\* refresh builds from the board, for either architecture and side, through
\* castling, en passant, promotions and captures by the king; the features of a
\* position are of its own planes, within the network's inputs and one for each
\* piece, the kings of HalfKAv2_hm included; and a side sees the mirrored position
\* as the other side sees this one.
NetworkExact ==
    LET Inputs(arch) == IF arch = HALFKP THEN 41024 ELSE 22528
        mirrored == [s \in {relative_square(BLACK, t) : t \in DOMAIN board} |->
                        LET pc == board[relative_square(BLACK, s)] IN make_piece(Opposite(pc[1]), pc[2])]
    IN  /\ \A arch \in Arch :
             LET parent == refresh(arch, board)
             IN  /\ \A m \in LegalMoves : update(arch, parent, m) = refresh(arch, BoardAfter(m))
                 /\ \A c \in Color :
                      /\ DOMAIN parent[c] \subseteq 0 .. Inputs(arch) - 1
                      /\ Cardinality(DOMAIN parent[c]) = Cardinality({s \in DOMAIN board : IsFeature(arch, board[s])})
        /\ \A c \in Color :
             refresh_perspective(HALFKAV2_HM, mirrored, Opposite(c)) = refresh_perspective(HALFKAV2_HM, board, c)
=============================================================================
