----------------------------- MODULE OpeningBook -----------------------------
(***************************************************************************)
(* The Polyglot opening book (book.cpp): the key of a position, the moves  *)
(* of an entry, and the choice among the entries of a key.                 *)
(*                                                                         *)
(* A key is the set of the features whose random words it is the XOR of.   *)
(* An entry's move has its squares and its promotion; the keys of a file   *)
(* are only compared, so in a file a key is its place in their order.      *)
(***************************************************************************)
EXTENDS MoveGen

\* polyglot_key.
polyglot_key ==
    LET Kind(pc) == 2 * Min({i \in 0 .. 5 : pc[2] = <<PAWN, KNIGHT, BISHOP, ROOK, QUEEN, KING>>[i + 1]})
                      + (IF pc[1] = WHITE THEN 1 ELSE 0)
    IN  {<<"piece", Kind(board[s]), s>> : s \in DOMAIN board}
        \cup {<<"castling", cr>> : cr \in st.castlingRights}
        \cup (IF st.epSquare = SQ_NONE THEN {} ELSE {<<"enpassant", file_of(st.epSquare)>>})
        \cup (IF us = WHITE THEN {<<"white">>} ELSE {})

----------------------------------------------------------------------------
(* polyglot_to_engine: castling is written as the king taking its own rook.  *)

PromoType == [n \in 0 .. 7 |-> CASE n = 1 -> KNIGHT [] n = 2 -> BISHOP [] n = 3 -> ROOK
                                 [] n = 4 -> QUEEN [] OTHER -> "none"]

\* Mutant: every king's move is taken for castling.
isKingFromRook_any(e) == piece_on(e.from) = make_piece(us, KING)
isKingFromRook(e) == /\ piece_on(e.from) \in {make_piece(c, KING) : c \in Color}
                     /\ piece_on(e.to) = make_piece(us, ROOK)

Means(e, m) ==
    /\ m.from = e.from
    /\ IF m.type = CASTLING
       THEN isKingFromRook(e) /\ (file_of(e.to) > file_of(e.from) <=> file_of(m.to) > file_of(m.from))
       ELSE m.to = e.to /\ PromoType[e.promo] = IF m.type = PROMOTION THEN m.promotion ELSE "none"

\* Out of the legal moves; none, as a set, where there is no such move.
polyglot_to_engine(e, moves) == {m \in moves : Means(e, m)}

----------------------------------------------------------------------------
(* Book::probe. *)

\* The first entry whose key is at least key, by bisection.
lower_bound(entries, key) ==
    LET Mid(w) == w[1] + (w[2] - w[1]) \div 2
        Half(w) == IF w[1] >= w[2] THEN w
                   ELSE IF entries[Mid(w) + 1].key < key THEN <<Mid(w) + 1, w[2]>> ELSE <<w[1], Mid(w)>>
        f[n \in 0 .. Len(entries)] == IF n = 0 THEN <<0, Len(entries)>> ELSE Half(f[n - 1])
    IN  f[Len(entries)][1]

\* The candidates: what the entries of the key mean here, and their weights.
candidates(entries, key, moves) ==
    LET from == lower_bound(entries, key)
        others == {i \in from + 1 .. Len(entries) : entries[i].key # key}
        to == IF others = {} THEN Len(entries) ELSE Min(others) - 1
        Gather(cands, e) ==
            LET meant == polyglot_to_engine(e, moves)
            IN  IF meant = {} THEN cands
                ELSE Append(cands, [moves |-> meant, weight |-> IF e.weight = 0 THEN 1 ELSE e.weight])
    IN  FoldLeft(Gather, <<>>, SubSeq(entries, from + 1, to))
totalWeight(cands) == FoldLeft(LAMBDA t, c : t + c.weight, 0, cands)

\* The heaviest, or the first whose weight, with those before it, exceeds pick:
\* the position's random number below the total.
best(cands) == cands[Min({i \in DOMAIN cands : \A j \in DOMAIN cands : cands[j].weight <= cands[i].weight})]
drawn(cands, pick) ==
    cands[Min({i \in DOMAIN cands : pick < totalWeight(SubSeq(cands, 1, i))} \cup {Len(cands)})]

----------------------------------------------------------------------------
(* What a book says of the position.                                         *)

\* How Polyglot writes a move.
InBook(m) == [from |-> m.from, to |-> IF m.type = CASTLING THEN rook_home(<<us, Side(m.from, m.to)>>) ELSE m.to,
              promo |-> IF m.type # PROMOTION THEN 0 ELSE CHOOSE n \in 1 .. 4 : PromoType[n] = m.promotion]

\* A book that knows two moves of the position, and one that is none of its own.
SmallBook(some, other) ==
    LET Entry(k, e, w) == [key |-> k, weight |-> w, from |-> e.from, to |-> e.to, promo |-> e.promo]
        impossible == [from |-> king_square(board, them), to |-> 0, promo |-> 0]
    IN  <<Entry(1, InBook(other), 3), Entry(2, InBook(some), 2), Entry(2, impossible, 9),
          Entry(2, InBook(other), 0), Entry(3, InBook(some), 7)>>

DrawnByWeight(cands) == \A i \in DOMAIN cands :
    cands[i].weight = Cardinality({p \in 0 .. totalWeight(cands) - 1 : drawn(cands, p) = cands[i]})
BestOfTwo(cands, some, other) ==
    /\ [i \in DOMAIN cands |-> cands[i].moves] = <<{some}, {other}>>
    /\ best(cands).moves = {some}
    /\ DrawnByWeight(cands)

MovesInBook(moves) == \A m \in moves : polyglot_to_engine(InBook(m), moves) = {m}
ProbesExact(book, moves, some, other) ==
    /\ BestOfTwo(candidates(book, 2, moves), some, other)
    /\ \A k \in 0 .. 4 : Len(candidates(book, k, moves)) = <<0, 1, 2, 1, 0>>[k + 1]
BookAnswers(moves) == \A some \in moves :
    LET other == CHOOSE m \in moves : moves = {some} \/ m # some
    IN  ProbesExact(SmallBook(some, other), moves, some, other)

\* The key is the one books are made with, where en passant counts only if a pawn
\* stands beside the one that has moved; every legal move is the meaning of what
\* Polyglot writes for it, castling included, and nothing else is.  A probe finds
\* all entries of its key and no other's, passes over a move that is not legal
\* here, and its draw gives each entry its weight's share, a weight of 0 being 1.
BookExact ==
    LET beside == {s \in DOMAIN board : board[s] = make_piece(us, PAWN) /\ st.epSquare \in PawnAttacks[us][s]}
    IN  /\ MovesInBook(LegalMoves)
        /\ beside = {} => \A f \in 0 .. 7 : <<"enpassant", f>> \notin polyglot_key
        /\ BookAnswers(LegalMoves)
=============================================================================
