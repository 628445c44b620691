----------------------------- MODULE ChessRules -----------------------------
(***************************************************************************)
(* The rules of chess, stated for comparison and not from the code: what   *)
(* attacks what by files, ranks and clear lines, and a legal move as one   *)
(* after which the mover's king is not attacked.  A position is a record   *)
(* of the pieces by square (color and kind), the side to move, the         *)
(* castling rights left (color and wing) and the square a pawn has just    *)
(* crossed by a double step (64: none).                                    *)
(***************************************************************************)
EXTENDS Integers

Squares == 0 .. 63
X(s) == s % 8
Y(s) == s \div 8
Abs(i) == IF i < 0 THEN -i ELSE i
Other(c) == 1 - c
Forward(c) == IF c = 0 THEN 1 ELSE -1
HomeRank(c) == IF c = 0 THEN 0 ELSE 7
PawnRank(c) == HomeRank(c) + Forward(c)
LastRank(c) == HomeRank(Other(c))

King(b, c) == CHOOSE s \in DOMAIN b : b[s] = <<c, "king">>

\* q lies strictly between s and t on the straight line that joins them.
Interposed(q, s, t) ==
    /\ q \notin {s, t}
    /\ (X(q) - X(s)) * (Y(t) - Y(s)) = (Y(q) - Y(s)) * (X(t) - X(s))
    /\ (X(q) - X(s)) * (X(q) - X(t)) <= 0
    /\ (Y(q) - Y(s)) * (Y(q) - Y(t)) <= 0

ClearLine(b, s, t) == \A q \in DOMAIN b : ~Interposed(q, s, t)

\* The piece on s attacks square t.
Attacks(b, s, t) ==
    LET dx == Abs(X(t) - X(s))
        dy == Abs(Y(t) - Y(s))
        diagonal == dx = dy
        straight == dx = 0 \/ dy = 0
    IN  /\ s # t
        /\ CASE b[s][2] = "pawn" -> dx = 1 /\ Y(t) - Y(s) = Forward(b[s][1])
             [] b[s][2] = "knight" -> {dx, dy} = {1, 2}
             [] b[s][2] = "king" -> dx <= 1 /\ dy <= 1
             [] b[s][2] = "bishop" -> diagonal /\ ClearLine(b, s, t)
             [] b[s][2] = "rook" -> straight /\ ClearLine(b, s, t)
             [] b[s][2] = "queen" -> (diagonal \/ straight) /\ ClearLine(b, s, t)

AttackersOf(b, c, t) == {s \in DOMAIN b : b[s][1] = c /\ Attacks(b, s, t)}
InCheck(b, c) == AttackersOf(b, Other(c), King(b, c)) # {}

----------------------------------------------------------------------------
Displace(b, from, to, pc) ==
    [q \in (DOMAIN b \ {from}) \cup {to} |-> IF q = to THEN pc ELSE b[q]]
Without(b, s) == [q \in DOMAIN b \ {s} |-> b[q]]

WingRook(c, wing) == 8 * HomeRank(c) + (IF wing = "king" THEN 7 ELSE 0)
KingHome(c) == 8 * HomeRank(c) + 4

IsCastling(p, m) == p.board[m.from][2] = "king" /\ Abs(m.to - m.from) = 2
IsEnPassant(p, m) ==
    p.board[m.from][2] = "pawn" /\ m.to = p.crossed /\ X(m.to) # X(m.from)

\* The position after move m (from, to, and the kind promoted to or "").
Play(p, m) ==
    LET c == p.side
        pc == p.board[m.from]
        rook == IF m.to > m.from THEN WingRook(c, "king") ELSE WingRook(c, "queen")
        landed == Displace(IF IsEnPassant(p, m)
                           THEN Without(p.board, m.to - 8 * Forward(c)) ELSE p.board,
                           m.from, m.to,
                           IF m.promotion = "" THEN pc ELSE <<c, m.promotion>>)
        doubleStep == pc[2] = "pawn" /\ Abs(Y(m.to) - Y(m.from)) = 2
    IN  [board |-> IF IsCastling(p, m)
                   THEN Displace(landed, rook, (m.from + m.to) \div 2, <<c, "rook">>)
                   ELSE landed,
         side |-> Other(c),
         rights |-> {r \in p.rights : {m.from, m.to} \cap {KingHome(r[1]), WingRook(r[1], r[2])} = {}},
         crossed |-> IF doubleStep THEN (m.from + m.to) \div 2 ELSE 64]

MayCastle(p, wing) ==
    LET c == p.side
        k == KingHome(c)
        r == WingRook(c, wing)
        path == {s \in Squares : Y(s) = HomeRank(c) /\ Abs(s - k) <= 2
                                   /\ (wing = "king" <=> s >= k)}
    IN  /\ <<c, wing>> \in p.rights
        /\ ClearLine(p.board, k, r)
        /\ \A s \in path \cup {k} : AttackersOf(p.board, Other(c), s) = {}

PawnMayGo(p, s, t) ==
    LET c == p.side
        step == (Y(t) - Y(s)) * Forward(c)
    IN  IF X(s) = X(t)
        THEN /\ t \notin DOMAIN p.board
             /\ step = 1 \/ (step = 2 /\ Y(s) = PawnRank(c) /\ ClearLine(p.board, s, t))
        ELSE Attacks(p.board, s, t) /\ (t \in DOMAIN p.board \/ t = p.crossed)

\* Every legal move of the side to move.
Legal(p) ==
    LET c == p.side
        own == {s \in DOMAIN p.board : p.board[s][1] = c}
        Kinds(s, t) == IF p.board[s][2] = "pawn" /\ Y(t) = LastRank(c)
                       THEN {"queen", "rook", "bishop", "knight"} ELSE {""}
        MayGo(s, t) == IF p.board[s][2] = "pawn" THEN PawnMayGo(p, s, t)
                       ELSE Attacks(p.board, s, t)
        wanderings == UNION {{[from |-> s, to |-> t, promotion |-> k] : k \in Kinds(s, t)} :
                                s \in own, t \in Squares \ own}
        castlings == {[from |-> KingHome(c), to |-> KingHome(c) + (IF w = "king" THEN 2 ELSE -2),
                       promotion |-> ""] : w \in {v \in {"king", "queen"} : MayCastle(p, v)}}
    IN  {m \in wanderings : MayGo(m.from, m.to) /\ ~InCheck(Play(p, m).board, c)} \cup castlings
=============================================================================
