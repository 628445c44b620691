------------------------- MODULE WizardTablePlaces -------------------------
(***************************************************************************)
(* The place of a position in an endgame table (wizard/syzygy/tbprobe.cpp: *)
(* init, set_groups, do_probe_table) and the value stored there            *)
(* (set_sizes, decompress_pairs).                                          *)
(*                                                                         *)
(* A table is a record: its pieces in the order of the file (a white piece *)
(* is 1 .. 6, pawn to king, and a black one 9 .. 14), and the order in     *)
(* which the file combines the groups.                                     *)
(***************************************************************************)
EXTENDS Integers, FiniteSets, FiniteSetsExt, SequencesExt

CONSTANT Squares    \* the squares positions are set up on, to check the places

----------------------------------------------------------------------------
(* Squares and binomials (init) *)

Board == 0 .. 63
Abs(d) == IF d < 0 THEN -d ELSE d
file_of(s) == s % 8
rank_of(s) == s \div 8
off_A1H8(s) == rank_of(s) - file_of(s)
flip_file(s) == 8 * rank_of(s) + 7 - file_of(s)
flip_rank(s) == 8 * (7 - rank_of(s)) + file_of(s)
flip_diagonal(s) == 8 * file_of(s) + rank_of(s)
edge_distance(f) == IF f < 4 THEN f ELSE 7 - f

Binomial(k, n) ==
    LET b[i \in 0 .. k] == IF i = 0 THEN 1 ELSE (b[i - 1] * (n - i + 1)) \div i
    IN  IF k > n THEN 0 ELSE b[k]

\* A counter in the order of the squares, as a count of those before.
Number(s, S) == Cardinality({x \in S : x < s})
Below == {s \in Board : off_A1H8(s) < 0}
MapB1H1H7 == [s \in Below |-> Number(s, Below)]
Triangle == {s \in Board : s <= 27 /\ off_A1H8(s) <= 0 /\ file_of(s) <= 3}
MapA1D1D4 == [s \in Triangle |-> IF off_A1H8(s) < 0 THEN Number(s, Triangle \cap Below) ELSE 6 + rank_of(s)]

\* The 462 ways to place two kings, those on the diagonal last.
NextTo(s, t) == Abs(file_of(s) - file_of(t)) <= 1 /\ Abs(rank_of(s) - rank_of(t)) <= 1
KingPairs == {k \in Triangle \X Board : ~NextTo(k[1], k[2]) /\ (off_A1H8(k[1]) = 0 => off_A1H8(k[2]) <= 0)}
BothOnDiagonal(k) == off_A1H8(k[1]) = 0 /\ off_A1H8(k[2]) = 0
KingOrder(k) == <<IF BothOnDiagonal(k) THEN 1 ELSE 0, MapA1D1D4[k[1]], k[2]>>
KingCode(k) == LET o == KingOrder(k) IN 640 * o[1] + 64 * o[2] + o[3]
KingCodes == {KingCode(k) : k \in KingPairs}
MapKK == [k \in KingPairs |-> Number(KingCode(k), KingCodes)]

MapPawns(s) == 47 - 2 * (6 * edge_distance(file_of(s)) + rank_of(s) - 1) - (IF file_of(s) > 3 THEN 1 ELSE 0)
LeadPawnsBelow(count, f, r) == MapThenSumSet(LAMBDA x : Binomial(count - 1, MapPawns(8 * x + f)), 1 .. r - 1)
LeadPawnIdx(count, s) == LeadPawnsBelow(count, file_of(s), rank_of(s))
LeadPawnsSize(count, f) == LeadPawnsBelow(count, f, 7)

----------------------------------------------------------------------------
(* A table and its groups of pieces (TBTable, set_groups) *)

Opposite(pc) == IF pc > 8 THEN pc - 8 ELSE pc + 8
IsPawn(pc) == pc % 8 = 1
Times(t, pc) == Cardinality({i \in DOMAIN t.pieces : t.pieces[i] = pc})
hasPawns(t) == IsPawn(t.pieces[1])
hasUniquePieces(t) == \E pc \in ToSet(t.pieces) : pc % 8 # 6 /\ Times(t, pc) = 1
pawnsOnBothSides(t) == hasPawns(t) /\ Times(t, Opposite(t.pieces[1])) > 0
symmetric(t) == t.key = t.key2

\* The places at which the groups begin: equal pieces, but the leading group is of
\* the kings, or of three different pieces, where there are no pawns.
starts(t) ==
    LET firstLen == IF hasPawns(t) THEN 0 ELSE IF hasUniquePieces(t) THEN 3 ELSE 2
    IN  SelectSeq([i \in DOMAIN t.pieces |-> i],
                  LAMBDA i : i = 1 \/ (i > firstLen /\ t.pieces[i] # t.pieces[i - 1]))
groupLen(t) ==
    LET s == Append(starts(t), Len(t.pieces) + 1) IN [g \in 1 .. Len(s) - 1 |-> s[g + 1] - s[g]]

SizeOfGroup(t, f, g) ==
    LET len == groupLen(t)
        taken == SumFunctionOnSet(len, 1 .. g - 1)
    IN  CASE g = 1 -> IF hasPawns(t) THEN LeadPawnsSize(len[1], f) ELSE IF hasUniquePieces(t) THEN 31332 ELSE 462
          [] g = 2 /\ pawnsOnBothSides(t) -> Binomial(len[2], 48 - len[1])
          [] OTHER -> Binomial(len[g], 64 - taken)

\* order[1] is the place of the leading group, order[2] that of the other pawns;
\* the other groups fill the places left.
placeOf(t) ==
    LET fixed == IF pawnsOnBothSides(t) THEN 1 .. 2 ELSE {1}
        n == Len(groupLen(t))
        free == SelectSeq([i \in 1 .. n |-> i], LAMBDA i : \A g \in fixed : t.order[g] # i)
    IN  [g \in 1 .. n |-> IF g \in fixed THEN t.order[g] ELSE free[g - Cardinality(fixed)]]
Product(t, f, gs) == FoldSet(LAMBDA g, product : product * SizeOfGroup(t, f, g), 1, gs)
groupIdx(t, f, g) == LET place == placeOf(t) IN Product(t, f, {h \in DOMAIN place : place[h] < place[g]})
tbSize(t, f) == Product(t, f, DOMAIN groupLen(t))

----------------------------------------------------------------------------
(* The place of a position (do_probe_table).  A position is its men, a     *)
(* function from the squares they stand on, and the side to move.          *)

Turned(men, turn(_)) == [s \in {turn(x) : x \in DOMAIN men} |-> men[CHOOSE x \in DOMAIN men : turn(x) = s]]
Swapped(men) == [s \in DOMAIN men |-> Opposite(men[s])]
OfPiece(men, pc) == {s \in DOMAIN men : men[s] = pc}
Matches(t, men) == \A pc \in ToSet(t.pieces) : Cardinality(OfPiece(men, pc)) = Times(t, pc)

switched(t, p) == ~Matches(t, p.men) \/ (symmetric(t) /\ p.stm = 1)
AsInFile(t, p) == IF switched(t, p) THEN Turned(Swapped(p.men), flip_rank) ELSE p.men
LeadSquare(t, men) ==
    LET lead == OfPiece(men, t.pieces[1])
    IN  IF hasPawns(t) THEN CHOOSE s \in lead : \A o \in lead : MapPawns(s) >= MapPawns(o) ELSE CHOOSE s \in lead : TRUE
tbFile(t, men) == IF hasPawns(t) THEN edge_distance(file_of(LeadSquare(t, men))) ELSE 0

\* The leading piece to the a-d files and, without pawns, below the fifth rank and
\* the diagonal.
Normalised(t, men) ==
    LET left == IF file_of(LeadSquare(t, men)) > 3 THEN Turned(men, flip_file) ELSE men
        low == IF rank_of(LeadSquare(t, left)) > 3 THEN Turned(left, flip_rank) ELSE left
        at(i) == CHOOSE s \in DOMAIN low : low[s] = t.pieces[i]
        off == {i \in 1 .. groupLen(t)[1] : off_A1H8(at(i)) # 0}
    IN  IF hasPawns(t) THEN left
        ELSE IF off # {} /\ off_A1H8(at(Min(off))) > 0 THEN Turned(low, flip_diagonal) ELSE low

After(s, others) == IF \E o \in others : s = o THEN 0 ELSE Cardinality({o \in others : s > o})
LeadingPieces(t, men) ==
    LET sq(i) == CHOOSE s \in DOMAIN men : men[s] = t.pieces[i]
        adjust1 == After(sq(2), {sq(1)})
        adjust2 == After(sq(3), {sq(1), sq(2)})
        diagonal(i) == off_A1H8(sq(i)) = 0
    IN  CASE ~hasUniquePieces(t) -> MapKK[<<sq(1), sq(2)>>]
          [] hasUniquePieces(t) /\ ~diagonal(1) -> (MapA1D1D4[sq(1)] * 63 + sq(2) - adjust1) * 62 + sq(3) - adjust2
          [] hasUniquePieces(t) /\ diagonal(1) /\ ~diagonal(2) ->
               (6 * 63 + rank_of(sq(1)) * 28 + MapB1H1H7[sq(2)]) * 62 + sq(3) - adjust2
          [] hasUniquePieces(t) /\ diagonal(1) /\ diagonal(2) /\ ~diagonal(3) ->
               6 * 63 * 62 + 4 * 28 * 62 + rank_of(sq(1)) * 7 * 28 + (rank_of(sq(2)) - adjust1) * 28 + MapB1H1H7[sq(3)]
          [] OTHER -> 6 * 63 * 62 + 4 * 28 * 62 + 4 * 7 * 28 + rank_of(sq(1)) * 7 * 6
                      + (rank_of(sq(2)) - adjust1) * 6 + rank_of(sq(3)) - adjust2
LeadingPawns(t, men) ==
    LET lead == OfPiece(men, t.pieces[1])
        first == LeadSquare(t, men)
        others == lead \ {first}
        nth(s) == Cardinality({o \in others : MapPawns(o) <= MapPawns(s)})
    IN  LeadPawnIdx(Cardinality(lead), first) + MapThenSumSet(LAMBDA s : Binomial(nth(s), MapPawns(s)), others)

\* A later group by its squares, less those the earlier groups stand on.
GroupCode(t, men, g) ==
    LET begin == starts(t)
        mine == OfPiece(men, t.pieces[begin[g]])
        before == UNION {OfPiece(men, t.pieces[i]) : i \in 1 .. begin[g] - 1}
        rows == IF g = 2 /\ pawnsOnBothSides(t) THEN 8 ELSE 0
        nth(s) == Cardinality({o \in mine : o <= s})
    IN  MapThenSumSet(LAMBDA s : Binomial(nth(s), s - After(s, before) - rows), mine)

\* The squares of p, its leading pawns filed in file f, as the men turned to be.
IndexOf(t, men, f) ==
    (IF hasPawns(t) THEN LeadingPawns(t, men) ELSE LeadingPieces(t, men)) * groupIdx(t, f, 1)
      + MapThenSumSet(LAMBDA g : GroupCode(t, men, g) * groupIdx(t, f, g), 2 .. Len(groupLen(t)))
Place(t, p) ==
    LET filed == AsInFile(t, p)
        f == tbFile(t, filed)
        stm == IF switched(t, p) THEN 1 - p.stm ELSE p.stm
    IN  [side |-> IF symmetric(t) THEN 0 ELSE stm, file |-> f,
         idx |-> IndexOf(t, Normalised(t, filed), f)]

----------------------------------------------------------------------------
(* Compressed values (set_symlen, set_sizes, decompress_pairs).  A stream  *)
(* d holds blocks of bits; btree gives the two symbols of a pair, and      *)
(* <<v, 4095>> for the value v; codes of a length l from minSymLen on are  *)
(* consecutive, from lowestSym[l]; the buffer has Width bits, 64 in the    *)
(* code.                                                                   *)

Width == 8

symlen(d) ==
    LET len[s \in DOMAIN d.btree] ==
          IF d.btree[s][2] = 4095 THEN 0 ELSE len[d.btree[s][1]] + len[d.btree[s][2]] + 1
    IN  len

\* base64: the lowest code of each length, filled up with zeros to the buffer's width.
base(d) ==
    LET max == d.minSymLen + Len(d.lowestSym) - 1
        b[l \in d.minSymLen .. max] ==
          IF l = max THEN 0
          ELSE (b[l + 1] + d.lowestSym[l - d.minSymLen + 1] - d.lowestSym[l - d.minSymLen + 2]) \div 2
    IN  [l \in DOMAIN b |-> b[l] * 2^(Width - l)]

\* The bits of a block from the one after `from`, as a number; zeros after its end.
number(bits, from, n) ==
    FoldFunctionOnSet(+, 0, [i \in 1 .. n |-> IF from + i \in DOMAIN bits THEN bits[from + i] * 2^(n - i) ELSE 0], 1 .. n)

\* The length of the first code of the buffer, and its symbol.
CodeLength(d, buf) == Min({l \in DOMAIN base(d) : buf >= base(d)[l]})
CodeSymbol(d, buf, l) == (buf - base(d)[l]) \div 2^(Width - l) + d.lowestSym[l - d.minSymLen + 1]

Refilled(bits, buf, have, read) ==
    IF have <= Width \div 2
    THEN [buf |-> buf + number(bits, read, Width \div 2) * 2^(Width \div 2 - have),
          have |-> have + Width \div 2, read |-> read + Width \div 2]
    ELSE [buf |-> buf, have |-> have, read |-> read]

\* The symbol of a block that holds the value at an offset, and the offset in it.
RECURSIVE SymbolAt(_, _, _, _)
SymbolAt(d, bits, offset, b) ==
    LET l == CodeLength(d, b.buf)
        sym == CodeSymbol(d, b.buf, l)
        held == symlen(d)[sym] + 1
    IN  IF offset < held THEN <<sym, offset>>
        ELSE SymbolAt(d, bits, offset - held,
                      Refilled(bits, (b.buf * 2^l) % 2^Width, b.have - l, b.read))

RECURSIVE ValueIn(_, _, _)
ValueIn(d, sym, offset) ==
    LET left == d.btree[sym][1]
        held == symlen(d)[left] + 1
    IN  IF symlen(d)[sym] = 0 THEN left
        ELSE IF offset < held THEN ValueIn(d, left, offset)
        ELSE ValueIn(d, d.btree[sym][2], offset - held)

\* From the nearest entry of the sparse index to the block that has the value.
RECURSIVE BlockOf(_, _, _)
BlockOf(d, block, offset) ==
    IF offset < 0 THEN BlockOf(d, block - 1, offset + d.blockLength[block - 1] + 1)
    ELSE IF offset > d.blockLength[block] THEN BlockOf(d, block + 1, offset - d.blockLength[block] - 1)
    ELSE <<block, offset>>

decompress_pairs(d, idx) ==
    LET entry == d.sparseIndex[idx \div d.span + 1]
        at == BlockOf(d, entry.block, entry.offset + (idx % d.span) - (d.span \div 2))
        bits == d.data[at[1]]
        found == SymbolAt(d, bits, at[2], [buf |-> number(bits, 0, Width), have |-> Width, read |-> Width])
    IN  IF d.singleValue # {} THEN CHOOSE v \in d.singleValue : TRUE ELSE ValueIn(d, found[1], found[2])

----------------------------------------------------------------------------
\* Positions that are not each other's mirror image, with or without the colours
\* exchanged, have different places in the table; mirror images have one place, or
\* two where the whole leading group stands on the long diagonal; and no place is
\* beyond the end of the file.
Images(t, p) ==
    LET turned == {p.men, Turned(p.men, flip_file)}
        ranks == IF hasPawns(t) THEN turned ELSE turned \cup {Turned(m, flip_rank) : m \in turned}
        all == IF hasPawns(t) THEN ranks ELSE ranks \cup {Turned(m, flip_diagonal) : m \in ranks}
    IN  {[men |-> m, stm |-> p.stm] : m \in all}
        \cup {[men |-> Turned(Swapped(m), flip_rank), stm |-> 1 - p.stm] : m \in all}
Kings(men) == {s \in DOMAIN men : men[s] \in {6, 14}}
Positions(t) ==
    {[men |-> m, stm |-> stm] : stm \in {0, 1},
       m \in {men \in UNION {[S -> ToSet(t.pieces)] : S \in kSubset(Len(t.pieces), Squares)} :
                /\ Matches(t, men)
                /\ \A s \in DOMAIN men : IsPawn(men[s]) => rank_of(s) \in 1 .. 6
                /\ \A s, o \in Kings(men) : s # o => ~NextTo(s, o)}}
OnDiagonal(t, p) ==
    LET men == Normalised(t, AsInFile(t, p))
    IN  ~hasPawns(t) /\ \A i \in 1 .. groupLen(t)[1] : \A s \in OfPiece(men, t.pieces[i]) : off_A1H8(s) = 0
FiledApart(t, filed) ==
    LET places == {f[2] : f \in filed}
        several == {f[1] : f \in {x \in filed : Place(t, CHOOSE p \in x[1] : TRUE) # x[2]}}
    IN  /\ Cardinality(places) = Cardinality(filed)
        /\ \A images \in several : \A p \in images : OnDiagonal(t, p)
        /\ \A x \in places : x.idx \in 0 .. tbSize(t, x.file) - 1
PlacesExact(t) == FiledApart(t,
    UNION {LET images == Images(t, p) IN {<<images, Place(t, q)>> : q \in images} : p \in Positions(t)})

\* The value found at an index is the one that was compressed there.
ValueExact(d, idx) == decompress_pairs(d, idx) = d.values[idx + 1]
=============================================================================
