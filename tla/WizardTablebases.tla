------------------------- MODULE WizardTablebases --------------------------
(***************************************************************************)
(* Probing the endgame tablebases and ranking the moves at the root        *)
(* (wizard/syzygy/tbprobe.cpp: search, probe_wdl, probe_dtz, root_probe,   *)
(* root_probe_wdl, rank_root_moves).                                       *)
(*                                                                         *)
(* The positions of one table, a "layer", are numbers: White is to move in *)
(* the odd ones.  A quiet move leads to a position of the layer, a capture *)
(* or pawn move leaves it for one whose value the tables below give; that  *)
(* value, seen by the mover, is the move's wdl.  Values are those of       *)
(* WDLScore, -2 .. 2; distances are plies to the next capture, pawn move   *)
(* or mate, by the convention of probe_dtz, and Fifty is its 100.          *)
(***************************************************************************)
EXTENDS Integers, FiniteSets, FiniteSetsExt, SequencesExt

CONSTANTS
    Layers,     \* a layer: the moves of each position, and which positions are mate
    Counts,     \* the halfmove clocks a game may start from
    Fifty       \* bound for the 100 plies of the fifty-move rule

VARIABLES
    layer,      \* with the true distances, see Distances
    table,      \* what the files hold: see Tables
    game        \* the position, its clock, and the positions since the last zeroing move

tbVars == <<layer, table, game>>

Quiet(q) == [kind |-> "quiet", to |-> q, wdl |-> 0]
Zeroing(kind, wdl) == [kind |-> kind, to |-> 0, wdl |-> wdl]
IsQuiet(m) == m.kind = "quiet"
SideOf(p) == p % 2

Abs(d) == IF d < 0 THEN -d ELSE d
sign_of(d) == IF d > 0 THEN 1 ELSE IF d < 0 THEN -1 ELSE 0

\* Mutant: cursed wins and blessed losses count like the others.
dtz_before_zeroing_plain(wdl) == sign_of(wdl)
dtz_before_zeroing(wdl) == CASE wdl = 2 -> 1 [] wdl = 1 -> Fifty + 1 [] wdl = 0 -> 0
                             [] wdl = -1 -> -Fifty - 1 [] wdl = -2 -> -1

----------------------------------------------------------------------------
(* What the generator computes: the reference.                             *)

\* A quicker win before a slower one, and then a slower loss before a quicker.
Desire(d) == IF d > 0 THEN 1000 - d ELSE IF d < 0 THEN -1000 - d ELSE 0
Best(ds) == CHOOSE d \in ds : \A e \in ds : Desire(d) >= Desire(e)

Prolonged(d) == d + sign_of(d)
Distance(l, d, m) == IF ~IsQuiet(m) THEN sign_of(m.wdl) * (IF Abs(m.wdl) = 1 THEN Fifty + 1 ELSE Abs(sign_of(m.wdl)))
                     ELSE IF m.to \in l.mated THEN 1 ELSE Prolonged(-d[m.to])

Distances(l) ==
    LET Position == DOMAIN l.moves
        d[n \in 0 .. 2 * Cardinality(Position) + Fifty] ==
          [p \in Position |->
             IF p \in l.mated THEN -1
             ELSE IF n = 0 \/ l.moves[p] = {} THEN 0
             ELSE Best({Distance(l, d[n - 1], m) : m \in l.moves[p]})]
    IN  d[2 * Cardinality(Position) + Fifty]

Wdl(d) == sign_of(d) * (IF Abs(d) > Fifty THEN 1 ELSE 2)
True(p) == Wdl(layer.dtz[p])

\* A WDL table may hold anything lower where a capture reaches the value; a DTZ
\* table is for one side to move, and counts moves unless a position is on the
\* edge of the fifty-move rule.
Tables == [side : {0, 1}, plies : BOOLEAN, lowest : BOOLEAN, missing : {"none", "dtz", "both"}]
EdgesExact(l, t) == (\E p \in DOMAIN l.dtz : Abs(l.dtz[p]) = Fifty) => t.plies

Captures(p) == {m \in layer.moves[p] : m.kind = "capture"}
WdlTable(p) == IF table.lowest /\ \E m \in Captures(p) : m.wdl = True(p) THEN -2 ELSE True(p)
DtzTable(p) ==
    LET n == Abs(layer.dtz[p])
    IN  IF Abs(True(p)) = 1 THEN (n - Fifty - 1) \div 2 ELSE IF table.plies THEN n - 1 ELSE (n - 1) \div 2

----------------------------------------------------------------------------
(* The code *)

map_score(value, wdl) == 1 + (IF Abs(wdl) = 1 \/ ~table.plies THEN 2 * value ELSE value)

\* search<CheckZeroingMoves>: captures, and pawn moves if asked, before the table.
search(p, checkZeroing) ==
    LET tried == {m \in layer.moves[p] : m.kind = "capture" \/ (checkZeroing /\ m.kind = "pawn")}
        best == Max({m.wdl : m \in tried} \cup {-2})
        noMoreMoves == tried # {} /\ tried = layer.moves[p]
        value == IF noMoreMoves THEN best ELSE WdlTable(p)
    IN  IF best = 2 THEN [wdl |-> 2, result |-> "zeroing best"]
        ELSE IF ~noMoreMoves /\ table.missing = "both" THEN [wdl |-> 0, result |-> "fail"]
        ELSE IF best >= value
        THEN [wdl |-> best, result |-> IF best > 0 \/ noMoreMoves THEN "zeroing best" ELSE "ok"]
        ELSE [wdl |-> value, result |-> "ok"]

probe_wdl(p) == search(p, FALSE)

None == 65535
Fails == [dtz |-> 0, result |-> "fail"]
Gives(dtz) == [dtz |-> dtz, result |-> "ok"]

\* What probe_dtz does where the table's side is to move, or no table is needed.
DtzOf(p, found) ==
    LET far == IF Abs(found.wdl) = 1 THEN Fifty ELSE 0
    IN  CASE found.result = "fail" -> Fails
          [] found.result # "fail" /\ found.wdl = 0 -> Gives(0)
          [] found.result = "zeroing best" /\ found.wdl # 0 -> Gives(dtz_before_zeroing(found.wdl))
          [] OTHER -> IF table.missing # "none" THEN Fails
                      ELSE IF SideOf(p) = table.side
                      THEN Gives((map_score(DtzTable(p), found.wdl) + far) * sign_of(found.wdl))
                      ELSE [dtz |-> found.wdl, result |-> "change stm"]
ProbeHere(p) == DtzOf(p, search(p, TRUE))

\* One ply further, and the least distance of the right sign.
DtzThrough(here, after) ==
    LET mates(m) == IsQuiet(m) /\ m.to \in layer.mated /\ after[m].dtz = -1
        through(m) == IF IsQuiet(m) THEN Prolonged(-after[m].dtz) ELSE -after[m].dtz
        right == {through(m) : m \in {x \in DOMAIN after : sign_of(through(x)) = sign_of(here.dtz)}}
        minDTZ == Min(right \cup {None} \cup {1 : m \in {x \in DOMAIN after : mates(x)}})
    IN  IF here.result # "change stm" THEN here
        ELSE IF \E m \in DOMAIN after : after[m].result = "fail" THEN Fails
        ELSE Gives(IF minDTZ = None THEN -1 ELSE minDTZ)
probe_dtz(p) == DtzThrough(ProbeHere(p),
    [m \in layer.moves[p] |-> IF IsQuiet(m) THEN ProbeHere(m.to) ELSE Gives(-dtz_before_zeroing(m.wdl))])

MAX_DTZ == 2^18
VALUE_TB_WIN == 31753
PawnValue == 208

\* pos.is_draw(1) and is_repetition(1): the third time, or the clock.
drawn(m) ==
    /\ IsQuiet(m)
    /\ \/ Cardinality({i \in DOMAIN game.line : game.line[i] = m.to}) >= 2
       \/ game.count + 1 >= Fifty /\ m.to \notin layer.mated
has_repeated == ~IsInjective(game.line)

AfterQuiet(m, probed) == IF probed.result = "fail" THEN Fails
                         ELSE Gives(IF m.to \in layer.mated THEN 1 ELSE Prolonged(-probed.dtz))
root_dtz == [m \in layer.moves[game.at] |->
    CASE ~IsQuiet(m) -> Gives(dtz_before_zeroing(m.wdl))
      [] IsQuiet(m) /\ drawn(m) -> Gives(0)
      [] IsQuiet(m) /\ ~drawn(m) -> AfterQuiet(m, probe_dtz(m.to))]

\* Certain wins rank equally; other wins, and losses, by their distance.
dtz_rank(dtz) ==
    IF dtz > 0 THEN IF dtz + game.count <= Fifty - 1 /\ ~has_repeated THEN MAX_DTZ
                    ELSE MAX_DTZ \div 2 - (dtz + game.count)
    ELSE IF dtz < 0 THEN IF -dtz * 2 + game.count < Fifty THEN -MAX_DTZ
                         ELSE -(MAX_DTZ \div 2) + (-dtz + game.count)
    ELSE 0

\* The score shown with a rank: half a pawn at most unless the win is certain.
dtz_score(r) ==
    LET bound == MAX_DTZ \div 2 - Fifty
        shown(x) == sign_of(x) * ((Abs(x) * PawnValue) \div (2 * Fifty))
    IN  CASE r >= bound -> VALUE_TB_WIN
          [] r > 0 /\ r < bound -> shown(Max({3, r - (MAX_DTZ \div 2 - 2 * Fifty)}))
          [] r = 0 -> 0
          [] r < 0 /\ r > -bound -> shown(Min({-3, r + (MAX_DTZ \div 2 - 2 * Fifty)}))
          [] r <= -bound -> -VALUE_TB_WIN

root_probe(dtz) == [m \in DOMAIN dtz |-> dtz_rank(dtz[m].dtz)]
root_probe_fails(dtz) == \E m \in DOMAIN dtz : dtz[m].result = "fail"

wdl_of(m) == IF IsQuiet(m) THEN IF drawn(m) THEN 0 ELSE -probe_wdl(m.to).wdl ELSE m.wdl
root_probe_wdl == [m \in layer.moves[game.at] |->
    CASE wdl_of(m) = -2 -> -MAX_DTZ [] wdl_of(m) = -1 -> -MAX_DTZ + Fifty + 1 [] wdl_of(m) = 0 -> 0
      [] wdl_of(m) = 1 -> MAX_DTZ - Fifty - 1 [] wdl_of(m) = 2 -> MAX_DTZ]
root_probe_wdl_fails ==
    \E m \in layer.moves[game.at] : IsQuiet(m) /\ ~drawn(m) /\ probe_wdl(m.to).result = "fail"

\* rank_root_moves: the distances, or else the values, or else every move alike.
rank_root_moves(dtz) ==
    IF ~root_probe_fails(dtz) THEN root_probe(dtz)
    ELSE IF ~root_probe_wdl_fails THEN root_probe_wdl
    ELSE [m \in layer.moves[game.at] |-> 0]

Highest(rank) == {m \in DOMAIN rank : \A o \in DOMAIN rank : rank[m] >= rank[o]}
Top == Highest(rank_root_moves(root_dtz))

----------------------------------------------------------------------------
(* A game: the engine is White and plays a move of the highest rank, since *)
(* the search looks at no others; Black plays anything.                    *)

TbInit ==
    /\ \E l \in Layers : layer = l @@ [dtz |-> Distances(l)]
    /\ table \in {t \in Tables : EdgesExact(layer, t)}
    /\ \E c \in Counts : game = [at |-> 1, count |-> c, line |-> <<1>>]

Over == game.at # 0 => (layer.moves[game.at] = {} \/ game.count >= Fifty)

\* After a zeroing move another table is used.
Play(m) ==
    game' = IF IsQuiet(m) THEN [at |-> m.to, count |-> game.count + 1, line |-> Append(game.line, m.to)]
            ELSE [at |-> 0, count |-> 0, line |-> <<>>]
EngineMove == /\ ~Over /\ SideOf(game.at) = 1
              /\ \E m \in Top : Play(m)
              /\ UNCHANGED <<layer, table>>
OpponentMove == /\ ~Over /\ SideOf(game.at) = 0
                /\ \E m \in layer.moves[game.at] : Play(m)
                /\ UNCHANGED <<layer, table>>
GameOver == Over /\ UNCHANGED tbVars
TbNext == EngineMove \/ OpponentMove \/ GameOver

----------------------------------------------------------------------------
\* Probing a position gives its value although the tables hold anything where a
\* capture decides, and its distance to within the ply a table in moves leaves
\* out (the comment of probe_dtz), whichever side the DTZ table is for.
WdlTrue(p, probed) == probed.result # "fail" => probed.wdl = True(p)
DtzTrue(d, probed) == probed.result # "fail" => Wdl(probed.dtz) = Wdl(d) /\ Abs(d) - Abs(probed.dtz) \in {0, 1}
ProbesTrue == game.at # 0 =>
    \A p \in DOMAIN layer.moves : WdlTrue(p, probe_wdl(p)) /\ DtzTrue(layer.dtz[p], probe_dtz(p))

\* A win or draw is not thrown away at the root.  If the engine sees a move that
\* wins within the fifty moves, each move it may play does win in time; with DTZ
\* tables it never plays into a loss when it can draw, nor a draw when it can win
\* but for that rule; without them it keeps the value; and a better rank is never
\* shown with a lower score.
KeepsTheWin(dtz, top) ==
    LET InTime(m) == Distance(layer, layer.dtz, m) \in 1 .. Fifty - game.count
        Value(m) == IF drawn(m) THEN 0 ELSE Wdl(Distance(layer, layer.dtz, m))
        BestValue == Max({Value(m) : m \in layer.moves[game.at]})
        Seen == {m \in DOMAIN dtz : dtz[m].dtz \in 1 .. Fifty - 1 - game.count}
        rank == root_probe(dtz)
    IN  /\ ~root_probe_fails(dtz) => /\ Seen # {} => \A m \in top : InTime(m)
                                     /\ \A m \in top : sign_of(Value(m)) = sign_of(BestValue)
                                     /\ \A m, o \in DOMAIN rank :
                                          rank[m] >= rank[o] => dtz_score(rank[m]) >= dtz_score(rank[o])
        /\ root_probe_fails(dtz) /\ ~root_probe_wdl_fails =>
             \A m \in top : wdl_of(m) = Max({wdl_of(o) : o \in layer.moves[game.at]})
RootKeepsTheWin == ~Over /\ SideOf(game.at) = 1 => KeepsTheWin(root_dtz, Top)
=============================================================================
