---------------------------- MODULE WizardWalk ----------------------------
(***************************************************************************)
(* The walk of the wizard's search over positions (wizard/search.cpp):     *)
(* from a position set() has read it makes legal moves, passes where null  *)
(* move pruning may, and takes each of them back in turn.  The properties  *)
(* compare what Position keeps with a direct look at the board and with    *)
(* the rules of chess.                                                     *)
(***************************************************************************)
EXTENDS WizardAccumulators

CONSTANT StartPositions  \* records of a FEN: board, side, castling, ep, rule50,
                         \* chess960; and of the bounds on its search, see scope

VARIABLES
    line,       \* the moves made and not yet taken back; NullMove for a pass
    scope       \* bounds: the length of the line, the squares a move may have at
                \* each ply (<<>>: any), and the evaluations left

vars == <<board, sideToMove, chain, setup, line, scope, accumulatorVars>>
Rules == INSTANCE ChessRules

\* Move::null(), b1 to b1.
NullMove == Move(1, 1)

Init == /\ \E f \in StartPositions :
             set(f) /\ scope = [plies |-> f.plies, script |-> f.script, evaluations |-> f.evaluations]
        /\ line = <<>>
        /\ reset

InScope(m) == /\ Len(line) < scope.plies
              /\ scope.script # <<>> => <<m.from, m.to>> \in scope.script[Len(line) + 1]

\* Worker::do_move.
Make(m) ==
    /\ InScope(m)
    /\ do_move(m, gives_check(m))
    /\ push(m)
    /\ line' = Append(line, m)
    /\ UNCHANGED <<scope, refreshTable>>

\* Worker::undo_move.
Unmake ==
    /\ line # <<>> /\ Last(line) # NullMove
    /\ undo_move(Last(line))
    /\ pop
    /\ line' = Front(line)
    /\ UNCHANGED <<scope, refreshTable>>

\* Step 9 of search(): not in check, with a piece left, and never twice in a row.
Pass ==
    /\ InScope(NullMove)
    /\ st.checkersBB = {} /\ st.nonPawnMaterial[us] > 0
    /\ line # <<>> => Last(line) # NullMove
    /\ do_null_move
    /\ line' = Append(line, NullMove)
    /\ UNCHANGED <<scope, accumulatorVars>>

Unpass ==
    /\ line # <<>> /\ Last(line) = NullMove
    /\ undo_null_move
    /\ line' = Front(line)
    /\ UNCHANGED <<scope, accumulatorVars>>

\* The search asks for a static evaluation when it is not in check, or never
\* comes to it.
Evaluate ==
    /\ scope.evaluations > 0 /\ st.checkersBB = {}
    /\ evaluate
    /\ scope' = [scope EXCEPT !.evaluations = @ - 1]
    /\ UNCHANGED <<board, sideToMove, chain, setup, line>>

Next == (\E m \in LegalMoves : Make(m)) \/ Unmake \/ Pass \/ Unpass \/ Evaluate
Spec == Init /\ [][Next]_vars

----------------------------------------------------------------------------
(* What the rules say. *)

\* The position as the rules see it; castling apart, for Chess960 differs.
Seen == [board |-> board, side |-> sideToMove, rights |-> {}, crossed |-> st.epSquare]
AsPlayed(m) == [from |-> m.from, to |-> m.to,
                promotion |-> IF m.type = PROMOTION THEN m.promotion ELSE ""]

Span(s, t) == {q \in Square : (s <= q /\ q <= t) \/ (t <= q /\ q <= s)}

\* Chess960's rule of castling, of which standard chess is a case: the squares
\* king and rook cross or reach hold no other piece, the king neither stands
\* on, crosses nor reaches an attacked square, and is safe once both have moved.
MayCastle(cr) ==
    LET k == Rules!King(board, us)
        r == setup.rook[cr]
        crossed == Span(k, king_to(cr))
        b == do_castling(board, cr)
    IN  /\ (crossed \cup Span(r, rook_to(cr))) \cap DOMAIN board \subseteq {k, r}
        /\ \A s \in crossed : Rules!AttackersOf(remove_piece(board, k), them, s) = {}
        /\ ~Rules!InCheck(b, us)

LegalCastlings == {MakeMove(CASTLING, Rules!King(board, us), setup.rook[cr], KNIGHT) :
    cr \in {r \in st.castlingRights : r[1] = us /\ MayCastle(r)}}

\* Every threat on the board.
ThreatsOn(b) ==
    UNION {{Threat(b[s], b[t], s, t) : t \in {q \in DOMAIN b : Rules!Attacks(b, s, q)}} : s \in DOMAIN b}

Net(report, threat) ==
    FoldLeft(+, 0, [i \in DOMAIN report |->
        IF threat \in report[i].threats THEN report[i].sign ELSE 0])

\* The exchange on one square, played on boards that really lose the pieces: what
\* side c wins there, prize standing on it, if it may stop at will, captures with
\* its least valuable piece, leaves pinned pieces at home while a pinner does,
\* and never puts its king where it would be taken.
RECURSIVE Winnings(_, _, _, _)
Winnings(b, c, to, prize) ==
    LET held == IF pinners(board)[Opposite(c)] \cap DOMAIN b # {} THEN blockersForKing(board)[c] ELSE {}
        attackers == Rules!AttackersOf(b, c, to) \ held
        pt == LeastType(attackers)
        left == remove_piece(b, Min({s \in attackers : b[s][2] = pt}))
    IN  IF attackers = {} \/ (pt = KING /\ Rules!AttackersOf(b, Opposite(c), to) # {})
        THEN 0
        ELSE Max({0, prize - Winnings(left, Opposite(c), to, MaterialValue[pt])})

----------------------------------------------------------------------------
(* Properties. *)

\* The en passant square of a position the last move led to: the square a double
\* push has crossed, if some legal move takes there.
EpSquareByRules ==
    LET m == Last(line)
        crossed == (m.from + m.to) \div 2
        doublePush == Gap(m.from, m.to) = 16 /\ piece_on(m.to) = make_piece(them, PAWN)
        captured == \E x \in Rules!Legal([Seen EXCEPT !.crossed = crossed]) :
            x.to = crossed /\ board[x.from][2] = PAWN /\ file_of(x.from) # file_of(crossed)
    IN  IF doublePush /\ captured THEN crossed ELSE SQ_NONE

\* Everything do_move keeps up to date term by term is what set_state would
\* compute: six keys, the material, the checkers (which rest on gives_check),
\* pins and pinners; and the en passant square is set exactly when it can be
\* used.  No table entry, history or tablebase of another position is ever
\* consulted, and equal positions have equal keys, so that a repetition is seen.
WizardCachesExact ==
    LET fresh == set_state(board, sideToMove, st.castlingRights, st.epSquare, st.rule50)
        kept == {"rule50", "pliesFromNull", "capturedPiece", "repetition"}
    IN  /\ \A f \in DOMAIN st \ kept : st[f] = fresh[f]
        /\ st.checkersBB = Rules!AttackersOf(board, them, Rules!King(board, us))
        /\ line # <<>> => st.epSquare = EpSquareByRules

\* generate<LEGAL> lists the legal moves of chess, castling by the rules of
\* Chess960, whatever it skips calling legal() for; CAPTURES and QUIETS share
\* the moves out between them; and a move of another position that passes
\* pseudo_legal and legal, in check or not, is one of them.
MovesListed ==
    LET wanderings == {m \in LegalMoves : m.type # CASTLING}
        remembered == {Move(from, to) : from \in pieces(board), to \in Square}
        captures == generate_all(CAPTURES)
        quiets == generate_all(QUIETS)
    IN  /\ {AsPlayed(m) : m \in wanderings} = Rules!Legal(Seen)
        /\ LegalMoves \ wanderings = LegalCastlings
        /\ {m \in remembered : pseudo_legal(m) /\ legal(m)} = {m \in LegalMoves : m.type = NORMAL}
        /\ st.checkersBB = {} =>
             /\ captures \cap quiets = {}
             /\ captures \cup quiets = Generated
             /\ {m \in captures : ~capture_stage(m)} = {}

\* "This function accurately matches the outcome of is_draw() over all legal
\* moves" (position.cpp): a repetition is upcoming exactly when some legal move
\* leads to a position that is_repetition calls one.
UpcomingExact == \A root \in 0 .. Len(line) :
    LET ply == Len(line) - root
        rep(m) == IF capture(m) \/ board[m.from][2] = PAWN THEN 0
                  ELSE repetition_info(key_moved(m), st.rule50 + 1, st.pliesFromNull + 1)
    IN  upcoming_repetition(ply)
          <=> \E m \in LegalMoves : rep(m) # 0 /\ rep(m) < ply + 1

\* The moves of a position, and the repetitions among them (movegen.cpp: generate;
\* position.cpp: pseudo_legal, legal, upcoming_repetition).
WizardMovesExact == MovesListed /\ UpcomingExact

\* What a move reports to the network is what it changes: the pieces, and the
\* threats each as often as it appeared less as often as it vanished.
WizardReportsExact == \A m \in LegalMoves :
    LET b == BoardAfter(m)
        Occupants(x) == {<<x[s], s>> : s \in DOMAIN x}
        dp == DirtyPiece(m)
        report == DirtyThreats(m)
        named == UNION {r.threats : r \in ToSet(report)}
        before == ThreatsOn(board)
        after == ThreatsOn(b)
        Change(t) == (IF t \in after THEN 1 ELSE 0) - (IF t \in before THEN 1 ELSE 0)
        removed == ToSet(Removed(dp))
    IN  /\ Occupants(b) = (Occupants(board) \ removed) \cup ToSet(Added(dp))
        /\ removed \subseteq Occupants(board)
        /\ \A t \in named \cup after \cup before : Net(report, t) = Change(t)

\* What see_ge answers with its one loop and its early exits is whether the
\* exchange, played out, reaches the threshold, for a sample of thresholds
\* (the code's depend on scores and histories).
WizardSeeExact == \A m \in {n \in LegalMoves : n.type = NORMAL}, threshold \in {-208, 0, 1, 300} :
    LET prize == IF m.to \in DOMAIN board THEN MaterialValue[board[m.to][2]] ELSE 0
        b == Restrict(board, DOMAIN board \ {m.from, m.to})
    IN  see_ge(m, threshold)
          <=> prize - Winnings(b, them, m.to, MaterialValue[board[m.from][2]]) >= threshold

\* An evaluation never sees the sums of another position: whatever of the line
\* has been evaluated, passed over or taken back, what is marked computed for the
\* current position holds the features of its board and no other, each once, and
\* a refresh entry holds those of the board it names.
AccumulatorsExact ==
    LET Once(features) == [f \in features |-> 1]
        Pieces(c, b, ksq) == Once({psq_index(c, b[s], s, ksq) : s \in DOMAIN b})
        Threats(c) == Once({threat_index(c, t, square(board, c)) :
                              t \in {x \in ThreatsOn(board) : counted(c, x, square(board, c))}})
        Current(slot, c) == IF slot[2] = "psq" THEN Pieces(c, board, square(board, c)) ELSE Threats(c)
    IN  /\ \A slot \in Slot, c \in Color : computed(stack, Len(stack), slot, c) =>
             SumAt(stack, Len(stack), slot, c) = Current(slot, c)
        /\ \A key \in DOMAIN refreshTable :
             refreshTable[key].sum = Pieces(key[3], refreshTable[key].pieces, key[2])
=============================================================================
