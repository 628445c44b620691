------------------------- MODULE WizardAccumulators -------------------------
(***************************************************************************)
(* The first layer of the wizard's networks                                *)
(* (wizard/nnue/nnue_accumulator.cpp, features/): for each ply of the line *)
(* being searched and each color's view, the sum of the weights of the     *)
(* features present, computed when an evaluation first asks for it from    *)
(* the nearest ply that has it and the reports of the moves between.       *)
(*                                                                         *)
(* A sum of weights is modelled by how often each feature is in it, so two *)
(* are equal exactly when they hold the same features.                     *)
(***************************************************************************)
EXTENDS WizardThreats

VARIABLES
    stack,          \* AccumulatorStack: the states of the plies from the root
    refreshTable    \* per network, king square and view: a board and its sum

accumulatorVars == <<stack, refreshTable>>

\* The big network looks at pieces and threats, the small one only at pieces.
Network == {"big", "small"}
Slot == {<<"big", "psq">>, <<"big", "threats">>, <<"small", "psq">>}

----------------------------------------------------------------------------
(* Features. *)

MirrorFile(s) == 8 * rank_of(s) + 7 - file_of(s)
IsLeft(s) == file_of(s) < 4
Relation(c, pc) == IF pc[1] = c THEN "own" ELSE "other"

\* HalfKAv2_hm::make_index: the board is turned so that the own king stands on
\* the right.  Both kings share one block of features.
psq_index(c, piece, s, ksq) ==
    LET Turned(q) == relative_square(c, IF IsLeft(ksq) THEN MirrorFile(q) ELSE q)
    IN  <<IF piece[2] = KING THEN "any" ELSE Relation(c, piece), piece[2], Turned(s), Turned(ksq)>>

\* FullThreats::map: the pairs of kinds whose threats count at all.
MappedVictims == [pt \in PieceType |->
    CASE pt = PAWN -> {PAWN, KNIGHT, ROOK}
      [] pt \in {KNIGHT, QUEEN} -> PieceType
      [] pt \in {BISHOP, ROOK} -> PieceType \ {QUEEN}
      [] pt = KING -> PieceType \ {QUEEN, KING}]

\* FullThreats::make_index: here the own king's half is the left one.  A mutual
\* threat counts once, from the higher square.
threat_index(c, threat, ksq) ==
    LET Turned(q) == relative_square(c, IF IsLeft(ksq) THEN q ELSE MirrorFile(q))
    IN  <<Relation(c, threat[1]), threat[1][2], Relation(c, threat[2]), threat[2][2],
          Turned(threat[3]), Turned(threat[4])>>

counted(c, threat, ksq) ==
    LET attacker == threat[1]
        attacked == threat[2]
        index == threat_index(c, threat, ksq)
        mutual == attacker[2] = attacked[2] /\ (attacker[1] # attacked[1] \/ attacker[2] # PAWN)
    IN  attacked[2] \in MappedVictims[attacker[2]] /\ ~(mutual /\ index[5] < index[6])

----------------------------------------------------------------------------
(* Sums. *)

Listed(S) == FoldSet(LAMBDA x, seq : Append(seq, x), <<>>, S)

Apply(sum, added, removed) ==
    LET Count(seq, f) == Cardinality({i \in DOMAIN seq : seq[i] = f})
        features == DOMAIN sum \cup ToSet(added) \cup ToSet(removed)
        changed == [f \in features |->
            (IF f \in DOMAIN sum THEN sum[f] ELSE 0) + Count(added, f) - Count(removed, f)]
    IN  Restrict(changed, {f \in features : changed[f] # 0})

\* An Accumulator is <<sum>> once computed, <<>> before.
NotComputed == <<>>
Sum(a) == a[1]

IndexesOf(c, ksq, occupants) == [i \in DOMAIN occupants |-> psq_index(c, occupants[i][1], occupants[i][2], ksq)]

\* HalfKAv2_hm::append_changed_indices.
psq_changes(c, ksq, dp) == [added |-> IndexesOf(c, ksq, Added(dp)), removed |-> IndexesOf(c, ksq, Removed(dp))]

\* The entries of a DirtyThreats one by one.
Entries(dts) == FlattenSeq([i \in DOMAIN dts.list |->
    LET threats == Listed(dts.list[i].threats)
    IN  [j \in DOMAIN threats |-> [add |-> dts.list[i].sign = 1, threat |-> threats[j]]]])

\* FusedUpdateData for two moves taken together: the square the second captures
\* on, and what the first has added from and to it so far.
Fused(dp2removed) == [square |-> dp2removed, origin |-> {}, target |-> {}]
NotFused == Fused(SQ_NONE)

\* A threat that the first move adds and the second must remove is passed over
\* both times.
pass_over(fused, e, first) ==
    LET from == e.threat[3]
        to == e.threat[4]
        Noted(known, s) == IF e.add /\ first THEN known \cup {s} ELSE known
        Skipped(known, s) == IF e.add THEN first ELSE s \in known
    IN  CASE fused.square = SQ_NONE -> [skip |-> FALSE, data |-> fused]
          [] fused.square # SQ_NONE /\ from = fused.square ->
               [skip |-> Skipped(fused.origin, to), data |-> [fused EXCEPT !.origin = Noted(@, to)]]
          [] fused.square # SQ_NONE /\ to = fused.square ->
               [skip |-> Skipped(fused.target, from), data |-> [fused EXCEPT !.target = Noted(@, from)]]
          [] OTHER -> [skip |-> FALSE, data |-> fused]

\* FullThreats::append_changed_indices.
append_changed_indices(c, ksq, dts, start, first) ==
    LET step(x, e) ==
          LET p == pass_over(x.fused, e, first)
              index == <<threat_index(c, e.threat, ksq)>>
          IN  IF p.skip \/ ~counted(c, e.threat, ksq) THEN [x EXCEPT !.fused = p.data]
              ELSE IF e.add THEN [x EXCEPT !.fused = p.data, !.added = @ \o index]
              ELSE [x EXCEPT !.fused = p.data, !.removed = @ \o index]
    IN  FoldLeft(step, start, Entries(dts))

NoChanges(fused) == [added |-> <<>>, removed |-> <<>>, fused |-> fused]

Changes(slot, c, ksq, state) ==
    IF slot[2] = "psq" THEN psq_changes(c, ksq, state.dirtyPiece)
    ELSE append_changed_indices(c, ksq, state.dirtyThreats, NoChanges(NotFused), FALSE)

----------------------------------------------------------------------------
(* The stack. *)

FreshState(dp, dts) ==
    [dirtyPiece |-> dp, dirtyThreats |-> dts,
     accumulator |-> [slot \in Slot |-> [c \in Color |-> NotComputed]]]

NoDirtyPiece == [pc |-> NO_PIECE, from |-> SQ_NONE, to |-> SQ_NONE, remove_pc |-> NO_PIECE,
                 remove_sq |-> SQ_NONE, add_pc |-> NO_PIECE, add_sq |-> SQ_NONE]
NoDirtyThreats == [list |-> <<>>, us |-> WHITE, prevKsq |-> SQ_NONE, ksq |-> SQ_NONE]

\* reset(), and the refresh table as clear() leaves it: empty boards.
reset == stack = <<FreshState(NoDirtyPiece, NoDirtyThreats)>> /\ refreshTable = <<>>

\* push() with the reports do_move(m) writes.
push(m) ==
    stack' = Append(stack, FreshState(DirtyPiece(m),
        [list |-> DirtyThreats(m), us |-> us, prevKsq |-> square(board, us),
         ksq |-> square(BoardAfter(m), us)]))
pop == stack' = Front(stack)

\* Mutant: a king that crosses to the other half leaves the threats as they are.
requires_refresh_king(slot, state, c) == slot[2] = "psq" /\ state.dirtyPiece.pc = make_piece(c, KING)

requires_refresh(slot, state, c) ==
    IF slot[2] = "psq" THEN state.dirtyPiece.pc = make_piece(c, KING)
    ELSE c = state.dirtyThreats.us /\ IsLeft(state.dirtyThreats.ksq) # IsLeft(state.dirtyThreats.prevKsq)

computed(states, i, slot, c) == states[i].accumulator[slot][c] # NotComputed
SumAt(states, i, slot, c) == Sum(states[i].accumulator[slot][c])
Compute(states, i, slot, c, sum) == [states EXCEPT ![i].accumulator[slot][c] = <<sum>>]
Update(states, i, from, slot, c, ch) ==
    Compute(states, i, slot, c, Apply(SumAt(states, from, slot, c), ch.added, ch.removed))
TakenBack(ch) == [added |-> ch.removed, removed |-> ch.added]

\* The nearest state that is computed or that a refresh must lead to, else the root.
find_last_usable_accumulator(states, slot, c) ==
    Max({1} \cup {i \in 2 .. Len(states) : computed(states, i, slot, c) \/ requires_refresh(slot, states[i], c)})

\* May the moves to next and next + 1 be taken together, and with what changes?
fusible(states, next, slot) ==
    LET dp1 == states[next].dirtyPiece
        dp2 == states[next + 1].dirtyPiece
        threatening == {e.threat[3] : e \in {x \in ToSet(Entries(states[next].dirtyThreats)) : x.add}}
    IN  /\ next < Len(states) /\ dp2.remove_sq # SQ_NONE
        /\ dp2.remove_sq \in IF slot[2] = "psq" THEN {dp1.to} ELSE threatening

double_changes(states, next, slot, c, ksq) ==
    LET one == states[next]
        two == states[next + 1]
        captureSq == two.dirtyPiece.remove_sq
        psq1 == psq_changes(c, ksq, [one.dirtyPiece EXCEPT !.to = SQ_NONE])
        psq2 == psq_changes(c, ksq, [two.dirtyPiece EXCEPT !.remove_sq = SQ_NONE])
        Start == NoChanges(Fused(captureSq))
    IN  IF slot[2] = "psq" THEN [added |-> psq1.added \o psq2.added, removed |-> psq1.removed \o psq2.removed]
        ELSE append_changed_indices(c, ksq, two.dirtyThreats,
                append_changed_indices(c, ksq, one.dirtyThreats, Start, TRUE), FALSE)

\* From next - 1 on, which is computed, to the top; a state passed over by a
\* double update stays as it is.
RECURSIVE forward_update_incremental(_, _, _, _, _)
forward_update_incremental(states, next, slot, c, ksq) ==
    LET double == fusible(states, next, slot)
        to == IF double THEN next + 1 ELSE next
    IN  IF next > Len(states) THEN states
        ELSE forward_update_incremental(
                Update(states, to, next - 1, slot, c,
                       IF double THEN double_changes(states, next, slot, c, ksq)
                       ELSE Changes(slot, c, ksq, states[next])),
                to + 1, slot, c, ksq)

\* From the top, just computed, down to state end: each move taken back.
RECURSIVE backward_update_incremental(_, _, _, _, _, _)
backward_update_incremental(states, next, end, slot, c, ksq) ==
    IF next < end THEN states
    ELSE backward_update_incremental(
            Update(states, next, next + 1, slot, c, TakenBack(Changes(slot, c, ksq, states[next + 1]))),
            next - 1, end, slot, c, ksq)

----------------------------------------------------------------------------
(* Refreshing, and evaluate(). *)

CacheEntry(table, key) == IF key \in DOMAIN table THEN table[key] ELSE [pieces |-> <<>>, sum |-> <<>>]
OccupantsOn(b, squares) == Listed({<<b[s], s>> : s \in squares})

\* The squares whose pieces leave the cached sum, and those that join it.
removed_squares(entry) == {s \in DOMAIN entry.pieces : entry.pieces[s] # piece_on(s)}
added_squares(entry) == {s \in DOMAIN board : s \notin DOMAIN entry.pieces \/ entry.pieces[s] # board[s]}

\* update_accumulator_refresh_cache: the sum last made for this king square,
\* less and plus the pieces that differ, becomes the entry's and the state's.
refreshed_entry(table, key, c) ==
    LET entry == CacheEntry(table, key)
        ksq == square(board, c)
    IN  [pieces |-> board,
         sum |-> Apply(entry.sum, IndexesOf(c, ksq, OccupantsOn(board, added_squares(entry))),
                       IndexesOf(c, ksq, OccupantsOn(entry.pieces, removed_squares(entry))))]

\* append_active_indices: every threat that counts on the board.
active_threats(c) ==
    LET ksq == square(board, c)
        threats == UNION {{Threat(board[s], board[t], s, t) : t \in AttacksOf(board[s], s, board)} : s \in DOMAIN board}
    IN  Listed({threat_index(c, t, ksq) : t \in {x \in threats : counted(c, x, ksq)}})

evaluate_side(x, slot, c) ==
    LET top == Len(x.states)
        ksq == square(board, c)
        last == find_last_usable_accumulator(x.states, slot, c)
        key == <<slot[1], ksq, c>>
        entry == refreshed_entry(x.table, key, c)
        sum == IF slot[2] = "psq" THEN entry.sum ELSE Apply(<<>>, active_threats(c), <<>>)
    IN  IF computed(x.states, last, slot, c)
        THEN [x EXCEPT !.states = forward_update_incremental(@, last + 1, slot, c, ksq)]
        ELSE [states |-> backward_update_incremental(Compute(x.states, top, slot, c, sum), top - 1, last, slot, c, ksq),
              table |-> IF slot[2] = "psq" THEN (key :> entry) @@ x.table ELSE x.table]

evaluate_network(x, net) ==
    LET slots == IF net = "big" THEN <<<<net, "psq">>, <<net, "threats">>>> ELSE <<<<net, "psq">>>>
    IN  FoldLeft(LAMBDA y, c : FoldLeft(LAMBDA z, slot : evaluate_side(z, slot, c), y, slots), x, <<WHITE, BLACK>>)

\* evaluate.cpp: a lopsided position is first given to the small network, and
\* to the big one as well when that finds it close.
simple_eval(c) ==
    LET Side(d) == MaterialValue[PAWN] * count(board, make_piece(d, PAWN)) + st.nonPawnMaterial[d]
    IN  Side(c) - Side(Opposite(c))
use_smallnet == simple_eval(us) > 962 \/ -simple_eval(us) > 962

evaluate ==
    \E nets \in IF use_smallnet THEN {<<"small">>, <<"small", "big">>} ELSE {<<"big">>} :
    \E y \in {FoldLeft(evaluate_network, [states |-> stack, table |-> refreshTable], nets)} :
        stack' = y.states /\ refreshTable' = y.table
=============================================================================
