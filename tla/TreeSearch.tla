----------------------------- MODULE TreeSearch -----------------------------
(***************************************************************************)
(* The tree search of the engine (search.cpp: qsearch, search,             *)
(* iterative_deepening, think): alpha-beta with its pruning, the           *)
(* transposition table the workers share, the aspiration windows, the      *)
(* abort of an iteration and the choice of the answer.                     *)
(*                                                                         *)
(* A game is a small graph of positions; the facts about a move that the   *)
(* search asks of the board (capture or promotion, exchange value, victim) *)
(* are fields of the move, and the moves of a position are listed in the   *)
(* order of mvv_lva, captures first.  Among quiet moves the order is that  *)
(* of the list: killers, counter move and history only permute them and    *)
(* are left out, and so is their small part in a reduction.  Captures do   *)
(* not lie on cycles; the fifty-move clock is left to GameHistory.  A      *)
(* position has its own slot of the table or shares one with others, the   *)
(* choice of the slot in a cluster being that of TranspositionTable.       *)
(***************************************************************************)
EXTENDS Integers, FiniteSets, SequencesExt

CONSTANTS
    Games,        \* the games a search may be asked about
    Workers,      \* the ids 0 .. n-1 of the threads
    MaxDepth,     \* Limits.depth
    MaxPly,       \* bound for MAX_PLY, 246
    VerifyDepth,  \* bound for the depth 10 from which a null move is verified
    AbortNodes    \* the nodes of an iteration at which a stop may be noticed

VARIABLES
    game,         \* root, moves, check, eval, nonPawn, null, slot
    searchmoves,  \* Limits.searchmoves: moves of the root, or none
    tt,           \* the table: one entry per slot
    threads,      \* per worker: the result of its iterations so far
    stop, answer

treeVars == <<game, searchmoves, tt, threads, stop, answer>>

VALUE_MATE == 32000
VALUE_INFINITE == 32001
VALUE_NONE == 32002
VALUE_MATE_IN_MAX_PLY == VALUE_MATE - 256
mate_in(ply) == VALUE_MATE - ply
mated_in(ply) == -VALUE_MATE + ply
Higher(a, b) == IF a > b THEN a ELSE b
Lower(a, b) == IF a < b THEN a ELSE b
Magnitude(v) == Higher(v, -v)
Mating(v) == v # VALUE_NONE /\ v >= VALUE_MATE_IN_MAX_PLY
Mated(v) == v <= -VALUE_MATE_IN_MAX_PLY

Move(to, capture, gain, see) == [to |-> to, capture |-> capture, gain |-> gain, see |-> see]
NoMove == Move(0, FALSE, 0, 0)
NoEntry == [key |-> 0, value |-> VALUE_NONE, bound |-> {}, depth |-> 0,
            move |-> NoMove, eval |-> VALUE_NONE]

\* A bound is the set of the directions it holds in.
UPPER == {"upper"}
LOWER == {"lower"}
EXACT == {"upper", "lower"}

-----------------------------------------------------------------------------
(* A thread in the tree: its table, the nodes of this iteration, and the     *)
(* place it is at: the position, the line since the last null move, the      *)
(* static evaluations of the plies above, and whether a null move led here.  *)

value_to_tt(v, ply) == IF Mating(v) THEN v + ply ELSE IF Mated(v) THEN v - ply ELSE v

value_from_tt(v, ply) == IF v = VALUE_NONE THEN v ELSE IF Mating(v) THEN v - ply
                         ELSE IF Mated(v) THEN v + ply ELSE v

Root == [pos |-> game.root, ply |-> 0, line |-> <<game.root>>, evals |-> <<>>, null |-> FALSE]
After(c, m, ev) == [pos |-> m.to, ply |-> c.ply + 1, line |-> Append(c.line, m.to),
                    evals |-> Append(c.evals, ev), null |-> FALSE]
AfterNull(c, ev) ==
    LET p == game.null[c.pos]
    IN [pos |-> p, ply |-> c.ply + 1, line |-> <<p>>, evals |-> Append(c.evals, ev), null |-> TRUE]

\* Position::is_draw: the position came up before in the line, after the root.
is_draw(c) == LET n == Len(c.line)
              IN \E i \in 1 .. n - 4 : (n - i) % 2 = 0 /\ n - i < c.ply /\ c.line[i] = c.pos

check_time(s) == [s EXCEPT !.nodes = @ + 1, !.stopped = @ \/ s.nodes + 1 = s.abort]

\* TTEntry::save, on the slot found by the probe.
save(s, p, v, pv, bound, depth, move, ev) ==
    LET old == s.tt[game.slot[p]]
        kept == IF move # NoMove \/ old.key # p THEN move ELSE old.move
        new == [key |-> p, value |-> v, bound |-> bound, depth |-> depth, move |-> kept, eval |-> ev]
        replaces == bound = EXACT \/ old.key # p \/ depth + (IF pv THEN 2 ELSE 0) > old.depth - 4
    IN [s EXCEPT !.tt[game.slot[p]] = IF replaces THEN new ELSE [old EXCEPT !.move = kept]]

Result(s, v, pv) == [s |-> s, v |-> v, pv |-> pv]

RECURSIVE qsearch(_, _, _, _)
qsearch(s0, c, alpha, beta) ==
    LET s == check_time(s0)
        inCheck == game.check[c.pos]
        eval == game.eval[c.pos]
        moves == game.moves[c.pos]
        standing == IF inCheck THEN -VALUE_INFINITE ELSE eval
        hopeless(at, m) == ~inCheck /\ (at.best + m.gain + 200 < at.alpha \/ m.see < -100)
        Try(at, m) ==
            IF at.done \/ hopeless(at, m) THEN at
            ELSE LET r == qsearch(at.s, After(c, m, VALUE_NONE), -beta, -at.alpha)
                     v == -r.v
                 IN IF r.s.stopped THEN [at EXCEPT !.s = r.s, !.best = 0, !.done = TRUE]
                    ELSE [s |-> r.s, best |-> Higher(at.best, v), alpha |-> Higher(at.alpha, v),
                          done |-> v >= beta]
        start == [s |-> s, best |-> standing, alpha |-> Higher(alpha, standing), done |-> FALSE]
        tried == IF inCheck THEN moves ELSE SelectSeq(moves, LAMBDA m : m.capture)
        end == FoldLeft(Try, start, tried)
    IN IF s.stopped \/ is_draw(c) THEN Result(s, 0, <<>>)
       ELSE IF c.ply >= MaxPly \/ standing >= beta THEN Result(s, eval, <<>>)
       ELSE IF inCheck /\ moves = <<>> THEN Result(s, mated_in(c.ply), <<>>)
       ELSE Result(end.s, end.best, <<>>)

-----------------------------------------------------------------------------
(* The main search.                                                          *)

\* The whole part of 0.75 + ln(depth) * ln(count) / 2.25, for depths up to 6
\* and counts up to 7.
Reduction(depth, count) ==
    IF depth < 2 \/ count < 2 \/ (depth = 2 /\ count = 2) THEN 0
    ELSE IF (depth = 5 /\ count >= 6) \/ (depth = 6 /\ count >= 5) THEN 2 ELSE 1

\* The order of the moves: the table's move, good captures, quiets, bad captures.
ordered(moves, ttMove) ==
    LET Pick(Class(_)) == SelectSeq(moves, LAMBDA m : m # ttMove /\ Class(m))
    IN SelectSeq(moves, LAMBDA m : m = ttMove) \o Pick(LAMBDA m : m.capture /\ m.see >= -50)
       \o Pick(LAMBDA m : ~m.capture) \o Pick(LAMBDA m : m.capture /\ m.see < -50)

\* Late move, futility and exchange pruning of a quiet move at a node n, after
\* best was found and alpha reached; count includes the move.
prunes(n, m, count, best, alpha) ==
    /\ n.c.ply > 0 /\ ~n.inCheck /\ ~m.capture /\ ~game.check[m.to] /\ ~Mated(best)
    /\ \/ /\ ~n.pv /\ n.depth <= 8
          /\ count >= (3 + n.depth * n.depth) \div (IF n.improving THEN 1 ELSE 2)
       \/ ~n.pv /\ n.depth <= 6 /\ n.static + 120 + 90 * n.depth <= alpha
       \/ n.depth <= 6 /\ m.see < -25 * n.depth * n.depth

\* Late moves are reduced.  The second alternative of the code, a capture that loses
\* material, never holds: see_ge is asked after do_move, finds the square the capture
\* came from empty and a piece worth nothing to lose there, and answers true.
reduces(n, m, count) == n.depth >= 3 /\ count > (IF n.c.ply = 0 THEN 2 ELSE 1) /\ ~m.capture
reduction(n, m, count, newDepth) ==
    LET One(b) == IF b THEN 1 ELSE 0
        r == Reduction(n.depth, count) + One(n.cut) + One(~n.pv) + One(~n.improving)
             + One(n.ttMove.capture) + One(n.id > 0 /\ ~m.capture /\ (count + n.id) % 4 = 0)
    IN Higher(0, Lower(r, newDepth - 1))

\* The window of a node after mate-distance pruning.
Window(c, alpha, beta) ==
    IF c.ply = 0 THEN <<alpha, beta>>
    ELSE <<Higher(mated_in(c.ply), alpha), Lower(mate_in(c.ply + 1), beta)>>

\* What a node knows before its moves: the table's entry, the evaluations.
Node(s, c, pv, depth, cut) ==
    LET e == s.tt[game.slot[c.pos]]
        hit == e.key = c.pos
        inCheck == game.check[c.pos]
        value == IF hit THEN value_from_tt(e.value, c.ply) ELSE VALUE_NONE
        static == IF inCheck THEN VALUE_NONE
                  ELSE IF hit /\ e.eval # VALUE_NONE THEN e.eval ELSE game.eval[c.pos]
        better == /\ ~inCheck /\ hit /\ e.eval # VALUE_NONE /\ value # VALUE_NONE
                  /\ (IF value > static THEN "lower" ELSE "upper") \in e.bound
    IN [c |-> c, id |-> s.id, pv |-> pv, depth |-> depth, cut |-> cut, inCheck |-> inCheck,
        entry |-> e, ttHit |-> hit, ttValue |-> value, ttMove |-> IF hit THEN e.move ELSE NoMove,
        static |-> static, eval |-> IF better THEN value ELSE static,
        improving |-> /\ ~inCheck /\ c.ply >= 2 /\ c.evals[c.ply - 1] # VALUE_NONE
                      /\ static > c.evals[c.ply - 1]]

\* The entry answers for the node.
tt_cuts(n, alpha, beta) ==
    /\ ~n.pv /\ n.ttHit /\ n.entry.depth >= n.depth /\ n.ttValue # VALUE_NONE
    /\ \/ n.entry.bound = EXACT
       \/ n.entry.bound = LOWER /\ n.ttValue >= beta
       \/ n.entry.bound = UPPER /\ n.ttValue <= alpha

may_prune(n, beta) == ~n.pv /\ ~n.inCheck /\ Magnitude(beta) < VALUE_MATE_IN_MAX_PLY
futile(n, beta) == /\ may_prune(n, beta) /\ n.depth <= 8 /\ n.eval < VALUE_MATE_IN_MAX_PLY
                   /\ n.eval - 80 * (n.depth - (IF n.improving THEN 1 ELSE 0)) >= beta
tries_null(n, beta) == /\ may_prune(n, beta) /\ n.depth >= 3 /\ n.eval >= beta
                       /\ game.nonPawn[n.c.pos] /\ ~n.c.null

RECURSIVE search(_, _, _, _, _, _)

\* The null move of node n: done when it answers for the node.
NullMove(s, n, alpha, beta) ==
    LET R == 3 + n.depth \div 3 + Lower((n.eval - beta) \div 200, 3)
        r == search(s, AfterNull(n.c, n.static), -beta, -beta + 1, n.depth - R, ~n.cut)
        value == IF Mating(-r.v) THEN beta ELSE -r.v
        verified == search(r.s, n.c, beta - 1, beta, n.depth - R, FALSE)
    IN IF r.s.stopped THEN [s |-> r.s, done |-> TRUE, v |-> 0]
       ELSE IF -r.v < beta THEN [s |-> r.s, done |-> FALSE, v |-> 0]
       ELSE IF n.depth < VerifyDepth THEN [s |-> r.s, done |-> TRUE, v |-> value]
       ELSE [s |-> verified.s, done |-> verified.v >= beta, v |-> value]

\* One move of node n, the count-th, searched by a thread s against (alpha, beta):
\* reduced, then in a null window, then in full, each when the one before says so.
SearchMove(s, n, m, count, alpha, beta) ==
    LET newDepth == n.depth - 1 + (IF game.check[m.to] THEN 1 ELSE 0)
        at == After(n.c, m, n.static)
        r == reduction(n, m, count, newDepth)
        none == Result(s, VALUE_INFINITE, <<>>)
        reduced == IF reduces(n, m, count) THEN search(s, at, -alpha - 1, -alpha, newDepth - r, TRUE)
                   ELSE none
        again == IF reduces(n, m, count) THEN -reduced.v > alpha /\ r > 0 ELSE ~n.pv \/ count > 1
        narrow == IF again THEN search(reduced.s, at, -alpha - 1, -alpha, newDepth, ~n.cut) ELSE reduced
    IN IF n.pv /\ (count = 1 \/ (-narrow.v > alpha /\ -narrow.v < beta))
       THEN search(narrow.s, at, -beta, -alpha, newDepth, FALSE) ELSE narrow

\* The moves of node n in turn: what the loop leaves behind.
SearchMoves(s, n, alpha, beta) ==
    LET allowed(m) == n.c.ply > 0 \/ searchmoves = {} \/ m \in searchmoves
        Try(at, m) ==
            IF at.done \/ ~allowed(m) THEN at
            ELSE IF prunes(n, m, at.count + 1, at.best, at.alpha) THEN [at EXCEPT !.count = @ + 1]
            ELSE LET r == SearchMove(at.s, n, m, at.count + 1, at.alpha, beta)
                     v == -r.v
                     counted == [at EXCEPT !.s = r.s, !.count = @ + 1]
                 IN IF r.s.stopped THEN [counted EXCEPT !.done = TRUE]
                    ELSE IF v <= at.best THEN counted
                    ELSE IF v <= at.alpha THEN [counted EXCEPT !.best = v, !.move = m]
                    ELSE [counted EXCEPT !.best = v, !.move = m, !.alpha = v, !.pv = <<m>> \o r.pv,
                                         !.bound = IF v >= beta THEN LOWER ELSE EXACT,
                                         !.done = v >= beta]
    IN FoldLeft(Try, [s |-> s, best |-> -VALUE_INFINITE, move |-> NoMove, alpha |-> alpha,
                      bound |-> UPPER, count |-> 0, pv |-> <<>>, done |-> FALSE],
                ordered(game.moves[n.c.pos], n.ttMove))

\* What the loop over the moves of node n comes to; without a move, mate or stalemate.
AfterMoves(loop, n) ==
    IF loop.s.stopped THEN Result(loop.s, 0, loop.pv)
    ELSE IF loop.count = 0 THEN Result(loop.s, IF n.inCheck THEN mated_in(n.c.ply) ELSE 0, <<>>)
    ELSE Result(save(loop.s, n.c.pos, value_to_tt(loop.best, n.c.ply), n.pv, loop.bound, n.depth,
                     loop.move, n.static), loop.best, loop.pv)
AfterNullMove(null, n, alpha, beta) ==
    IF null.done THEN Result(null.s, null.v, <<>>)
    ELSE AfterMoves(SearchMoves(null.s, n, alpha, beta), n)

\* Node n in its window: what may answer for it without its moves, then they.
Searched(s, n, alpha, beta) ==
    IF alpha >= beta THEN Result(s, alpha, <<>>)
    ELSE IF tt_cuts(n, alpha, beta) THEN Result(s, n.ttValue, <<>>)
    ELSE IF futile(n, beta) THEN Result(s, n.eval, <<>>)
    ELSE AfterNullMove(IF tries_null(n, beta) THEN NullMove(s, n, alpha, beta)
                       ELSE [s |-> s, done |-> FALSE, v |-> 0], n, alpha, beta)

search(s0, c, alpha0, beta0, depth, cut) ==
    LET s == check_time(s0)
        w == Window(c, alpha0, beta0)
    IN IF depth <= 0 THEN qsearch(s0, c, alpha0, beta0)
       ELSE IF s.stopped \/ (c.ply > 0 /\ is_draw(c)) THEN Result(s, 0, <<>>)
       ELSE IF c.ply > 0 /\ c.ply >= MaxPly THEN Result(s, game.eval[c.pos], <<>>)
       ELSE Searched(s, Node(s, c, beta0 - alpha0 > 1, depth, cut), w[1], w[2])

-----------------------------------------------------------------------------
(* Iterative deepening: one action per iteration of a worker.                *)

Halved(x) == IF x < 0 THEN -((-x) \div 2) ELSE x \div 2

\* One iteration: the window is widened until the score falls inside.
RECURSIVE Aspirate(_, _, _, _, _)
Aspirated(r, depth, alpha, beta, delta) ==
    LET wider == delta + delta \div 2 + 5
        low == r.v <= alpha
        to == IF wider > 2000 THEN <<-VALUE_INFINITE, VALUE_INFINITE>>
              ELSE IF low THEN <<Higher(r.v - delta, -VALUE_INFINITE), Halved(alpha + beta)>>
              ELSE <<alpha, Lower(r.v + delta, VALUE_INFINITE)>>
    IN IF r.s.stopped \/ (alpha < r.v /\ r.v < beta) THEN r
       ELSE Aspirate(r.s, depth, to[1], to[2], wider)
Aspirate(s, depth, alpha, beta, delta) ==
    Aspirated(search(s, Root, alpha, beta, depth, FALSE), depth, alpha, beta, delta)

\* What iteration depth of worker w ends with, a stop being noticed at node abort.
Iterated(w, depth, abort) ==
    LET s == [tt |-> tt, nodes |-> 0, stopped |-> FALSE, abort |-> abort, id |-> w]
        last == threads[w].bestValue
        narrow == depth >= 4 /\ Magnitude(last) < VALUE_MATE_IN_MAX_PLY
        delta == 18 + (w % 4) * 4
        window == IF narrow THEN <<Higher(last - delta, -VALUE_INFINITE), Lower(last + delta, VALUE_INFINITE), delta>>
                  ELSE <<-VALUE_INFINITE, VALUE_INFINITE, VALUE_INFINITE>>
    IN Aspirate(s, depth, window[1], window[2], window[3])

aborted(th, pv) == [th EXCEPT !.done = TRUE,
                              !.bestMove = IF @ = NoMove /\ pv # <<>> THEN pv[1] ELSE @]
completed(th, depth, v, pv, ends) ==
    LET best == IF pv # <<>> THEN pv[1] ELSE th.bestMove
    IN [th EXCEPT !.bestMove = best, !.bestValue = v, !.completedDepth = depth,
                  !.depth = depth + 1, !.done = ends,
                  !.ponderMove = IF Len(pv) >= 2 /\ pv[1] = best THEN pv[2] ELSE NoMove]

TreeInit ==
    /\ game \in Games
    /\ searchmoves \in {{}} \cup {{m} : m \in ToSet(game.moves[game.root])}
    /\ tt = [slot \in ToSet(game.slot) |-> NoEntry]
    /\ threads = [w \in Workers |-> [bestMove |-> NoMove, ponderMove |-> NoMove, bestValue |-> 0,
                                     completedDepth |-> 0, depth |-> 1 + (w % 2), done |-> FALSE]]
    /\ stop = FALSE /\ answer = <<>>

\* An iteration that a stop interrupts: raised by the main worker's own budget,
\* by the interface, or earlier.
AbortedIteration(w) ==
    /\ ~threads[w].done /\ threads[w].depth <= MaxDepth
    /\ \E r \in {Iterated(w, threads[w].depth, abort) : abort \in AbortNodes} :
          /\ r.s.stopped
          /\ threads' = [threads EXCEPT ![w] = aborted(@, r.pv)]
          /\ tt' = r.s.tt
    /\ stop' = TRUE
    /\ UNCHANGED <<game, searchmoves, answer>>

\* A complete one: a mate ends the worker, a stop a helper, the budget (over)
\* the main worker, which raises the stop.  No search of this module ponders.
CompleteIteration(w) ==
    /\ ~threads[w].done /\ threads[w].depth <= MaxDepth
    /\ \E r \in {Iterated(w, threads[w].depth, 0)}, over \in (IF w = 0 THEN BOOLEAN ELSE {stop}) :
          LET ends == over \/ Magnitude(r.v) >= VALUE_MATE_IN_MAX_PLY
          IN /\ threads' = [threads EXCEPT ![w] = completed(@, @.depth, r.v, r.pv, ends)]
             /\ tt' = r.s.tt
             /\ stop' = (stop \/ (w = 0 /\ ends))
    /\ UNCHANGED <<game, searchmoves, answer>>

RunsOut(w) ==
    /\ ~threads[w].done /\ threads[w].depth > MaxDepth
    /\ threads' = [threads EXCEPT ![w].done = TRUE]
    /\ stop' = (stop \/ w = 0)
    /\ UNCHANGED <<game, searchmoves, tt, answer>>

\* think: the deepest worker answers, the higher score among equals, the first
\* of those; no move at all is replaced by the first legal one.
Better(a, b) == \/ threads[a].completedDepth > threads[b].completedDepth
                \/ /\ threads[a].completedDepth = threads[b].completedDepth
                   /\ threads[a].bestValue > threads[b].bestValue
best_worker ==
    LET Pick(b, w) == IF threads[w].bestMove # NoMove /\ (threads[b].bestMove = NoMove \/ Better(w, b))
                      THEN w ELSE b
    IN FoldLeft(Pick, 0, [i \in 1 .. Cardinality(Workers) - 1 |-> i])

Answer ==
    /\ \A w \in Workers : threads[w].done
    /\ answer = <<>>
    /\ LET best == threads[best_worker]
           legal == game.moves[game.root]
           found == best.bestMove # NoMove
       IN answer' = <<[found |-> found, worker |-> best_worker,
                       move |-> IF found \/ legal = <<>> THEN best.bestMove ELSE legal[1],
                       ponder |-> IF found THEN best.ponderMove ELSE NoMove]>>
    /\ UNCHANGED <<game, searchmoves, tt, threads, stop>>

TreeNext == Answer \/ \E w \in Workers : AbortedIteration(w) \/ CompleteIteration(w) \/ RunsOut(w)
TreeSpec == TreeInit /\ [][TreeNext]_treeVars

-----------------------------------------------------------------------------
(* Properties.                                                               *)

\* The side to move mates, or is mated, within n plies whatever the other does.
RECURSIVE Mates(_, _), IsMated(_, _)
Mates(n, p) == n > 0 /\ \E i \in DOMAIN game.moves[p] : IsMated(n - 1, game.moves[p][i].to)
IsMated(n, p) == \/ game.moves[p] = <<>> /\ game.check[p]
                 \/ /\ n > 0 /\ game.moves[p] # <<>>
                    /\ \A i \in DOMAIN game.moves[p] : Mates(n - 1, game.moves[p][i].to)

\* What a score says of a position it was found from: v is at most, or at least, the truth.
ClaimTrue(v, bound, p) ==
    v # VALUE_NONE => /\ "lower" \in bound /\ Mating(v) => Mates(VALUE_MATE - v, p)
                      /\ "upper" \in bound /\ Mated(v) => IsMated(VALUE_MATE + v, p)

\* Every mate the table or a worker announces is real and no longer than
\* announced: pruning, null moves, reductions, the windows, the entries other
\* workers left and the shift of a mate score by the ply never invent one.  A
\* search restricted to some root moves says nothing of the other moves and is
\* excepted (search.cpp: search, value_to_tt, value_from_tt).
MatesReal ==
    searchmoves = {} =>
        /\ \A s \in DOMAIN tt : ClaimTrue(tt[s].value, tt[s].bound, tt[s].key)
        /\ \A w \in Workers : threads[w].completedDepth > 0 =>
               ClaimTrue(threads[w].bestValue, EXACT, game.root)

\* The answer is one: its move is legal and among those asked for unless no
\* worker found any, its ponder move is a reply to it, and a mate announced by
\* the worker that answers is still there after the move, however many
\* iterations were aborted in between (search.cpp:1007, 1166-1211).
AnswerConsistent ==
    answer # <<>> =>
        LET a == answer[1]
            score == threads[a.worker].bestValue
            legal == ToSet(game.moves[game.root])
        IN /\ legal # {} => a.move \in legal
           /\ a.found => a.move \in legal /\ (searchmoves # {} => a.move \in searchmoves)
           /\ a.ponder # NoMove => a.ponder \in ToSet(game.moves[a.move.to])
           /\ searchmoves = {} /\ Mating(score) => IsMated(VALUE_MATE - score - 1, a.move.to)

=============================================================================
