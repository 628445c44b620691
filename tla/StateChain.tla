----------------------------- MODULE StateChain -----------------------------
(***************************************************************************)
(* The rule counters of StateInfo (position.hpp) and what is read back     *)
(* from the chain of StateInfos that do_move links: repetitions and draws. *)
(* A chain is the sequence of StateInfos from the root position to the     *)
(* current one; chain[n - 1] is what chain[n].previous points to.          *)
(***************************************************************************)
EXTENDS Integers, Sequences, FiniteSetsExt

Lesser(i, j) == IF i < j THEN i ELSE j

\* How far back a position can recur: neither across an irreversible move nor
\* across a null move.
Window(s) == Lesser(s.rule50, s.pliesFromNull)

\* Mutant: an earlier repetition of the position found is not noticed.
RepetitionUnsigned(chain, s) ==
    LET n == Len(chain) + 1
        hits == {i \in 4 .. Window(s) : i % 2 = 0 /\ chain[n - i].key = s.key}
    IN  IF hits = {} THEN 0 ELSE Min(hits)

\* do_move's walk: from four plies back, two at a time.  The nearest equal key
\* gives the distance, negated when that position was itself a repetition.
\* key, rule50 and pliesFromNull are those of the state being linked.
Repetition(chain, s) ==
    LET n == Len(chain) + 1
        hits == {i \in 4 .. Window(s) : i % 2 = 0 /\ chain[n - i].key = s.key}
    IN  IF hits = {} THEN 0
        ELSE LET i == Min(hits)
             IN  IF chain[n - i].repetition # 0 THEN -i ELSE i

\* Mutant: an occurrence at the root itself counts as one inside the search.
is_draw_from_root(s, ply) == s.rule50 >= 100 \/ (s.repetition # 0 /\ s.repetition <= ply)

\* Drawn by the fifty-move rule, or repeated inside the search or twice before.
is_draw(s, ply) == s.rule50 >= 100 \/ (s.repetition # 0 /\ s.repetition < ply)
=============================================================================
