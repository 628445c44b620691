-------------------------- MODULE WizardMovePicker --------------------------
(***************************************************************************)
(* The staged move picker (wizard/movepick.cpp): one array filled first    *)
(* with captures and then with quiet moves, and three passes over it by    *)
(* moving pointers.  The moves, their scores and the verdicts of see_ge    *)
(* are abstract; a position's captures and quiets are those of             *)
(* WizardMoveGen, and the table's move is one of them or does not count.   *)
(*                                                                         *)
(* A pointer is the index in moves of the element it points to.            *)
(***************************************************************************)
EXTENDS Integers, SequencesExt

CONSTANTS
    Captures, Quiets,         \* the moves generated, as sequences
    CaptureScores,            \* the scores a capture may have
    QuietScores,              \* the scores a quiet move may have
    Depths,                   \* the depths of a search; 0: quiescence
    NoMove

VARIABLES
    node,      \* what the picker is made for: see Nodes
    mp,        \* the MovePicker: its array, pointers, stage and skipQuiets
    emitted    \* every move next_move has returned, NoMove at the end

pickerVars == <<node, mp, emitted>>

AllMoves == ToSet(Captures) \cup ToSet(Quiets)
goodQuietThreshold == -14000
IsCapture(m) == m \in ToSet(Captures)

\* The stages in the order the code falls through them.
Stages(kind) ==
    CASE kind = "main" -> <<"MAIN_TT", "CAPTURE_INIT", "GOOD_CAPTURE", "QUIET_INIT",
                            "GOOD_QUIET", "BAD_CAPTURE", "BAD_QUIET">>
      [] kind = "evasion" -> <<"EVASION_TT", "EVASION_INIT", "EVASION">>
      [] kind = "probcut" -> <<"PROBCUT_TT", "PROBCUT_INIT", "PROBCUT">>
      [] kind = "qsearch" -> <<"QSEARCH_TT", "QCAPTURE_INIT", "QCAPTURE">>
StageOf(p) == Stages(node.kind)[p.stage]
Advance(p) == [p EXCEPT !.stage = @ + 1]

\* The constructors: which stages, and whether the table's move comes first.
\* (pseudo_legal accepts exactly what the generators list.)
TtCounts(kind, tt) == tt # NoMove /\ (kind = "probcut" => IsCapture(tt))

Nodes == [kind : {"main", "evasion", "probcut", "qsearch"}, tt : AllMoves \cup {NoMove},
          depth : Depths, good : SUBSET ToSet(Captures),
          score : {f \in [AllMoves -> CaptureScores \cup QuietScores] :
                     \A m \in AllMoves : f[m] \in IF IsCapture(m) THEN CaptureScores ELSE QuietScores}]

MovePicker(n) ==
    [moves |-> <<>>, cur |-> 1, endCur |-> 1, endBadCaptures |-> 1, endCaptures |-> 1,
     endGenerated |-> 1, stage |-> IF TtCounts(n.kind, n.tt) THEN 1 ELSE 2, skipQuiets |-> FALSE]

PickerInit == \E n \in Nodes :
    /\ n.kind # "main" => n.depth = Min(Depths)
    /\ node = n /\ mp = MovePicker(n) /\ emitted = <<>>

----------------------------------------------------------------------------
Better(score, a, b) == score[a] < score[b]

\* partial_insertion_sort: each score from limit on is inserted into the sorted
\* front, which grows by one over the element that stood there.
SortStep(front, p, score, s) ==
    LET m == s[p]
        opened == [s EXCEPT ![p] = s[front + 1]]
        at == 1 + Cardinality({i \in 1 .. front : ~Better(score, s[i], m)})
    IN  [i \in DOMAIN s |-> CASE i < at \/ i > front + 1 -> opened[i]
                              [] i = at -> m
                              [] OTHER -> s[i - 1]]

partial_insertion_sort(s, score, limit) ==
    LET f[p \in 1 .. Len(s)] ==
          IF p = 1 THEN [front |-> 1, s |-> s]
          ELSE LET q == f[p - 1]
               IN  IF score[s[p]] >= limit
                   THEN [front |-> q.front + 1, s |-> SortStep(q.front, p, score, q.s)]
                   ELSE q
    IN  IF s = <<>> THEN s ELSE f[Len(s)].s

Lowest == -1000000

\* select: the first element between cur and endCur that is not the table's
\* move and passes; cur is left behind it, or at the end.
Found(p, passing) ==
    Min({i \in p.cur .. p.endCur - 1 : p.moves[i] \in passing \ {node.tt}} \cup {p.endCur})

select(p, passing) ==
    LET i == Found(p, passing)
    IN  IF i = p.endCur THEN [Advance(p) EXCEPT !.cur = i]
        ELSE [p EXCEPT !.cur = i + 1, !.out = p.moves[i]]

\* Mutant: a bad capture stays where it stands, and is forgotten.
set_aside_not(p, i) == p
\* What the filter of GOOD_CAPTURE does to a capture see_ge rejects.
set_aside(p, i) ==
    [p EXCEPT !.moves = [@ EXCEPT ![p.endBadCaptures] = p.moves[i], ![i] = p.moves[p.endBadCaptures]],
              !.endBadCaptures = @ + 1]

GoodCaptures == node.good
GoodQuiets == {m \in AllMoves : node.score[m] > goodQuietThreshold}
BadQuiets == AllMoves \ GoodQuiets

\* The array from cur on becomes the list, scored and sorted.
generate(p, list, limit) ==
    LET kept == SubSeq(p.moves, 1, p.cur - 1)
    IN  [p EXCEPT !.moves = kept \o partial_insertion_sort(list, node.score, limit),
                  !.endCur = p.cur + Len(list)]

----------------------------------------------------------------------------
(* The cases of next_move's switch.  Each either sets out, the move that   *)
(* is returned, or advances to the next, and the call runs through them.   *)

TtMove(p) == [Advance(p) EXCEPT !.out = node.tt]

CaptureInit(p) ==
    LET q == generate(p, Captures, Lowest)
    IN  Advance([q EXCEPT !.endBadCaptures = p.cur, !.endCaptures = q.endCur])

EvasionInit(p) ==
    LET q == generate(p, Captures \o Quiets, Lowest)
    IN  Advance([q EXCEPT !.endGenerated = q.endCur])

GoodCapture(p) ==
    LET stop == Found(p, GoodCaptures)
        f[i \in p.cur - 1 .. stop - 1] ==
            IF i < p.cur THEN p
            ELSE IF f[i - 1].moves[i] = node.tt THEN f[i - 1] ELSE set_aside(f[i - 1], i)
    IN  select([f[stop - 1] EXCEPT !.cur = stop], GoodCaptures)

QuietInit(p) ==
    LET q == generate(p, Quiets, -3560 * node.depth)
    IN  IF p.skipQuiets THEN Advance(p) ELSE Advance([q EXCEPT !.endGenerated = q.endCur])

\* Both quiet passes start from where the quiets begin, and the captures' from
\* the front.
GoodQuiet(p) ==
    LET q == IF p.skipQuiets THEN Advance(p) ELSE select(p, GoodQuiets)
    IN  IF q.out # "pending" THEN q ELSE [q EXCEPT !.cur = 1, !.endCur = p.endBadCaptures]

BadCapture(p) ==
    LET q == select(p, AllMoves)
    IN  IF q.out # "pending" THEN q
        ELSE [q EXCEPT !.cur = p.endCaptures, !.endCur = p.endGenerated]

OrNone(p) == IF p.out = "pending" THEN [p EXCEPT !.out = NoMove, !.stage = Len(Stages(node.kind))] ELSE p
BadQuiet(p) == OrNone(IF p.skipQuiets THEN p ELSE select(p, BadQuiets))

Case(p) ==
    LET s == StageOf(p)
    IN  CASE s \in {"MAIN_TT", "EVASION_TT", "PROBCUT_TT", "QSEARCH_TT"} -> TtMove(p)
          [] s \in {"CAPTURE_INIT", "PROBCUT_INIT", "QCAPTURE_INIT"} -> CaptureInit(p)
          [] s = "GOOD_CAPTURE" -> GoodCapture(p)
          [] s = "QUIET_INIT" -> QuietInit(p)
          [] s = "GOOD_QUIET" -> GoodQuiet(p)
          [] s = "BAD_CAPTURE" -> BadCapture(p)
          [] s = "BAD_QUIET" -> BadQuiet(p)
          [] s = "EVASION_INIT" -> EvasionInit(p)
          [] s \in {"EVASION", "QCAPTURE"} -> OrNone(select(p, AllMoves))
          [] s = "PROBCUT" -> OrNone(select(p, GoodCaptures))

\* Runs through the cases until one returns: at most the seven of a search.
Call(p) ==
    LET f[n \in 0 .. 7] == IF n = 0 THEN [x \in DOMAIN p \cup {"out"} |-> IF x = "out" THEN "pending" ELSE p[x]]
                           ELSE IF f[n - 1].out # "pending" THEN f[n - 1] ELSE Case(f[n - 1])
    IN  f[7]

Returned == emitted # <<>> /\ Last(emitted) = NoMove

next_move ==
    LET called == Call(mp)
    IN  /\ ~Returned
        /\ emitted' = Append(emitted, called.out)
        /\ mp' = Restrict(called, DOMAIN mp)
        /\ UNCHANGED node

\* Step 14 of search(): enough moves have been tried.
skip_quiet_moves ==
    /\ ~Returned /\ ~mp.skipQuiets
    /\ node.kind \in {"main", "evasion"} /\ emitted # <<>>
    /\ mp' = [mp EXCEPT !.skipQuiets = TRUE]
    /\ UNCHANGED <<node, emitted>>

\* The node has been searched.
Searched == Returned /\ UNCHANGED pickerVars

PickerNext == next_move \/ skip_quiet_moves \/ Searched

----------------------------------------------------------------------------
\* What the picker takes for granted: the generators list no move twice and none both as a
\* capture and as a quiet one, and scores are numbers, those of captures above INT_MIN.
Generated ==
  /\ Captures \in Seq(AllMoves) /\ IsInjective(Captures)
  /\ Quiets \in Seq(AllMoves) /\ IsInjective(Quiets)
  /\ ToSet(Captures) \cap ToSet(Quiets) = {}
  /\ NoMove \notin AllMoves /\ "pending" \notin AllMoves \cup {NoMove}
  /\ CaptureScores \subseteq {x \in Int : x >= Lowest} /\ QuietScores \subseteq Int
  /\ Depths \subseteq Int

\* Every move is returned once: never twice, the table's first and never again,
\* and at the end none is missing, neither a capture set aside when see_ge
\* rejected it nor a quiet move left out of the partial sort; but quiets may be
\* skipped, and probcut takes only what passes see_ge.
PicksEachOnce ==
    LET tried == {emitted[i] : i \in DOMAIN emitted} \ {NoMove}
        first == IF TtCounts(node.kind, node.tt) THEN {node.tt} ELSE {}
        due == first \cup (CASE node.kind = "probcut" -> node.good
                             [] node.kind = "qsearch" -> ToSet(Captures)
                             [] node.kind = "main" /\ mp.skipQuiets -> ToSet(Captures)
                             [] OTHER -> AllMoves)
    IN  /\ IsInjective(emitted)
        /\ emitted # <<>> /\ first # {} => emitted[1] = node.tt
        /\ Returned => due \subseteq tried
        /\ tried \subseteq due \cup ToSet(Quiets)
        /\ node.kind \in {"probcut", "qsearch"} => tried \subseteq due

\* The moves come in the order of their class, whatever the pointers overwrite:
\* good captures before everything else, best first, then good quiets, and the bad
\* captures and bad quiets last (movepick.cpp: next_move, partial_insertion_sort).
PicksBestFirst ==
    LET rest == IF TtCounts(node.kind, node.tt) THEN SubSeq(emitted, 2, Len(emitted)) ELSE emitted
        Class(m) == IF m \in GoodCaptures THEN 1 ELSE IF IsCapture(m) THEN 3 ELSE IF m \in GoodQuiets THEN 2 ELSE 4
        sorted == {m \in AllMoves : IsCapture(m) \/ node.score[m] >= -3560 * node.depth}
    IN  node.kind = "main" => \A i, j \in DOMAIN rest : i < j /\ rest[j] # NoMove =>
          /\ Class(rest[i]) <= Class(rest[j])
          /\ Class(rest[i]) = Class(rest[j]) /\ {rest[i], rest[j]} \subseteq sorted
               => node.score[rest[i]] >= node.score[rest[j]]
=============================================================================
