------------------------- MODULE TranspositionTable -------------------------
(***************************************************************************)
(* One cluster of the transposition table (tt.cpp) under one worker's      *)
(* recursive search (search.cpp, Thread::search).  A node probes for its   *)
(* position, keeps the returned entry pointer while it searches its        *)
(* subtree, in which other nodes probe and save, and saves through that    *)
(* pointer at its end, unless it returns early.                            *)
(*                                                                         *)
(* A position is its key16; only those that fall into this cluster are     *)
(* followed.  Of an entry's value, eval and move we keep the position they *)
(* were computed for.                                                      *)
(***************************************************************************)
EXTENDS Integers, Sequences

CONSTANTS
  Keys,            \* the positions, by key16
  Depths,          \* the depths a node is searched to
  ClusterSize,     \* TTCluster::ClusterSize
  UnsignedRange,   \* UINT_MAX + 1
  MaxSearches,     \* bound: how many searches
  MaxNested        \* bound: how many nodes of one line fall into this cluster

Word16 == 0..65535
Byte   == 0..255

ASSUME KeysAssumption == Keys \subseteq Word16
ASSUME DepthsAssumption == Depths \subseteq 1..245
ASSUME ClusterAssumption == ClusterSize \in Nat \ {0}
ASSUME UnsignedAssumption == UnsignedRange \in Nat /\ UnsignedRange > 512
ASSUME BoundsAssumption == MaxSearches \in Nat /\ MaxNested \in Nat

VARIABLES cluster,      \* TTCluster::entry
          generation8,
          line,         \* the nodes being searched, outermost first
          searches      \* how many searches were begun

tableVars == <<cluster, generation8, line, searches>>

Slots == 1..ClusterSize

BOUND_UPPER == 1
BOUND_LOWER == 2
BOUND_EXACT == 3

\* What a node may report: an exact score only from a PV node.
Scores == {s \in [pv : BOOLEAN, bound : {BOUND_UPPER, BOUND_LOWER, BOUND_EXACT}] :
             s.bound = BOUND_EXACT => s.pv}

NoPosition == -1

Entries == [key16 : Word16, depth8 : Byte, genBound8 : Byte,
            of : Keys \cup {NoPosition}, move : Keys \cup {NoPosition}]

\* clear: all bytes zero.
EmptyEntry == [key16 |-> 0, depth8 |-> 0, genBound8 |-> 0,
               of |-> NoPosition, move |-> NoPosition]

-----------------------------------------------------------------------------
(* TTEntry.                                                                *)

DepthOffsetOne  == 1        \* mutant: depth 1 is stored as 0

DEPTH_OFFSET     == -7
GENERATION_DELTA == 8
GENERATION_CYCLE == 255 + GENERATION_DELTA

Occupied(e) == e.depth8 # 0

PvBit(pv) == IF pv THEN 4 ELSE 0

\* genBound8 with another generation, the pv and bound bits kept.
Refreshed(e, gen) == [e EXCEPT !.genBound8 = gen + (e.genBound8 % 8)]

\* save: whether the rest of the entry is overwritten as well as the move.
OverwritesByDepth(e, k, s, d) ==   \* mutant: another position's depth counts
  s.bound = BOUND_EXACT \/ d - DEPTH_OFFSET + (IF s.pv THEN 2 ELSE 0) > e.depth8 - 4

Overwrites(e, k, s, d) ==
  \/ s.bound = BOUND_EXACT
  \/ k # e.key16
  \/ d - DEPTH_OFFSET + (IF s.pv THEN 2 ELSE 0) > e.depth8 - 4

\* save.  A node that reaches its save has a best move.
SavedKeyFirst(e, k, s, d, gen) ==   \* mutant: key16 stored before the test
  LET f == [e EXCEPT !.key16 = k, !.move = k]
  IN  IF Overwrites(f, k, s, d)
      THEN [key16 |-> k, depth8 |-> d - DEPTH_OFFSET,
            genBound8 |-> gen + PvBit(s.pv) + s.bound, of |-> k, move |-> k]
      ELSE f

Saved(e, k, s, d, gen) ==
  IF Overwrites(e, k, s, d)
  THEN [key16 |-> k, depth8 |-> d - DEPTH_OFFSET,
        genBound8 |-> gen + PvBit(s.pv) + s.bound, of |-> k, move |-> k]
  ELSE [e EXCEPT !.move = k]

-----------------------------------------------------------------------------
(* TranspositionTable.                                                     *)

\* (GENERATION_CYCLE + generation8 - genBound8) & GENERATION_MASK
RelativeAge(e) ==
  ((((GENERATION_CYCLE + generation8 - e.genBound8) % 256)) \div 8) * 8

\* The metric as the code computes it, in unsigned arithmetic.
Worth(e) == (e.depth8 - RelativeAge(e)) % UnsignedRange

IsHit(i, k) == cluster[i].key16 = k /\ Occupied(cluster[i])

\* probe's first loop stops at this slot.
StopsAt(i, k) == IsHit(i, k) \/ ~Occupied(cluster[i])

\* probe's second loop: the first slot of least worth.
IsVictim(i) == /\ \A j \in Slots : Worth(cluster[i]) <= Worth(cluster[j])
               /\ \A j \in 1..(i - 1) : Worth(cluster[i]) < Worth(cluster[j])

\* probe returns this slot.
Probes(i, k) ==
  \/ StopsAt(i, k) /\ \A j \in 1..(i - 1) : ~StopsAt(j, k)
  \/ (\A j \in Slots : ~StopsAt(j, k)) /\ IsVictim(i)

Generations == {8 * g : g \in 0..31}

Node == [key : Keys, slot : Slots]

TableTypeOK ==
  /\ cluster \in [Slots -> Entries]
  /\ generation8 \in Generations
  /\ line \in Seq(Node)
  /\ searches \in 0..MaxSearches

TableInit ==
  /\ cluster = [i \in Slots |-> EmptyEntry]
  /\ generation8 = 0
  /\ line = <<>>
  /\ searches = 0

\* think begins with new_search.
NewSearch ==
  /\ line = <<>>
  /\ searches < MaxSearches
  /\ searches' = searches + 1
  /\ generation8' = (generation8 + GENERATION_DELTA) % 256
  /\ UNCHANGED <<cluster, line>>

\* ucinewgame between searches: Search::clear.  The generation stays.
Clear ==
  /\ line = <<>>
  /\ cluster' = [i \in Slots |-> EmptyEntry]
  /\ UNCHANGED <<generation8, line, searches>>

\* A node probes: a hit has its generation refreshed.
Enter ==
  /\ searches > 0
  /\ Len(line) < MaxNested
  /\ \E k \in Keys, i \in Slots :
       /\ Probes(i, k)
       /\ cluster' = IF IsHit(i, k)
                     THEN [cluster EXCEPT ![i] = Refreshed(@, generation8)]
                     ELSE cluster
       /\ line' = Append(line, [key |-> k, slot |-> i])
  /\ UNCHANGED <<generation8, searches>>

Innermost == line[Len(line)]

Shorter == SubSeq(line, 1, Len(line) - 1)

\* The innermost node is cut off, pruned or stopped before its save.
Return ==
  /\ line # <<>>
  /\ line' = Shorter
  /\ UNCHANGED <<cluster, generation8, searches>>

\* The innermost node saves its result, a score of a depth.
SaveResult(s, d) ==
  /\ line # <<>>
  /\ cluster' = [cluster EXCEPT ![Innermost.slot] = Saved(@, Innermost.key, s, d, generation8)]
  /\ line' = Shorter
  /\ UNCHANGED <<generation8, searches>>

Save == \E s \in Scores, d \in Depths : SaveResult(s, d)

TableNext == NewSearch \/ Clear \/ Enter \/ Return \/ Save

TableSpec == TableInit /\ [][TableNext]_tableVars

-----------------------------------------------------------------------------
\* Slots fill from the front and are only emptied together: what probe relies
\* on when it gives up at the first empty slot, although nodes save through
\* pointers obtained before others filled the cluster.
EmptiesLast ==
  \A i, j \in Slots : i < j /\ Occupied(cluster[j]) => Occupied(cluster[i])

\* The value, eval and move of an entry were computed for the position its
\* key names, although saves keep parts of older entries.
OwnPosition ==
  \A i \in Slots : Occupied(cluster[i]) =>
    /\ cluster[i].of = cluster[i].key16
    /\ cluster[i].move = cluster[i].key16

\* The entry of position k that a result leaves: the result itself, or one of the same
\* position at least four plies deeper, which no exact score may be refused for.
Answers(e, k, s, d) ==
  /\ e.key16 = k /\ e.of = k
  /\ \/ e.depth8 = d - DEPTH_OFFSET /\ e.genBound8 = generation8 + PvBit(s.pv) + s.bound
     \/ e.depth8 >= d + 4 - DEPTH_OFFSET /\ s.bound # BOUND_EXACT

\* A result is never lost, whatever the subtree did to the slot since it was probed:
\* its slot has it, or a deeper one of the same position; the next probe does not give
\* up before that slot; and it returns that slot unless an earlier one already had an
\* entry with the same key.  (A position may fill two slots: a node below may probe it
\* while this slot holds another.  Then the first of them answers.)
FindsWhatItSaved ==
  [][\A k \in Keys, i \in Slots : line # <<>> /\ Innermost = [key |-> k, slot |-> i] =>
       \A s \in Scores, d \in Depths : SaveResult(s, d) =>
         /\ Answers(cluster'[i], k, s, d)
         /\ \A j \in 1..(i - 1) : Occupied(cluster'[j])
         /\ (\A j \in 1..(i - 1) : cluster[j].key16 # k) => Probes(i, k)']_tableVars

=============================================================================
