---------------------- MODULE TranspositionTableProofs ----------------------
(* Proofs about one cluster of the transposition table, for any positions, *)
(* depths, cluster size and nesting.                                       *)
EXTENDS TranspositionTable, TLAPS

\* An entry's relative age is the number of searches since it was stored or
\* last hit, times eight and modulo 32, whatever its pv and bound bits are.
THEOREM AgeIgnoresLowBits ==
  ASSUME NEW e \in Entries, NEW now \in 0..31, NEW g \in 0..31, NEW low \in 0..7,
         generation8 = 8 * now, e.genBound8 = 8 * g + low
  PROVE  RelativeAge(e) = 8 * ((now - g) % 32)
  BY DEF RelativeAge, Entries, Byte, GENERATION_CYCLE, GENERATION_DELTA

\* The pointers that nodes hold have only occupied slots before them.
LineInv ==
  \A n \in 1..Len(line) : \A j \in 1..(line[n].slot - 1) : Occupied(cluster[j])

TableInv == TableTypeOK /\ EmptiesLast /\ OwnPosition /\ LineInv

\* An entry made of fields of their types is one.
LEMMA EntryFields ==
  ASSUME NEW k \in Word16, NEW d \in Byte, NEW g \in Byte,
         NEW o \in Keys \cup {NoPosition}, NEW m \in Keys \cup {NoPosition}
  PROVE  [key16 |-> k, depth8 |-> d, genBound8 |-> g, of |-> o, move |-> m] \in Entries
  BY DEF Entries

\* A hit changes only the generation of its entry.
LEMMA RefreshedType ==
  ASSUME NEW e \in Entries, NEW gen \in Generations
  PROVE  /\ Refreshed(e, gen) \in Entries
         /\ Refreshed(e, gen).key16 = e.key16
         /\ Refreshed(e, gen).of = e.of
         /\ Refreshed(e, gen).move = e.move
         /\ Refreshed(e, gen).depth8 = e.depth8
<1>1. PICK g \in 0..31 : gen = 8 * g
  BY DEF Generations
<1>2. e.genBound8 \in Int
  BY DEF Entries, Byte
<1>3. e.genBound8 % 8 \in 0..7
  BY <1>2
<1> DEFINE gb == gen + (e.genBound8 % 8)
<1>4. gb \in Byte
  BY <1>1, <1>3 DEF Byte
<1> HIDE DEF gb
<1>5. Refreshed(e, gen) = [e EXCEPT !.genBound8 = gb]
  BY DEF Refreshed, gb
<1>6. Refreshed(e, gen) \in Entries
  <2>1. Refreshed(e, gen) = [key16 |-> e.key16, depth8 |-> e.depth8, genBound8 |-> gb,
                             of |-> e.of, move |-> e.move]
    BY <1>5 DEF Entries
  <2>2. /\ e.key16 \in Word16 /\ e.depth8 \in Byte
        /\ e.of \in Keys \cup {NoPosition} /\ e.move \in Keys \cup {NoPosition}
    BY DEF Entries
  <2> QED BY <1>4, <2>1, <2>2, EntryFields
<1>7. Refreshed(e, gen).key16 = e.key16 /\ Refreshed(e, gen).depth8 = e.depth8
  BY <1>5 DEF Entries
<1>8. Refreshed(e, gen).of = e.of /\ Refreshed(e, gen).move = e.move
  BY <1>5 DEF Entries
<1> QED BY <1>6, <1>7, <1>8

\* What TTEntry::save leaves is an entry of one position.
LEMMA SavedType ==
  ASSUME NEW e \in Entries, NEW k \in Keys, NEW s \in Scores, NEW d \in Depths,
         NEW gen \in Generations,
         Occupied(e) => e.of = e.key16 /\ e.move = e.key16
  PROVE  /\ Saved(e, k, s, d, gen) \in Entries
         /\ Occupied(Saved(e, k, s, d, gen))
         /\ Saved(e, k, s, d, gen).key16 = k
         /\ Saved(e, k, s, d, gen).of = k
         /\ Saved(e, k, s, d, gen).move = k
<1>1. k \in Word16 /\ d \in 1..245
  BY KeysAssumption, DepthsAssumption
<1>2. CASE Overwrites(e, k, s, d)
  <2> DEFINE gb == gen + PvBit(s.pv) + s.bound
             dp == d - DEPTH_OFFSET
  <2>1. gb \in Byte
    <3>1. PICK g \in 0..31 : gen = 8 * g
      BY DEF Generations
    <3>2. s.bound \in 1..3
      BY DEF Scores, BOUND_UPPER, BOUND_LOWER, BOUND_EXACT
    <3>3. PvBit(s.pv) \in 0..4
      BY DEF PvBit
    <3> QED BY <3>1, <3>2, <3>3 DEF Byte
  <2>2. dp \in 1..255
    BY <1>1 DEF DEPTH_OFFSET
  <2> HIDE DEF gb, dp
  <2>3. Saved(e, k, s, d, gen) =
          [key16 |-> k, depth8 |-> dp, genBound8 |-> gb, of |-> k, move |-> k]
    BY <1>2 DEF Saved, gb, dp
  <2>4. Saved(e, k, s, d, gen) \in Entries
    <3>1. dp \in Byte /\ k \in Keys \cup {NoPosition}
      BY <2>2 DEF Byte
    <3> QED BY <1>1, <2>1, <2>3, <3>1, EntryFields
  <2>5. Occupied(Saved(e, k, s, d, gen))
    BY <2>2, <2>3 DEF Occupied
  <2> QED BY <2>3, <2>4, <2>5
<1>3. CASE ~Overwrites(e, k, s, d)
  <2>1. e.key16 = k
    BY <1>3 DEF Overwrites
  <2>2. e.depth8 # 0
    BY <1>1, <1>3 DEF Overwrites, DEPTH_OFFSET, Entries, Byte
  <2>3. Saved(e, k, s, d, gen) = [e EXCEPT !.move = k]
    BY <1>3 DEF Saved
  <2>4. e.of = k
    BY <2>1, <2>2 DEF Occupied
  <2>5. Saved(e, k, s, d, gen) = [key16 |-> k, depth8 |-> e.depth8,
                                  genBound8 |-> e.genBound8, of |-> k, move |-> k]
    BY <2>1, <2>3, <2>4 DEF Entries
  <2>6. Saved(e, k, s, d, gen) \in Entries
    <3>1. /\ e.depth8 \in Byte /\ e.genBound8 \in Byte
          /\ k \in Keys \cup {NoPosition}
      BY DEF Entries
    <3> QED BY <1>1, <2>5, <3>1, EntryFields
  <2>7. Occupied(Saved(e, k, s, d, gen))
    BY <2>2, <2>5 DEF Occupied
  <2> QED BY <2>5, <2>6, <2>7
<1> QED BY <1>2, <1>3

\* The cleared table is within the invariant.
LEMMA InitTable == TableInit => TableInv
<1> SUFFICES ASSUME TableInit PROVE TableInv
  OBVIOUS
<1>1. EmptyEntry \in Entries /\ ~Occupied(EmptyEntry)
  BY DEF EmptyEntry, Entries, Occupied, Word16, Byte
<1>2. cluster \in [Slots -> Entries] /\ \A i \in Slots : ~Occupied(cluster[i])
  BY <1>1 DEF TableInit
<1>3. 0 \in Generations
  BY DEF Generations
<1>4. TableTypeOK
  BY <1>2, <1>3, BoundsAssumption DEF TableInit, TableTypeOK
<1> QED BY <1>2, <1>4 DEF TableInit, TableInv, EmptiesLast, OwnPosition, LineInv

\* Every probe and save keeps it.
LEMMA StepTable == TableInv /\ [TableNext]_tableVars => TableInv'
<1> SUFFICES ASSUME TableInv, [TableNext]_tableVars PROVE TableInv'
  OBVIOUS
<1> USE DEF TableInv
<1>1. CASE NewSearch
  <2>1. generation8' \in Generations
    <3>1. PICK g \in 0..31 : generation8 = 8 * g
      BY DEF TableTypeOK, Generations
    <3>2. generation8' = 8 * ((g + 1) % 32)
      BY <1>1, <3>1 DEF NewSearch, GENERATION_DELTA
    <3>3. (g + 1) % 32 \in 0..31
      OBVIOUS
    <3> QED BY <3>2, <3>3 DEF Generations
  <2>2. searches' \in 0..MaxSearches
    BY <1>1, BoundsAssumption DEF NewSearch, TableTypeOK
  <2> QED BY <1>1, <2>1, <2>2 DEF NewSearch, TableTypeOK, EmptiesLast, OwnPosition, LineInv
<1>2. CASE Clear
  <2>1. EmptyEntry \in Entries /\ ~Occupied(EmptyEntry)
    BY DEF EmptyEntry, Entries, Occupied, Word16, Byte
  <2>2. cluster' \in [Slots -> Entries] /\ \A i \in Slots : ~Occupied(cluster'[i])
    BY <1>2, <2>1 DEF Clear
  <2> QED BY <1>2, <2>2 DEF Clear, TableTypeOK, EmptiesLast, OwnPosition, LineInv
<1>3. CASE Enter
  <2>1. PICK k \in Keys, i \in Slots :
          /\ Probes(i, k)
          /\ cluster' = IF IsHit(i, k)
                        THEN [cluster EXCEPT ![i] = Refreshed(@, generation8)]
                        ELSE cluster
          /\ line' = Append(line, [key |-> k, slot |-> i])
    BY <1>3 DEF Enter
  <2>2. /\ cluster' \in [Slots -> Entries]
        /\ \A j \in Slots : /\ cluster'[j].key16 = cluster[j].key16
                            /\ cluster'[j].of = cluster[j].of
                            /\ cluster'[j].move = cluster[j].move
                            /\ Occupied(cluster'[j]) <=> Occupied(cluster[j])
    BY <2>1, RefreshedType DEF TableTypeOK, Occupied
  <2>3. line' \in Seq(Node)
    BY <2>1 DEF TableTypeOK, Node
  <2>4. \A j \in 1..(i - 1) : Occupied(cluster[j])
    <3>1. \A j \in 1..(i - 1) : j \in Slots
      BY ClusterAssumption DEF Slots
    <3>2. \A j \in 1..(i - 1) : ~StopsAt(j, k)
      BY <2>1, <3>1 DEF Probes
    <3> QED BY <3>2 DEF StopsAt
  <2>5. LineInv'
    <3> SUFFICES ASSUME NEW n \in 1..Len(line'), NEW j \in 1..(line'[n].slot - 1)
                 PROVE  Occupied(cluster'[j])
      BY DEF LineInv
    <3>1. line'[n].slot \in Slots /\ j \in Slots
      <4>0. line'[n] \in Node
        BY <2>3
      <4>1. line'[n].slot \in Slots
        BY <4>0 DEF Node
      <4> QED BY <4>1, ClusterAssumption DEF Slots
    <3>2. CASE n = Len(line) + 1
      BY <2>1, <2>2, <2>4, <3>1, <3>2 DEF TableTypeOK
    <3>3. CASE n # Len(line) + 1
      <4>1. n \in 1..Len(line) /\ line'[n] = line[n]
        BY <2>1, <3>3 DEF TableTypeOK
      <4> QED BY <2>2, <3>1, <4>1 DEF LineInv
    <3> QED BY <3>2, <3>3
  <2> QED BY <1>3, <2>2, <2>3, <2>5 DEF Enter, TableTypeOK, EmptiesLast, OwnPosition
<1>4. ASSUME Return \/ Save
      PROVE  /\ line' \in Seq(Node)
             /\ Len(line') = Len(line) - 1
             /\ \A n \in 1..Len(line') : line'[n] = line[n]
             /\ Innermost \in Node
  BY <1>4 DEF Return, Save, SaveResult, Shorter, Innermost, TableTypeOK
<1>5. CASE Return
  BY <1>4, <1>5 DEF Return, TableTypeOK, EmptiesLast, OwnPosition, LineInv
<1>6. CASE Save
  <2>1. PICK s \in Scores, d \in Depths :
          cluster' = [cluster EXCEPT ![Innermost.slot] = Saved(@, Innermost.key, s, d, generation8)]
    BY <1>6 DEF Save, SaveResult
  <2>2. Innermost.slot \in Slots /\ Innermost.key \in Keys
    BY <1>4, <1>6 DEF Node
  <2> DEFINE new == Saved(cluster[Innermost.slot], Innermost.key, s, d, generation8)
  <2>3. /\ new \in Entries /\ Occupied(new)
        /\ new.of = new.key16 /\ new.move = new.key16
    BY <2>2, SavedType DEF TableTypeOK, OwnPosition
  <2> HIDE DEF new
  <2>4. /\ cluster' \in [Slots -> Entries]
        /\ cluster'[Innermost.slot] = new
        /\ \A j \in Slots : j # Innermost.slot => cluster'[j] = cluster[j]
    BY <2>1, <2>2, <2>3 DEF TableTypeOK, new
  <2>5. \A j \in Slots : Occupied(cluster[j]) => Occupied(cluster'[j])
    BY <2>3, <2>4
  <2>6. \A j \in 1..(Innermost.slot - 1) : Occupied(cluster[j])
    BY <1>6 DEF LineInv, Innermost, Save, SaveResult, TableTypeOK
  <2>7. EmptiesLast'
    <3> SUFFICES ASSUME NEW i \in Slots, NEW j \in Slots, i < j, Occupied(cluster'[j])
                 PROVE  Occupied(cluster'[i])
      BY DEF EmptiesLast
    <3>1. CASE j = Innermost.slot
      BY <2>5, <2>6, <3>1 DEF Slots
    <3>2. CASE j # Innermost.slot
      BY <2>4, <2>5, <3>2 DEF EmptiesLast
    <3> QED BY <3>1, <3>2
  <2>8. OwnPosition'
    BY <2>3, <2>4 DEF OwnPosition
  <2>9. LineInv'
    <3> SUFFICES ASSUME NEW n \in 1..Len(line'), NEW j \in 1..(line'[n].slot - 1)
                 PROVE  Occupied(cluster'[j])
      BY DEF LineInv
    <3>1. n \in 1..Len(line) /\ line'[n] = line[n]
      BY <1>4, <1>6 DEF TableTypeOK
    <3>2. line[n].slot \in Slots /\ j \in Slots
      <4>0. line[n] \in Node
        BY <3>1 DEF TableTypeOK
      <4>1. line[n].slot \in Slots
        BY <4>0 DEF Node
      <4>2. j \in 1..(line[n].slot - 1)
        BY <3>1
      <4> QED BY <4>1, <4>2, ClusterAssumption DEF Slots
    <3> QED BY <2>5, <3>1, <3>2 DEF LineInv
  <2> QED BY <1>4, <1>6, <2>4, <2>7, <2>8, <2>9 DEF Save, SaveResult, TableTypeOK
<1>7. CASE UNCHANGED tableVars
  BY <1>7 DEF tableVars, TableTypeOK, EmptiesLast, OwnPosition, LineInv
<1> QED BY <1>1, <1>2, <1>3, <1>5, <1>6, <1>7 DEF TableNext

\* The inductive invariant holds in every state of every behaviour.
THEOREM TableInvIsInvariant == TableSpec => []TableInv
  BY InitTable, StepTable, PTL DEF TableSpec

\* Slots fill from the front, whatever nodes do through pointers they
\* obtained before others filled the cluster.
THEOREM EmptySlotsAreLast == TableSpec => []EmptiesLast
<1>1. TableInv => EmptiesLast
  BY DEF TableInv
<1> QED BY <1>1, TableInvIsInvariant, PTL

\* No entry answers for a position with another position's value or move.
THEOREM EntriesAreOfTheirPosition == TableSpec => []OwnPosition
<1>1. TableInv => OwnPosition
  BY DEF TableInv
<1> QED BY <1>1, TableInvIsInvariant, PTL

\* What TTEntry::save leaves answers for the position: with the result itself, or
\* with one at least four plies deeper.
LEMMA SavedAnswers ==
  ASSUME NEW e \in Entries, NEW k \in Keys, NEW s \in Scores, NEW d \in Depths,
         generation8 \in Generations,
         Occupied(e) => e.of = e.key16 /\ e.move = e.key16
  PROVE  Answers(Saved(e, k, s, d, generation8), k, s, d)
<1>1. /\ Saved(e, k, s, d, generation8).key16 = k
      /\ Saved(e, k, s, d, generation8).of = k
  BY SavedType
<1>2. CASE Overwrites(e, k, s, d)
  BY <1>1, <1>2 DEF Saved, Answers
<1>3. CASE ~Overwrites(e, k, s, d)
  <2>1. d \in 1..245 /\ e.depth8 \in Byte
    BY DepthsAssumption DEF Entries
  <2>2. e.depth8 >= d + 4 - DEPTH_OFFSET /\ s.bound # BOUND_EXACT
    BY <1>3, <2>1 DEF Overwrites, DEPTH_OFFSET, Byte
  <2>3. Saved(e, k, s, d, generation8).depth8 = e.depth8
    BY <1>3 DEF Saved, Entries
  <2> QED BY <1>1, <2>2, <2>3 DEF Answers
<1> QED BY <1>2, <1>3

\* No result is lost: the slot a node saves through has its result or a deeper one
\* of the same position, and the next probe for the position returns that slot, at
\* the latest, unless an earlier slot had the same key before.
THEOREM SavesAreFound == TableSpec => FindsWhatItSaved
<1>1. TableInv /\ [TableNext]_tableVars
        => [\A k \in Keys, i \in Slots : line # <<>> /\ Innermost = [key |-> k, slot |-> i] =>
              \A s \in Scores, d \in Depths : SaveResult(s, d) =>
                /\ Answers(cluster'[i], k, s, d)
                /\ \A j \in 1..(i - 1) : Occupied(cluster'[j])
                /\ (\A j \in 1..(i - 1) : cluster[j].key16 # k) => Probes(i, k)']_tableVars
  <2> SUFFICES ASSUME TableInv, NEW k \in Keys, NEW i \in Slots,
                      line # <<>>, Innermost = [key |-> k, slot |-> i],
                      NEW s \in Scores, NEW d \in Depths, SaveResult(s, d)
               PROVE  /\ Answers(cluster'[i], k, s, d)
                      /\ \A j \in 1..(i - 1) : Occupied(cluster'[j])
                      /\ (\A j \in 1..(i - 1) : cluster[j].key16 # k) => Probes(i, k)'
    BY DEF tableVars
  <2>1. cluster \in [Slots -> Entries] /\ generation8 \in Generations
    BY DEF TableInv, TableTypeOK
  <2>2. cluster' = [cluster EXCEPT ![i] = Saved(cluster[i], k, s, d, generation8)]
    BY DEF SaveResult
  <2>3. /\ cluster'[i] = Saved(cluster[i], k, s, d, generation8)
        /\ \A j \in Slots : j # i => cluster'[j] = cluster[j]
    BY <2>1, <2>2
  <2>4. Occupied(cluster[i]) => cluster[i].of = cluster[i].key16 /\ cluster[i].move = cluster[i].key16
    BY DEF TableInv, OwnPosition
  <2>5. Answers(cluster'[i], k, s, d)
    BY <2>1, <2>3, <2>4, SavedAnswers
  <2>6. cluster'[i].key16 = k /\ Occupied(cluster'[i])
    BY <2>1, <2>3, <2>4, SavedType
  <2>7. \A j \in 1..(i - 1) : j \in Slots /\ j # i
    BY ClusterAssumption DEF Slots
  <2>8. \A j \in 1..(i - 1) : Occupied(cluster[j])
    BY DEF TableInv, LineInv, Innermost, TableTypeOK
  <2>9. \A j \in 1..(i - 1) : Occupied(cluster'[j])
    BY <2>3, <2>7, <2>8
  <2>10. ASSUME \A j \in 1..(i - 1) : cluster[j].key16 # k
         PROVE  Probes(i, k)'
    <3>1. StopsAt(i, k)'
      BY <2>6 DEF StopsAt, IsHit
    <3>2. \A j \in 1..(i - 1) : ~StopsAt(j, k)'
      BY <2>3, <2>7, <2>9, <2>10 DEF StopsAt, IsHit
    <3> QED BY <3>1, <3>2 DEF Probes
  <2> QED BY <2>5, <2>9, <2>10
<1> QED BY <1>1, TableInvIsInvariant, PTL DEF TableSpec, FindsWhatItSaved
=============================================================================
