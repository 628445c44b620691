------------------------- MODULE GameHistoryProofs -------------------------
(* Proofs about repetition detection, for any places, clocks and lengths    *)
(* of the game and of the search.                                           *)
EXTENDS GameHistory, FiniteSetTheorems, TLAPS

----------------------------------------------------------------------------
(* Least and greatest elements. *)

\* A nonempty set of natural numbers has a least element, which is its Min:
\* the intervals up to its elements are well founded under strict inclusion.
LEMMA LeastElement ==
  ASSUME NEW S \in SUBSET Nat, S # {}
  PROVE  Min(S) \in S /\ \A y \in S : Min(S) <= y
<1> DEFINE Below == {0 .. k : k \in S}
           R == StrictSubsetOrdering(Nat)
<1>1. IsWellFoundedOn(R, FiniteSubsetsOf(Nat))
  BY FS_StrictSubsetOrderingWellFounded
<1>2. Below \subseteq FiniteSubsetsOf(Nat) /\ Below # {}
  <2>1. \A k \in S : 0 .. k \in SUBSET Nat /\ IsFiniteSet(0 .. k)
    BY FS_Interval
  <2> QED BY <2>1 DEF FiniteSubsetsOf
<1>3. PICK I \in Below : \A J \in Below : <<J, I>> \notin R
  <2> HIDE DEF Below, R
  <2> QED BY <1>1, <1>2, WFMin
<1>4. PICK x \in S : I = 0 .. x
  OBVIOUS
<1>5. \A y \in S : x <= y
  <2> SUFFICES ASSUME NEW y \in S, y < x PROVE FALSE
    OBVIOUS
  <2>1. 0 .. y \subseteq 0 .. x /\ 0 .. y # 0 .. x
    OBVIOUS
  <2>2. <<0 .. y, 0 .. x>> \in R
    BY <2>1 DEF StrictSubsetOrdering
  <2> QED BY <1>3, <1>4, <2>2
<1> QED BY <1>5 DEF Min

\* A nonempty set of indices below n has a greatest element, its Max.
LEMMA GreatestIndex ==
  ASSUME NEW n \in Nat, NEW S \in SUBSET (1 .. n - 1), S # {}
  PROVE  Max(S) \in S /\ \A y \in S : y <= Max(S)
<1> DEFINE T == {n - j : j \in S}
<1>1. T \in SUBSET Nat /\ T # {}
  OBVIOUS
<1>2. PICK m \in T : \A t \in T : m <= t
  <2> HIDE DEF T
  <2> QED BY <1>1, LeastElement
<1>3. PICK x \in S : m = n - x
  OBVIOUS
<1>4. \A y \in S : y <= x
  <2> TAKE y \in S
  <2>1. m <= n - y
    BY <1>2
  <2> QED BY <1>3, <2>1
<1> QED BY <1>4 DEF Max

----------------------------------------------------------------------------
(* Chains. *)

\* The positions one move on from p.
Successors(p) == {Make(p, m) : m \in Legal(p)}

\* Where the window of the null-move counter starts.
First(c, n) == n - c[n].pliesFromNull

\* What the counters of the StateInfo at n say of the chain up to n.
Counted(c, n) ==
  /\ c[n].pliesFromNull < n
  /\ \A k \in First(c, n) + 1 .. n : ~NullAt(c, k)
  /\ First(c, n) > 1 => NullAt(c, First(c, n))
  /\ n > 1 => NullAt(c, n) \/ c[n].key \in Successors(c[n - 1].key)
  /\ \A j \in 1 .. n : (c[j].key.side = c[n].key.side) <=> ((n - j) % 2 = 0)
  /\ \A j \in 1 .. n : c[j].key.era <= c[n].key.era
  /\ \A j \in 1 .. n : j < n - c[n].rule50 => c[j].key.era < c[n].key.era

Linked(c, n) == Counted(c, n) /\ c[n].repetition = Recurrence(c, n)

Chains == {c \in Seq(StateInfo) : c # <<>> /\ \A n \in 1 .. Len(c) : Linked(c, n)}

\* The history of a position is unchanged by what is linked after it.
LEMMA SameLinks ==
  ASSUME NEW c \in Seq(StateInfo), NEW d \in Seq(StateInfo), NEW n \in 1 .. Len(c),
         n <= Len(d), \A k \in 1 .. n : c[k] = d[k]
  PROVE  /\ \A k \in 1 .. n : NullAt(c, k) <=> NullAt(d, k)
         /\ Earlier(c, n) = Earlier(d, n)
         /\ Linked(c, n) => Linked(d, n)
<1>1. \A k \in 1 .. n : NullAt(c, k) <=> NullAt(d, k)
  BY DEF NullAt
<1>2. Earlier(c, n) = Earlier(d, n)
  BY <1>1 DEF Earlier
<1>3. Recurrence(c, n) = Recurrence(d, n)
  BY <1>2 DEF Recurrence
<1>4. ASSUME Counted(c, n) PROVE Counted(d, n)
  <2>0. c[n] \in StateInfo /\ c[n] = d[n] /\ (n > 1 => c[n - 1] = d[n - 1])
    OBVIOUS
  <2>1. c[n].pliesFromNull \in Nat /\ c[n].pliesFromNull < n
    BY <1>4, <2>0 DEF Counted, StateInfo
  <2>2. First(c, n) = First(d, n) /\ First(c, n) \in 1 .. n
    BY <2>0, <2>1 DEF First
  <2>3. \A k \in First(d, n) + 1 .. n : ~NullAt(d, k)
    BY <1>1, <1>4, <2>2 DEF Counted
  <2>4. First(d, n) > 1 => NullAt(d, First(d, n))
    BY <1>1, <1>4, <2>2 DEF Counted
  <2>5. n > 1 => NullAt(d, n) \/ d[n].key \in Successors(d[n - 1].key)
    BY <1>1, <1>4, <2>0 DEF Counted
  <2>6. \A j \in 1 .. n : (d[j].key.side = d[n].key.side) <=> ((n - j) % 2 = 0)
    BY <1>4, <2>0 DEF Counted
  <2>7. \A j \in 1 .. n : /\ d[j].key.era <= d[n].key.era
                          /\ j < n - d[n].rule50 => d[j].key.era < d[n].key.era
    BY <1>4, <2>0 DEF Counted
  <2> QED BY <2>0, <2>1, <2>3, <2>4, <2>5, <2>6, <2>7 DEF Counted
<1> QED BY <1>1, <1>2, <1>3, <1>4 DEF Linked

\* A nonempty prefix of a chain is a chain.
LEMMA PrefixIsChain ==
  ASSUME NEW c \in Chains, NEW m \in 1 .. Len(c)
  PROVE  SubSeq(c, 1, m) \in Chains
<1> DEFINE d == SubSeq(c, 1, m)
<1>1. c \in Seq(StateInfo) /\ \A n \in 1 .. Len(c) : Linked(c, n)
  BY DEF Chains
<1>2. d \in Seq(StateInfo) /\ Len(d) = m /\ \A k \in 1 .. m : d[k] = c[k]
  BY <1>1
<1>3. \A n \in 1 .. m : Linked(d, n)
  <2> TAKE n \in 1 .. m
  <2> HIDE DEF d
  <2> QED BY <1>1, <1>2, SameLinks
<1> QED BY <1>2, <1>3 DEF Chains

\* A chain is extended by a StateInfo that is linked rightly.
LEMMA LongerChain ==
  ASSUME NEW c \in Chains, NEW e \in StateInfo, Linked(Append(c, e), Len(c) + 1)
  PROVE  Append(c, e) \in Chains
<1> DEFINE d == Append(c, e)
<1>1. c \in Seq(StateInfo) /\ \A n \in 1 .. Len(c) : Linked(c, n)
  BY DEF Chains
<1>2. d \in Seq(StateInfo) /\ Len(d) = Len(c) + 1 /\ \A k \in 1 .. Len(c) : d[k] = c[k]
  BY <1>1
<1>3. \A n \in 1 .. Len(c) : Linked(d, n)
  <2> TAKE n \in 1 .. Len(c)
  <2> HIDE DEF d
  <2> QED BY <1>1, <1>2, SameLinks
<1> QED BY <1>1, <1>2, <1>3 DEF Chains

----------------------------------------------------------------------------
(* Moves. *)

\* A move is played by the side to move, which changes the place of its piece
\* or the era; a null move changes nothing but the side to move.
LEMMA MoveFacts ==
  ASSUME NEW p \in Placement, NEW q \in Successors(p)
  PROVE  /\ q \in Placement
         /\ q.side = 1 - p.side
         /\ q.at[1 - p.side] = p.at[1 - p.side]
         /\ \/ q.era = p.era /\ q.at[p.side] # p.at[p.side]
            \/ q.era = p.era + 1
         /\ q # Passed(p)
<1>0. /\ p.side \in Color /\ 1 - p.side \in Color /\ 1 - p.side # p.side
      /\ p.at \in [Color -> Places] /\ p.era \in Nat
      /\ p = [side |-> p.side, at |-> p.at, era |-> p.era]
  BY DEF Placement, Color
<1>1. Passed(p) = [side |-> 1 - p.side, at |-> p.at, era |-> p.era]
  BY <1>0 DEF Passed
<1>2. PICK m \in Legal(p) : q = Make(p, m)
  BY DEF Successors
<1>3. \/ m.at \in Places /\ m.at # p.at[p.side] /\ m.era = p.era
      \/ m.at = p.at[p.side] /\ m.era = p.era + 1
  BY DEF Legal
<1>4. m.at \in Places /\ m.era \in Nat
  BY <1>0, <1>3
<1>5. q = [side |-> 1 - p.side, at |-> [p.at EXCEPT ![p.side] = m.at], era |-> m.era]
  <2>1. PICK pass : pass = Passed(p)
    OBVIOUS
  <2>2. q = [[pass EXCEPT !.at[p.side] = m.at] EXCEPT !.era = m.era]
    BY <1>2, <2>1 DEF Make
  <2>3. pass = [side |-> 1 - p.side, at |-> p.at, era |-> p.era]
    BY <1>1, <2>1
  <2>4. [pass EXCEPT !.at[p.side] = m.at]
          = [side |-> 1 - p.side, at |-> [p.at EXCEPT ![p.side] = m.at], era |-> p.era]
    BY <2>3
  <2> QED BY <2>2, <2>4
<1>6. [p.at EXCEPT ![p.side] = m.at] \in [Color -> Places]
  BY <1>0, <1>4
<1>7. q \in Placement
  BY <1>0, <1>4, <1>5, <1>6 DEF Placement
<1>8. q.at[p.side] = m.at /\ q.at[1 - p.side] = p.at[1 - p.side] /\ q.side = 1 - p.side /\ q.era = m.era
  BY <1>0, <1>5
<1>9. q # Passed(p)
  BY <1>0, <1>1, <1>3, <1>8
<1> QED BY <1>0, <1>3, <1>7, <1>8, <1>9

\* Two moves in a row never lead back to the position they started from.
LEMMA TwoMovesDiffer ==
  ASSUME NEW p \in Placement, NEW q \in Successors(p), NEW r \in Successors(q)
  PROVE  r # p
<1>1. q \in Placement /\ q.side = 1 - p.side
  BY MoveFacts
<1>2. p.side \in {0, 1} /\ p.era \in Nat /\ q.era \in Nat
  BY <1>1 DEF Placement, Color
<1>3. r.at[1 - q.side] = q.at[1 - q.side] /\ 1 - q.side = p.side
  BY <1>1, <1>2, MoveFacts
<1>4. r.era = q.era \/ r.era = q.era + 1
  BY <1>1, MoveFacts
<1>5. (q.era = p.era /\ q.at[p.side] # p.at[p.side]) \/ q.era = p.era + 1
  BY MoveFacts
<1> QED BY <1>2, <1>3, <1>4, <1>5

----------------------------------------------------------------------------
(* The walk of do_move finds what the whole history holds. *)

\* The candidates of the walk are exactly the distances to the earlier places.
LEMMA WalkIsComplete ==
  ASSUME NEW c \in Chains, NEW e \in StateInfo, NEW j \in 1 .. Len(c),
         Counted(Append(c, e), Len(c) + 1)
  PROVE  j \in Earlier(Append(c, e), Len(c) + 1)
           <=> /\ Len(c) + 1 - j \in 4 .. Window(e)
               /\ (Len(c) + 1 - j) % 2 = 0
               /\ c[j].key = e.key
<1> DEFINE d == Append(c, e)
           n == Len(c) + 1
<1>1. c \in Seq(StateInfo) /\ Len(c) \in Nat /\ \A k \in 1 .. Len(c) : Linked(c, k)
  BY DEF Chains
<1>2. d \in Seq(StateInfo) /\ Len(d) = n /\ d[n] = e /\ \A k \in 1 .. Len(c) : d[k] = c[k]
  BY <1>1
<1>3. e.pliesFromNull \in Nat /\ e.rule50 \in Nat /\ c[j] \in StateInfo
  <2>1. c[j] \in StateInfo
    BY <1>1
  <2> QED BY <2>1 DEF StateInfo
<1>4. Window(e) \in Nat /\ Window(e) <= e.pliesFromNull /\ Window(e) <= e.rule50
      /\ (Window(e) = e.pliesFromNull \/ Window(e) = e.rule50)
  BY <1>3 DEF Window, Lesser
<1>5. First(d, n) = n - e.pliesFromNull
  BY <1>2 DEF First
<1> HIDE DEF d
<1>6. ASSUME n - j \in 4 .. Window(e), c[j].key = e.key
      PROVE  j \in Earlier(d, n)
  <2>1. \A k \in j + 1 .. n : k \in First(d, n) + 1 .. n
    BY <1>1, <1>3, <1>4, <1>5, <1>6
  <2>2. \A k \in j + 1 .. n : ~NullAt(d, k)
    BY <2>1 DEF Counted, d
  <2> QED BY <1>1, <1>2, <1>6, <2>2 DEF Earlier
<1>7. ASSUME j \in Earlier(d, n)
      PROVE  n - j \in 4 .. Window(e) /\ (n - j) % 2 = 0 /\ c[j].key = e.key
  <2>1. c[j].key = e.key /\ \A k \in j + 1 .. n : ~NullAt(d, k)
    BY <1>2, <1>7 DEF Earlier
  <2>2. (n - j) % 2 = 0
    <3>1. d[j].key = d[n].key
      BY <1>2, <2>1
    <3>2. \A i \in 1 .. n : (d[i].key.side = d[n].key.side) <=> ((n - i) % 2 = 0)
      BY DEF Counted, d
    <3> QED BY <1>1, <3>1, <3>2
  <2>3. n - j # 2
    <3> SUFFICES ASSUME n - j = 2 PROVE FALSE
      OBVIOUS
    <3>0. j = n - 2 /\ n - 1 \in 1 .. Len(c) /\ n - 1 > 1 /\ n > 1
      BY <1>1
    <3>1. d[n].key \in Successors(d[n - 1].key)
      BY <2>1, <3>0 DEF Counted, d
    <3>2. Linked(d, n - 1)
      BY <1>1, <1>2, <3>0, SameLinks
    <3>3. d[n - 1].key \in Successors(d[n - 2].key)
      BY <1>1, <2>1, <3>0, <3>2 DEF Linked, Counted
    <3>4. d[n - 2].key \in Placement /\ d[n - 2].key = d[n].key
      BY <1>2, <1>3, <2>1, <3>0 DEF StateInfo
    <3> QED BY <3>1, <3>3, <3>4, TwoMovesDiffer
  <2>4. n - j <= e.pliesFromNull
    <3> SUFFICES ASSUME e.pliesFromNull < n - j PROVE FALSE
      BY <1>1, <1>3
    <3>1. First(d, n) \in j + 1 .. n /\ First(d, n) > 1
      BY <1>1, <1>3, <1>5
    <3>2. NullAt(d, First(d, n))
      BY <3>1 DEF Counted, d
    <3> QED BY <2>1, <3>1, <3>2
  <2>5. n - j <= e.rule50
    <3> SUFFICES ASSUME j < n - e.rule50 PROVE FALSE
      BY <1>1, <1>3
    <3>1. d[j].key.era < d[n].key.era
      BY <1>1, <1>2 DEF Counted, d
    <3>2. e.key.era \in Nat
      BY DEF StateInfo, Placement
    <3> QED BY <1>2, <2>1, <3>1, <3>2
  <2> QED BY <1>1, <1>4, <2>1, <2>2, <2>3, <2>4, <2>5
<1> QED BY <1>6, <1>7 DEF d

\* A position's distance to its latest occurrence, and whether that had
\* occurred before, which do_move reads off the StateInfo there.
LEMMA WalkIsExact ==
  ASSUME NEW c \in Chains, NEW e \in StateInfo, Counted(Append(c, e), Len(c) + 1)
  PROVE  Repetition(c, e) = Recurrence(Append(c, e), Len(c) + 1)
<1> DEFINE d == Append(c, e)
           n == Len(c) + 1
           hits == {i \in 4 .. Window(e) : i % 2 = 0 /\ c[n - i].key = e.key}
           seen == Earlier(d, n)
<1>1. c \in Seq(StateInfo) /\ Len(c) \in Nat /\ \A k \in 1 .. Len(c) : Linked(c, k)
  BY DEF Chains
<1>2. d \in Seq(StateInfo) /\ Len(d) = n /\ d[n] = e /\ \A k \in 1 .. Len(c) : d[k] = c[k]
  BY <1>1
<1>3. Window(e) \in Nat /\ Window(e) < n
  <2>1. e.pliesFromNull \in Nat /\ e.rule50 \in Nat /\ e.pliesFromNull < n
    BY <1>2 DEF StateInfo, Counted
  <2> QED BY <1>1, <2>1 DEF Window, Lesser
<1>4. seen \in SUBSET (1 .. n - 1)
  BY DEF Earlier
<1>5. \A j \in 1 .. n - 1 : j \in seen <=> n - j \in hits
  <2> TAKE j \in 1 .. n - 1
  <2>1. n - (n - j) = j /\ j \in 1 .. Len(c)
    BY <1>1
  <2> QED BY <2>1, WalkIsComplete
<1>6. hits \in SUBSET Nat /\ \A i \in hits : n - i \in 1 .. n - 1 /\ n - (n - i) = i
  BY <1>1, <1>3
<1>7. CASE seen = {}
  <2>1. hits = {}
    BY <1>5, <1>6, <1>7
  <2> QED BY <1>7, <2>1 DEF Repetition, Recurrence
<1>8. CASE seen # {}
  <2> DEFINE m == Max(seen)
  <2>1. m \in seen /\ (\A j \in seen : j <= m) /\ m \in 1 .. Len(c)
    <3>1. n \in Nat /\ n - 1 = Len(c)
      BY <1>1
    <3> HIDE DEF seen, n, d
    <3>2. m \in seen /\ \A j \in seen : j <= m
      BY <1>4, <1>8, <3>1, GreatestIndex
    <3>3. m \in 1 .. n - 1
      BY <1>4, <3>2
    <3> QED BY <3>1, <3>2, <3>3
  <2>2. hits # {} /\ Min(hits) \in hits /\ \A i \in hits : Min(hits) <= i
    <3>1. hits # {}
      BY <1>4, <1>5, <2>1
    <3> HIDE DEF hits
    <3> QED BY <1>6, <3>1, LeastElement
  <2>3. Min(hits) = n - m
    <3>1. n - m \in hits /\ n - Min(hits) \in seen /\ Min(hits) \in Nat
      <4>1. n - 1 = Len(c)
        BY <1>1
      <4> HIDE DEF hits, seen, n, m, d
      <4>2. n - m \in hits
        BY <1>5, <2>1, <4>1
      <4>3. n - Min(hits) \in 1 .. n - 1 /\ n - (n - Min(hits)) = Min(hits) /\ Min(hits) \in Nat
        BY <1>6, <2>2
      <4>4. n - Min(hits) \in seen
        BY <1>5, <2>2, <4>3
      <4> QED BY <4>2, <4>3, <4>4
    <3>2. Min(hits) <= n - m /\ n - Min(hits) <= m
      BY <2>1, <2>2, <3>1
    <3> HIDE DEF hits, m, seen
    <3> QED BY <1>1, <2>1, <3>1, <3>2
  <2>4. \A k \in 1 .. m - 1 : k \in Earlier(c, m) <=> k \in seen
    <3> HIDE DEF d, m
    <3>1. d[m].key = d[n].key /\ \A k \in m + 1 .. n : ~NullAt(d, k)
      BY <2>1 DEF Earlier
    <3>2. Earlier(c, m) = Earlier(d, m)
      BY <1>1, <1>2, <2>1, SameLinks
    <3>3. TAKE k \in 1 .. m - 1
    <3>4. k \in 1 .. n - 1 /\ \A i \in k + 1 .. n : i \in k + 1 .. m \/ i \in m + 1 .. n
      BY <1>1, <2>1
    <3>5. \A i \in k + 1 .. m : i \in k + 1 .. n
      BY <1>1, <2>1
    <3> QED BY <3>1, <3>2, <3>4, <3>5 DEF Earlier
  <2>5. seen = {m} <=> Earlier(c, m) = {}
    <3>1. Earlier(c, m) \in SUBSET (1 .. m - 1)
      BY DEF Earlier
    <3>2. \A k \in seen : k = m \/ k \in 1 .. m - 1
      <4> HIDE DEF seen, m
      <4> QED BY <1>1, <1>4, <2>1
    <3>3. m \notin 1 .. m - 1
      <4> HIDE DEF m
      <4> QED BY <2>1
    <3> HIDE DEF seen, m
    <3> QED BY <2>1, <2>4, <3>1, <3>2, <3>3
  <2>6. c[m].repetition = 0 <=> Earlier(c, m) = {}
    <3> HIDE DEF m
    <3>1. c[m].repetition = Recurrence(c, m)
      BY <1>1, <2>1 DEF Linked
    <3>2. Earlier(c, m) \in SUBSET (1 .. m - 1)
      BY DEF Earlier
    <3>3. ASSUME Earlier(c, m) # {} PROVE Max(Earlier(c, m)) \in 1 .. m - 1
      <4>1. m \in Nat
        BY <2>1
      <4>2. Max(Earlier(c, m)) \in Earlier(c, m)
        BY <3>2, <3>3, <4>1, GreatestIndex
      <4> QED BY <3>2, <4>2
    <3>4. Earlier(c, m) # {} => m - Max(Earlier(c, m)) # 0 /\ Max(Earlier(c, m)) - m # 0
      BY <2>1, <3>3
    <3> QED BY <3>1, <3>4 DEF Recurrence
  <2>7. Repetition(c, e) = IF c[n - Min(hits)].repetition # 0 THEN -Min(hits) ELSE Min(hits)
    BY <2>2 DEF Repetition
  <2>8. Recurrence(d, n) = IF seen = {m} THEN n - m ELSE m - n
    BY <1>8 DEF Recurrence
  <2>9. n - Min(hits) = m /\ -Min(hits) = m - n
    <3> HIDE DEF hits, m
    <3> QED BY <1>1, <2>1, <2>3
  <2> HIDE DEF hits, m, seen, d
  <2> QED BY <2>3, <2>5, <2>6, <2>7, <2>8, <2>9 DEF d
<1> QED BY <1>7, <1>8

----------------------------------------------------------------------------
(* Every StateInfo is linked rightly. *)

\* What do_move and do_null_move have in common: the other side is to move,
\* and the fifty-move counter starts anew only in a later era.
LEMMA OlderPositions ==
  ASSUME NEW d \in Seq(StateInfo), NEW n \in 2 .. Len(d), Counted(d, n - 1),
         d[n].key.side = 1 - d[n - 1].key.side,
         \/ d[n].key.era > d[n - 1].key.era
         \/ d[n].key.era = d[n - 1].key.era /\ d[n].rule50 = d[n - 1].rule50 + 1,
         NEW j \in 1 .. n
  PROVE  /\ (d[j].key.side = d[n].key.side) <=> ((n - j) % 2 = 0)
         /\ d[j].key.era <= d[n].key.era
         /\ j < n - d[n].rule50 => d[j].key.era < d[n].key.era
<1>1. d[j] \in StateInfo /\ d[n - 1] \in StateInfo /\ d[n] \in StateInfo
  OBVIOUS
<1>2. /\ d[j].key.side \in {0, 1} /\ d[n - 1].key.side \in {0, 1}
      /\ d[j].key.era \in Nat /\ d[n - 1].key.era \in Nat /\ d[n].key.era \in Nat
      /\ d[n - 1].rule50 \in Nat /\ d[n].rule50 \in Nat
  BY <1>1 DEF StateInfo, Placement, Color
<1>3. CASE j = n
  BY <1>2, <1>3
<1>4. CASE j \in 1 .. n - 1
  <2>1. /\ (d[j].key.side = d[n - 1].key.side) <=> ((n - 1 - j) % 2 = 0)
        /\ d[j].key.era <= d[n - 1].key.era
        /\ j < n - 1 - d[n - 1].rule50 => d[j].key.era < d[n - 1].key.era
    BY <1>4 DEF Counted
  <2>2. (n - j) % 2 = 0 <=> (n - 1 - j) % 2 # 0
    <3>1. n - j \in Int /\ n - 1 - j \in Int /\ n - j = (n - 1 - j) + 1
      BY <1>4
    <3>2. \A i, k \in Int : i = k + 1 => (i % 2 = 0 <=> k % 2 # 0)
      OBVIOUS
    <3> QED BY <3>1, <3>2, Zenon
  <2>3. (d[j].key.side = d[n].key.side) <=> ((n - j) % 2 = 0)
    <3>1. \A a, b \in {0, 1} : a = 1 - b <=> a # b
      OBVIOUS
    <3>2. d[j].key.side = 1 - d[n - 1].key.side <=> d[j].key.side # d[n - 1].key.side
      BY <1>2, <3>1
    <3> QED BY <2>1, <2>2, <3>2
  <2>4. d[j].key.era <= d[n].key.era
    <3>1. d[n - 1].key.era <= d[n].key.era
      BY <1>2
    <3>2. \A x, y, z \in Nat : x <= y /\ y <= z => x <= z
      OBVIOUS
    <3> QED BY <1>2, <2>1, <3>1, <3>2
  <2>5. j < n - d[n].rule50 => d[j].key.era < d[n].key.era
    <3>1. CASE d[n].key.era > d[n - 1].key.era
      BY <1>2, <2>1, <3>1
    <3>2. CASE d[n].key.era = d[n - 1].key.era /\ d[n].rule50 = d[n - 1].rule50 + 1
      BY <1>2, <2>1, <3>2
    <3> QED BY <3>1, <3>2
  <2> QED BY <2>3, <2>4, <2>5
<1> QED BY <1>3, <1>4

\* A StateInfo with the counters of do_move counts rightly.
LEMMA MoveCounted ==
  ASSUME NEW d \in Seq(StateInfo), NEW n \in 2 .. Len(d), Counted(d, n - 1),
         d[n].key \in Successors(d[n - 1].key),
         d[n].pliesFromNull = d[n - 1].pliesFromNull + 1,
         d[n].rule50 = IF d[n].key.era # d[n - 1].key.era THEN 0 ELSE d[n - 1].rule50 + 1
  PROVE  Counted(d, n)
<1>1. d[n - 1] \in StateInfo /\ d[n] \in StateInfo
  OBVIOUS
<1>2. /\ d[n - 1].key \in Placement /\ d[n - 1].pliesFromNull \in Nat
      /\ d[n - 1].key.era \in Nat /\ d[n].key.era \in Nat
  BY <1>1 DEF StateInfo, Placement
<1>3. /\ d[n].key.side = 1 - d[n - 1].key.side
      /\ d[n].key # Passed(d[n - 1].key)
      /\ d[n].key.era = d[n - 1].key.era \/ d[n].key.era = d[n - 1].key.era + 1
  BY <1>2, MoveFacts
<1>4. First(d, n) = First(d, n - 1) /\ First(d, n) \in Int
  BY <1>2 DEF First
<1>5. ~NullAt(d, n)
  BY <1>3 DEF NullAt
<1>6. d[n].pliesFromNull < n
  BY <1>2 DEF Counted
<1>7. \A k \in First(d, n) + 1 .. n : ~NullAt(d, k)
  BY <1>4, <1>5 DEF Counted
<1>8. First(d, n) > 1 => NullAt(d, First(d, n))
  BY <1>4 DEF Counted
<1>9. \/ d[n].key.era > d[n - 1].key.era
      \/ d[n].key.era = d[n - 1].key.era /\ d[n].rule50 = d[n - 1].rule50 + 1
  BY <1>2, <1>3
<1>10. \A j \in 1 .. n : /\ (d[j].key.side = d[n].key.side) <=> ((n - j) % 2 = 0)
                         /\ d[j].key.era <= d[n].key.era
                         /\ j < n - d[n].rule50 => d[j].key.era < d[n].key.era
  BY <1>3, <1>9, OlderPositions
<1> QED BY <1>6, <1>7, <1>8, <1>10 DEF Counted

\* So does one with those of do_null_move.
LEMMA NullMoveCounted ==
  ASSUME NEW d \in Seq(StateInfo), NEW n \in 2 .. Len(d), Counted(d, n - 1),
         d[n].key = Passed(d[n - 1].key),
         d[n].pliesFromNull = 0,
         d[n].rule50 = d[n - 1].rule50 + 1
  PROVE  Counted(d, n)
<1>1. d[n - 1] \in StateInfo /\ d[n] \in StateInfo
  OBVIOUS
<1>2. d[n - 1].key \in Placement
  BY <1>1 DEF StateInfo
<1>3. d[n].key.side = 1 - d[n - 1].key.side /\ d[n].key.era = d[n - 1].key.era
  BY <1>2 DEF Passed, Placement
<1>4. First(d, n) = n /\ NullAt(d, n)
  BY DEF First, NullAt
<1>5. \A j \in 1 .. n : /\ (d[j].key.side = d[n].key.side) <=> ((n - j) % 2 = 0)
                        /\ d[j].key.era <= d[n].key.era
                        /\ j < n - d[n].rule50 => d[j].key.era < d[n].key.era
  BY <1>3, OlderPositions
<1>6. \A k \in First(d, n) + 1 .. n : ~NullAt(d, k)
  BY <1>4
<1> QED BY <1>4, <1>5, <1>6 DEF Counted

\* What comes before a StateInfo that is about to be linked.
LEMMA BeforeLinking ==
  ASSUME NEW c \in Chains, NEW e \in StateInfo
  PROVE  /\ c \in Seq(StateInfo) /\ Len(c) \in Nat /\ Len(c) >= 1
         /\ c[Len(c)] \in StateInfo /\ Last(c) = c[Len(c)]
         /\ Append(c, e) \in Seq(StateInfo)
         /\ Len(c) + 1 \in 2 .. Len(Append(c, e))
         /\ Append(c, e)[Len(c) + 1] = e
         /\ Append(c, e)[Len(c) + 1 - 1] = c[Len(c)]
         /\ Counted(Append(c, e), Len(c) + 1 - 1)
<1> DEFINE d == Append(c, e)
           l == Len(c)
<1>1. c \in Seq(StateInfo) /\ l \in Nat /\ l >= 1 /\ Linked(c, l)
  BY DEF Chains
<1>2. /\ d \in Seq(StateInfo) /\ Len(d) = l + 1 /\ d[l + 1] = e
      /\ \A k \in 1 .. l : d[k] = c[k]
  BY <1>1
<1>3. c[l] \in StateInfo /\ Last(c) = c[l]
  BY <1>1 DEF Last
<1>4. l \in 1 .. Len(c) /\ l <= Len(d) /\ l + 1 \in 2 .. Len(d) /\ l + 1 - 1 = l
  BY <1>1, <1>2
<1> HIDE DEF d, l
<1>5. Linked(d, l)
  BY <1>1, <1>2, <1>4, SameLinks DEF l
<1>6. Counted(d, l)
  BY <1>5 DEF Linked
<1> QED BY <1>1, <1>2, <1>3, <1>4, <1>6 DEF d, l

\* A chain extended with the counters of do_move counts rightly.
LEMMA MoveExtends ==
  ASSUME NEW c \in Chains, NEW e \in StateInfo,
         e.key \in Successors(c[Len(c)].key),
         e.pliesFromNull = c[Len(c)].pliesFromNull + 1,
         e.rule50 = IF e.key.era # c[Len(c)].key.era THEN 0 ELSE c[Len(c)].rule50 + 1
  PROVE  Counted(Append(c, e), Len(c) + 1)
<1>1. PICK d, n : d = Append(c, e) /\ n = Len(c) + 1
  OBVIOUS
<1>2. /\ d \in Seq(StateInfo) /\ n \in 2 .. Len(d) /\ Counted(d, n - 1)
      /\ d[n] = e /\ d[n - 1] = c[Len(c)]
  BY <1>1, BeforeLinking
<1>3. Counted(d, n)
  BY <1>2, MoveCounted
<1> QED BY <1>1, <1>3

\* do_move links rightly.
LEMMA DoMoveLinks ==
  ASSUME NEW c \in Chains, NEW p \in Successors(Last(c).key)
  PROVE  DoMove(c, p) \in Chains
<1> DEFINE l == Len(c)
           new == [key |-> p,
                   rule50 |-> IF p.era # c[l].key.era THEN 0 ELSE c[l].rule50 + 1,
                   pliesFromNull |-> c[l].pliesFromNull + 1,
                   repetition |-> 0]
           e == [new EXCEPT !.repetition = Repetition(c, new)]
<1>1. c \in Seq(StateInfo) /\ l \in Nat /\ l >= 1
  BY DEF Chains
<1>2. Last(c) = c[l] /\ c[l] \in StateInfo
  BY <1>1 DEF Last
<1>3. c[l].key \in Placement /\ c[l].rule50 \in Nat /\ c[l].pliesFromNull \in Nat
  BY <1>2 DEF StateInfo
<1>4. p \in Placement
  BY <1>2, <1>3, MoveFacts
<1>5. DoMove(c, p) = Append(c, e)
  BY <1>2 DEF DoMove
<1>6. new \in StateInfo
  BY <1>3, <1>4 DEF StateInfo
<1>7. Counted(Append(c, new), l + 1)
  <2>1. /\ new.key = p /\ new.pliesFromNull = c[l].pliesFromNull + 1
        /\ new.rule50 = IF p.era # c[l].key.era THEN 0 ELSE c[l].rule50 + 1
    OBVIOUS
  <2> HIDE DEF new
  <2> QED BY <1>2, <1>6, <2>1, MoveExtends
<1>8. Repetition(c, new) \in Int
  <2> DEFINE d == Append(c, new)
  <2> HIDE DEF new
  <2>1. Repetition(c, new) = Recurrence(d, l + 1)
    BY <1>6, <1>7, WalkIsExact
  <2>2. Earlier(d, l + 1) \in SUBSET (1 .. l + 1 - 1)
    BY DEF Earlier
  <2> HIDE DEF d
  <2>3. ASSUME Earlier(d, l + 1) # {} PROVE Max(Earlier(d, l + 1)) \in Int
    <3> DEFINE n == l + 1
    <3>1. n \in Nat
      BY <1>1
    <3>2. Earlier(d, n) \in SUBSET (1 .. n - 1) /\ Earlier(d, n) # {}
      BY <2>2, <2>3
    <3>3. Max(Earlier(d, n)) \in Int
      <4> HIDE DEF n
      <4>1. Max(Earlier(d, n)) \in Earlier(d, n)
        BY <3>1, <3>2, GreatestIndex
      <4> QED BY <3>2, <4>1
    <3> QED BY <3>3
  <2>4. Recurrence(d, l + 1) \in Int
    <3> HIDE DEF l
    <3> QED BY <1>1, <2>3 DEF Recurrence
  <2> QED BY <2>1, <2>4
<1>9. /\ e.key = p /\ e.rule50 = new.rule50 /\ e.pliesFromNull = new.pliesFromNull
      /\ e.repetition = Repetition(c, new)
  OBVIOUS
<1>10. e \in StateInfo
  <2> HIDE DEF new
  <2> QED BY <1>6, <1>8 DEF StateInfo
<1>11. Repetition(c, e) = Repetition(c, new)
  <2>1. new.key = p
    OBVIOUS
  <2> HIDE DEF new, e
  <2>2. Window(e) = Window(new)
    BY <1>9 DEF Window
  <2> QED BY <1>9, <2>1, <2>2 DEF Repetition
<1>12. Counted(Append(c, e), l + 1)
  <2>1. new.rule50 = (IF p.era # c[l].key.era THEN 0 ELSE c[l].rule50 + 1)
        /\ new.pliesFromNull = c[l].pliesFromNull + 1
    OBVIOUS
  <2> HIDE DEF new, e
  <2> QED BY <1>2, <1>9, <1>10, <2>1, MoveExtends
<1>13. Linked(Append(c, e), l + 1)
  <2> HIDE DEF new, e
  <2>1. Repetition(c, e) = Recurrence(Append(c, e), l + 1)
    BY <1>10, <1>12, WalkIsExact
  <2>2. Append(c, e)[l + 1] = e
    BY <1>1, <1>10
  <2> QED BY <1>9, <1>11, <1>12, <2>1, <2>2 DEF Linked
<1> HIDE DEF e, l
<1> QED BY <1>5, <1>10, <1>13, LongerChain DEF l

\* do_null_move links rightly: nothing recurs across a null move.
LEMMA DoNullMoveLinks ==
  ASSUME NEW c \in Chains
  PROVE  DoNullMove(c) \in Chains
<1> DEFINE l == Len(c)
           e == [key |-> Passed(c[l].key), rule50 |-> c[l].rule50 + 1,
                 pliesFromNull |-> 0, repetition |-> 0]
<1>1. c[l] \in StateInfo /\ Last(c) = c[l] /\ DoNullMove(c) = Append(c, e)
  <2>1. c \in Seq(StateInfo) /\ Len(c) \in Nat /\ Len(c) >= 1
    BY DEF Chains
  <2>2. Last(c) = c[l]
    BY DEF Last
  <2> QED BY <2>1, <2>2 DEF DoNullMove
<1>2. c[l].key \in Placement /\ c[l].rule50 \in Nat
  BY <1>1 DEF StateInfo
<1>3. Passed(c[l].key) \in Placement
  BY <1>2 DEF Passed, Placement, Color
<1>4. /\ e \in StateInfo /\ e.key = Passed(c[l].key) /\ e.pliesFromNull = 0
      /\ e.rule50 = c[l].rule50 + 1 /\ e.repetition = 0
  BY <1>2, <1>3 DEF StateInfo
<1> HIDE DEF e
<1>5. PICK d, n : d = Append(c, e) /\ n = Len(c) + 1
  OBVIOUS
<1>6. /\ d \in Seq(StateInfo) /\ n \in 2 .. Len(d) /\ Counted(d, n - 1)
      /\ d[n] = e /\ d[n - 1] = c[l]
  BY <1>4, <1>5, BeforeLinking
<1>7. Counted(d, n)
  BY <1>4, <1>6, NullMoveCounted
<1>8. NullAt(d, n)
  BY <1>4, <1>6 DEF NullAt
<1>9. Earlier(d, n) = {}
  <2>1. \A j \in 1 .. n - 1 : n \in j + 1 .. n
    BY <1>6
  <2> QED BY <1>8, <2>1 DEF Earlier
<1>10. d[n].repetition = Recurrence(d, n)
  BY <1>4, <1>6, <1>9 DEF Recurrence
<1>11. Linked(Append(c, e), Len(c) + 1)
  BY <1>5, <1>7, <1>10 DEF Linked
<1> QED BY <1>1, <1>4, <1>11, LongerChain

\* Position::set starts a chain, whatever the clock.
LEMMA SetUpIsChain ==
  ASSUME NEW p \in Placement, NEW clock \in Nat
  PROVE  <<SetUp([key |-> p, clock |-> clock])>> \in Chains
<1> DEFINE s == SetUp([key |-> p, clock |-> clock])
<1>1. /\ s \in StateInfo /\ s.key = p /\ s.rule50 = clock
      /\ s.pliesFromNull = 0 /\ s.repetition = 0
  BY DEF SetUp, StateInfo
<1> HIDE DEF s
<1>2. PICK c : c = <<s>>
  OBVIOUS
<1>3. c \in Seq(StateInfo) /\ c # <<>> /\ Len(c) = 1 /\ c[1] = s
  BY <1>1, <1>2
<1>4. First(c, 1) = 1 /\ \A j \in 1 .. 1 : j = 1
  BY <1>1, <1>3 DEF First
<1>5. p.era \in Nat
  BY DEF Placement
<1>6. Counted(c, 1)
  BY <1>1, <1>3, <1>4, <1>5 DEF Counted
<1>7. Earlier(c, 1) = {}
  BY DEF Earlier
<1>8. Linked(c, 1)
  BY <1>1, <1>3, <1>6, <1>7 DEF Linked, Recurrence
<1> QED BY <1>2, <1>3, <1>4, <1>8 DEF Chains, s

----------------------------------------------------------------------------
(* The stash, and the replay of it. *)

\* The game starts from its FEN, and each of its StateInfos is linked by its move.
Stashed ==
  /\ rootMoves \in Seq([at : Places, era : Nat])
  /\ Len(game) = Len(rootMoves) + 1
  /\ game[1] = SetUp(rootFEN)
  /\ \A n \in 1 .. Len(rootMoves) :
       SubSeq(game, 1, n + 1) = DoMove(SubSeq(game, 1, n), Make(game[n].key, rootMoves[n]))

\* The root's part of the chain is the game as far as it has been replayed.
Replayed == chain # <<>> =>
  /\ rootLen \in 1 .. Len(game) /\ rootLen <= Len(chain)
  /\ SubSeq(chain, 1, rootLen) = SubSeq(game, 1, rootLen)
  /\ Replaying => Len(chain) = rootLen

HistoryInv ==
  /\ game \in Chains
  /\ chain # <<>> => chain \in Chains
  /\ chain = <<>> => rootLen = 0
  /\ Stashed
  /\ Replayed

\* A prefix of what is appended to is a prefix still.
LEMMA PrefixStays ==
  ASSUME NEW S, NEW c \in Seq(S), NEW e \in S, NEW n \in 1 .. Len(c)
  PROVE  SubSeq(Append(c, e), 1, n) = SubSeq(c, 1, n)
<1>1. Append(c, e) \in Seq(S) /\ Len(Append(c, e)) = Len(c) + 1 /\ \A k \in 1 .. n : Append(c, e)[k] = c[k]
  OBVIOUS
<1>2. SubSeq(c, 1, n) = [k \in 1 .. n |-> c[k]]
  OBVIOUS
<1>3. SubSeq(Append(c, e), 1, n) = [k \in 1 .. n |-> Append(c, e)[k]]
  BY <1>1
<1> QED BY <1>1, <1>2, <1>3

\* All of a sequence is itself.
LEMMA WholePrefix ==
  ASSUME NEW S, NEW c \in Seq(S), c # <<>>
  PROVE  SubSeq(c, 1, Len(c)) = c
<1>1. SubSeq(c, 1, Len(c)) = [k \in 1 .. Len(c) |-> c[k]]
  OBVIOUS
<1>2. c = [k \in 1 .. Len(c) |-> c[k]]
  OBVIOUS
<1> QED BY <1>1, <1>2

\* The first of a sequence alone.
LEMMA FirstAlone ==
  ASSUME NEW S, NEW c \in Seq(S), c # <<>>
  PROVE  SubSeq(c, 1, 1) = <<c[1]>>
<1>1. PICK e \in S : e = c[1]
  OBVIOUS
<1>2. PICK d \in Seq(S) : d = <<e>> /\ Len(d) = 1 /\ d[1] = e
  <2>1. <<e>> \in Seq(S) /\ Len(<<e>>) = 1 /\ <<e>>[1] = e
    OBVIOUS
  <2> QED BY <2>1
<1>3. d = [k \in 1 .. Len(d) |-> d[k]]
  OBVIOUS
<1>4. SubSeq(c, 1, 1) = [k \in 1 .. 1 |-> c[k]]
  OBVIOUS
<1>5. [k \in 1 .. 1 |-> c[k]] = [k \in 1 .. 1 |-> d[k]]
  BY <1>1, <1>2
<1> QED BY <1>1, <1>2, <1>3, <1>4, <1>5

\* What do_move makes of a chain is the chain and one StateInfo more.
LEMMA DoMoveAppends ==
  ASSUME NEW c \in Chains, NEW p \in Successors(Last(c).key)
  PROVE  /\ DoMove(c, p) \in Chains
         /\ Len(DoMove(c, p)) = Len(c) + 1
         /\ \E e \in StateInfo : DoMove(c, p) = Append(c, e)
<1>1. DoMove(c, p) \in Chains /\ c \in Seq(StateInfo)
  BY DoMoveLinks DEF Chains
<1>2. PICK e : DoMove(c, p) = Append(c, e)
  BY DEF DoMove
<1>3. PICK d : d = DoMove(c, p)
  OBVIOUS
<1>4. c \in Seq(StateInfo \cup {e}) /\ e \in StateInfo \cup {e}
  BY <1>1
<1>5. Len(d) = Len(c) + 1 /\ d[Len(c) + 1] = e
  BY <1>2, <1>3, <1>4
<1>6. d \in Seq(StateInfo) /\ Len(c) + 1 \in 1 .. Len(d)
  BY <1>1, <1>3, <1>5 DEF Chains
<1>7. e \in StateInfo
  BY <1>5, <1>6
<1> QED BY <1>1, <1>2, <1>3, <1>5, <1>7

\* A move above the root, or a null move, leaves the root's part alone.
LEMMA RootStays ==
  ASSUME HistoryInv, chain # <<>>, ~Replaying, UNCHANGED <<game, rootFEN, rootMoves, rootLen>>,
         NEW e \in StateInfo, chain' = Append(chain, e)
  PROVE  Replayed'
<1>1. PICK c, r : c = chain /\ r = rootLen
  OBVIOUS
<1>2. c \in Seq(StateInfo) /\ r \in 1 .. Len(c) /\ Len(c) \in Nat
  BY <1>1 DEF HistoryInv, Chains, Replayed
<1>3. SubSeq(Append(c, e), 1, r) = SubSeq(c, 1, r) /\ Len(Append(c, e)) = Len(c) + 1
  BY <1>2, PrefixStays
<1>4. /\ rootLen' \in 1 .. Len(game') /\ rootLen' <= Len(chain')
      /\ SubSeq(chain', 1, rootLen') = SubSeq(game', 1, rootLen')
  BY <1>1, <1>2, <1>3 DEF HistoryInv, Replayed
<1>5. ~Replaying'
  BY DEF Replaying
<1> QED BY <1>4, <1>5 DEF Replayed

\* The stash grows with the game.
LEMMA StashGrows ==
  ASSUME game \in Chains, Stashed, NEW m \in Legal(Last(game).key), NEW e \in StateInfo,
         game' = DoMove(game, Make(Last(game).key, m)), game' = Append(game, e),
         rootMoves' = Append(rootMoves, m), UNCHANGED rootFEN
  PROVE  Stashed'
<1> DEFINE Stash == [at : Places, era : Nat]
<1>1. PICK g, h, w : g = game /\ h = game' /\ w = rootMoves
  OBVIOUS
<1>2. /\ g \in Seq(StateInfo) /\ g # <<>> /\ w \in Seq(Stash) /\ Len(g) = Len(w) + 1
      /\ Len(w) \in Nat /\ h = Append(g, e) /\ Last(g) = g[Len(g)] /\ g[Len(g)] \in StateInfo
  BY <1>1 DEF Chains, Stashed, Last
<1>3. m \in Stash
  BY <1>1, <1>2 DEF Legal, StateInfo, Placement
<1>4. /\ Append(w, m) \in Seq(Stash) /\ Len(Append(w, m)) = Len(w) + 1
      /\ Append(w, m)[Len(w) + 1] = m /\ \A n \in 1 .. Len(w) : Append(w, m)[n] = w[n]
  BY <1>2, <1>3
<1>5. /\ h \in Seq(StateInfo) /\ h # <<>> /\ Len(h) = Len(g) + 1
      /\ \A n \in 1 .. Len(g) : h[n] = g[n] /\ SubSeq(h, 1, n) = SubSeq(g, 1, n)
  BY <1>2, PrefixStays
<1>6. ASSUME NEW n \in 1 .. Len(w) + 1
      PROVE  SubSeq(h, 1, n + 1) = DoMove(SubSeq(h, 1, n), Make(h[n].key, Append(w, m)[n]))
  <2>1. CASE n \in 1 .. Len(w)
    <3>1. SubSeq(g, 1, n + 1) = DoMove(SubSeq(g, 1, n), Make(g[n].key, w[n]))
      BY <1>1, <2>1 DEF Stashed
    <3>2. n \in 1 .. Len(g) /\ n + 1 \in 1 .. Len(g)
      BY <1>2, <2>1
    <3> QED BY <1>4, <1>5, <2>1, <3>1, <3>2
  <2>2. CASE n = Len(w) + 1
    <3>1. n = Len(g) /\ n + 1 = Len(h) /\ n \in 1 .. Len(g)
      BY <1>2, <1>5, <2>2
    <3>2. SubSeq(h, 1, n + 1) = h /\ SubSeq(h, 1, n) = g
      BY <1>2, <1>5, <3>1, WholePrefix
    <3>3. h = DoMove(g, Make(g[n].key, m)) /\ h[n] = g[n] /\ Append(w, m)[n] = m
      BY <1>1, <1>2, <1>4, <1>5, <2>2, <3>1
    <3> QED BY <3>2, <3>3
  <2> QED BY <1>2, <2>1, <2>2
<1>7. h[1] = SetUp(rootFEN)
  BY <1>1, <1>2, <1>5 DEF Stashed
<1> HIDE DEF Stash
<1>8. Append(w, m) \in Seq([at : Places, era : Nat])
  BY <1>4 DEF Stash
<1> QED BY <1>1, <1>2, <1>4, <1>5, <1>6, <1>7, <1>8 DEF Stashed

\* A move of the replay does to the chain what it did to the game.
LEMMA ReplayLinks ==
  ASSUME HistoryInv, Replaying
  PROVE  /\ DoMove(chain, Make(st.key, rootMoves[rootLen])) = SubSeq(game, 1, rootLen + 1)
         /\ rootLen + 1 \in 1 .. Len(game)
<1>1. PICK c, g, r : c = chain /\ g = game /\ r = rootLen
  OBVIOUS
<1>2. /\ g \in Seq(StateInfo) /\ c \in Seq(StateInfo) /\ c # <<>>
      /\ r \in 1 .. Len(g) /\ r = Len(c) /\ SubSeq(c, 1, r) = SubSeq(g, 1, r)
      /\ Len(g) \in Nat /\ r \in 1 .. Len(rootMoves) /\ Len(g) = Len(rootMoves) + 1
  BY <1>1 DEF HistoryInv, Replayed, Replaying, Stashed, Chains
<1>3. c = SubSeq(g, 1, r)
  BY <1>2, WholePrefix
<1>4. st = g[r]
  <2>1. c[r] = g[r]
    BY <1>2, <1>3
  <2> QED BY <1>1, <1>2, <2>1 DEF st, Last
<1>5. SubSeq(game, 1, r + 1) = DoMove(SubSeq(game, 1, r), Make(game[r].key, rootMoves[r]))
  BY <1>2 DEF HistoryInv, Stashed
<1> QED BY <1>1, <1>2, <1>3, <1>4, <1>5

----------------------------------------------------------------------------
(* The invariant and what follows from it. *)

\* Every move, null move, take-back, replay and position command keeps both
\* chains linked as Position::set, do_move and do_null_move link them, and the
\* root's part of the search's chain that of the game.
THEOREM HistoryInvariant == HistorySpec => []HistoryInv
<1>1. HistoryInit => HistoryInv
  <2> SUFFICES ASSUME HistoryInit PROVE HistoryInv
    OBVIOUS
  <2>1. PICK p, clock : /\ p \in Placement /\ clock \in Nat
                        /\ game = <<SetUp([key |-> p, clock |-> clock])>>
    BY HistoryAssumption DEF HistoryInit, Placement, Color
  <2>2. game \in Chains
    BY <2>1, SetUpIsChain
  <2>3. Len(game) = 1 /\ game[1] = SetUp(rootFEN)
    BY <2>1 DEF HistoryInit, fen, SetUp
  <2>4. rootMoves = <<>> /\ chain = <<>> /\ rootLen = 0
    BY DEF HistoryInit
  <2>5. Stashed
    BY <2>3, <2>4 DEF Stashed
  <2> QED BY <2>2, <2>4, <2>5 DEF HistoryInv, Replayed
<1>2. HistoryInv /\ [HistoryNext]_historyVars => HistoryInv'
  <2> SUFFICES ASSUME HistoryInv, [HistoryNext]_historyVars PROVE HistoryInv'
    OBVIOUS
  <2>0. /\ game \in Seq(StateInfo) /\ Len(game) \in Nat /\ Len(game) >= 1
        /\ chain # <<>> => /\ chain \in Seq(StateInfo) /\ chain \in Chains
                           /\ Len(chain) \in Nat /\ Len(chain) >= 1
    BY DEF HistoryInv, Chains
  <2>1. CASE PlayMove
    <3>1. PICK m \in Legal(Last(game).key) :
            game' = DoMove(game, Make(Last(game).key, m)) /\ rootMoves' = Append(rootMoves, m)
      BY <2>1 DEF PlayMove
    <3>2. Make(Last(game).key, m) \in Successors(Last(game).key)
      BY DEF Successors
    <3>3. PICK e \in StateInfo : game' = Append(game, e) /\ game' \in Chains /\ Len(game') = Len(game) + 1
      BY <3>1, <3>2, DoMoveAppends DEF HistoryInv
    <3>4. Stashed'
      BY <2>1, <3>1, <3>3, StashGrows DEF HistoryInv, PlayMove
    <3> QED BY <2>1, <3>3, <3>4 DEF PlayMove, HistoryInv, Replayed
  <2>2. CASE setup_root
    <3>1. chain' = <<SetUp(rootFEN)>> /\ rootLen' = 1 /\ UNCHANGED <<game, rootFEN, rootMoves>>
      BY <2>2 DEF setup_root
    <3>2. Stashed'
      BY <3>1 DEF HistoryInv, Stashed
    <3>3. PICK g : g = game
      OBVIOUS
    <3>4. g \in Chains /\ g \in Seq(StateInfo) /\ 1 \in 1 .. Len(g)
      BY <2>0, <3>3 DEF HistoryInv
    <3>5. chain' = <<g[1]>>
      BY <3>1, <3>3 DEF HistoryInv, Stashed
    <3>6. SubSeq(g, 1, 1) = <<g[1]>> /\ Len(<<g[1]>>) = 1 /\ SubSeq(<<g[1]>>, 1, 1) = <<g[1]>>
      <4>1. g[1] \in StateInfo /\ g # <<>>
        BY <3>4
      <4>2. SubSeq(g, 1, 1) = <<g[1]>>
        BY <3>4, <4>1, FirstAlone
      <4>3. <<g[1]>> \in Seq(StateInfo) /\ Len(<<g[1]>>) = 1 /\ <<g[1]>> # <<>>
        BY <4>1
      <4> QED BY <4>2, <4>3, WholePrefix
    <3>7. chain' \in Chains /\ chain' # <<>>
      <4>1. SubSeq(g, 1, 1) \in Chains
        BY <3>4, PrefixIsChain
      <4> QED BY <3>5, <3>6, <4>1 DEF Chains
    <3>8. Replayed'
      BY <3>1, <3>3, <3>4, <3>5, <3>6 DEF Replayed
    <3> QED BY <3>1, <3>2, <3>7, <3>8 DEF HistoryInv
  <2>3. CASE ReplayMove
    <3>1. /\ chain' = SubSeq(game, 1, rootLen + 1) /\ rootLen + 1 \in 1 .. Len(game)
          /\ rootLen' = rootLen + 1 /\ UNCHANGED <<game, rootFEN, rootMoves>>
      BY <2>3, ReplayLinks DEF ReplayMove
    <3>2. PICK c, g, r : c = chain' /\ g = game /\ r = rootLen'
      OBVIOUS
    <3>3. g \in Chains /\ g \in Seq(StateInfo) /\ r \in 1 .. Len(g) /\ c = SubSeq(g, 1, r)
      BY <2>0, <3>1, <3>2 DEF HistoryInv
    <3>4. c \in Chains
      BY <3>3, PrefixIsChain
    <3>5. c \in Seq(StateInfo) /\ Len(c) = r /\ c # <<>>
      BY <3>3, <3>4 DEF Chains
    <3>6. SubSeq(c, 1, r) = SubSeq(g, 1, r)
      BY <3>3, <3>5, WholePrefix
    <3>7. Replayed'
      BY <3>1, <3>2, <3>3, <3>5, <3>6 DEF Replayed
    <3>8. Stashed'
      BY <3>1 DEF HistoryInv, Stashed
    <3> QED BY <3>1, <3>2, <3>4, <3>5, <3>7, <3>8 DEF HistoryInv
  <2>4. CASE SearchMove
    <3>1. PICK m \in Legal(st.key) : chain' = DoMove(chain, Make(st.key, m))
      BY <2>4 DEF SearchMove
    <3>2. /\ chain # <<>> /\ ~Replaying /\ chain \in Chains
          /\ UNCHANGED <<game, rootFEN, rootMoves, rootLen>>
      BY <2>0, <2>4 DEF SearchMove, Searches
    <3>3. Make(st.key, m) \in Successors(Last(chain).key)
      BY DEF Successors, st
    <3>4. PICK e \in StateInfo : chain' = Append(chain, e) /\ chain' \in Chains
      BY <3>1, <3>2, <3>3, DoMoveAppends
    <3>5. Replayed'
      BY <3>2, <3>4, RootStays
    <3>6. Stashed'
      BY <3>2 DEF HistoryInv, Stashed
    <3>7. chain' # <<>>
      BY <3>4 DEF Chains
    <3> QED BY <3>2, <3>4, <3>5, <3>6, <3>7 DEF HistoryInv
  <2>5. CASE NullMove
    <3>1. /\ chain # <<>> /\ ~Replaying /\ chain \in Chains /\ chain' = DoNullMove(chain)
          /\ UNCHANGED <<game, rootFEN, rootMoves, rootLen>>
      BY <2>0, <2>5 DEF NullMove, Searches
    <3>2. chain' \in Chains
      BY <3>1, DoNullMoveLinks
    <3>3. PICK e : chain' = Append(chain, e)
      BY <3>1 DEF DoNullMove
    <3>4. e \in StateInfo
      <4>1. PICK c, d : c = chain /\ d = chain'
        OBVIOUS
      <4>2. c \in Seq(StateInfo) /\ d \in Seq(StateInfo) /\ d = Append(c, e)
        BY <3>1, <3>2, <3>3, <4>1 DEF Chains
      <4>3. c \in Seq(StateInfo \cup {e}) /\ e \in StateInfo \cup {e}
        BY <4>2
      <4>4. Len(d) = Len(c) + 1 /\ d[Len(c) + 1] = e
        BY <4>2, <4>3
      <4> QED BY <4>2, <4>4
    <3>5. Replayed'
      BY <3>1, <3>3, <3>4, RootStays
    <3>6. Stashed' /\ chain' # <<>>
      BY <3>1, <3>2 DEF HistoryInv, Stashed, Chains
    <3> QED BY <3>1, <3>2, <3>5, <3>6 DEF HistoryInv
  <2>6. CASE Undo
    <3>1. /\ chain # <<>> /\ UNCHANGED <<game, rootFEN, rootMoves, rootLen>>
          /\ chain' = SubSeq(chain, 1, Len(chain) - 1) /\ Len(chain) - rootLen > 0
      BY <2>6 DEF Undo, Front, ply
    <3>2. PICK c, r, d : c = chain /\ r = rootLen /\ d = chain'
      OBVIOUS
    <3>3. /\ c \in Chains /\ c \in Seq(StateInfo) /\ r \in 1 .. Len(c) - 1 /\ Len(c) - 1 \in 1 .. Len(c)
          /\ d = SubSeq(c, 1, Len(c) - 1)
      BY <2>0, <3>1, <3>2 DEF HistoryInv, Replayed
    <3>4. d \in Chains /\ Len(d) = Len(c) - 1 /\ \A k \in 1 .. r : d[k] = c[k]
      BY <3>3, PrefixIsChain
    <3>5. d \in Seq(StateInfo) /\ d # <<>>
      BY <3>4 DEF Chains
    <3>6. SubSeq(d, 1, r) = SubSeq(c, 1, r)
      <4>1. SubSeq(d, 1, r) = [k \in 1 .. r |-> d[k]] /\ SubSeq(c, 1, r) = [k \in 1 .. r |-> c[k]]
        BY <3>3, <3>4, <3>5
      <4> QED BY <3>4, <4>1
    <3>7. ~Replaying
      BY <3>1, <3>2, <3>3 DEF HistoryInv, Replayed
    <3>8. ~Replaying'
      BY <3>1, <3>7 DEF Replaying
    <3>9. Replayed'
      <4>1. r \in 1 .. Len(game) /\ SubSeq(c, 1, r) = SubSeq(game, 1, r)
        BY <3>1, <3>2 DEF HistoryInv, Replayed
      <4>2. rootLen' = r /\ game' = game /\ chain' = d /\ rootLen' <= Len(d)
        BY <3>1, <3>2, <3>3, <3>4
      <4> QED BY <3>5, <3>6, <3>8, <4>1, <4>2 DEF Replayed
    <3>10. Stashed'
      BY <3>1 DEF HistoryInv, Stashed
    <3> QED BY <3>1, <3>2, <3>4, <3>5, <3>9, <3>10 DEF HistoryInv
  <2>7. CASE EndSearch
    BY <2>7 DEF EndSearch, HistoryInv, Stashed, Replayed
  <2>8. CASE UNCHANGED historyVars
    BY <2>8 DEF historyVars, HistoryInv, Stashed, Replayed, Replaying
  <2> QED BY <2>1, <2>2, <2>3, <2>4, <2>5, <2>6, <2>7, <2>8 DEF HistoryNext
<1> QED BY <1>1, <1>2, PTL DEF HistorySpec

\* Both chains always hold StateInfos, the root's part within the search's.
THEOREM TypeCorrect == HistorySpec => []HistoryTypeOK
<1>1. HistoryInv => HistoryTypeOK
  <2> SUFFICES ASSUME HistoryInv PROVE HistoryTypeOK
    OBVIOUS
  <2>1. game \in Seq(StateInfo) /\ game # <<>>
    BY DEF HistoryInv, Chains
  <2>2. chain \in Seq(StateInfo)
    <3>1. CASE chain = <<>>
      BY <3>1
    <3>2. CASE chain # <<>>
      BY <3>2 DEF HistoryInv, Chains
    <3> QED BY <3>1, <3>2
  <2>3. rootLen \in Nat /\ (chain = <<>> <=> rootLen = 0) /\ rootLen <= Len(chain)
    <3>1. CASE chain = <<>>
      BY <3>1 DEF HistoryInv, Replayed
    <3>2. CASE chain # <<>>
      <4>1. Len(game) \in Nat
        BY <2>1
      <4>2. rootLen \in 1 .. Len(game) /\ rootLen <= Len(chain)
        BY <3>2 DEF HistoryInv, Replayed
      <4> QED BY <3>2, <4>1, <4>2
    <3> QED BY <3>1, <3>2
  <2> QED BY <2>1, <2>2, <2>3 DEF HistoryTypeOK
<1> QED BY <1>1, HistoryInvariant, PTL

\* do_move never walks past the first StateInfo of a chain, however long the
\* game and whatever halfmove clock its FEN carried.
THEOREM NeverPastTheRoot == HistorySpec => []WindowInChain
<1>1. HistoryInv => WindowInChain
  <2> SUFFICES ASSUME HistoryInv, NEW c \in {game, chain}, NEW n \in DOMAIN c
               PROVE  Window(c[n]) < n
    BY DEF WindowInChain
  <2>1. c \in Chains
    BY DEF HistoryInv
  <2>2. c[n] \in StateInfo /\ n \in Nat /\ c[n].pliesFromNull < n
    BY <2>1 DEF Chains, Linked, Counted
  <2> QED BY <2>2 DEF StateInfo, Window, Lesser
<1> QED BY <1>1, HistoryInvariant, PTL

\* The repetition that do_move stores is what the whole history says, for
\* every sequence of moves, null moves and take-backs.
THEOREM RepetitionIsExact == HistorySpec => []RepetitionExact
<1>1. HistoryInv => RepetitionExact
  <2> SUFFICES ASSUME HistoryInv, NEW c \in {game, chain}, NEW n \in DOMAIN c
               PROVE  c[n].repetition = Recurrence(c, n)
    BY DEF RepetitionExact
  <2>1. c \in Chains
    BY DEF HistoryInv
  <2> QED BY <2>1 DEF Chains, Linked
<1> QED BY <1>1, HistoryInvariant, PTL

\* The search scores a node as drawn just when the history calls for it.
THEOREM DrawsAreExact == HistorySpec => []DrawnExactly
<1>1. HistoryInv => DrawnExactly
  <2> SUFFICES ASSUME HistoryInv, chain # <<>>, ply > 0
               PROVE  is_draw(st, ply)
                        <=> \/ st.rule50 >= 100
                            \/ \E j \in Earlier(chain, Len(chain)) : j > rootLen
                            \/ \E i, j \in Earlier(chain, Len(chain)) : i # j
    BY DEF DrawnExactly
  <2>1. PICK n : n = Len(chain)
    OBVIOUS
  <2>2. chain \in Chains /\ n \in Nat /\ n >= 1 /\ rootLen \in Nat /\ ply = n - rootLen
    <3>1. Len(game) \in Nat /\ chain \in Chains /\ Len(chain) \in Nat /\ Len(chain) >= 1
      BY DEF HistoryInv, Chains
    <3>2. rootLen \in 1 .. Len(game)
      BY DEF HistoryInv, Replayed
    <3> QED BY <2>1, <3>1, <3>2 DEF ply
  <2>3. st = chain[n] /\ st.repetition = Recurrence(chain, n)
    BY <2>1, <2>2 DEF st, Last, Chains, Linked
  <2>4. PICK seen : seen = Earlier(chain, n)
    OBVIOUS
  <2>5. seen \in SUBSET (1 .. n - 1)
    BY <2>4 DEF Earlier
  <2>6. (st.repetition # 0 /\ st.repetition < ply)
          <=> (\E j \in seen : j > rootLen) \/ (\E i, j \in seen : i # j)
    <3>1. CASE seen = {}
      BY <2>3, <2>4, <3>1 DEF Recurrence
    <3>2. CASE seen # {}
      <4>1. PICK m : m = Max(seen)
        OBVIOUS
      <4>2. m \in seen
        BY <2>2, <2>5, <3>2, <4>1, GreatestIndex
      <4>3. st.repetition = IF seen = {m} THEN n - m ELSE m - n
        BY <2>3, <2>4, <3>2, <4>1 DEF Recurrence
      <4>4. m \in Nat /\ m < n
        BY <2>2, <2>5, <4>2
      <4>5. CASE seen = {m}
        BY <2>2, <4>3, <4>4, <4>5
      <4>6. CASE seen # {m}
        <5>1. PICK j \in seen : j # m
          BY <4>2, <4>6
        <5>2. \E i, k \in seen : i # k
          BY <4>2, <5>1
        <5> QED BY <2>2, <4>3, <4>4, <4>6, <5>2
      <4> QED BY <4>5, <4>6
    <3> QED BY <3>1, <3>2
  <2> QED BY <2>1, <2>4, <2>6 DEF is_draw
<1> QED BY <1>1, HistoryInvariant, PTL

----------------------------------------------------------------------------
(* The root of the search. *)

\* Replayed from the FEN and the moves, and whatever is made and unmade above it, the
\* search stands on the history of the game, on all of it as long as rootStates has
\* room for it: fen, setup_root, do_move, undo_move.
THEOREM RootIsTheGameInvariant == HistorySpec => [](Len(game) <= RootStates => RootIsTheGame)
<1>1. HistoryInv => (Len(game) <= RootStates => RootIsTheGame)
  <2> SUFFICES ASSUME HistoryInv, Len(game) <= RootStates, chain # <<>>, ~Replaying
               PROVE  SubSeq(chain, 1, rootLen) = game
    BY DEF RootIsTheGame
  <2>1. PICK g : g = game
    OBVIOUS
  <2>2. g \in Seq(StateInfo) /\ g # <<>> /\ Len(g) \in Nat /\ rootLen \in 1 .. Len(g)
    BY <2>1 DEF HistoryInv, Chains, Replayed
  <2>3. Len(g) = Len(rootMoves) + 1 /\ Len(rootMoves) \in Nat
    BY <2>1 DEF HistoryInv, Stashed
  <2>4. rootLen = Len(g)
    BY <2>1, <2>2, <2>3, HistoryAssumption DEF Replaying
  <2>5. SubSeq(g, 1, Len(g)) = g
    BY <2>2, WholePrefix
  <2> QED BY <2>1, <2>4, <2>5 DEF HistoryInv, Replayed
<1> QED BY <1>1, HistoryInvariant, PTL
=============================================================================
