------------------------- MODULE WizardThreadsProofs -------------------------
(***************************************************************************)
(* Proofs about the wizard's thread pool, for any sizes of the pool, any   *)
(* numbers of commands and of iterations and any kinds of searches.        *)
(*                                                                         *)
(* First what the lists of operations are: how taking the first operation  *)
(* away, putting one before and joining two lists affect the shapes of     *)
(* WizardThreadsInv, and that the commands and the jobs have these shapes. *)
(* Induction over a list is by the least number for which something fails. *)
(* Then what each step does to the lists and threads, the invariant step   *)
(* by step, and the properties that follow from it.                        *)
(***************************************************************************)
EXTENDS WizardThreadsInv, FiniteSetTheorems, TLAPS

-----------------------------------------------------------------------------
(* The sizes of the pool. *)

\* A finite set of numbers that is not empty has a greatest element.
LEMMA GreatestElement ==
  ASSUME NEW S \in SUBSET Nat, IsFiniteSet(S), S # {}
  PROVE  Max(S) \in S /\ \A y \in S : Max(S) >= y
<1> DEFINE R == StrictSubsetOrdering(Nat)
           Bad == {T \in FiniteSubsetsOf(Nat) : T # {} /\ ~\E x \in T : \A y \in T : x >= y}
<1>1. IsWellFoundedOn(R, FiniteSubsetsOf(Nat))
  BY FS_StrictSubsetOrderingWellFounded
<1>2. Bad = {}
  <2> SUFFICES ASSUME Bad # {} PROVE FALSE
    OBVIOUS
  <2>1. PICK T \in Bad : \A U \in Bad : <<U, T>> \notin R
    <3>1. Bad \subseteq FiniteSubsetsOf(Nat)
      OBVIOUS
    <3> HIDE DEF Bad, R
    <3> QED BY <1>1, <3>1, WFMin
  <2>2. T \in SUBSET Nat /\ IsFiniteSet(T) /\ T # {}
    BY DEF FiniteSubsetsOf
  <2>3. PICK x \in T : TRUE
    BY <2>2
  <2> DEFINE U == T \ {x}
  <2>4. U \in FiniteSubsetsOf(Nat)
    BY <2>2, FS_RemoveElement DEF FiniteSubsetsOf
  <2>5. <<U, T>> \in R
    BY <2>2, <2>3 DEF StrictSubsetOrdering
  <2>6. U = {} \/ \E z \in U : \A y \in U : z >= y
    BY <2>1, <2>4, <2>5
  <2>7. \E z \in T : \A y \in T : z >= y
    <3>1. CASE U = {}
      BY <2>2, <2>3, <3>1
    <3>2. CASE \E z \in U : \A y \in U : z >= y
      <4>1. PICK z \in U : \A y \in U : z >= y
        BY <3>2
      <4>2. z \in T /\ z \in Nat /\ x \in Nat /\ \A y \in T : y \in Nat /\ (y = x \/ y \in U)
        BY <2>2, <2>3
      <4>3. CASE z >= x
        BY <4>1, <4>2, <4>3
      <4>4. CASE x >= z
        BY <2>3, <4>1, <4>2, <4>4
      <4> QED BY <4>2, <4>3, <4>4
    <3> QED BY <2>6, <3>1, <3>2
  <2> QED BY <2>1, <2>7
<1>3. S \in FiniteSubsetsOf(Nat)
  BY DEF FiniteSubsetsOf
<1>4. \E x \in S : \A y \in S : x >= y
  BY <1>2, <1>3
<1> QED BY <1>4 DEF Max

\* A set of numbers that is not empty has a least element.
LEMMA LeastNumber ==
  ASSUME NEW S \in SUBSET Nat, S # {}
  PROVE  \E x \in S : \A y \in S : x <= y
<1> DEFINE Below == {0 .. k : k \in S}
           R == StrictSubsetOrdering(Nat)
<1>1. IsWellFoundedOn(R, FiniteSubsetsOf(Nat))
  BY FS_StrictSubsetOrderingWellFounded
<1>2. Below \subseteq FiniteSubsetsOf(Nat) /\ Below # {}
  <2>1. \A k \in S : 0 .. k \in SUBSET Nat /\ IsFiniteSet(0 .. k)
    BY FS_Interval
  <2> QED BY <2>1 DEF FiniteSubsetsOf
<1>3. PICK I \in Below : \A J \in Below : <<J, I>> \notin R
  <2> HIDE DEF Below, R
  <2> QED BY <1>1, <1>2, WFMin
<1>4. PICK x \in S : I = 0 .. x
  OBVIOUS
<1>5. ASSUME NEW y \in S, y < x PROVE FALSE
  <2>1. 0 .. y \subseteq 0 .. x /\ 0 .. y # 0 .. x
    BY <1>5
  <2>2. <<0 .. y, 0 .. x>> \in R
    BY <2>1 DEF StrictSubsetOrdering
  <2> QED BY <1>3, <1>4, <2>2
<1> QED BY <1>5

\* Induction up to a number, on the set of those for which something holds.
LEMMA UpTo ==
  ASSUME NEW n \in Nat \ {0}, NEW S, S \subseteq 1 .. n, 1 \in S,
         \A m \in 2 .. n : m - 1 \in S => m \in S
  PROVE  n \in S
<1> SUFFICES ASSUME n \notin S PROVE FALSE
  OBVIOUS
<1> DEFINE B == {m \in 1 .. n : m \notin S}
<1>1. PICK m \in B : \A k \in B : m <= k
  <2>1. B \in SUBSET Nat /\ n \in B
    OBVIOUS
  <2> QED BY <2>1, LeastNumber
<1>2. m \in 2 .. n /\ m - 1 \in 1 .. n /\ ~(m <= m - 1)
  OBVIOUS
<1>3. m - 1 \in S
  BY <1>1, <1>2
<1> QED BY <1>2, <1>3

\* Threads are numbered from 1, the main one, and the UCI thread is not one of them.
LEMMA ThreadNumbers ==
  /\ Max(Sizes) \in Nat \ {0} /\ \A n \in Sizes : n \in Nat \ {0} /\ n <= Max(Sizes)
  /\ Main \in Thread /\ Thread \subseteq Nat \ {0} /\ Uci \notin Thread
  /\ \A n \in 0 .. Max(Sizes) : 1 .. n \subseteq Thread
<1>1. Max(Sizes) \in Sizes /\ \A n \in Sizes : Max(Sizes) >= n
  BY SizesAssumption, GreatestElement
<1>2. Max(Sizes) \in Nat \ {0} /\ \A n \in Sizes : n \in Nat \ {0} /\ n <= Max(Sizes)
  BY <1>1, SizesAssumption
<1>3. \A n \in 0 .. Max(Sizes) : 1 .. n \subseteq Thread
  BY <1>2 DEF Thread
<1> QED BY <1>2, <1>3 DEF Thread, Main, Uci

-----------------------------------------------------------------------------
(* Lists of operations, and what doing the first and putting one before it  *)
(* make of them.                                                            *)

\* The rest of a list is the list moved up by one.
LEMMA Shift ==
  ASSUME NEW L \in Seq(Operations), L # <<>>
  PROVE  /\ Head(L) \in Operations /\ Head(L) = L[1]
         /\ Tail(L) \in Seq(Operations)
         /\ Len(L) \in Nat \ {0} /\ Len(Tail(L)) = Len(L) - 1
         /\ \A i \in 1 .. Len(Tail(L)) : Tail(L)[i] = L[i + 1]
  OBVIOUS

\* Only the empty list has no element.
LEMMA Empty ==
  ASSUME NEW L \in Seq(Operations)
  PROVE  Len(L) \in Nat /\ (L = <<>> <=> Len(L) = 0)
  OBVIOUS

\* The members of a list are its elements.
LEMMA Members ==
  ASSUME NEW L \in Seq(Operations), NEW x
  PROVE  x \in ToSet(L) <=> \E i \in 1 .. Len(L) : x = L[i]
  BY DEF ToSet

\* The members of a list are its first and those of the rest.
LEMMA TailMembers ==
  ASSUME NEW L \in Seq(Operations), L # <<>>
  PROVE  \A x : x \in ToSet(L) <=> x = Head(L) \/ x \in ToSet(Tail(L))
<1> TAKE x
<1>1. x \in ToSet(L) <=> \E i \in 1 .. Len(L) : x = L[i]
  BY Members
<1>2. x \in ToSet(Tail(L)) <=> \E i \in 1 .. Len(Tail(L)) : x = Tail(L)[i]
  <2>1. Tail(L) \in Seq(Operations)
    BY Shift
  <2> QED BY <2>1, Members
<1>3. ASSUME NEW i \in 1 .. Len(L), i # 1, x = L[i]
      PROVE  \E j \in 1 .. Len(Tail(L)) : x = Tail(L)[j]
  <2>1. i - 1 \in 1 .. Len(Tail(L)) /\ Tail(L)[i - 1] = L[i]
    BY <1>3, Shift
  <2> QED BY <1>3, <2>1
<1>4. ASSUME NEW j \in 1 .. Len(Tail(L)), x = Tail(L)[j]
      PROVE  \E i \in 1 .. Len(L) : x = L[i]
  <2>1. j + 1 \in 1 .. Len(L) /\ Tail(L)[j] = L[j + 1]
    BY Shift
  <2> QED BY <1>4, <2>1
<1>5. 1 \in 1 .. Len(L) /\ Head(L) = L[1]
  BY Shift
<1> QED BY <1>1, <1>2, <1>3, <1>4, <1>5

\* What is in a list, by its first and the rest.
LEMMA TailHas ==
  ASSUME NEW L \in Seq(Operations), L # <<>>
  PROVE  /\ \A name : Has(L, name) <=> Head(L).op = name \/ Has(Tail(L), name)
         /\ \A t : Awaits(L, t) <=> (Head(L).op = "wait" /\ Head(L).t = t) \/ Awaits(Tail(L), t)
         /\ \A t : SetsUp(L, t) <=> \/ Head(L).op = "run" /\ Head(L).job = "setup" /\ Head(L).t = t
                                    \/ SetsUp(Tail(L), t)
<1>1. \A x : x \in ToSet(L) <=> x = Head(L) \/ x \in ToSet(Tail(L))
  BY TailMembers
<1> QED BY <1>1 DEF Has, Awaits, SetsUp

\* Who is waited for in a list is, in the rest of it.
LEMMA TailAwaited ==
  ASSUME NEW L \in Seq(Operations), L # <<>>, NEW k \in 1 .. Len(Tail(L)), Awaited(L, k + 1)
  PROVE  Awaited(Tail(L), k)
<1>1. PICK j \in k + 2 .. Len(L) : L[j].op = "wait" /\ L[j].t = L[k + 1].t
  BY Shift DEF Awaited
<1>2. j - 1 \in k + 1 .. Len(Tail(L)) /\ Tail(L)[j - 1] = L[j] /\ Tail(L)[k] = L[k + 1]
  BY <1>1, Shift
<1> QED BY <1>1, <1>2 DEF Awaited

\* The rest of a list that starts no search starts none.
LEMMA TailQuiet ==
  ASSUME NEW L \in Seq(Operations), L # <<>>, QuietList(L)
  PROVE  QuietList(Tail(L))
<1> SUFFICES ASSUME NEW k \in 1 .. Len(Tail(L))
             PROVE  /\ Tail(L)[k].op \in UciOps \ {"begin"}
                    /\ Tail(L)[k].op = "run" => Tail(L)[k].job \notin {"setup", "search"}
                    /\ Tail(L)[k].op = "run" /\ Tail(L)[k].job # "none" => Awaited(Tail(L), k)
  BY DEF QuietList
<1>1. k + 1 \in 1 .. Len(L) /\ Tail(L)[k] = L[k + 1]
  BY Shift
<1> QED BY <1>1, TailAwaited DEF QuietList

\* Until the search is given out, the rest of a go is still one.
LEMMA TailGo ==
  ASSUME NEW L \in Seq(Operations), GoList(L), Head(L).op # "run" \/ Head(L).job # "search"
  PROVE  GoList(Tail(L))
<1> DEFINE M == Tail(L)
<1>0. L # <<>>
  BY DEF GoList
<1>1. Len(L) > 1 /\ M # <<>> /\ M[Len(M)] = L[Len(L)]
  <2>1. Len(L) # 1
    BY <1>0, Shift DEF GoList
  <2>2. Len(L) \in Nat \ {0} /\ Len(M) = Len(L) - 1
    BY <1>0, Shift
  <2>4. Len(L) > 1 /\ Len(M) + 1 = Len(L) /\ Len(M) \in 1 .. Len(M)
    BY <2>1, <2>2
  <2>3. M[Len(M)] = L[Len(M) + 1]
    BY <1>0, <2>4, Shift
  <2>5. M # <<>>
    <3>1. Len(<<>>) = 0
      OBVIOUS
    <3> HIDE DEF M
    <3> QED BY <2>4, <3>1
  <2> QED BY <2>3, <2>4, <2>5
<1>2. ASSUME NEW k \in 1 .. Len(M) - 1
      PROVE  \/ M[k].op \in {"wait", "notify"}
             \/ M[k].op = "run" /\ M[k].job = "setup" /\ Awaited(M, k)
             \/ M[k].op = "begin" /\ \A j \in 1 .. k - 1 : M[j].op = "wait"
  <2>1. k + 1 \in 1 .. Len(L) - 1 /\ k \in 1 .. Len(M) /\ M[k] = L[k + 1]
    BY <1>0, Shift
  <2>2. ASSUME \A j \in 1 .. (k + 1) - 1 : L[j].op = "wait"
        PROVE  \A j \in 1 .. k - 1 : M[j].op = "wait"
    <3> TAKE j \in 1 .. k - 1
    <3>1. j + 1 \in 1 .. (k + 1) - 1 /\ M[j] = L[j + 1]
      BY <1>0, Shift
    <3> QED BY <2>2, <3>1
  <2> QED BY <1>0, <2>1, <2>2, TailAwaited DEF GoList
<1> QED BY <1>1, <1>2 DEF GoList

\* Until the answer, the rest of a search is still one.
LEMMA TailSearch ==
  ASSUME NEW L \in Seq(Operations), NEW n, SearchList(L, n), Head(L).op # "answer"
  PROVE  SearchList(Tail(L), n)
<1> DEFINE M == Tail(L)
<1>0. L # <<>>
  BY DEF SearchList
<1>1. Len(L) > 1 /\ M # <<>> /\ M[Len(M)] = L[Len(L)]
  <2>1. Len(L) # 1
    BY <1>0, Shift DEF SearchList
  <2>2. Len(L) \in Nat \ {0} /\ Len(M) = Len(L) - 1
    BY <1>0, Shift
  <2>4. Len(L) > 1 /\ Len(M) + 1 = Len(L) /\ Len(M) \in 1 .. Len(M)
    BY <2>1, <2>2
  <2>3. M[Len(M)] = L[Len(M) + 1]
    BY <1>0, <2>4, Shift
  <2>5. M # <<>>
    <3>1. Len(<<>>) = 0
      OBVIOUS
    <3> HIDE DEF M
    <3> QED BY <2>4, <3>1
  <2> QED BY <2>3, <2>4, <2>5
<1>2. ASSUME NEW k \in 1 .. Len(M) - 1
      PROVE  /\ M[k].op \in MainOps
             /\ M[k].op = "run" => M[k].job = "search" /\ M[k].t \in 2 .. n /\ Awaited(M, k)
  <2>1. k + 1 \in 1 .. Len(L) - 1 /\ k \in 1 .. Len(M) /\ M[k] = L[k + 1]
    BY <1>0, Shift
  <2> QED BY <1>0, <2>1, TailAwaited DEF SearchList
<1> QED BY <1>1, <1>2 DEF SearchList

\* The busy wait is still before the order to stop in the rest of the list.
LEMMA TailHolding ==
  ASSUME NEW L \in Seq(Operations), L # <<>>, Holding(L), Head(L).op # "hold"
  PROVE  Holding(Tail(L))
<1>1. PICK i \in 1 .. Len(L) : L[i].op = "hold" /\ \A j \in 1 .. i - 1 : L[j].op # "raise"
  BY DEF Holding
<1>2. i - 1 \in 1 .. Len(Tail(L)) /\ Tail(L)[i - 1].op = "hold"
  BY <1>1, Shift
<1>3. ASSUME NEW j \in 1 .. (i - 1) - 1 PROVE Tail(L)[j].op # "raise"
  <2>1. j + 1 \in 1 .. i - 1 /\ j \in 1 .. Len(Tail(L)) /\ Tail(L)[j] = L[j + 1]
    BY Shift
  <2> QED BY <1>1, <2>1
<1> QED BY <1>2, <1>3 DEF Holding

\* The longer list, seen from the list.
LEMMA Longer ==
  ASSUME NEW L \in Seq(Operations), NEW o \in Operations
  PROVE  /\ <<o>> \o L \in Seq(Operations) /\ <<o>> \o L # <<>>
         /\ Head(<<o>> \o L) = o /\ Tail(<<o>> \o L) = L
         /\ Len(L) \in Nat /\ Len(<<o>> \o L) = Len(L) + 1
         /\ (<<o>> \o L)[1] = o
         /\ \A i \in 1 .. Len(L) : (<<o>> \o L)[i + 1] = L[i]
  OBVIOUS

\* What is in the longer list.
LEMMA LongerHas ==
  ASSUME NEW L \in Seq(Operations), NEW o \in Operations
  PROVE  /\ \A name : Has(<<o>> \o L, name) <=> o.op = name \/ Has(L, name)
         /\ \A t : Awaits(<<o>> \o L, t) <=> (o.op = "wait" /\ o.t = t) \/ Awaits(L, t)
         /\ \A t : SetsUp(<<o>> \o L, t) <=> \/ o.op = "run" /\ o.job = "setup" /\ o.t = t
                                             \/ SetsUp(L, t)
         /\ \A x : x \in ToSet(<<o>> \o L) <=> x = o \/ x \in ToSet(L)
<1> DEFINE M == <<o>> \o L
<1>1. M \in Seq(Operations) /\ M # <<>> /\ Head(M) = o /\ Tail(M) = L
  BY Longer
<1> HIDE DEF M
<1>2. /\ \A name : Has(M, name) <=> o.op = name \/ Has(L, name)
      /\ \A t : Awaits(M, t) <=> (o.op = "wait" /\ o.t = t) \/ Awaits(L, t)
      /\ \A t : SetsUp(M, t) <=> (o.op = "run" /\ o.job = "setup" /\ o.t = t) \/ SetsUp(L, t)
      /\ \A x : x \in ToSet(M) <=> x = o \/ x \in ToSet(L)
  BY <1>1, TailHas, TailMembers
<1> QED BY <1>2 DEF M

\* Who is waited for in a list is, in the longer one.
LEMMA LongerAwaited ==
  ASSUME NEW L \in Seq(Operations), NEW o \in Operations, NEW k \in 1 .. Len(L), Awaited(L, k)
  PROVE  Awaited(<<o>> \o L, k + 1)
<1>1. PICK j \in k + 1 .. Len(L) : L[j].op = "wait" /\ L[j].t = L[k].t
  BY DEF Awaited
<1>2. j \in 1 .. Len(L) /\ j + 1 \in (k + 1) + 1 .. Len(L) + 1
  BY Longer
<1> QED BY <1>1, <1>2, Longer DEF Awaited

\* A list stays one that starts no search with an operation that gives no job before it.
LEMMA LongerQuiet ==
  ASSUME NEW L \in Seq(Operations), NEW o \in Operations,
         QuietList(L), o.op \in UciOps \ {"begin", "run"}
  PROVE  QuietList(<<o>> \o L)
<1> DEFINE M == <<o>> \o L
<1> SUFFICES ASSUME NEW k \in 1 .. Len(M)
             PROVE  /\ M[k].op \in UciOps \ {"begin"}
                    /\ M[k].op = "run" => M[k].job \notin {"setup", "search"}
                    /\ M[k].op = "run" /\ M[k].job # "none" => Awaited(M, k)
  BY DEF QuietList
<1>1. CASE k = 1
  BY <1>1, Longer
<1>2. CASE k # 1
  <2>1. k - 1 \in 1 .. Len(L) /\ M[k] = L[k - 1] /\ (k - 1) + 1 = k
    BY <1>2, Longer
  <2>2. Awaited(L, k - 1) => Awaited(M, k)
    BY <2>1, LongerAwaited
  <2> HIDE DEF M
  <2> QED BY <2>1, <2>2 DEF QuietList
<1> QED BY <1>1, <1>2

\* A go stays one with a wait before it, or what comes of its first operation.
LEMMA LongerGo ==
  ASSUME NEW L \in Seq(Operations), NEW o \in Operations, GoList(L),
         o.op = "wait" \/ (o.op \in {"notify", "begin"} /\ ~Has(L, "begin"))
  PROVE  GoList(<<o>> \o L)
<1> DEFINE M == <<o>> \o L
<1>1. /\ Len(L) \in Nat \ {0} /\ Len(M) = Len(L) + 1 /\ M[1] = o
      /\ \A i \in 1 .. Len(L) : M[i + 1] = L[i]
  BY Shift, Longer DEF GoList
<1>2. M # <<>> /\ M[Len(M)] = L[Len(L)]
  BY <1>1, Longer
<1>3. ASSUME NEW k \in 1 .. Len(M) - 1
      PROVE  \/ M[k].op \in {"wait", "notify"}
             \/ M[k].op = "run" /\ M[k].job = "setup" /\ Awaited(M, k)
             \/ M[k].op = "begin" /\ \A j \in 1 .. k - 1 : M[j].op = "wait"
  <2>1. CASE k = 1
    BY <1>1, <2>1
  <2>2. CASE k # 1
    <3>1. PICK i \in 1 .. Len(L) - 1 : k = i + 1
      <4>1. k - 1 \in 1 .. Len(L) - 1 /\ k = (k - 1) + 1
        BY <1>1, <2>2
      <4> QED BY <4>1
    <3>2. i \in 1 .. Len(L) /\ M[k] = L[i]
      BY <1>1, <3>1
    <3>3. Awaited(L, i) => Awaited(M, k)
      BY <3>1, <3>2, LongerAwaited
    <3>4. ASSUME L[i].op = "begin", \A j \in 1 .. i - 1 : L[j].op = "wait"
          PROVE  \A j \in 1 .. k - 1 : M[j].op = "wait"
      <4>1. Has(L, "begin")
        BY <3>2, <3>4, Members DEF Has
      <4>2. ASSUME NEW j \in 1 .. k - 1, j # 1 PROVE M[j].op = "wait"
        <5>1. j - 1 \in 1 .. i - 1 /\ j - 1 \in 1 .. Len(L) /\ j = (j - 1) + 1
          BY <1>1, <3>1, <4>2
        <5> QED BY <1>1, <3>4, <5>1
      <4> QED BY <1>1, <4>1, <4>2
    <3> HIDE DEF M
    <3> QED BY <3>1, <3>2, <3>3, <3>4 DEF GoList
  <2> QED BY <2>1, <2>2
<1> HIDE DEF M
<1>4. GoList(M)
  BY <1>2, <1>3 DEF GoList
<1> QED BY <1>4 DEF M

\* A search stays one with an operation that gives no job before it.
LEMMA LongerSearch ==
  ASSUME NEW L \in Seq(Operations), NEW o \in Operations, NEW n,
         SearchList(L, n), o.op \in MainOps \ {"run"}
  PROVE  SearchList(<<o>> \o L, n)
<1> DEFINE M == <<o>> \o L
<1>1. Len(L) \in Nat \ {0} /\ Len(M) = Len(L) + 1
  BY Shift, Longer DEF SearchList
<1>2. M # <<>> /\ M[Len(M)] = L[Len(L)]
  BY <1>1, Longer
<1>3. ASSUME NEW k \in 1 .. Len(M) - 1
      PROVE  /\ M[k].op \in MainOps
             /\ M[k].op = "run" => M[k].job = "search" /\ M[k].t \in 2 .. n /\ Awaited(M, k)
  <2>1. CASE k = 1
    BY <2>1, Longer
  <2>2. CASE k # 1
    <3>1. k - 1 \in 1 .. Len(L) - 1 /\ k - 1 \in 1 .. Len(L) /\ M[k] = L[k - 1] /\ (k - 1) + 1 = k
      BY <1>1, <2>2, Longer
    <3>2. Awaited(L, k - 1) => Awaited(M, k)
      BY <3>1, LongerAwaited
    <3> HIDE DEF M
    <3> QED BY <3>1, <3>2 DEF SearchList
  <2> QED BY <2>1, <2>2
<1> HIDE DEF M
<1>4. SearchList(M, n)
  BY <1>2, <1>3 DEF SearchList
<1> QED BY <1>4 DEF M

\* The busy wait stays before the order to stop.
LEMMA LongerHolding ==
  ASSUME NEW L \in Seq(Operations), NEW o \in Operations, Holding(L), o.op # "raise"
  PROVE  Holding(<<o>> \o L)
<1> DEFINE M == <<o>> \o L
<1>1. PICK i \in 1 .. Len(L) : L[i].op = "hold" /\ \A j \in 1 .. i - 1 : L[j].op # "raise"
  BY DEF Holding
<1>2. i + 1 \in 1 .. Len(M) /\ M[i + 1].op = "hold"
  BY <1>1, Longer
<1>3. ASSUME NEW j \in 1 .. (i + 1) - 1 PROVE M[j].op # "raise"
  <2>1. CASE j = 1
    BY <2>1, Longer
  <2>2. CASE j # 1
    <3>1. j - 1 \in 1 .. i - 1 /\ j - 1 \in 1 .. Len(L) /\ M[j] = L[j - 1]
      BY <2>2, Longer
    <3> QED BY <1>1, <3>1
  <2> QED BY <2>1, <2>2
<1> QED BY <1>2, <1>3 DEF Holding

-----------------------------------------------------------------------------
(* What the first operation of a list says about the rest.                  *)

\* Who gets the first job is waited for in the rest.
LEMMA HeadAwaited ==
  ASSUME NEW L \in Seq(Operations), L # <<>>, Awaited(L, 1)
  PROVE  Awaits(Tail(L), Head(L).t)
<1>1. PICK j \in 1 + 1 .. Len(L) : L[j].op = "wait" /\ L[j].t = L[1].t
  BY DEF Awaited
<1>2. j - 1 \in 1 .. Len(Tail(L)) /\ Tail(L)[j - 1] = L[j] /\ Tail(L) \in Seq(Operations)
  BY <1>1, Shift
<1>3. L[j] \in ToSet(Tail(L))
  BY <1>2, Members
<1> QED BY <1>1, <1>3, Shift DEF Awaits

\* The first operation of a list that starts no search.
LEMMA QuietHead ==
  ASSUME NEW L \in Seq(Operations), L # <<>>, QuietList(L)
  PROVE  /\ Head(L).op \in UciOps \ {"begin"}
         /\ Head(L).op = "run" => Head(L).job \notin {"setup", "search"}
         /\ Head(L).op = "run" /\ Head(L).job # "none" => Awaits(Tail(L), Head(L).t)
<1>1. 1 \in 1 .. Len(L) /\ Head(L) = L[1]
  BY Shift
<1> QED BY <1>1, HeadAwaited DEF QuietList

\* The first operation of a go; a go is not a list that starts no search.
LEMMA GoHead ==
  ASSUME NEW L \in Seq(Operations), GoList(L)
  PROVE  /\ Head(L).op \in {"wait", "notify", "run", "begin"}
         /\ Head(L).op = "run" => \/ Head(L).job = "setup" /\ Awaits(Tail(L), Head(L).t)
                                  \/ /\ Head(L).job = "search" /\ Head(L).t = Main
                                     /\ Tail(L) = <<>>
         /\ Head(L).op # "wait" => ~Has(Tail(L), "begin")
         /\ ~QuietList(L)
<1>0. L # <<>>
  BY DEF GoList
<1>1. /\ Len(L) \in Nat \ {0} /\ Head(L) = L[1] /\ Tail(L) \in Seq(Operations)
      /\ Len(Tail(L)) = Len(L) - 1
  BY <1>0, Shift
<1>2. CASE Len(L) = 1
  <2>1. Tail(L) = <<>>
    <3>1. Len(Tail(L)) = 0
      BY <1>1, <1>2
    <3> QED BY <1>1, <3>1, Empty, Zenon
  <2>2. ~Has(Tail(L), "begin")
    BY <2>1 DEF Has, ToSet
  <2> QED BY <1>1, <1>2, <2>1, <2>2 DEF GoList, QuietList
<1>3. CASE Len(L) # 1
  <2>1. 1 \in 1 .. Len(L) - 1 /\ Len(L) \in 1 .. Len(L)
    BY <1>1, <1>3
  <2>2. Head(L).op # "wait" => ~Has(Tail(L), "begin")
    <3> SUFFICES ASSUME L[1].op # "wait", NEW x \in ToSet(Tail(L)), x.op = "begin" PROVE FALSE
      BY <1>1 DEF Has
    <3>1. PICK i \in 1 .. Len(Tail(L)) : x = Tail(L)[i]
      BY <1>1, Members
    <3>2. i + 1 \in 1 .. Len(L) /\ L[i + 1] = x /\ 1 \in 1 .. (i + 1) - 1
      BY <1>0, <1>1, <3>1, Shift
    <3>3. i + 1 # Len(L)
      BY <3>2 DEF GoList
    <3>4. i + 1 \in 1 .. Len(L) - 1
      <4> DEFINE n == Len(L)
      <4>1. n \in Nat /\ i + 1 \in 1 .. n /\ i + 1 # n
        BY <1>1, <3>2, <3>3
      <4> HIDE DEF n
      <4>2. i + 1 \in 1 .. n - 1
        BY <4>1
      <4> QED BY <4>2 DEF n
    <3> QED BY <3>2, <3>4 DEF GoList
  <2>3. L[1].op = "run" => L[1].job = "setup" /\ Awaited(L, 1)
    BY <2>1 DEF GoList
  <2>4. L[1].op \in {"wait", "notify", "run", "begin"}
    BY <2>1 DEF GoList
  <2>5. ~QuietList(L)
    BY <2>1 DEF GoList, QuietList
  <2> QED BY <1>0, <1>1, <2>2, <2>3, <2>4, <2>5, HeadAwaited
<1> QED BY <1>2, <1>3

\* The first operation of a main thread's search.
LEMMA SearchHead ==
  ASSUME NEW L \in Seq(Operations), NEW n, SearchList(L, n)
  PROVE  /\ Head(L).op \in MainOps \cup {"answer"}
         /\ Head(L).op = "run" => /\ Head(L).job = "search" /\ Head(L).t \in 2 .. n
                                  /\ Awaits(Tail(L), Head(L).t)
         /\ Head(L).op = "answer" => Tail(L) = <<>>
         /\ Has(L, "answer")
         /\ \A o \in ToSet(L) : o.op \in MainOps \cup {"answer"}
<1>0. L # <<>>
  BY DEF SearchList
<1>1. /\ Len(L) \in Nat \ {0} /\ Head(L) = L[1] /\ Tail(L) \in Seq(Operations)
      /\ Len(Tail(L)) = Len(L) - 1
  BY <1>0, Shift
<1>2. \A i \in 1 .. Len(L) : i = Len(L) \/ i \in 1 .. Len(L) - 1
  <2> DEFINE len == Len(L)
  <2>1. len \in Nat
    BY <1>1
  <2> HIDE DEF len
  <2>2. \A i \in 1 .. len : i = len \/ i \in 1 .. len - 1
    BY <2>1
  <2> QED BY <2>2 DEF len
<1>3. \A i \in 1 .. Len(L) : L[i].op \in MainOps \cup {"answer"}
  BY <1>2 DEF SearchList
<1>4. \A o \in ToSet(L) : o.op \in MainOps \cup {"answer"}
  BY <1>3, Members
<1>5. Has(L, "answer")
  <2>1. Len(L) \in 1 .. Len(L)
    BY <1>1
  <2>2. L[Len(L)] \in ToSet(L)
    BY <2>1, Members
  <2> QED BY <2>2 DEF Has, SearchList
<1>6. CASE Len(L) = 1
  <2>1. Tail(L) = <<>>
    <3>1. Len(Tail(L)) = 0
      BY <1>1, <1>6
    <3> QED BY <1>1, <3>1, Empty, Zenon
  <2>2. L[1].op = "answer"
    BY <1>6 DEF SearchList
  <2> QED BY <1>1, <1>4, <1>5, <2>1, <2>2
<1>7. CASE Len(L) # 1
  <2>1. 1 \in 1 .. Len(L) - 1
    BY <1>1, <1>7
  <2>2. /\ L[1].op \in MainOps
        /\ L[1].op = "run" => L[1].job = "search" /\ L[1].t \in 2 .. n /\ Awaited(L, 1)
    BY <2>1 DEF SearchList
  <2>3. L[1].op # "answer"
    BY <2>2 DEF MainOps
  <2> QED BY <1>0, <1>1, <1>4, <1>5, <2>2, <2>3, HeadAwaited
<1> QED BY <1>6, <1>7

-----------------------------------------------------------------------------
(* Lists put together.                                                      *)

\* Two lists as one.
LEMMA Joined ==
  ASSUME NEW A \in Seq(Operations), NEW B \in Seq(Operations)
  PROVE  /\ A \o B \in Seq(Operations) /\ \A C \in Seq(Operations) : (A \o B) \o C = A \o (B \o C)
         /\ Len(A) \in Nat /\ Len(B) \in Nat /\ Len(A \o B) = Len(A) + Len(B)
         /\ \A i \in 1 .. Len(A) : (A \o B)[i] = A[i]
         /\ \A i \in 1 .. Len(B) : (A \o B)[Len(A) + i] = B[i]
  OBVIOUS

\* An index of the whole is one of the first list or one of the second.
LEMMA Split ==
  ASSUME NEW a \in Nat, NEW b \in Nat, NEW k \in 1 .. a + b
  PROVE  k \in 1 .. a \/ (k - a \in 1 .. b /\ a + (k - a) = k)
  OBVIOUS

\* The members of two lists as one.
LEMMA JoinedMembers ==
  ASSUME NEW A \in Seq(Operations), NEW B \in Seq(Operations)
  PROVE  \A x : x \in ToSet(A \o B) <=> x \in ToSet(A) \/ x \in ToSet(B)
<1> TAKE x
<1> DEFINE C == A \o B
<1>0. /\ C \in Seq(Operations) /\ Len(A) \in Nat /\ Len(B) \in Nat
      /\ Len(C) = Len(A) + Len(B)
      /\ \A i \in 1 .. Len(A) : C[i] = A[i]
      /\ \A i \in 1 .. Len(B) : C[Len(A) + i] = B[i]
  BY Joined
<1> HIDE DEF C
<1>1. \A L \in Seq(Operations) : x \in ToSet(L) <=> \E i \in 1 .. Len(L) : x = L[i]
  BY Members
<1>2. ASSUME NEW k \in 1 .. Len(C), x = C[k] PROVE x \in ToSet(A) \/ x \in ToSet(B)
  <2>1. k \in 1 .. Len(A) \/ (k - Len(A) \in 1 .. Len(B) /\ Len(A) + (k - Len(A)) = k)
    BY <1>0, Split
  <2> QED BY <1>0, <1>1, <1>2, <2>1
<1>3. \A i \in 1 .. Len(A) : i \in 1 .. Len(C)
  BY <1>0
<1>4. \A i \in 1 .. Len(B) : Len(A) + i \in 1 .. Len(C)
  BY <1>0
<1>5. x \in ToSet(C) <=> x \in ToSet(A) \/ x \in ToSet(B)
  BY <1>0, <1>1, <1>2, <1>3, <1>4
<1> QED BY <1>5 DEF C

\* Whoever is waited for in a list or in what follows it.
LEMMA JoinedAwaited ==
  ASSUME NEW A \in Seq(Operations), NEW B \in Seq(Operations)
  PROVE  /\ \A k \in 1 .. Len(A) : Awaited(A, k) \/ Awaits(B, A[k].t) => Awaited(A \o B, k)
         /\ \A k \in 1 .. Len(B) : Awaited(B, k) => Awaited(A \o B, Len(A) + k)
<1> DEFINE C == A \o B
<1>0. /\ Len(A) \in Nat /\ Len(B) \in Nat
      /\ Len(C) = Len(A) + Len(B)
      /\ \A i \in 1 .. Len(A) : C[i] = A[i]
      /\ \A i \in 1 .. Len(B) : C[Len(A) + i] = B[i]
  BY Joined
<1> HIDE DEF C
<1>1. ASSUME NEW k \in 1 .. Len(A), Awaited(A, k) PROVE Awaited(C, k)
  <2>1. PICK j \in k + 1 .. Len(A) : A[j].op = "wait" /\ A[j].t = A[k].t
    BY <1>1 DEF Awaited
  <2>2. j \in 1 .. Len(A) /\ j \in k + 1 .. Len(C)
    BY <1>0
  <2> QED BY <1>0, <2>1, <2>2 DEF Awaited
<1>2. ASSUME NEW k \in 1 .. Len(A), Awaits(B, A[k].t) PROVE Awaited(C, k)
  <2>1. PICK j \in 1 .. Len(B) : B[j].op = "wait" /\ B[j].t = A[k].t
    BY <1>2, Members DEF Awaits
  <2>2. Len(A) + j \in k + 1 .. Len(C)
    BY <1>0
  <2> QED BY <1>0, <2>1, <2>2 DEF Awaited
<1>3. ASSUME NEW k \in 1 .. Len(B), Awaited(B, k) PROVE Awaited(C, Len(A) + k)
  <2>1. PICK j \in k + 1 .. Len(B) : B[j].op = "wait" /\ B[j].t = B[k].t
    BY <1>3 DEF Awaited
  <2>2. j \in 1 .. Len(B) /\ Len(A) + j \in (Len(A) + k) + 1 .. Len(C)
    BY <1>0
  <2> QED BY <1>0, <2>1, <2>2 DEF Awaited
<1>4. /\ \A k \in 1 .. Len(A) : Awaited(A, k) \/ Awaits(B, A[k].t) => Awaited(C, k)
      /\ \A k \in 1 .. Len(B) : Awaited(B, k) => Awaited(C, Len(A) + k)
  BY <1>1, <1>2, <1>3
<1> QED BY <1>4 DEF C

\* Lists that start no search, or jobs the second list waits for, start none together.
LEMMA JoinedQuiet ==
  ASSUME NEW A \in Seq(Operations), NEW B \in Seq(Operations), QuietList(B),
         \/ QuietList(A)
         \/ \A o \in ToSet(A) : /\ o.op = "run" /\ o.job \notin {"setup", "search"}
                                /\ Awaits(B, o.t)
  PROVE  QuietList(A \o B)
<1> DEFINE C == A \o B
<1>0. /\ Len(A) \in Nat /\ Len(B) \in Nat
      /\ Len(C) = Len(A) + Len(B)
      /\ \A i \in 1 .. Len(A) : C[i] = A[i]
      /\ \A i \in 1 .. Len(B) : C[Len(A) + i] = B[i]
  BY Joined
<1>1. /\ \A k \in 1 .. Len(A) : Awaited(A, k) \/ Awaits(B, A[k].t) => Awaited(C, k)
      /\ \A k \in 1 .. Len(B) : Awaited(B, k) => Awaited(C, Len(A) + k)
  BY JoinedAwaited
<1>2. \A k \in 1 .. Len(A) : A[k] \in ToSet(A)
  BY Members
<1> HIDE DEF C
<1>3. ASSUME NEW k \in 1 .. Len(C)
      PROVE  /\ C[k].op \in UciOps \ {"begin"}
             /\ C[k].op = "run" => C[k].job \notin {"setup", "search"}
             /\ C[k].op = "run" /\ C[k].job # "none" => Awaited(C, k)
  <2>1. CASE k \in 1 .. Len(A)
    <3>1. CASE QuietList(A)
      BY <1>0, <1>1, <2>1, <3>1 DEF QuietList
    <3>2. CASE ~QuietList(A)
      <4>1. A[k].op = "run" /\ A[k].job \notin {"setup", "search"} /\ Awaits(B, A[k].t)
        BY <1>2, <2>1, <3>2
      <4> QED BY <1>0, <1>1, <2>1, <4>1 DEF UciOps
    <3> QED BY <3>1, <3>2
  <2>2. CASE k - Len(A) \in 1 .. Len(B) /\ Len(A) + (k - Len(A)) = k
    <3>1. PICK j \in 1 .. Len(B) : Len(A) + j = k
      BY <2>2
    <3> QED BY <1>0, <1>1, <3>1 DEF QuietList
  <2> QED BY <1>0, <2>1, <2>2, Split
<1>4. QuietList(C)
  BY <1>3 DEF QuietList
<1> QED BY <1>4 DEF C

\* FlattenSeq, one block at a time.
LEMMA FlattenSteps ==
  ASSUME NEW seqs, Len(seqs) \in Nat \ {0}
  PROVE  \E f : /\ FlattenSeq(seqs) = f[Len(seqs)]
                /\ f[1] = seqs[1]
                /\ \A i \in 2 .. Len(seqs) : f[i] = f[i - 1] \o seqs[i]
<1>0. PICK n \in Nat \ {0} : n = Len(seqs)
  OBVIOUS
<1> DEFINE Step(f, i) == IF i = 1 THEN seqs[i] ELSE f[i - 1] \o seqs[i]
           Table(f, m) == f = [i \in 1 .. m |-> Step(f, i)]
           Made(m) == \E f : Table(f, m)
<1>1. Made(1)
  <2> DEFINE f == [i \in 1 .. 1 |-> seqs[1]]
  <2>1. [i \in 1 .. 1 |-> Step(f, i)] = f
    OBVIOUS
  <2> QED BY <2>1
<1>2. ASSUME NEW m \in 2 .. n, Made(m - 1) PROVE Made(m)
  <2>1. PICK g : Table(g, m - 1)
    BY <1>2
  <2> DEFINE f == [i \in 1 .. m |-> IF i = m THEN g[m - 1] \o seqs[m] ELSE g[i]]
  <2>2. ASSUME NEW i \in 1 .. m PROVE f[i] = Step(f, i)
    <3>1. CASE i = m
      <4>1. m - 1 \in 1 .. m /\ m - 1 # m /\ i # 1
        BY <3>1
      <4>2. f[m - 1] = g[m - 1]
        BY <4>1
      <4> QED BY <3>1, <4>1, <4>2
    <3>2. CASE i # m
      <4>1. i \in 1 .. m - 1 /\ (i # 1 => i - 1 \in 1 .. m /\ i - 1 # m)
        BY <3>2
      <4>2. g[i] = Step(g, i)
        BY <2>1, <4>1
      <4> QED BY <4>1, <4>2
    <3> QED BY <3>1, <3>2
  <2>3. Table(f, m)
    BY <2>2
  <2> QED BY <2>3
<1>3. Made(n)
  <2> DEFINE S == {m \in 1 .. n : Made(m)}
  <2> HIDE DEF Made
  <2>1. S \subseteq 1 .. n /\ 1 \in S /\ \A m \in 2 .. n : m - 1 \in S => m \in S
    BY <1>1, <1>2
  <2> HIDE DEF S
  <2>2. n \in S
    BY <2>1, UpTo
  <2> QED BY <2>2 DEF S
<1> DEFINE flatten == CHOOSE f : Table(f, n)
<1>4. Table(flatten, n)
  BY <1>3, Zenon
<1>5. FlattenSeq(seqs) = flatten[n]
  BY <1>0 DEF FlattenSeq
<1> HIDE DEF flatten
<1>6. ASSUME NEW i \in 1 .. n PROVE flatten[i] = Step(flatten, i)
  BY <1>4
<1>7. flatten[1] = seqs[1]
  <2>1. 1 \in 1 .. n
    OBVIOUS
  <2> QED BY <1>6, <2>1
<1>8. ASSUME NEW i \in 2 .. n PROVE flatten[i] = flatten[i - 1] \o seqs[i]
  <2>1. i \in 1 .. n /\ i # 1
    OBVIOUS
  <2> QED BY <1>6, <2>1
<1> QED BY <1>0, <1>5, <1>7, <1>8

\* Blocks that are each of a kind make a list of that kind.
LEMMA Flattened ==
  ASSUME NEW n \in Nat, NEW seqs \in [1 .. n -> Seq(Operations)]
  PROVE  /\ FlattenSeq(seqs) \in Seq(Operations)
         /\ \A x : x \in ToSet(FlattenSeq(seqs)) <=> \E i \in 1 .. n : x \in ToSet(seqs[i])
         /\ (\A i \in 1 .. n : QuietList(seqs[i])) => QuietList(FlattenSeq(seqs))
<1>1. Len(seqs) = n
  OBVIOUS
<1>2. CASE n = 0
  <2>1. FlattenSeq(seqs) = seqs
    BY <1>1, <1>2 DEF FlattenSeq
  <2>2. seqs \in Seq(Operations) /\ Len(seqs) = 0
    BY <1>2
  <2>3. QuietList(seqs) /\ ToSet(seqs) = {}
    BY <2>2 DEF QuietList, ToSet
  <2> QED BY <1>2, <2>1, <2>2, <2>3
<1>3. CASE n # 0
  <2>1. PICK f : /\ FlattenSeq(seqs) = f[n]
                 /\ f[1] = seqs[1]
                 /\ \A i \in 2 .. n : f[i] = f[i - 1] \o seqs[i]
    <3>1. Len(seqs) \in Nat \ {0}
      BY <1>1, <1>3
    <3>2. \E f : /\ FlattenSeq(seqs) = f[Len(seqs)]
                 /\ f[1] = seqs[1]
                 /\ \A i \in 2 .. Len(seqs) : f[i] = f[i - 1] \o seqs[i]
      BY <3>1, FlattenSteps, Zenon
    <3> QED BY <1>1, <3>2
  <2> DEFINE Good(m) ==
        /\ f[m] \in Seq(Operations)
        /\ \A x : x \in ToSet(f[m]) <=> \E i \in 1 .. m : x \in ToSet(seqs[i])
        /\ (\A i \in 1 .. n : QuietList(seqs[i])) => QuietList(f[m])
             S == {m \in 1 .. n : Good(m)}
  <2>2. Good(1)
    BY <1>3, <2>1
  <2>3. ASSUME NEW m \in 2 .. n, Good(m - 1) PROVE Good(m)
    <3> DEFINE A == f[m - 1]
               B == seqs[m]
    <3>1. A \in Seq(Operations) /\ B \in Seq(Operations) /\ f[m] = A \o B
      <4>1. A \in Seq(Operations)
        BY <2>3
      <4>2. B \in Seq(Operations)
        OBVIOUS
      <4> QED BY <2>1, <4>1, <4>2
    <3>2. \A x : x \in ToSet(f[m]) <=> \E i \in 1 .. m : x \in ToSet(seqs[i])
      <4> TAKE x
      <4>1. x \in ToSet(f[m]) <=> x \in ToSet(A) \/ x \in ToSet(B)
        <5> HIDE DEF A, B
        <5> QED BY <3>1, JoinedMembers
      <4>2. x \in ToSet(A) <=> \E i \in 1 .. m - 1 : x \in ToSet(seqs[i])
        BY <2>3
      <4>3. \A i \in 1 .. m : i \in 1 .. m - 1 \/ i = m
        OBVIOUS
      <4> QED BY <4>1, <4>2, <4>3
    <3>3. (\A i \in 1 .. n : QuietList(seqs[i])) => QuietList(f[m])
      <4> SUFFICES ASSUME \A i \in 1 .. n : QuietList(seqs[i]) PROVE QuietList(f[m])
        OBVIOUS
      <4>1. QuietList(A) /\ QuietList(B)
        BY <2>3
      <4> HIDE DEF A, B
      <4> QED BY <3>1, <4>1, JoinedQuiet
    <3>4. f[m] \in Seq(Operations)
      <4> HIDE DEF A, B
      <4> QED BY <3>1, Joined
    <3> QED BY <3>2, <3>3, <3>4
  <2>4. Good(n)
    <3> HIDE DEF Good
    <3>1. S \subseteq 1 .. n /\ 1 \in S /\ \A m \in 2 .. n : m - 1 \in S => m \in S
      BY <1>3, <2>2, <2>3
    <3> HIDE DEF S
    <3>2. n \in S
      BY <1>3, <3>1, UpTo
    <3> QED BY <3>2 DEF S
  <2> QED BY <2>1, <2>4
<1> QED BY <1>2, <1>3

-----------------------------------------------------------------------------
(* The lists of the commands and of the jobs.                               *)

\* What Op makes is an operation.
LEMMA OpType ==
  /\ \A name \in UciOps \cup MainOps \cup Chores \cup {"answer"} : \A t \in Thread :
       name # "sized" => Op(name, t) \in Operations
  /\ \A n \in 0 .. Max(Sizes) : Op("sized", n) \in Operations
  /\ \A t \in Thread, job \in Jobs :
       [Op("run", t) EXCEPT !.job = job] \in Operations
<1>1. \A t \in Thread : t \in 0 .. Max(Sizes)
  BY ThreadNumbers DEF Thread
<1> QED BY <1>1 DEF Op, Operations, Jobs, UciOps

\* A list of one operation.
LEMMA Single ==
  ASSUME NEW o \in Operations
  PROVE  /\ <<o>> \in Seq(Operations) /\ <<o>> # <<>> /\ Head(<<o>>) = o /\ Tail(<<o>>) = <<>>
         /\ Len(<<o>>) = 1 /\ <<o>>[1] = o
         /\ \A x : x \in ToSet(<<o>>) <=> x = o
         /\ o.op \in UciOps \ {"begin"} /\ (o.op = "run" => o.job = "none") => QuietList(<<o>>)
<1>1. \A x : x \in ToSet(<<o>>) <=> \E i \in 1 .. Len(<<o>>) : x = <<o>>[i]
  <2>1. <<o>> \in Seq(Operations)
    OBVIOUS
  <2> QED BY <2>1, Members
<1> QED BY <1>1 DEF QuietList

\* A job for each of some threads.
LEMMA RunAll ==
  ASSUME NEW threads \in Seq(Thread), NEW job \in Jobs
  PROVE  /\ ForAll(threads, LAMBDA t : Run(t, job)) \in Seq(Operations)
         /\ \A x : x \in ToSet(ForAll(threads, LAMBDA t : Run(t, job))) <=>
              \E i \in 1 .. Len(threads) : x = [Op("run", threads[i]) EXCEPT !.job = job]
<1> DEFINE seqs == [i \in DOMAIN threads |-> Run(threads[i], job)]
<1>1. DOMAIN threads = 1 .. Len(threads) /\ Len(threads) \in Nat
  OBVIOUS
<1>2. \A i \in 1 .. Len(threads) : [Op("run", threads[i]) EXCEPT !.job = job] \in Operations
  BY OpType
<1>3. /\ seqs \in [1 .. Len(threads) -> Seq(Operations)]
      /\ \A i \in 1 .. Len(threads) : \A x :
           x \in ToSet(seqs[i]) <=> x = [Op("run", threads[i]) EXCEPT !.job = job]
  BY <1>1, <1>2, Single DEF Run
<1>4. ForAll(threads, LAMBDA t : Run(t, job)) = FlattenSeq(seqs)
  BY DEF ForAll
<1> HIDE DEF seqs
<1>5. /\ FlattenSeq(seqs) \in Seq(Operations)
      /\ \A x : x \in ToSet(FlattenSeq(seqs)) <=> \E i \in 1 .. Len(threads) : x \in ToSet(seqs[i])
  BY <1>1, <1>3, Flattened
<1> QED BY <1>3, <1>4, <1>5

\* A wait for each of some threads.
LEMMA WaitAll ==
  ASSUME NEW threads \in Seq(Thread)
  PROVE  /\ ForAll(threads, Wait) \in Seq(Operations)
         /\ \A x : x \in ToSet(ForAll(threads, Wait)) <=>
              \E i \in 1 .. Len(threads) : x = Op("wait", threads[i])
         /\ QuietList(ForAll(threads, Wait))
<1> DEFINE seqs == [i \in DOMAIN threads |-> Wait(threads[i])]
<1>1. DOMAIN threads = 1 .. Len(threads) /\ Len(threads) \in Nat
  OBVIOUS
<1>2. \A i \in 1 .. Len(threads) : Op("wait", threads[i]) \in Operations
  <2>1. \A t \in Thread : Op("wait", t) \in Operations
    BY OpType DEF UciOps
  <2> QED BY <2>1
<1>3. /\ seqs \in [1 .. Len(threads) -> Seq(Operations)]
      /\ \A i \in 1 .. Len(threads) : QuietList(seqs[i])
      /\ \A i \in 1 .. Len(threads) : \A x : x \in ToSet(seqs[i]) <=> x = Op("wait", threads[i])
  BY <1>1, <1>2, Single DEF Wait, Op, UciOps
<1>4. ForAll(threads, Wait) = FlattenSeq(seqs)
  BY DEF ForAll
<1> HIDE DEF seqs
<1>5. /\ FlattenSeq(seqs) \in Seq(Operations)
      /\ \A x : x \in ToSet(FlattenSeq(seqs)) <=> \E i \in 1 .. Len(threads) : x \in ToSet(seqs[i])
      /\ QuietList(FlattenSeq(seqs))
  BY <1>1, <1>3, Flattened
<1> QED BY <1>3, <1>4, <1>5

\* The lists of the threads and of the helpers of a pool.
LEMMA ThreadLists ==
  ASSUME NEW n \in 0 .. Max(Sizes)
  PROVE  /\ Threads(n) \in Seq(Thread) /\ Len(Threads(n)) = n
         /\ \A i \in 1 .. n : Threads(n)[i] = i
         /\ n > 0 => /\ Helpers(n) \in Seq(Thread) /\ Len(Helpers(n)) = n - 1
                     /\ \A i \in 1 .. n - 1 : Helpers(n)[i] = i + 1
  BY ThreadNumbers DEF Threads, Helpers, Thread

\* A job for every thread: who gets it is waited for.
LEMMA EveryThread ==
  ASSUME NEW n \in 0 .. Max(Sizes), NEW job \in Jobs
  PROVE  /\ OnAll(n, job) \in Seq(Operations)
         /\ \A k \in 1 .. Len(OnAll(n, job)) :
              LET o == OnAll(n, job)[k] IN
              \/ o.op = "wait"
              \/ o.op = "run" /\ o.job = job /\ Awaited(OnAll(n, job), k)
         /\ \A t \in 1 .. n : \E x \in ToSet(OnAll(n, job)) : x.op = "run" /\ x.job = job /\ x.t = t
<1> DEFINE A == ForAll(Threads(n), LAMBDA t : Run(t, job))
           B == ForAll(Threads(n), Wait)
<1>1. /\ Threads(n) \in Seq(Thread) /\ Len(Threads(n)) = n
      /\ \A i \in 1 .. n : Threads(n)[i] = i
  BY ThreadLists
<1>2. /\ A \in Seq(Operations)
      /\ \A x : x \in ToSet(A) <=> \E i \in 1 .. n : x = [Op("run", i) EXCEPT !.job = job]
  <2>1. /\ A \in Seq(Operations)
        /\ \A x : x \in ToSet(A) <=>
             \E i \in 1 .. Len(Threads(n)) : x = [Op("run", Threads(n)[i]) EXCEPT !.job = job]
    BY <1>1, RunAll
  <2> HIDE DEF A
  <2> QED BY <1>1, <2>1
<1>3. /\ B \in Seq(Operations)
      /\ \A x : x \in ToSet(B) <=> \E i \in 1 .. n : x = Op("wait", i)
  BY <1>1, WaitAll
<1>4. OnAll(n, job) = A \o B
  BY DEF OnAll
<1> HIDE DEF A, B
<1>5. /\ Len(A) \in Nat /\ Len(B) \in Nat /\ Len(A \o B) = Len(A) + Len(B) /\ A \o B \in Seq(Operations)
      /\ \A i \in 1 .. Len(A) : (A \o B)[i] = A[i]
      /\ \A i \in 1 .. Len(B) : (A \o B)[Len(A) + i] = B[i]
  BY <1>2, <1>3, Joined
<1>6. \A i \in 1 .. Len(A) : A[i].op = "run" /\ A[i].job = job /\ A[i].t \in 1 .. n
  <2> TAKE i \in 1 .. Len(A)
  <2>1. A[i] \in ToSet(A)
    BY <1>2, Members
  <2> QED BY <1>2, <2>1 DEF Op
<1>7. \A i \in 1 .. Len(B) : B[i].op = "wait"
  <2> TAKE i \in 1 .. Len(B)
  <2>1. B[i] \in ToSet(B)
    BY <1>3, Members
  <2> QED BY <1>3, <2>1 DEF Op
<1>8. ASSUME NEW t \in 1 .. n PROVE Awaits(B, t)
  <2>1. Op("wait", t) \in ToSet(B)
    BY <1>3
  <2> QED BY <2>1 DEF Awaits, Op
<1>9. \A k \in 1 .. Len(A) : Awaited(A \o B, k)
  BY <1>2, <1>3, <1>6, <1>8, JoinedAwaited
<1>10. ASSUME NEW k \in 1 .. Len(A \o B)
       PROVE  \/ (A \o B)[k].op = "wait"
              \/ (A \o B)[k].op = "run" /\ (A \o B)[k].job = job /\ Awaited(A \o B, k)
  <2>1. CASE k \in 1 .. Len(A)
    BY <1>5, <1>6, <1>9, <2>1
  <2>2. CASE k - Len(A) \in 1 .. Len(B) /\ Len(A) + (k - Len(A)) = k
    <3>1. PICK j \in 1 .. Len(B) : Len(A) + j = k
      BY <2>2
    <3> QED BY <1>5, <1>7, <3>1
  <2> QED BY <1>5, <2>1, <2>2, Split
<1>11. ASSUME NEW t \in 1 .. n
       PROVE  \E x \in ToSet(A \o B) : x.op = "run" /\ x.job = job /\ x.t = t
  <2>1. [Op("run", t) EXCEPT !.job = job] \in ToSet(A)
    BY <1>2
  <2>2. [Op("run", t) EXCEPT !.job = job] \in ToSet(A \o B)
    BY <1>2, <1>3, <2>1, JoinedMembers
  <2> QED BY <2>2 DEF Op
<1> QED BY <1>4, <1>5, <1>10, <1>11

\* A go: wait for the search before, begin, set every worker up, and search.
LEMMA GoCommand ==
  ASSUME TypeOK
  PROVE  /\ start_thinking \in Seq(Operations) /\ GoList(start_thinking)
         /\ Head(start_thinking).op = "wait" /\ Head(start_thinking).t = Main
         /\ Has(start_thinking, "begin") /\ ~Has(start_thinking, "sized")
         /\ \A t \in 1 .. pool.size : SetsUp(start_thinking, t)
<1> DEFINE w == Op("wait", Main)
           b == Op("begin", Main)
           O == OnAll(pool.size, "setup")
           r == [Op("run", Main) EXCEPT !.job = "search"]
<1>1. w \in Operations /\ b \in Operations /\ r \in Operations
  BY OpType, ThreadNumbers DEF UciOps, Jobs
<1>2. w.op = "wait" /\ w.t = Main /\ b.op = "begin" /\ r.op = "run" /\ r.job = "search" /\ r.t = Main
  BY DEF Op
<1>3. /\ O \in Seq(Operations)
      /\ \A k \in 1 .. Len(O) : O[k].op = "wait" \/ (O[k].op = "run" /\ O[k].job = "setup" /\ Awaited(O, k))
      /\ \A t \in 1 .. pool.size : \E x \in ToSet(O) : x.op = "run" /\ x.job = "setup" /\ x.t = t
  BY EveryThread DEF TypeOK, PoolState, Jobs
<1>4. start_thinking = ((<<w>> \o <<b>>) \o O) \o <<r>>
  BY DEF start_thinking, Wait, Do, Run
<1> HIDE DEF w, b, O, r
<1>5. /\ <<w>> \in Seq(Operations) /\ <<b>> \in Seq(Operations)
      /\ <<r>> \in Seq(Operations) /\ Len(<<r>>) = 1 /\ <<r>>[1] = r
      /\ \A x : x \in ToSet(<<r>>) <=> x = r
  BY <1>1, Single
<1> DEFINE G == O \o <<r>>
<1>6. /\ G \in Seq(Operations) /\ Len(O) \in Nat /\ Len(G) = Len(O) + 1
      /\ \A i \in 1 .. Len(O) : G[i] = O[i]
      /\ G[Len(O) + 1] = r
  BY <1>3, <1>5, Joined
<1>7. \A k \in 1 .. Len(O) : Awaited(O, k) => Awaited(G, k)
  BY <1>3, <1>5, JoinedAwaited
<1>8. \A x : x \in ToSet(G) <=> x \in ToSet(O) \/ x = r
  BY <1>3, <1>5, JoinedMembers
<1>9. start_thinking = <<w>> \o (<<b>> \o G)
  <2>1. <<w>> \o <<b>> \in Seq(Operations)
    BY <1>5, Joined
  <2>2. ((<<w>> \o <<b>>) \o O) \o <<r>> = (<<w>> \o <<b>>) \o (O \o <<r>>)
    BY <1>3, <1>5, <2>1, Joined
  <2>3. (<<w>> \o <<b>>) \o G = <<w>> \o (<<b>> \o G)
    BY <1>5, <1>6, Joined
  <2> QED BY <1>4, <2>2, <2>3
<1> HIDE DEF G
<1>10. GoList(G)
  BY <1>2, <1>3, <1>6, <1>7 DEF GoList
<1>11. \A x \in ToSet(G) : x.op \in {"wait", "run"}
  <2>1. \A x \in ToSet(O) : \E k \in 1 .. Len(O) : x = O[k]
    BY <1>3, Members
  <2> QED BY <1>2, <1>3, <1>8, <2>1
<1>12. ~Has(G, "begin") /\ ~Has(G, "sized") /\ \A t \in 1 .. pool.size : SetsUp(G, t)
  BY <1>3, <1>8, <1>11 DEF Has, SetsUp
<1> DEFINE H == <<b>> \o G
<1>13. /\ H \in Seq(Operations) /\ GoList(H) /\ Has(H, "begin") /\ ~Has(H, "sized")
       /\ \A t \in 1 .. pool.size : SetsUp(H, t)
  BY <1>1, <1>2, <1>6, <1>10, <1>12, Longer, LongerGo, LongerHas
<1> HIDE DEF H
<1> DEFINE J == <<w>> \o H
<1>14. /\ J \in Seq(Operations) /\ GoList(J) /\ Has(J, "begin") /\ ~Has(J, "sized")
       /\ Head(J) = w
       /\ \A t \in 1 .. pool.size : SetsUp(J, t)
  BY <1>1, <1>2, <1>13, Longer, LongerGo, LongerHas
<1>15. start_thinking = J
  BY <1>9 DEF H
<1> HIDE DEF J
<1> QED BY <1>2, <1>14, <1>15

\* A list that starts no search, and sizes the pool to n or not at all.
Plain(L, n) == /\ L \in Seq(Operations)
               /\ QuietList(L)
               /\ \A x \in ToSet(L) : x.op = "sized" => x.t = n

\* Two plain lists make one.
LEMMA PlainJoined ==
  ASSUME NEW n, NEW A, NEW B, Plain(A, n), Plain(B, n)
  PROVE  /\ Plain(A \o B, n)
         /\ Has(A, "sized") \/ Has(B, "sized") => Has(A \o B, "sized")
         /\ A # <<>> => A \o B # <<>> /\ Head(A \o B) = Head(A)
<1>1. A \in Seq(Operations) /\ B \in Seq(Operations) /\ QuietList(A) /\ QuietList(B)
  BY DEF Plain
<1>2. A \o B \in Seq(Operations) /\ QuietList(A \o B)
  BY <1>1, Joined, JoinedQuiet
<1>3. \A x : x \in ToSet(A \o B) <=> x \in ToSet(A) \/ x \in ToSet(B)
  BY <1>1, JoinedMembers
<1>4. A # <<>> => A \o B # <<>> /\ Head(A \o B) = Head(A)
  BY <1>1
<1> HIDE <1>1
<1> QED BY <1>2, <1>3, <1>4 DEF Plain, Has

\* An operation that gives no job is a plain list.
LEMMA PlainSingle ==
  ASSUME NEW n, NEW o \in Operations, o.op \in UciOps \ {"begin"},
         o.op = "run" => o.job = "none", o.op = "sized" => o.t = n
  PROVE  Plain(<<o>>, n)
  BY Single DEF Plain

\* Plain blocks make a plain list.
LEMMA PlainBlocks ==
  ASSUME NEW m \in 0 .. Max(Sizes), NEW n, NEW seqs \in [1 .. m -> Seq(Operations)],
         \A t \in 1 .. m : Plain(seqs[t], n)
  PROVE  Plain(FlattenSeq(seqs), n)
<1>1. m \in Nat
  OBVIOUS
<1>2. /\ FlattenSeq(seqs) \in Seq(Operations)
      /\ \A x : x \in ToSet(FlattenSeq(seqs)) <=> \E i \in 1 .. m : x \in ToSet(seqs[i])
      /\ (\A i \in 1 .. m : QuietList(seqs[i])) => QuietList(FlattenSeq(seqs))
  BY <1>1, Flattened
<1> QED BY <1>2 DEF Plain

\* A wait is a plain list.
LEMMA PlainWait ==
  ASSUME NEW t \in Thread, NEW n
  PROVE  Plain(Wait(t), n) /\ Wait(t) # <<>> /\ Head(Wait(t)).op = "wait" /\ Head(Wait(t)).t = t
<1>1. Op("wait", t) \in Operations
  BY OpType DEF UciOps
<1> QED BY <1>1, PlainSingle, Single DEF Wait, Op, UciOps

\* The constructor waits for the job it gives; the destructor gives none.
LEMMA PlainThread ==
  ASSUME NEW t \in Thread, NEW n
  PROVE  Plain(Create(t), n) /\ Plain(Destroy(t), n)
<1>1. /\ Op("create", t) \in Operations /\ Op("exit", t) \in Operations
      /\ Op("join", t) \in Operations
      /\ [Op("run", t) EXCEPT !.job = "construct"] \in Operations
      /\ [Op("run", t) EXCEPT !.job = "none"] \in Operations
  BY OpType DEF UciOps, Jobs
<1> DEFINE c == Op("create", t)
           e == Op("exit", t)
           j == Op("join", t)
           r == [Op("run", t) EXCEPT !.job = "construct"]
           z == [Op("run", t) EXCEPT !.job = "none"]
<1>2. Plain(<<c>>, n) /\ Plain(<<e>>, n) /\ Plain(<<j>>, n) /\ Plain(<<z>>, n)
  BY <1>1, PlainSingle DEF Op, UciOps
<1>3. Plain(Wait(t), n)
  BY PlainWait
<1>4. Plain(Run(t, "construct") \o Wait(t), n)
  <2>1. /\ Run(t, "construct") \in Seq(Operations)
        /\ \A x \in ToSet(Run(t, "construct")) : x = r
    BY <1>1, Single DEF Run
  <2>2. r.op = "run" /\ r.job = "construct" /\ r.t = t
    BY DEF Op
  <2>3. Op("wait", t) \in ToSet(Wait(t)) /\ Op("wait", t).op = "wait" /\ Op("wait", t).t = t
    <3>1. Op("wait", t) \in Operations
      BY OpType DEF UciOps
    <3> QED BY <3>1, Single DEF Wait, Op
  <2>4. Awaits(Wait(t), t)
    BY <2>3 DEF Awaits
  <2>5. Wait(t) \in Seq(Operations) /\ QuietList(Wait(t))
    BY <1>3 DEF Plain
  <2>6. QuietList(Run(t, "construct") \o Wait(t))
    BY <2>1, <2>2, <2>4, <2>5, JoinedQuiet
  <2>7. \A x : x \in ToSet(Run(t, "construct") \o Wait(t)) <=>
          x \in ToSet(Run(t, "construct")) \/ x \in ToSet(Wait(t))
    BY <2>1, <2>5, JoinedMembers
  <2>8. Run(t, "construct") \o Wait(t) \in Seq(Operations)
    BY <2>1, <2>5, Joined
  <2> QED BY <1>3, <2>1, <2>2, <2>6, <2>7, <2>8 DEF Plain
<1>5. Create(t) = (<<c>> \o Wait(t)) \o (Run(t, "construct") \o Wait(t))
  <2>1. /\ <<c>> \o Wait(t) \in Seq(Operations) /\ Wait(t) \in Seq(Operations)
        /\ Run(t, "construct") \in Seq(Operations)
    BY <1>1, <1>2, <1>3, PlainJoined, Single DEF Plain, Run
  <2> QED BY <2>1, Joined DEF Create
<1>6. Plain(Create(t), n)
  BY <1>2, <1>3, <1>4, <1>5, PlainJoined
<1>7. Plain(Destroy(t), n)
  <2>1. Destroy(t) = (<<e>> \o <<z>>) \o <<j>>
    BY DEF Destroy, Run
  <2> HIDE DEF e, z, j
  <2> QED BY <1>2, <2>1, PlainJoined
<1> QED BY <1>6, <1>7

\* So are the lists ThreadPool::set and the clears are made of.
LEMMA PlainThreads ==
  ASSUME NEW m \in 0 .. Max(Sizes), NEW n
  PROVE  /\ Plain(ForAll(Threads(m), Create), n) /\ Plain(ForAll(Threads(m), Destroy), n)
         /\ m > 0 => Plain(ForAll(Helpers(m), Wait), n)
         /\ Plain(Clear(m), n) /\ Plain(ClearTable(m), n)
<1>1. 1 .. m \subseteq Thread
  BY ThreadNumbers
<1>2. Plain(ForAll(Threads(m), Create), n)
  <2> DEFINE seqs == [t \in 1 .. m |-> Create(t)]
  <2>1. ForAll(Threads(m), Create) = FlattenSeq(seqs)
    <3>1. [i \in DOMAIN Threads(m) |-> Create(Threads(m)[i])] = seqs
      BY DEF Threads
    <3> QED BY <3>1 DEF ForAll
  <2>2. \A t \in 1 .. m : Plain(seqs[t], n)
    BY <1>1, PlainThread
  <2>3. seqs \in [1 .. m -> Seq(Operations)]
    BY <2>2 DEF Plain
  <2> HIDE DEF seqs
  <2> QED BY <2>1, <2>2, <2>3, PlainBlocks
<1>3. Plain(ForAll(Threads(m), Destroy), n)
  <2> DEFINE seqs == [t \in 1 .. m |-> Destroy(t)]
  <2>1. ForAll(Threads(m), Destroy) = FlattenSeq(seqs)
    <3>1. [i \in DOMAIN Threads(m) |-> Destroy(Threads(m)[i])] = seqs
      BY DEF Threads
    <3> QED BY <3>1 DEF ForAll
  <2>2. \A t \in 1 .. m : Plain(seqs[t], n)
    BY <1>1, PlainThread
  <2>3. seqs \in [1 .. m -> Seq(Operations)]
    BY <2>2 DEF Plain
  <2> HIDE DEF seqs
  <2> QED BY <2>1, <2>2, <2>3, PlainBlocks
<1>4. ASSUME m > 0 PROVE Plain(ForAll(Helpers(m), Wait), n)
  BY <1>4, ThreadLists, WaitAll DEF Plain, Op
<1>5. ASSUME NEW job \in Jobs \ {"none", "setup", "search"} PROVE Plain(OnAll(m, job), n)
  <2> DEFINE L == OnAll(m, job)
  <2>1. /\ L \in Seq(Operations)
        /\ \A k \in 1 .. Len(L) : L[k].op = "wait" \/ (L[k].op = "run" /\ L[k].job = job /\ Awaited(L, k))
    BY EveryThread
  <2> HIDE DEF L
  <2>2. QuietList(L)
    BY <2>1 DEF QuietList, UciOps
  <2>3. \A x \in ToSet(L) : \E k \in 1 .. Len(L) : x = L[k]
    BY <2>1, Members
  <2>4. \A x \in ToSet(L) : x.op # "sized"
    BY <2>1, <2>3
  <2>5. Plain(L, n)
    BY <2>1, <2>2, <2>4 DEF Plain
  <2> QED BY <2>5 DEF L
<1>6. Plain(Clear(m), n) /\ Plain(ClearTable(m), n)
  BY <1>5 DEF Clear, ClearTable, Jobs
<1> QED BY <1>2, <1>3, <1>4, <1>6

\* ThreadPool::set and what is around it.
LEMMA ResizeCommand ==
  ASSUME NEW old \in 0 .. Max(Sizes), NEW new \in Sizes
  PROVE  /\ Plain(Set(old, new), new)
         /\ Has(Set(old, new), "sized")
<1>0. new \in 0 .. Max(Sizes) /\ Main \in Thread
  BY ThreadNumbers
<1> DEFINE A == IF old > 0 THEN Wait(Main) \o ForAll(Threads(old), Destroy) ELSE <<>>
           B == ForAll(Threads(new), Create)
           s == <<Op("sized", new)>>
<1>1. Plain(A, new)
  <2>1. Plain(<<>>, new)
    BY DEF Plain, QuietList, ToSet
  <2>2. Plain(Wait(Main) \o ForAll(Threads(old), Destroy), new)
    BY <1>0, PlainWait, PlainThreads, PlainJoined
  <2> QED BY <2>1, <2>2
<1>2. Plain(B, new) /\ Plain(Clear(new), new) /\ Plain(Wait(Main), new)
  BY <1>0, PlainWait, PlainThreads
<1>3. Plain(s, new) /\ Has(s, "sized")
  <2>1. Op("sized", new) \in Operations
    BY <1>0, OpType
  <2> QED BY <2>1, PlainSingle, Single DEF Op, UciOps, Has
<1>4. Set(old, new) = (((A \o B) \o s) \o Clear(new)) \o Wait(Main)
  BY DEF Set
<1> HIDE DEF A, B, s
<1>5. Plain(A \o B, new)
  BY <1>1, <1>2, PlainJoined
<1>6. Plain((A \o B) \o s, new) /\ Has((A \o B) \o s, "sized")
  BY <1>3, <1>5, PlainJoined
<1>7. Plain(((A \o B) \o s) \o Clear(new), new) /\ Has(((A \o B) \o s) \o Clear(new), "sized")
  BY <1>2, <1>6, PlainJoined
<1> QED BY <1>2, <1>4, <1>7, PlainJoined

\* The wait for the helpers waits for every one of them.
LEMMA HelperWaits ==
  ASSUME NEW m \in 0 .. Max(Sizes), NEW n
  PROVE  /\ Plain(ForAll(Helpers(m), Wait), n)
         /\ \A x \in ToSet(ForAll(Helpers(m), Wait)) : x.op = "wait"
         /\ \A t \in 2 .. m : Awaits(ForAll(Helpers(m), Wait), t)
<1> DEFINE W == ForAll(Helpers(m), Wait)
<1>1. CASE m = 0
  <2> DEFINE seqs == [i \in DOMAIN Helpers(m) |-> Wait(Helpers(m)[i])]
  <2>1. W = FlattenSeq(seqs)
    BY DEF ForAll
  <2>2. DOMAIN Helpers(m) = 1 .. 0
    BY <1>1 DEF Helpers
  <2>3. seqs \in [1 .. 0 -> Seq(Operations)] /\ \A i \in 1 .. 0 : QuietList(seqs[i])
    BY <2>2
  <2> HIDE DEF seqs, W
  <2>4. /\ W \in Seq(Operations)
        /\ \A x : x \in ToSet(W) <=> \E i \in 1 .. 0 : x \in ToSet(seqs[i])
        /\ QuietList(W)
    BY <2>1, <2>3, Flattened
  <2>5. Plain(W, n) /\ ToSet(W) = {}
    BY <2>4 DEF Plain
  <2> QED BY <1>1, <2>5 DEF W
<1>2. CASE m > 0
  <2>1. /\ Helpers(m) \in Seq(Thread) /\ Len(Helpers(m)) = m - 1
        /\ \A i \in 1 .. m - 1 : Helpers(m)[i] = i + 1
    BY <1>2, ThreadLists
  <2>2. /\ W \in Seq(Operations)
        /\ \A x : x \in ToSet(W) <=> \E i \in 1 .. m - 1 : x = Op("wait", i + 1)
        /\ QuietList(W)
    <3>1. /\ W \in Seq(Operations)
          /\ \A x : x \in ToSet(W) <=>
               \E i \in 1 .. Len(Helpers(m)) : x = Op("wait", Helpers(m)[i])
          /\ QuietList(W)
      BY <2>1, WaitAll
    <3> HIDE DEF W
    <3> QED BY <2>1, <3>1
  <2> HIDE DEF W
  <2>3. \A x \in ToSet(W) : x.op = "wait"
    BY <2>2 DEF Op
  <2>4. ASSUME NEW t \in 2 .. m PROVE Awaits(W, t)
    <3>1. t - 1 \in 1 .. m - 1 /\ (t - 1) + 1 = t
      BY <1>2
    <3>2. Op("wait", t) \in ToSet(W)
      BY <2>2, <3>1
    <3> QED BY <3>2 DEF Awaits, Op
  <2>5. Plain(W, n)
    BY <2>2, <2>3 DEF Plain
  <2> QED BY <2>3, <2>4, <2>5 DEF W
<1> QED BY <1>1, <1>2

\* The engine's first list, setoption, ucinewgame and the end: none of them starts a
\* search, and each of the last three first waits for the one that runs.
LEMMA FirstCommand ==
  ASSUME NEW new \in Sizes, NEW old \in 0 .. Max(Sizes)
  PROVE  Plain(resize_threads(old, new), new) /\ Has(resize_threads(old, new), "sized")
<1> DEFINE A == ForAll(Helpers(old), Wait)
<1>1. Plain(A, new)
  BY HelperWaits
<1>2. Plain(Set(old, new), new) /\ Has(Set(old, new), "sized")
  BY ResizeCommand
<1>3. new \in 0 .. Max(Sizes) /\ Main \in Thread
  BY ThreadNumbers
<1>4. Plain(Wait(Main), new) /\ Plain(ClearTable(new), new)
  BY <1>3, PlainWait, PlainThreads
<1>5. resize_threads(old, new) = ((A \o Set(old, new)) \o Wait(Main)) \o ClearTable(new)
  BY DEF resize_threads
<1> HIDE DEF A
<1>6. Plain(A \o Set(old, new), new) /\ Has(A \o Set(old, new), "sized")
  BY <1>1, <1>2, PlainJoined
<1>7. /\ Plain((A \o Set(old, new)) \o Wait(Main), new)
      /\ Has((A \o Set(old, new)) \o Wait(Main), "sized")
  BY <1>4, <1>6, PlainJoined
<1> QED BY <1>4, <1>5, <1>7, PlainJoined

\* The lists of setoption, ucinewgame and the end: each first waits for the search.
LEMMA QuietCommands ==
  ASSUME TypeOK, NEW new \in Sizes
  PROVE  /\ Plain(setoption(new), new) /\ Has(setoption(new), "sized")
         /\ setoption(new) # <<>> /\ Head(setoption(new)).op = "wait" /\ Head(setoption(new)).t = Main
         /\ Plain(search_clear, new)
         /\ search_clear # <<>> /\ Head(search_clear).op = "wait" /\ Head(search_clear).t = Main
         /\ Plain(destructor, 0)
         /\ destructor # <<>> /\ Head(destructor).op = "wait" /\ Head(destructor).t = Main
<1>1. pool.size \in 0 .. Max(Sizes) /\ Main \in Thread /\ 0 \in 0 .. Max(Sizes)
  BY ThreadNumbers DEF TypeOK, PoolState
<1>2. \A n : /\ Plain(Wait(Main), n) /\ Wait(Main) # <<>>
             /\ Head(Wait(Main)).op = "wait" /\ Head(Wait(Main)).t = Main
  BY <1>1, PlainWait
<1>3. setoption(new) = Wait(Main) \o resize_threads(pool.size, new)
  BY DEF setoption
<1>4. Plain(resize_threads(pool.size, new), new) /\ Has(resize_threads(pool.size, new), "sized")
  BY <1>1, FirstCommand
<1>5. search_clear = (Wait(Main) \o ClearTable(pool.size)) \o Clear(pool.size)
  BY DEF search_clear
<1>6. Plain(ClearTable(pool.size), new) /\ Plain(Clear(pool.size), new)
  BY <1>1, PlainThreads
<1>7. destructor = (Wait(Main) \o ForAll(Threads(pool.size), Destroy)) \o <<Op("sized", 0)>>
  BY DEF destructor
<1>8. Plain(ForAll(Threads(pool.size), Destroy), 0)
  BY <1>1, PlainThreads
<1>9. Plain(<<Op("sized", 0)>>, 0)
  <2>1. Op("sized", 0) \in Operations
    BY <1>1, OpType
  <2> QED BY <2>1, PlainSingle DEF Op, UciOps
<1>10. /\ Plain(setoption(new), new) /\ Has(setoption(new), "sized")
       /\ setoption(new) # <<>> /\ Head(setoption(new)) = Head(Wait(Main))
  BY <1>2, <1>3, <1>4, PlainJoined
<1> DEFINE A == Wait(Main) \o ClearTable(pool.size)
           B == Wait(Main) \o ForAll(Threads(pool.size), Destroy)
<1>11. Plain(A, new) /\ A # <<>> /\ Head(A) = Head(Wait(Main))
  BY <1>2, <1>6, PlainJoined
<1>12. Plain(B, 0) /\ B # <<>> /\ Head(B) = Head(Wait(Main))
  BY <1>2, <1>8, PlainJoined
<1>13. Plain(search_clear, new) /\ search_clear # <<>> /\ Head(search_clear) = Head(Wait(Main))
  <2> HIDE DEF A
  <2>1. Plain(A \o Clear(pool.size), new) /\ A \o Clear(pool.size) # <<>>
        /\ Head(A \o Clear(pool.size)) = Head(A)
    BY <1>6, <1>11, PlainJoined
  <2> QED BY <1>5, <1>11, <2>1 DEF A
<1>14. Plain(destructor, 0) /\ destructor # <<>> /\ Head(destructor) = Head(Wait(Main))
  <2> HIDE DEF B
  <2> DEFINE s == <<Op("sized", 0)>>
  <2>0. Plain(s, 0)
    BY <1>9
  <2>2. destructor = B \o s
    BY <1>7 DEF B
  <2> HIDE DEF s
  <2>1. Plain(B \o s, 0) /\ B \o s # <<>> /\ Head(B \o s) = Head(B)
    BY <2>0, <1>12, PlainJoined
  <2> QED BY <1>12, <2>1, <2>2
<1> QED BY <1>2, <1>10, <1>13, <1>14

-----------------------------------------------------------------------------
(* The main thread's search.                                                *)

\* Orders to search, before a list that waits for whom they are given to.
LEMMA JoinedSearch ==
  ASSUME NEW A \in Seq(Operations), NEW B \in Seq(Operations), NEW n,
         SearchList(B, n), Holding(B),
         \A o \in ToSet(A) : o.op = "run" /\ o.job = "search" /\ o.t \in 2 .. n /\ Awaits(B, o.t)
  PROVE  SearchList(A \o B, n) /\ Holding(A \o B)
<1> DEFINE C == A \o B
<1>0. /\ C \in Seq(Operations) /\ Len(A) \in Nat /\ Len(B) \in Nat \ {0}
      /\ Len(C) = Len(A) + Len(B)
      /\ \A i \in 1 .. Len(A) : C[i] = A[i]
      /\ \A i \in 1 .. Len(B) : C[Len(A) + i] = B[i]
  <2>1. Len(B) # 0
    BY Empty DEF SearchList
  <2> QED BY <2>1, Joined
<1>1. /\ \A k \in 1 .. Len(A) : Awaited(A, k) \/ Awaits(B, A[k].t) => Awaited(C, k)
      /\ \A k \in 1 .. Len(B) : Awaited(B, k) => Awaited(C, Len(A) + k)
  BY JoinedAwaited
<1>2. \A k \in 1 .. Len(A) : A[k] \in ToSet(A)
  BY Members
<1> HIDE DEF C
<1>3. C # <<>> /\ C[Len(C)].op = "answer"
  <2>1. Len(B) \in 1 .. Len(B) /\ Len(C) # 0
    BY <1>0
  <2> QED BY <1>0, <2>1, Empty DEF SearchList
<1>4. ASSUME NEW k \in 1 .. Len(C) - 1
      PROVE  /\ C[k].op \in MainOps
             /\ C[k].op = "run" => C[k].job = "search" /\ C[k].t \in 2 .. n /\ Awaited(C, k)
  <2>1. CASE k \in 1 .. Len(A)
    BY <1>0, <1>1, <1>2, <2>1 DEF MainOps
  <2>2. CASE k \notin 1 .. Len(A)
    <3>1. PICK j \in 1 .. Len(B) - 1 : Len(A) + j = k
      <4>1. k - Len(A) \in 1 .. Len(B) - 1 /\ Len(A) + (k - Len(A)) = k
        BY <1>0, <2>2
      <4> QED BY <4>1
    <3>2. j \in 1 .. Len(B) /\ C[k] = B[j]
      BY <1>0, <3>1
    <3> QED BY <1>1, <3>1, <3>2 DEF SearchList
  <2> QED BY <2>1, <2>2
<1>5. SearchList(C, n)
  BY <1>3, <1>4 DEF SearchList
<1>6. Holding(C)
  <2>1. PICK i \in 1 .. Len(B) : B[i].op = "hold" /\ \A j \in 1 .. i - 1 : B[j].op # "raise"
    BY DEF Holding
  <2>2. Len(A) + i \in 1 .. Len(C) /\ C[Len(A) + i].op = "hold"
    BY <1>0, <2>1
  <2>3. ASSUME NEW j \in 1 .. (Len(A) + i) - 1 PROVE C[j].op # "raise"
    <3>1. CASE j \in 1 .. Len(A)
      BY <1>0, <1>2, <3>1
    <3>2. CASE j \notin 1 .. Len(A)
      <4>1. PICK l \in 1 .. i - 1 : Len(A) + l = j
        <5>1. j - Len(A) \in 1 .. i - 1 /\ Len(A) + (j - Len(A)) = j
          BY <1>0, <3>2
        <5> QED BY <5>1
      <4>2. l \in 1 .. Len(B)
        OBVIOUS
      <4> QED BY <1>0, <2>1, <4>1, <4>2
    <3> QED BY <3>1, <3>2
  <2> QED BY <2>2, <2>3 DEF Holding
<1> QED BY <1>5, <1>6 DEF C

\* start_searching, on the main thread and on a helper.
LEMMA SearchJob ==
  ASSUME TypeOK, pool.size > 0
  PROVE  /\ searching(Main) \in Seq(Operations)
         /\ SearchList(searching(Main), pool.size) /\ Holding(searching(Main))
         /\ ~Has(searching(Main), "decide")
         /\ \A w \in Thread : w # Main => searching(w) = <<Op("iterate", w)>>
<1> DEFINE n == pool.size
           W == ForAll(Helpers(n), Wait)
           R == ForAll(Helpers(n), LAMBDA t : Run(t, "search"))
           h == Op("hold", Main)
           r == Op("raise", Main)
           a == Op("answer", Main)
           e == Op("iterate", Main)
<1>1. n \in 0 .. Max(Sizes) /\ n > 0 /\ Main \in Thread
  BY ThreadNumbers DEF TypeOK, PoolState
<1>2. h \in Operations /\ r \in Operations /\ a \in Operations /\ e \in Operations
  BY <1>1, OpType DEF MainOps
<1>3. h.op = "hold" /\ r.op = "raise" /\ a.op = "answer" /\ e.op = "iterate"
  BY DEF Op
<1>4. /\ W \in Seq(Operations) /\ \A x \in ToSet(W) : x.op = "wait"
      /\ \A t \in 2 .. n : Awaits(W, t)
  BY <1>1, HelperWaits DEF Plain
<1>5. /\ R \in Seq(Operations)
      /\ \A x \in ToSet(R) : x.op = "run" /\ x.job = "search" /\ x.t \in 2 .. n
  <2>1. /\ Helpers(n) \in Seq(Thread) /\ Len(Helpers(n)) = n - 1
        /\ \A i \in 1 .. n - 1 : Helpers(n)[i] = i + 1
    BY <1>1, ThreadLists
  <2>2. /\ R \in Seq(Operations)
        /\ \A x : x \in ToSet(R) <=>
             \E i \in 1 .. Len(Helpers(n)) : x = [Op("run", Helpers(n)[i]) EXCEPT !.job = "search"]
    BY <2>1, RunAll DEF Jobs
  <2> HIDE DEF R, n
  <2>3. ASSUME NEW x \in ToSet(R)
        PROVE  x.op = "run" /\ x.job = "search" /\ x.t \in 2 .. n
    <3>1. PICK i \in 1 .. n - 1 : x = [Op("run", Helpers(n)[i]) EXCEPT !.job = "search"]
      BY <2>1, <2>2
    <3>2. Helpers(n)[i] = i + 1 /\ i + 1 \in 2 .. n
      BY <1>1, <2>1
    <3> QED BY <3>1, <3>2 DEF Op
  <2> QED BY <2>2, <2>3
<1>6. searching(Main) = IF ~worker[Main].hasMoves
        THEN ((<<h>> \o <<r>>) \o W) \o <<a>>
        ELSE (R \o <<e>>) \o (((<<h>> \o <<r>>) \o W) \o <<a>>)
  BY DEF searching, Do
<1>7. \A w \in Thread : w # Main => searching(w) = <<Op("iterate", w)>>
  BY DEF searching
<1> HIDE DEF n, W, R, h, r, a, e
<1>8. /\ <<h>> \in Seq(Operations) /\ <<r>> \in Seq(Operations) /\ <<e>> \in Seq(Operations)
      /\ <<a>> \in Seq(Operations) /\ Len(<<a>>) = 1 /\ <<a>>[1] = a
      /\ \A x : x \in ToSet(<<a>>) <=> x = a
  BY <1>2, Single
<1> DEFINE F == W \o <<a>>
<1>9. /\ F \in Seq(Operations) /\ SearchList(F, n) /\ ~Has(F, "decide")
      /\ \A t \in 2 .. n : Awaits(F, t)
  <2>1. /\ F \in Seq(Operations) /\ Len(W) \in Nat /\ Len(F) = Len(W) + 1
        /\ \A i \in 1 .. Len(W) : F[i] = W[i]
        /\ F[Len(W) + 1] = a
    BY <1>4, <1>8, Joined
  <2>2. \A x : x \in ToSet(F) <=> x \in ToSet(W) \/ x = a
    BY <1>4, <1>8, JoinedMembers
  <2>3. \A i \in 1 .. Len(W) : W[i].op = "wait"
    BY <1>4, Members
  <2> HIDE DEF F
  <2>4. SearchList(F, n)
    <3>1. F # <<>>
      BY <2>1, Empty
    <3>2. F[Len(F)] = a /\ Len(F) - 1 = Len(W)
      BY <2>1
    <3>3. \A k \in 1 .. Len(F) - 1 : F[k].op = "wait"
      BY <2>1, <2>3, <3>2
    <3> QED BY <1>3, <3>1, <3>2, <3>3 DEF SearchList, MainOps
  <2> QED BY <1>3, <1>4, <2>1, <2>2, <2>4 DEF Has, Awaits
<1> DEFINE G == <<r>> \o F
<1>10. ((<<h>> \o <<r>>) \o W) \o <<a>> = <<h>> \o G
  <2>1. <<h>> \o <<r>> \in Seq(Operations)
    BY <1>8, Joined
  <2>2. ((<<h>> \o <<r>>) \o W) \o <<a>> = (<<h>> \o <<r>>) \o F
    BY <1>4, <1>8, <2>1, Joined
  <2>3. (<<h>> \o <<r>>) \o F = <<h>> \o (<<r>> \o F)
    BY <1>8, <1>9, Joined
  <2> QED BY <2>2, <2>3
<1> HIDE DEF F
<1>11. /\ G \in Seq(Operations) /\ SearchList(G, n) /\ ~Has(G, "decide")
       /\ \A t \in 2 .. n : Awaits(G, t)
  BY <1>2, <1>3, <1>9, LongerSearch, Longer, LongerHas DEF MainOps
<1> HIDE DEF G
<1> DEFINE H == <<h>> \o G
<1>12. /\ H \in Seq(Operations) /\ SearchList(H, n) /\ ~Has(H, "decide") /\ Holding(H)
       /\ \A t \in 2 .. n : Awaits(H, t)
  <2>1. /\ H \in Seq(Operations) /\ SearchList(H, n) /\ ~Has(H, "decide")
        /\ \A t \in 2 .. n : Awaits(H, t)
    BY <1>2, <1>3, <1>11, LongerSearch, Longer, LongerHas DEF MainOps
  <2>2. 1 \in 1 .. Len(H) /\ H[1] = h
    BY <1>2, <1>11, Longer
  <2> HIDE DEF H
  <2> QED BY <1>3, <2>1, <2>2 DEF Holding
<1> HIDE DEF H
<1> DEFINE I == <<e>> \o H
<1>13. /\ I \in Seq(Operations) /\ SearchList(I, n) /\ ~Has(I, "decide") /\ Holding(I)
       /\ \A t \in 2 .. n : Awaits(I, t)
  BY <1>2, <1>3, <1>12, LongerSearch, Longer, LongerHas, LongerHolding DEF MainOps
<1>14. (R \o <<e>>) \o H = R \o I
  BY <1>5, <1>8, <1>12, Joined
<1> HIDE DEF I
<1>15. /\ R \o I \in Seq(Operations) /\ SearchList(R \o I, n) /\ Holding(R \o I)
       /\ ~Has(R \o I, "decide")
  <2>1. SearchList(R \o I, n) /\ Holding(R \o I)
    BY <1>5, <1>13, JoinedSearch
  <2>2. \A x : x \in ToSet(R \o I) <=> x \in ToSet(R) \/ x \in ToSet(I)
    BY <1>5, <1>13, JoinedMembers
  <2>3. R \o I \in Seq(Operations)
    BY <1>5, <1>13, Joined
  <2> QED BY <1>5, <1>13, <2>1, <2>2, <2>3 DEF Has
<1>16. searching(Main) = IF ~worker[Main].hasMoves THEN H ELSE R \o I
  BY <1>6, <1>10, <1>14 DEF H
<1>17. /\ searching(Main) \in Seq(Operations)
       /\ SearchList(searching(Main), n) /\ Holding(searching(Main))
       /\ ~Has(searching(Main), "decide")
  BY <1>12, <1>15, <1>16
<1> QED BY <1>7, <1>17 DEF n

-----------------------------------------------------------------------------
(* What the steps do to the lists and the threads.                          *)

\* While the busy wait is ahead the next is neither the order to stop nor the answer.
LEMMA Holds ==
  ASSUME NEW L \in Seq(Operations), Holding(L)
  PROVE  /\ L # <<>> /\ Head(L).op # "raise"
         /\ \A n : SearchList(L, n) => Head(L).op # "answer"
<1>1. PICK i \in 1 .. Len(L) : L[i].op = "hold" /\ \A j \in 1 .. i - 1 : L[j].op # "raise"
  BY DEF Holding
<1>2. L # <<>> /\ Len(L) \in Nat \ {0} /\ Head(L) = L[1]
  BY <1>1, Empty, Shift
<1>3. Head(L).op # "raise"
  <2>1. CASE i = 1
    BY <1>1, <1>2, <2>1
  <2>2. CASE i # 1
    <3>1. 1 \in 1 .. i - 1
      BY <2>2
    <3> QED BY <1>1, <1>2, <3>1
  <2> QED BY <2>1, <2>2
<1>4. ASSUME NEW n, SearchList(L, n), Head(L).op = "answer" PROVE FALSE
  <2>1. Tail(L) = <<>> /\ Tail(L) \in Seq(Operations)
    BY <1>2, <1>4, SearchHead, Shift
  <2>2. Len(Tail(L)) = 0
    BY <2>1, Empty
  <2>3. Len(L) = 1
    BY <1>2, <2>2, Shift
  <2>4. i = 1
    BY <2>3
  <2> QED BY <1>1, <1>2, <1>4, <2>4
<1> QED BY <1>2, <1>3, <1>4

\* The empty list.
LEMMA Nothing ==
  /\ <<>> \in Seq(Operations) /\ QuietList(<<>>) /\ ~GoList(<<>>)
  /\ \A name : ~Has(<<>>, name)
  /\ \A t : ~Awaits(<<>>, t) /\ ~SetsUp(<<>>, t)
  /\ ToSet(<<>>) = {}
  BY DEF QuietList, GoList, Has, Awaits, SetsUp, ToSet

\* The types of the first operation and of the rest.
LEMMA HeadType ==
  ASSUME TypeOK, NEW a \in Actor, todo[a] # <<>>
  PROVE  /\ todo[a] \in Seq(Operations)
         /\ Head(todo[a]) \in Operations /\ Tail(todo[a]) \in Seq(Operations)
         /\ Head(todo[a]).t \in 0 .. Max(Sizes) /\ Head(todo[a]).job \in Jobs
         /\ Head(todo[a]).op # "sized" => Head(todo[a]).t \in Thread
<1>1. todo[a] \in Seq(Operations)
  BY DEF TypeOK
<1>2. Head(todo[a]) \in Operations /\ Tail(todo[a]) \in Seq(Operations)
  BY <1>1, Shift
<1> QED BY <1>1, <1>2 DEF Operations

\* One actor's list is changed alone.
LEMMA Updated ==
  ASSUME TypeOK, NEW a \in Actor, NEW L \in Seq(Operations), todo' = [todo EXCEPT ![a] = L]
  PROVE  /\ todo' \in [Actor -> Seq(Operations)] /\ todo'[a] = L
         /\ \A b \in Actor : b # a => todo'[b] = todo[b]
  BY DEF TypeOK

\* The thread t is as before, but for who waits on it.
Same(t) == /\ thread'[t].place = thread[t].place
           /\ thread'[t].searching = thread[t].searching
           /\ thread'[t].job = thread[t].job
AllSame == thread' \in [Thread -> ThreadState] /\ \A t \in Thread : Same(t)

\* Who waits on a condition variable is its only change.
LEMMA Waiting ==
  ASSUME TypeOK, NEW a \in Actor, NEW t \in Thread, Waits(a, t)
  PROVE  AllSame /\ todo' = todo
  BY DEF Waits, AllSame, Same, TypeOK, ThreadState

\* A notification wakes a waiter and does nothing else.
LEMMA Notifying ==
  ASSUME TypeOK, NEW t \in Thread, NEW x \in Notified(t)
  PROVE  /\ x \in ThreadState /\ x.place = thread[t].place
         /\ x.searching = thread[t].searching /\ x.job = thread[t].job /\ x.exit = thread[t].exit
  BY DEF Notified, TypeOK, ThreadState

\* wait_for_search_finished goes on only when its thread is not searching.
LEMMA WaitEffect ==
  ASSUME TypeOK, NEW a \in Actor, wait_for_search_finished(a)
  PROVE  /\ todo[a] # <<>> /\ Head(todo[a]).op = "wait" /\ Head(todo[a]).t \in Thread
         /\ AllSame /\ UNCHANGED <<pool, worker, engine, gui>>
         /\ \/ todo' = todo
            \/ /\ ~thread[Head(todo[a]).t].searching
               /\ todo' = [todo EXCEPT ![a] = Tail(todo[a])]
<1>1. todo[a] # <<>> /\ Head(todo[a]).op = "wait" /\ UNCHANGED <<pool, worker, engine, gui>>
  BY DEF wait_for_search_finished, At
<1>2. Head(todo[a]).t \in Thread
  BY <1>1, HeadType
<1>3. CASE thread[Head(todo[a]).t].searching
  BY <1>1, <1>2, <1>3, Waiting DEF wait_for_search_finished, Target
<1>4. CASE ~thread[Head(todo[a]).t].searching
  BY <1>1, <1>2, <1>4 DEF wait_for_search_finished, Target, Continue, AllSame, Same, TypeOK
<1> QED BY <1>1, <1>2, <1>3, <1>4

\* run_custom_job gives its job only to a thread that is not searching.
LEMMA RunEffect ==
  ASSUME TypeOK, NEW a \in Actor, run_custom_job(a)
  PROVE  /\ todo[a] # <<>> /\ Head(todo[a]).op = "run" /\ Head(todo[a]).t \in Thread
         /\ thread' \in [Thread -> ThreadState]
         /\ UNCHANGED <<pool, worker, engine, gui>>
         /\ \/ AllSame /\ todo' = todo
            \/ /\ ~thread[Head(todo[a]).t].searching
               /\ todo' = [todo EXCEPT ![a] = <<Op("notify", Head(todo[a]).t)>> \o Tail(todo[a])]
               /\ thread'[Head(todo[a]).t].place = thread[Head(todo[a]).t].place
               /\ thread'[Head(todo[a]).t].searching
               /\ thread'[Head(todo[a]).t].job = Head(todo[a]).job
               /\ \A t \in Thread : t # Head(todo[a]).t => Same(t)
<1>1. todo[a] # <<>> /\ Head(todo[a]).op = "run" /\ UNCHANGED <<pool, worker, engine, gui>>
  BY DEF run_custom_job, At
<1>2. Head(todo[a]).t \in Thread /\ Head(todo[a]).job \in Jobs
  BY <1>1, HeadType
<1>3. CASE thread[Head(todo[a]).t].searching
  <2>1. AllSame /\ todo' = todo
    BY <1>2, <1>3, Waiting DEF run_custom_job, Target
  <2> QED BY <1>1, <1>2, <2>1 DEF AllSame
<1>4. CASE ~thread[Head(todo[a]).t].searching
  <2>1. /\ thread' = [thread EXCEPT ![Head(todo[a]).t].job = Head(todo[a]).job,
                                    ![Head(todo[a]).t].searching = TRUE]
        /\ todo' = [todo EXCEPT ![a] = <<Op("notify", Head(todo[a]).t)>> \o Tail(todo[a])]
    BY <1>4 DEF run_custom_job, Target
  <2>2. /\ thread' \in [Thread -> ThreadState]
        /\ thread'[Head(todo[a]).t].place = thread[Head(todo[a]).t].place
        /\ thread'[Head(todo[a]).t].searching
        /\ thread'[Head(todo[a]).t].job = Head(todo[a]).job
        /\ \A t \in Thread : t # Head(todo[a]).t => Same(t)
    BY <1>2, <2>1 DEF Same, TypeOK, ThreadState
  <2> QED BY <1>1, <1>2, <1>4, <2>1, <2>2
<1> QED BY <1>3, <1>4

\* The notification of run_custom_job.
LEMMA NotifyEffect ==
  ASSUME TypeOK, NEW a \in Actor, Notify(a)
  PROVE  /\ todo[a] # <<>> /\ Head(todo[a]).op = "notify"
         /\ AllSame /\ UNCHANGED <<pool, worker, engine, gui>>
         /\ todo' = [todo EXCEPT ![a] = Tail(todo[a])]
<1>1. /\ todo[a] # <<>> /\ Head(todo[a]).op = "notify" /\ UNCHANGED <<pool, worker, engine, gui>>
      /\ todo' = [todo EXCEPT ![a] = Tail(todo[a])]
  BY DEF Notify, At, Continue
<1>2. Head(todo[a]).t \in Thread
  BY <1>1, HeadType
<1>3. PICK x \in Notified(Head(todo[a]).t) : thread' = [thread EXCEPT ![Head(todo[a]).t] = x]
  BY DEF Notify, Target
<1>4. /\ x \in ThreadState /\ x.place = thread[Head(todo[a]).t].place
      /\ x.searching = thread[Head(todo[a]).t].searching /\ x.job = thread[Head(todo[a]).t].job
  BY <1>2, <1>3, Notifying
<1>5. AllSame
  BY <1>2, <1>3, <1>4 DEF AllSame, Same, TypeOK
<1> QED BY <1>1, <1>5

\* The top of idle_loop: nothing is left to do, and searching is cleared.
LEMMA ParkEffect ==
  ASSUME TypeOK, NEW w \in Thread, Park(w)
  PROVE  /\ thread[w].place = "running" /\ todo[w] = <<>>
         /\ thread' \in [Thread -> ThreadState]
         /\ ~thread'[w].searching /\ thread'[w].place = "parked" /\ thread'[w].job = thread[w].job
         /\ \A t \in Thread : t # w => Same(t)
         /\ UNCHANGED <<todo, pool, worker, engine, gui>>
<1>1. PICK x \in Notified(w) : thread' = [thread EXCEPT ![w] =
          [x EXCEPT !.searching = FALSE, !.place = "parked", !.waiters = @ \cup {w}]]
  BY DEF Park
<1>2. x \in ThreadState /\ x.job = thread[w].job
  BY <1>1, Notifying
<1>3. /\ thread' \in [Thread -> ThreadState]
      /\ ~thread'[w].searching /\ thread'[w].place = "parked" /\ thread'[w].job = thread[w].job
      /\ \A t \in Thread : t # w => Same(t)
  <2> DEFINE y == [x EXCEPT !.searching = FALSE, !.place = "parked", !.waiters = @ \cup {w}]
  <2>1. /\ y \in ThreadState /\ ~y.searching /\ y.place = "parked" /\ y.job = thread[w].job
    <3>1. w \in Actor
      BY DEF Actor
    <3> QED BY <1>2, <3>1 DEF ThreadState, Places
  <2> HIDE DEF y
  <2>2. thread' = [thread EXCEPT ![w] = y]
    BY <1>1 DEF y
  <2> QED BY <2>1, <2>2 DEF Same, TypeOK
<1> QED BY <1>3 DEF Park

\* The thread takes its job, waits on, or returns.
LEMMA WakeEffect ==
  ASSUME TypeOK, NEW w \in Thread, Wake(w)
  PROVE  /\ thread' \in [Thread -> ThreadState] /\ UNCHANGED <<pool, worker, engine, gui>>
         /\ \/ AllSame /\ todo' = todo
            \/ /\ thread[w].place = "parked" /\ thread[w].searching
               /\ thread'[w].place = "returned" /\ todo' = todo
               /\ thread'[w].searching /\ thread'[w].job = thread[w].job
               /\ \A t \in Thread : t # w => Same(t)
            \/ /\ thread[w].place = "parked" /\ thread[w].searching
               /\ thread'[w].place = "running" /\ thread'[w].job = "none"
               /\ thread'[w].searching
               /\ todo' = [todo EXCEPT ![w] = JobOf(w, thread[w].job)]
               /\ \A t \in Thread : t # w => Same(t)
<1>1. thread[w].place = "parked" /\ UNCHANGED <<pool, worker, engine, gui>> /\ w \in Actor
  BY DEF Wake, Actor
<1>2. CASE ~thread[w].searching
  BY <1>1, <1>2, Waiting DEF Wake, AllSame
<1>3. CASE thread[w].searching /\ thread[w].exit
  <2>1. thread' = [thread EXCEPT ![w].place = "returned"] /\ todo' = todo
    BY <1>3 DEF Wake
  <2>2. /\ thread' \in [Thread -> ThreadState] /\ thread'[w].place = "returned"
        /\ thread'[w].searching = thread[w].searching /\ thread'[w].job = thread[w].job
        /\ \A t \in Thread : t # w => Same(t)
    BY <2>1 DEF TypeOK, ThreadState, Places, Same
  <2> QED BY <1>1, <1>3, <2>1, <2>2
<1>4. CASE thread[w].searching /\ ~thread[w].exit
  <2>1. /\ thread' = [thread EXCEPT ![w].place = "running", ![w].job = "none"]
        /\ todo' = [todo EXCEPT ![w] = JobOf(w, thread[w].job)]
    BY <1>4 DEF Wake
  <2>2. /\ thread' \in [Thread -> ThreadState] /\ thread'[w].place = "running"
        /\ thread'[w].searching = thread[w].searching /\ thread'[w].job = "none"
        /\ \A t \in Thread : t # w => Same(t)
    BY <2>1 DEF TypeOK, ThreadState, Places, Jobs, Same
  <2> QED BY <1>1, <1>4, <2>1, <2>2
<1> QED BY <1>2, <1>3, <1>4

-----------------------------------------------------------------------------
(* Who has what to do.                                                      *)

\* What a thread may have to do, by whether a search is live.
LEMMA WorkerHead ==
  ASSUME IInv, NEW w \in Thread, todo[w] # <<>>
  PROVE  /\ w \in Actor /\ todo[w] \in Seq(Operations) /\ Tail(todo[w]) \in Seq(Operations)
         /\ thread[w].place = "running" /\ thread[w].searching /\ thread[w].job = "none"
         /\ \/ Live /\ w = Main /\ SearchList(todo[w], pool.size)
            \/ Live /\ w # Main /\ w \in 2 .. pool.size /\ Searches(w) /\ Head(todo[w]).op \in {"iterate", "search"}
            \/ ~Live /\ DoesChores(w) /\ Awaits(todo[Uci], w) /\ Head(todo[w]).op \in Chores
<1>1. w \in Actor
  BY DEF Actor
<1>2. todo[w] \in Seq(Operations) /\ Tail(todo[w]) \in Seq(Operations)
  BY <1>1, HeadType DEF IInv
<1>3. thread[w].place = "running" /\ thread[w].searching /\ thread[w].job = "none"
  BY DEF IInv, ThreadInv
<1>4. Head(todo[w]) \in ToSet(todo[w])
  BY <1>2, TailMembers
<1>5. CASE Live /\ w = Main
  <2>1. Has(todo[Main], "answer")
    BY <1>3, <1>5 DEF Live
  <2> QED BY <1>1, <1>2, <1>3, <1>5, <2>1 DEF IInv, ListInv
<1>6. CASE Live /\ w \in 2 .. pool.size /\ Searches(w) /\ Awaits(todo[Main], w)
  BY <1>1, <1>2, <1>3, <1>4, <1>6 DEF Main, Searches
<1>7. CASE ~Live /\ DoesChores(w) /\ Awaits(todo[Uci], w)
  BY <1>1, <1>2, <1>3, <1>4, <1>7 DEF DoesChores
<1> QED BY <1>5, <1>6, <1>7 DEF IInv, WorkInv, Busy

\* While a search is live the main thread is in it or about to be, and nobody does a chore.
LEMMA LiveMain ==
  ASSUME IInv, Live
  PROVE  /\ thread[Main].searching /\ pool.size > 0
         /\ todo[Main] # <<>> => SearchList(todo[Main], pool.size)
         /\ \A t \in Thread : ~(thread[t].job \in Chores)
         /\ \A t \in Thread : \A o \in ToSet(todo[t]) : o.op \notin Chores
<1>1. Main \in Thread
  BY ThreadNumbers
<1>2. pool.size > 0
  BY DEF IInv, LiveInv
<1>3. thread[Main].job = "search" => thread[Main].searching
  BY <1>1 DEF IInv, ThreadInv
<1>4. todo[Main] # <<>> => thread[Main].searching /\ SearchList(todo[Main], pool.size)
  BY <1>1, WorkerHead
<1>5. Has(todo[Main], "answer") => todo[Main] # <<>>
  BY Nothing
<1>6. thread[Main].searching
  BY <1>3, <1>4, <1>5 DEF Live
<1>7. ASSUME NEW t \in Thread
      PROVE  /\ ~(thread[t].job \in Chores)
             /\ \A o \in ToSet(todo[t]) : o.op \notin Chores
  <2>1. CASE t = Main
    <3>1. CASE todo[Main] # <<>>
      <4>1. \A o \in ToSet(todo[Main]) : o.op \in MainOps \cup {"answer"}
        BY <1>1, <1>4, <3>1, WorkerHead, SearchHead
      <4>2. thread[Main].job = "none"
        BY <1>1, <3>1, WorkerHead
      <4> QED BY <2>1, <4>1, <4>2 DEF MainOps, Chores
    <3>2. CASE todo[Main] = <<>>
      <4>1. thread[Main].job = "search"
        BY <3>2, Nothing DEF Live
      <4> QED BY <2>1, <3>2, <4>1, Nothing DEF Chores
    <3> QED BY <3>1, <3>2
  <2>2. CASE t # Main
    <3>1. CASE Busy(t)
      <4>1. Searches(t)
        BY <2>2, <3>1 DEF IInv, WorkInv
      <4> QED BY <4>1 DEF Searches, Chores
    <3>2. CASE ~Busy(t)
      BY <3>2, Nothing DEF Busy, Chores
    <3> QED BY <3>1, <3>2
  <2> QED BY <2>1, <2>2
<1> QED BY <1>2, <1>4, <1>6, <1>7

\* What the UCI thread may have to do, a search being live or not.
LEMMA UciHead ==
  ASSUME IInv, todo[Uci] # <<>>
  PROVE  /\ Uci \in Actor /\ todo[Uci] \in Seq(Operations) /\ Tail(todo[Uci]) \in Seq(Operations)
         /\ Head(todo[Uci]).op \in UciOps
         /\ Live => \/ Head(todo[Uci]).op = "wait" /\ Head(todo[Uci]).t = Main
                    \/ Head(todo[Uci]).op = "notify" /\ Tail(todo[Uci]) = <<>>
<1>1. Uci \in Actor
  BY DEF Actor
<1>2. todo[Uci] \in Seq(Operations) /\ Tail(todo[Uci]) \in Seq(Operations)
  BY <1>1, HeadType DEF IInv
<1>3. Head(todo[Uci]).op \in UciOps
  BY <1>2, QuietHead, GoHead DEF IInv, ListInv, UciOps
<1>4. ASSUME Len(todo[Uci]) = 1 PROVE Tail(todo[Uci]) = <<>>
  <2>1. Len(Tail(todo[Uci])) = 0
    BY <1>2, <1>4, Shift
  <2> QED BY <1>2, <2>1, Empty, Zenon
<1> QED BY <1>1, <1>2, <1>3, <1>4 DEF IInv, LiveInv

\* Nothing happens that the invariant tells apart, but to stop, ponder and held.
LEMMA Still ==
  ASSUME IInv, TypeOK', ThreadInv', \A t \in Thread : thread'[t].job = thread[t].job,
         todo' = todo, worker' = worker,
         pool'.size = pool.size, pool'.go = pool.go, pool'.setupStates = pool.setupStates,
         engine' = engine, gui'.go = gui.go, gui'.answered = gui.answered,
         gui'.kind = gui.kind, gui'.quit = gui.quit, HeldInv'
  PROVE  IInv'
<1>1. Main \in Thread /\ \A t \in 1 .. pool.size : t \in Thread
  BY ThreadNumbers DEF IInv, TypeOK, PoolState
<1>2. (Live' <=> Live) /\ (Begun' <=> Begun)
  BY <1>1 DEF Live, Begun
<1>3. ListInv' /\ SizeInv'
  BY DEF IInv, ListInv, SizeInv
<1>4. WorkInv'
  BY <1>2 DEF IInv, WorkInv, Busy, Searches, DoesChores
<1>5. SetupInv' /\ CountInv'
  BY <1>2 DEF IInv, SetupInv, CountInv
<1>6. GoInv'
  BY <1>1, <1>2 DEF IInv, GoInv, IsBeingSetUp, IsSetUp
<1>7. LiveInv'
  BY <1>1, <1>2 DEF IInv, LiveInv, IsSetUp
<1> QED BY <1>3, <1>4, <1>5, <1>6, <1>7 DEF IInv

\* The promise to the GUI, while its parts stay as they are.
LEMMA StillHeld ==
  ASSUME IInv, pool' = pool, Held' => Held, gui'.kind = gui.kind,
         worker'[Main].kind = worker[Main].kind,
         Held => (Live' <=> Live), Held => (Begun' <=> Begun),
         Held /\ Live => /\ thread[Main].job = "search" => thread'[Main].job = "search" \/ Holding(todo'[Main])
                         /\ Holding(todo[Main]) => Holding(todo'[Main])
                         /\ Has(todo'[Main], "decide") => Has(todo[Main], "decide")
  PROVE  HeldInv'
  BY DEF IInv, HeldInv

\* A step that only has threads wait, wake or park keeps the invariant.
LEMMA Idle ==
  ASSUME IInv, thread' \in [Thread -> ThreadState], ThreadInv',
         \A t \in Thread : thread'[t].job = thread[t].job,
         UNCHANGED <<todo, pool, worker, engine, gui>>
  PROVE  IInv'
<1>1. TypeOK'
  BY DEF IInv, TypeOK
<1>2. Main \in Thread
  BY ThreadNumbers
<1>3. HeldInv'
  BY <1>2, StillHeld DEF Live, Begun, Held
<1> QED BY <1>1, <1>3, Still

\* So does one that only changes who waits.
LEMMA Stutter ==
  ASSUME IInv, AllSame, UNCHANGED <<todo, pool, worker, engine, gui>>
  PROVE  IInv'
<1>1. /\ thread' \in [Thread -> ThreadState]
      /\ \A t \in Thread : thread'[t].job = thread[t].job
  BY DEF AllSame, Same
<1>2. ThreadInv'
  BY DEF IInv, ThreadInv, AllSame, Same
<1> QED BY <1>1, <1>2, Idle

\* A worker is a worker for the same go, and on the same list of StateInfos.
SameWork == /\ worker' \in [Thread -> WorkerState]
            /\ \A t \in Thread : /\ worker'[t].go = worker[t].go
                                 /\ worker'[t].states = worker[t].states
                                 /\ worker'[t].kind = worker[t].kind

\* The main thread goes on with its search.
LEMMA MainMoves ==
  ASSUME IInv, Live, NEW M, SearchList(M, pool.size), M \in Seq(Operations),
         todo' = [todo EXCEPT ![Main] = M], todo[Main] # <<>>,
         thread' \in [Thread -> ThreadState], SameWork,
         \A t \in Thread : /\ thread'[t].place = thread[t].place
                           /\ thread[t].searching => thread'[t].searching
                           /\ thread'[t].job = thread[t].job \/
                                (t \in 2 .. pool.size /\ thread'[t].job = "search"
                                   /\ thread'[t].searching /\ ~thread[t].searching /\ Awaits(M, t)),
         \A t \in Thread : t # Main /\ Awaits(todo[Main], t) => Awaits(M, t) \/ ~Busy(t),
         pool' \in PoolState, pool'.size = pool.size, pool'.go = pool.go,
         pool'.setupStates = pool.setupStates,
         UNCHANGED <<engine, gui>>,
         Held => /\ ~pool'.stop /\ pool'.ponder = pool.ponder /\ Holding(M)
                 /\ "infinite" \in worker[Main].kind => ~Has(M, "decide")
  PROVE  IInv'
<1>1. Main \in Actor /\ Uci \in Actor /\ Uci # Main /\ Main \in Thread
      /\ \A t \in 1 .. pool.size : t \in Thread
  BY ThreadNumbers DEF Actor, Uci, Main, IInv, TypeOK, PoolState
<1>2. /\ todo' \in [Actor -> Seq(Operations)] /\ todo'[Main] = M /\ todo'[Uci] = todo[Uci]
      /\ \A t \in Thread : t # Main => todo'[t] = todo[t]
  BY <1>1, Updated DEF IInv, Actor
<1>3. Has(M, "answer") /\ \A o \in ToSet(M) : o.op \in MainOps \cup {"answer"}
  BY SearchHead
<1>4. Live' /\ (Begun' <=> Begun) /\ M # <<>>
  BY <1>2, <1>3, Nothing DEF Live, Begun
<1>5. thread[Main].job = "none" /\ thread[Main].place = "running"
  BY <1>1, WorkerHead
<1>6. TypeOK'
  BY <1>2 DEF IInv, TypeOK, SameWork
<1>7. ThreadInv'
  <2> SUFFICES ASSUME NEW t \in Thread
               PROVE  /\ thread'[t].place = "running" => thread'[t].searching /\ thread'[t].job = "none"
                      /\ todo'[t] # <<>> => thread'[t].place = "running"
                      /\ thread'[t].job # "none" => thread'[t].searching
    BY DEF ThreadInv
  <2>1. /\ thread[t].place = "running" => thread[t].searching /\ thread[t].job = "none"
        /\ todo[t] # <<>> => thread[t].place = "running"
        /\ thread[t].job # "none" => thread[t].searching
    BY DEF IInv, ThreadInv
  <2>2. CASE t = Main
    <3>1. thread'[t].job = "none" /\ thread'[t].searching /\ thread'[t].place = "running"
      BY <1>1, <1>5, <2>1, <2>2 DEF Main
    <3> QED BY <3>1
  <2>3. CASE t # Main
    BY <1>2, <2>1, <2>3
  <2> QED BY <2>2, <2>3
<1>8. ListInv'
  BY <1>2 DEF IInv, ListInv
<1>9. SizeInv' /\ CountInv'
  BY <1>2 DEF IInv, SizeInv, CountInv
<1>10. WorkInv'
  <2> SUFFICES ASSUME NEW t \in Thread, Busy(t)', t # Main
               PROVE  t \in 2 .. pool.size /\ Searches(t)' /\ Awaits(M, t)
    BY <1>2, <1>4 DEF WorkInv
  <2>1. CASE Busy(t)
    <3>1. t \in 2 .. pool.size /\ Searches(t) /\ Awaits(todo[Main], t)
      BY <2>1 DEF IInv, WorkInv
    <3> QED BY <1>2, <2>1, <3>1 DEF Searches
  <2>2. CASE ~Busy(t)
    <3>1. thread[t].job = "none" /\ todo[t] = <<>> /\ todo'[t] = <<>>
      BY <1>2, <2>2 DEF Busy
    <3> QED BY <3>1, Nothing DEF Busy, Searches
  <2> QED BY <2>1, <2>2
<1>11. SetupInv'
  <2>1. \A t \in Thread : thread[t].job # "setup" /\ ~Has(todo[t], "setup")
    BY LiveMain DEF Chores, Has
  <2> QED BY <1>2, <1>3, <2>1 DEF SetupInv, Has, MainOps
<1>12. GoInv'
  <2>1. ~Begun
    BY DEF IInv, GoInv, Begun
  <2> QED BY <1>2, <1>4, <2>1 DEF IInv, GoInv
<1>13. LiveInv'
  BY <1>1, <1>2 DEF IInv, LiveInv, IsSetUp, SameWork
<1>14. HeldInv'
  BY <1>1, <1>2, <1>4 DEF IInv, HeldInv, SameWork, Held
<1> QED BY <1>6, <1>7, <1>8, <1>9, <1>10, <1>11, <1>12, <1>13, <1>14 DEF IInv

\* A helper goes on with its search, or begins it.
LEMMA HelperMoves ==
  ASSUME IInv, Live, NEW w \in 2 .. pool.size, NEW M \in Seq(Operations),
         \A o \in ToSet(M) : o.op \in {"iterate", "search"},
         Awaits(todo[Main], w),
         todo' = [todo EXCEPT ![w] = M],
         thread' \in [Thread -> ThreadState], SameWork,
         \A t \in Thread : t # w => Same(t),
         thread'[w].place = "running", thread'[w].searching, thread'[w].job = "none",
         UNCHANGED <<pool, engine, gui>>
  PROVE  IInv'
<1>1. /\ w \in Actor /\ w \in Thread /\ w # Main /\ w # Uci /\ Uci \in Actor /\ Main \in Thread
      /\ Main \in Actor
      /\ \A t \in Thread : t \in Actor
      /\ \A t \in 1 .. pool.size : t \in Thread
  BY ThreadNumbers DEF Actor, Uci, Main, IInv, TypeOK, PoolState
<1>2. /\ todo' \in [Actor -> Seq(Operations)] /\ todo'[w] = M /\ todo'[Uci] = todo[Uci]
      /\ \A t \in Thread : t # w => todo'[t] = todo[t]
  BY <1>1, Updated DEF IInv
<1>3. Live' /\ (Begun' <=> Begun)
  BY <1>1, <1>2 DEF Live, Begun, Same
<1>4. TypeOK'
  BY <1>2 DEF IInv, TypeOK, SameWork
<1>5. ThreadInv'
  BY <1>2 DEF IInv, ThreadInv, Same
<1>6. ListInv' /\ SizeInv' /\ CountInv'
  BY <1>1, <1>2 DEF IInv, ListInv, SizeInv, CountInv
<1>7. WorkInv'
  <2>1. Searches(w)'
    BY <1>2 DEF Searches
  <2> SUFFICES ASSUME NEW t \in Thread, Busy(t)', t # Main, t # w
               PROVE  t \in 2 .. pool.size /\ Searches(t)' /\ Awaits(todo[Main], t)
    BY <1>1, <1>2, <1>3, <2>1 DEF WorkInv
  <2>2. Busy(t) /\ todo'[t] = todo[t] /\ thread'[t].job = thread[t].job
    BY <1>2 DEF Busy, Same
  <2> QED BY <2>2 DEF IInv, WorkInv, Searches
<1>8. SetupInv'
  <2>1. \A t \in Thread : thread[t].job # "setup" /\ ~Has(todo[t], "setup")
    BY LiveMain DEF Chores, Has
  <2>2. ~Has(M, "setup")
    BY DEF Has
  <2> QED BY <1>2, <2>1, <2>2 DEF SetupInv, Same
<1>9. GoInv'
  <2>1. ~Begun
    BY DEF IInv, GoInv, Begun
  <2> QED BY <1>2, <1>3, <2>1 DEF IInv, GoInv
<1>10. LiveInv'
  BY <1>1, <1>2 DEF IInv, LiveInv, IsSetUp, SameWork
<1>11. HeldInv'
  <2>1. todo'[Main] = todo[Main] /\ Same(Main) /\ worker'[Main].kind = worker[Main].kind
    BY <1>1, <1>2 DEF SameWork
  <2> QED BY <1>3, <2>1, StillHeld DEF Same, Held
<1> QED BY <1>4, <1>5, <1>6, <1>7, <1>8, <1>9, <1>10, <1>11 DEF IInv

GetsSetUp(w) == /\ worker'[w].go = pool.go /\ worker'[w].states = pool.setupStates
                /\ worker'[w].kind = gui.kind

\* A thread that is not searching does a chore of the UCI thread's, or begins it.
LEMMA ChoreMoves ==
  ASSUME IInv, ~Live, NEW w \in Thread, NEW M \in Seq(Operations),
         \A o \in ToSet(M) : o.op \in Chores, M # <<>> => Awaits(todo[Uci], w),
         Has(M, "setup") => thread[w].job = "setup" \/ Has(todo[w], "setup"),
         todo' = [todo EXCEPT ![w] = M],
         thread' \in [Thread -> ThreadState], worker' \in [Thread -> WorkerState],
         \A t \in Thread : t # w => Same(t) /\ worker'[t] = worker[t],
         thread'[w].place = "running", thread'[w].searching, thread'[w].job = "none",
         Begun => \/ Has(M, "setup") \/ SetsUp(todo[Uci], w)
                  \/ GetsSetUp(w)
                  \/ ~IsBeingSetUp(w) /\ worker'[w] = worker[w],
         UNCHANGED <<pool, engine, gui>>
  PROVE  IInv'
<1>1. /\ w \in Actor /\ w # Uci /\ Uci \in Actor /\ Main \in Thread
      /\ \A t \in 1 .. pool.size : t \in Thread
  BY ThreadNumbers DEF Actor, Uci, Main, IInv, TypeOK, PoolState
<1>2. /\ todo' \in [Actor -> Seq(Operations)] /\ todo'[w] = M /\ todo'[Uci] = todo[Uci]
      /\ \A t \in Thread : t # w => todo'[t] = todo[t]
  BY <1>1, Updated DEF IInv, Actor
<1>3. ~Live' /\ (Begun' <=> Begun) /\ ~Has(M, "answer") /\ ~Has(todo'[Main], "answer")
  BY <1>1, <1>2 DEF Live, Begun, Same, Has, Chores
<1>4. TypeOK'
  BY <1>2 DEF IInv, TypeOK
<1>5. ThreadInv'
  BY <1>2 DEF IInv, ThreadInv, Same
<1>6. ListInv' /\ SizeInv' /\ CountInv'
  BY <1>2, <1>3 DEF IInv, ListInv, SizeInv, CountInv
<1>7. WorkInv'
  <2>1. DoesChores(w)' /\ (Busy(w)' => Awaits(todo[Uci], w))
    BY <1>2 DEF DoesChores, Busy
  <2> SUFFICES ASSUME NEW t \in Thread, Busy(t)', t # w
               PROVE  DoesChores(t)' /\ Awaits(todo[Uci], t)
    BY <1>2, <1>3, <2>1 DEF WorkInv
  <2>2. Busy(t) /\ todo'[t] = todo[t] /\ thread'[t].job = thread[t].job
    BY <1>2 DEF Busy, Same
  <2> QED BY <2>2 DEF IInv, WorkInv, DoesChores
<1>8. SetupInv'
  BY <1>2, <1>3 DEF IInv, SetupInv, Same
<1>9. GoInv'
  <2>1. ASSUME Begun, NEW t \in 1 .. pool.size
        PROVE  IsBeingSetUp(t)' \/ (IsSetUp(t)' /\ worker'[t].kind = gui.kind)
    <3>1. IsBeingSetUp(t) \/ (IsSetUp(t) /\ worker[t].kind = gui.kind)
      BY <2>1 DEF IInv, GoInv, Begun
    <3>2. CASE t = w
      <4>1. CASE Has(M, "setup") \/ SetsUp(todo[Uci], w)
        BY <1>2, <3>2, <4>1 DEF IsBeingSetUp
      <4>2. CASE GetsSetUp(w)
        BY <3>2, <4>2 DEF GetsSetUp, IsSetUp
      <4>3. CASE ~IsBeingSetUp(w) /\ worker'[w] = worker[w]
        BY <3>1, <3>2, <4>3 DEF IsSetUp
      <4> QED BY <2>1, <4>1, <4>2, <4>3
    <3>3. CASE t # w
      BY <1>1, <1>2, <3>1, <3>3 DEF IsBeingSetUp, IsSetUp, Same
    <3> QED BY <3>2, <3>3
  <2> QED BY <1>2, <1>3, <2>1 DEF IInv, GoInv, Begun
<1>10. LiveInv'
  BY <1>3 DEF LiveInv
<1>11. HeldInv'
  BY <1>3 DEF IInv, HeldInv, Held
<1> QED BY <1>4, <1>5, <1>6, <1>7, <1>8, <1>9, <1>10, <1>11 DEF IInv

\* The UCI thread is done with an operation that neither gives a job nor begins.
LEMMA UciMoves ==
  ASSUME IInv, ~Live, todo[Uci] # <<>>,
         todo' = [todo EXCEPT ![Uci] = Tail(todo[Uci])],
         Head(todo[Uci]).op \notin {"run", "begin"},
         Head(todo[Uci]).op = "wait" => ~Busy(Head(todo[Uci]).t),
         thread' \in [Thread -> ThreadState], worker' \in [Thread -> WorkerState], ThreadInv',
         \A t \in Thread : thread'[t].job = thread[t].job \/
                             (thread'[t].job = "none" /\ ~GoList(todo[Uci])),
         worker' = worker \/ ~GoList(todo[Uci]),
         IF Head(todo[Uci]).op = "sized" THEN pool' = [pool EXCEPT !.size = Head(todo[Uci]).t]
                                         ELSE pool' = pool,
         UNCHANGED <<engine, gui>>
  PROVE  IInv'
<1> DEFINE L == todo[Uci]
           M == Tail(todo[Uci])
<1>1. Uci \in Actor /\ Main \in Thread /\ \A t \in Thread : t \in Actor /\ t # Uci
  BY ThreadNumbers DEF Actor
<1>2. L \in Seq(Operations) /\ M \in Seq(Operations) /\ Head(L).t \in 0 .. Max(Sizes)
  BY <1>1, HeadType DEF IInv
<1>3. /\ todo' \in [Actor -> Seq(Operations)] /\ todo'[Uci] = M
      /\ \A t \in Thread : todo'[t] = todo[t]
  BY <1>1, <1>2, Updated DEF IInv
<1>4. ~Live' /\ ~Has(todo'[Main], "answer")
  BY <1>1, <1>3 DEF Live
<1>5. \/ QuietList(L) /\ ~GoList(L) /\ QuietList(M) /\ ~GoList(M)
      \/ GoList(L) /\ GoList(M)
  BY <1>2, GoHead, TailQuiet, TailGo DEF IInv, ListInv
<1>6. /\ \A name : Has(M, name) => Has(L, name)
      /\ \A name : Has(L, name) => Has(M, name) \/ Head(L).op = name
      /\ \A t : SetsUp(L, t) <=> SetsUp(M, t)
      /\ \A t : Awaits(L, t) => Awaits(M, t) \/ (Head(L).op = "wait" /\ Head(L).t = t)
      /\ \A o \in ToSet(M) : o \in ToSet(L)
      /\ Head(L) \in ToSet(L)
  <2> HIDE DEF M
  <2>1. L # <<>> /\ M = Tail(L) /\ Head(L).op # "run"
    BY DEF M
  <2> HIDE DEF L
  <2>2. /\ \A name : Has(L, name) <=> Head(L).op = name \/ Has(M, name)
        /\ \A t : Awaits(L, t) <=> (Head(L).op = "wait" /\ Head(L).t = t) \/ Awaits(M, t)
        /\ \A t : SetsUp(L, t) <=> \/ Head(L).op = "run" /\ Head(L).job = "setup" /\ Head(L).t = t
                                   \/ SetsUp(M, t)
    BY <1>2, <2>1, TailHas
  <2>3. \A x : x \in ToSet(L) <=> x = Head(L) \/ x \in ToSet(M)
    BY <1>2, <2>1, TailMembers
  <2> QED BY <2>1, <2>2, <2>3
<1>7. Begun => Begun' /\ GoList(L)
  BY <1>3, <1>5, <1>6 DEF Begun
<1>8. GoList(L) => pool' = pool
  BY <1>2, GoHead
<1>9. TypeOK'
  BY <1>2, <1>3 DEF IInv, TypeOK, PoolState
<1>10. ListInv'
  BY <1>3, <1>4, <1>5 DEF ListInv
<1>11. SizeInv'
  <2>1. \A o \in ToSet(M) : o.op = "sized" => o.t > 0 \/ gui.quit
    BY <1>6 DEF IInv, SizeInv
  <2>2. ASSUME pool'.size = 0 PROVE gui.quit \/ Has(M, "sized")
    <3>1. CASE Head(L).op = "sized"
      <4>1. pool'.size = Head(L).t
        BY <3>1 DEF IInv, TypeOK, PoolState
      <4> QED BY <1>6, <2>2, <3>1, <4>1 DEF IInv, SizeInv
    <3>2. CASE Head(L).op # "sized"
      BY <1>6, <2>2, <3>2 DEF IInv, SizeInv
    <3> QED BY <3>1, <3>2
  <2> QED BY <1>3, <2>1, <2>2 DEF SizeInv
<1>12. WorkInv'
  <2> SUFFICES ASSUME NEW t \in Thread, Busy(t)'
               PROVE  DoesChores(t)' /\ Awaits(M, t)
    BY <1>3, <1>4 DEF WorkInv
  <2>1. Busy(t) /\ todo'[t] = todo[t] /\ thread'[t].job \in {thread[t].job, "none"}
    BY <1>3 DEF Busy
  <2>2. DoesChores(t) /\ Awaits(L, t)
    BY <2>1 DEF IInv, WorkInv
  <2>3. DoesChores(t)'
    BY <2>1, <2>2 DEF DoesChores
  <2> QED BY <1>6, <2>1, <2>2, <2>3
<1>13. SetupInv'
  BY <1>3, <1>7 DEF IInv, SetupInv
<1>14. CountInv'
  BY DEF IInv, CountInv, TypeOK, PoolState
<1>15. GoInv'
  <2> SUFFICES ASSUME GoList(M) PROVE GoInv'
    BY <1>3 DEF GoInv
  <2>1. GoList(L) /\ pool' = pool /\ worker' = worker
        /\ \A t \in Thread : thread'[t].job = thread[t].job
    BY <1>5, <1>8
  <2>2. Has(M, "begin") <=> Has(L, "begin")
    BY <1>6
  <2>3. Begun' <=> Begun
    BY <1>3, <1>5, <2>1, <2>2 DEF Begun
  <2>4. \A t \in 1 .. pool.size : t \in Thread
    BY ThreadNumbers DEF IInv, TypeOK, PoolState
  <2>5. \A t \in 1 .. pool.size : (IsBeingSetUp(t)' <=> IsBeingSetUp(t)) /\ (IsSetUp(t)' <=> IsSetUp(t))
    BY <1>3, <1>6, <2>1, <2>4 DEF IsBeingSetUp, IsSetUp
  <2> QED BY <1>3, <1>4, <1>6, <2>1, <2>2, <2>3, <2>5 DEF IInv, GoInv
<1>16. LiveInv'
  BY <1>4 DEF LiveInv
<1>17. HeldInv'
  BY <1>4, <1>7, <1>8 DEF IInv, HeldInv, Held
<1> QED BY <1>9, <1>10, <1>11, <1>12, <1>13, <1>14, <1>15, <1>16, <1>17 DEF IInv

\* The UCI thread gives a job.
LEMMA UciGives ==
  ASSUME IInv, ~Live, todo[Uci] # <<>>, Head(todo[Uci]).op = "run",
         NEW w \in Thread, w = Head(todo[Uci]).t, ~thread[w].searching,
         todo' = [todo EXCEPT ![Uci] = <<Op("notify", w)>> \o Tail(todo[Uci])],
         thread' \in [Thread -> ThreadState],
         thread'[w].place = thread[w].place, thread'[w].searching,
         thread'[w].job = Head(todo[Uci]).job,
         \A t \in Thread : t # w => Same(t),
         UNCHANGED <<pool, worker, engine, gui>>
  PROVE  IInv'
<1> DEFINE L == todo[Uci]
           R == Tail(todo[Uci])
           o == Op("notify", w)
           M == <<o>> \o R
<1>1. /\ Uci \in Actor /\ Main \in Thread /\ \A t \in Thread : t \in Actor /\ t # Uci
      /\ \A t \in 1 .. pool.size : t \in Thread
  BY ThreadNumbers DEF Actor, IInv, TypeOK, PoolState
<1>2. L \in Seq(Operations) /\ R \in Seq(Operations) /\ Head(L).job \in Jobs /\ L # <<>>
  BY <1>1, HeadType DEF IInv
<1>3. o \in Operations /\ o.op = "notify"
  BY OpType DEF UciOps, Op
<1> HIDE DEF o
<1>4. /\ \A name : Has(M, name) <=> o.op = name \/ Has(R, name)
      /\ \A t : Awaits(M, t) <=> Awaits(R, t)
      /\ \A t : SetsUp(M, t) <=> SetsUp(R, t)
      /\ \A x : x \in ToSet(M) <=> x = o \/ x \in ToSet(R)
      /\ M \in Seq(Operations) /\ M # <<>> /\ Head(M) = o /\ Len(M) = Len(R) + 1
  BY <1>2, <1>3, LongerHas, Longer
<1>5. /\ \A name : Has(L, name) <=> Head(L).op = name \/ Has(R, name)
      /\ \A t : Awaits(L, t) <=> Awaits(R, t)
      /\ \A t : SetsUp(L, t) <=> \/ Head(L).job = "setup" /\ w = t
                                 \/ SetsUp(R, t)
      /\ \A x \in ToSet(R) : x \in ToSet(L)
  <2> HIDE DEF R
  <2>1. Head(L).op = "run" /\ Head(L).t = w /\ R = Tail(L)
    BY DEF R
  <2> HIDE DEF L
  <2> QED BY <1>2, <2>1, TailHas, TailMembers
<1>6. /\ todo' \in [Actor -> Seq(Operations)] /\ todo'[Uci] = M
      /\ \A t \in Thread : todo'[t] = todo[t]
  <2>1. todo' = [todo EXCEPT ![Uci] = M]
    BY DEF o
  <2> HIDE DEF M
  <2> QED BY <1>1, <1>4, <2>1, Updated DEF IInv
<1>7. ~Busy(w) /\ todo[w] = <<>> /\ thread[w].job = "none" /\ thread[w].place # "running"
  BY DEF IInv, ThreadInv, Busy
<1>8. \/ /\ QuietList(L) /\ QuietList(M) /\ ~GoList(M) /\ ~GoList(L)
         /\ Head(L).job \in {"none", "construct", "clear", "clear table"}
         /\ Head(L).job # "none" => Awaits(R, w)
      \/ /\ GoList(L) /\ GoList(M) /\ Head(L).job = "setup" /\ Awaits(R, w)
      \/ /\ GoList(L) /\ QuietList(M) /\ ~GoList(M)
         /\ Head(L).job = "search" /\ w = Main /\ R = <<>>
  <2>1. CASE QuietList(L)
    <3>1. QuietList(R) /\ Head(L).job \notin {"setup", "search"} /\ (Head(L).job # "none" => Awaits(R, w))
      BY <1>2, <2>1, TailQuiet, QuietHead
    <3>2. QuietList(M)
      BY <1>2, <1>3, <3>1, LongerQuiet DEF UciOps
    <3>3. ~GoList(M) /\ ~GoList(L)
      <4> HIDE DEF M, L
      <4> QED BY <1>2, <1>4, <2>1, <3>2, GoHead
    <3> QED BY <1>2, <2>1, <3>1, <3>2, <3>3 DEF Jobs
  <2>2. CASE GoList(L)
    <3>1. \/ Head(L).job = "setup" /\ Awaits(R, w)
          \/ Head(L).job = "search" /\ w = Main /\ R = <<>>
      BY <1>2, <2>2, GoHead
    <3>2. ~Has(R, "begin")
      BY <1>2, <2>2, GoHead
    <3>3. CASE Head(L).job = "setup" /\ Awaits(R, w)
      <4>1. GoList(R)
        BY <1>2, <2>2, <3>3, TailGo
      <4>2. GoList(M)
        BY <1>2, <1>3, <3>2, <4>1, LongerGo
      <4> QED BY <2>2, <3>3, <4>2
    <3>4. CASE Head(L).job = "search" /\ w = Main /\ R = <<>>
      <4>1. QuietList(M)
        BY <1>2, <1>3, <3>4, LongerQuiet, Nothing DEF UciOps
      <4>2. ~GoList(M)
        <5> HIDE DEF M
        <5> QED BY <1>4, <4>1, GoHead
      <4> QED BY <2>2, <3>4, <4>1, <4>2
    <3> QED BY <3>1, <3>3, <3>4
  <2> QED BY <2>1, <2>2 DEF IInv, ListInv
<1>9. GoList(L) => Begun
  BY <1>2, <1>5, GoHead DEF Begun
<1>10. Live' <=> Head(L).job = "search"
  <2>1. \A t \in Thread : t # w => thread'[t].job = thread[t].job
    BY DEF Same
  <2>2. Has(todo'[Main], "answer") <=> Has(todo[Main], "answer")
    BY <1>1, <1>6
  <2>3. Head(L).job = "search" => w = Main
    BY <1>8
  <2>4. thread[Main].job # "search" /\ ~Has(todo[Main], "answer")
    BY DEF Live
  <2>5. thread'[Main].job = "search" <=> Head(L).job = "search"
    BY <1>1, <2>1, <2>3, <2>4
  <2> QED BY <2>2, <2>4, <2>5 DEF Live
<1> HIDE DEF L, R, M
<1>11. TypeOK'
  BY <1>6 DEF IInv, TypeOK
<1>12. ThreadInv'
  <2> SUFFICES ASSUME NEW t \in Thread
               PROVE  /\ thread'[t].place = "running" => thread'[t].searching /\ thread'[t].job = "none"
                      /\ todo'[t] # <<>> => thread'[t].place = "running"
                      /\ thread'[t].job # "none" => thread'[t].searching
    BY DEF ThreadInv
  <2>1. CASE t = w
    BY <1>6, <1>7, <2>1
  <2>2. CASE t # w
    BY <1>6, <2>2 DEF IInv, ThreadInv, Same
  <2> QED BY <2>1, <2>2
<1>13. ListInv'
  <2>1. ~Has(todo'[Main], "answer")
    BY <1>1, <1>6 DEF Live
  <2> QED BY <1>6, <1>8, <2>1 DEF ListInv
<1>14. SizeInv' /\ CountInv'
  <2>1. Has(L, "sized") => Has(M, "sized")
    BY <1>4, <1>5 DEF L
  <2> QED BY <1>3, <1>4, <1>5, <1>6, <2>1 DEF IInv, SizeInv, CountInv, L
<1>15. WorkInv'
  <2>1. ASSUME NEW t \in Thread, t # w, Busy(t)'
        PROVE  DoesChores(t)' /\ Awaits(L, t) /\ Awaits(M, t)
    <3>1. Busy(t) /\ todo'[t] = todo[t] /\ thread'[t].job = thread[t].job
      BY <1>6, <2>1 DEF Busy, Same
    <3>2. DoesChores(t) /\ Awaits(L, t)
      BY <3>1 DEF IInv, WorkInv, L
    <3> QED BY <1>4, <1>5, <3>1, <3>2 DEF DoesChores
  <2>2. CASE Head(L).job = "search"
    <3>1. w = Main /\ R = <<>>
      BY <1>8, <2>2
    <3>2. \A t : ~Awaits(L, t)
      BY <1>5, <3>1, Nothing
    <3> QED BY <1>10, <2>1, <2>2, <3>1, <3>2 DEF WorkInv
  <2>3. CASE Head(L).job # "search"
    <3>1. Busy(w)' => DoesChores(w)' /\ Awaits(M, w)
      <4>1. Head(L).job # "none" => Head(L).job \in Chores /\ Awaits(M, w)
        BY <1>4, <1>8, <2>3 DEF Chores
      <4>2. todo'[w] = <<>> /\ thread'[w].job = Head(L).job
        BY <1>6, <1>7 DEF L
      <4> QED BY <4>1, <4>2, Nothing DEF Busy, DoesChores
    <3> QED BY <1>6, <1>10, <2>1, <2>3, <3>1 DEF WorkInv
  <2> QED BY <2>2, <2>3
<1>16. Head(L).job # "search" => (Begun' <=> Begun)
  BY <1>3, <1>4, <1>5, <1>6, <1>8 DEF Begun, L
<1>17. SetupInv'
  <2> SUFFICES ASSUME NEW t \in Thread, thread'[t].job = "setup" \/ Has(todo'[t], "setup")
               PROVE  Begun'
    BY DEF SetupInv
  <2>1. CASE Head(L).job = "setup"
    <3>1. GoList(L)
      BY <1>8, <2>1
    <3> QED BY <1>9, <1>16, <2>1, <3>1
  <2>2. CASE Head(L).job # "setup"
    <3>1. t # w
      BY <1>6, <1>7, <2>2, Nothing DEF L
    <3>2. thread[t].job = "setup" \/ Has(todo[t], "setup")
      BY <1>6, <3>1 DEF Same
    <3>3. Begun /\ Busy(t)
      BY <3>2, Nothing DEF IInv, SetupInv, Busy
    <3>4. Awaits(L, t)
      BY <3>3 DEF IInv, WorkInv, L
    <3>5. Head(L).job # "search"
      BY <1>5, <1>8, <3>4, Nothing
    <3> QED BY <1>16, <3>3, <3>5
  <2> QED BY <2>1, <2>2
<1>18. GoInv'
  <2> SUFFICES ASSUME GoList(M) PROVE GoInv'
    BY <1>6 DEF GoInv
  <2>1. GoList(L) /\ Head(L).job = "setup" /\ Begun /\ Begun'
    BY <1>8, <1>9, <1>16
  <2>2. ASSUME NEW t \in 1 .. pool.size
        PROVE  IsBeingSetUp(t)' \/ (IsSetUp(t)' /\ worker'[t].kind = gui.kind)
    <3>1. IsBeingSetUp(t) \/ (IsSetUp(t) /\ worker[t].kind = gui.kind)
      BY <2>1 DEF IInv, GoInv, L
    <3>2. CASE t = w
      BY <2>1, <3>2 DEF IsBeingSetUp, L
    <3>3. CASE t # w
      <4>1. t \in Thread /\ Same(t) /\ todo'[t] = todo[t]
        BY <1>1, <1>6, <3>3
      <4>2. SetsUp(todo[Uci], t) => SetsUp(todo'[Uci], t)
        BY <1>4, <1>5, <1>6, <3>3 DEF L
      <4> QED BY <3>1, <4>1, <4>2 DEF IsBeingSetUp, IsSetUp, Same
    <3> QED BY <3>2, <3>3
  <2>3. ~Has(M, "begin")
    BY <1>6, <2>1 DEF Begun
  <2> QED BY <1>6, <1>10, <2>1, <2>2, <2>3 DEF IInv, GoInv, L
<1>19. ASSUME Head(L).job = "search"
       PROVE  /\ Begun /\ pool.go = gui.go /\ gui.answered < pool.go /\ pool.size > 0
              /\ \A t \in 1 .. pool.size : IsSetUp(t) /\ worker[t].kind = gui.kind
  <2>1. GoList(L) /\ R = <<>> /\ Begun
    BY <1>8, <1>9, <1>19
  <2>2. ASSUME NEW t \in 1 .. pool.size PROVE ~IsBeingSetUp(t)
    <3>1. ~SetsUp(L, t) /\ ~Awaits(L, t)
      BY <1>5, <1>19, <2>1, Nothing
    <3>2. ~Busy(t)
      BY <1>1, <3>1 DEF IInv, WorkInv, L
    <3> QED BY <3>1, <3>2, Nothing DEF IsBeingSetUp, Busy, L
  <2> QED BY <2>1, <2>2 DEF IInv, GoInv, L
<1>20. LiveInv'
  <2> SUFFICES ASSUME Head(L).job = "search" PROVE LiveInv'
    BY <1>10 DEF LiveInv
  <2>1. Head(M).op = "notify" /\ Len(M) = 1
    <3>1. R = <<>>
      BY <1>8
    <3>2. Len(R) = 0
      BY <1>2, <3>1, Empty
    <3> QED BY <1>3, <1>4, <3>2
  <2>2. \A t \in 1 .. pool.size : IsSetUp(t)'
    BY <1>19 DEF IsSetUp
  <2> QED BY <1>6, <1>19, <2>1, <2>2 DEF LiveInv
<1>21. HeldInv'
  <2>1. CASE Head(L).job = "search"
    <3>1. w = Main /\ thread'[Main].job = "search" /\ todo'[Main] = <<>>
      BY <1>6, <1>7, <1>8, <2>1 DEF L
    <3>2. worker'[Main].kind = gui.kind
      BY <1>19, <2>1 DEF Main, IInv, TypeOK, PoolState
    <3> QED BY <1>10, <2>1, <3>1, <3>2, Nothing DEF IInv, HeldInv, Held
  <2>2. CASE Head(L).job # "search"
    BY <1>10, <1>16, <2>2 DEF IInv, HeldInv, Held
  <2> QED BY <2>1, <2>2
<1> QED BY <1>11, <1>12, <1>13, <1>14, <1>15, <1>17, <1>18, <1>20, <1>21 DEF IInv

\* start_thinking begins: the go is the pool's, and every worker has to be set up for it.
LEMMA BeginStep ==
  ASSUME IInv, Begin
  PROVE  IInv'
<1> DEFINE L == todo[Uci]
           M == Tail(todo[Uci])
<1>1. /\ L # <<>> /\ Head(L).op = "begin"
      /\ todo' = [todo EXCEPT ![Uci] = M]
      /\ pool' = [pool EXCEPT !.stop = FALSE, !.abortedSearch = FALSE, !.stopOnPonderhit = FALSE,
                              !.ponder = "ponder" \in gui.kind, !.go = gui.go,
                              !.setupStates = IF engine.states # NoStates THEN engine.states ELSE @]
      /\ engine' = [engine EXCEPT !.states = NoStates]
      /\ gui' = [gui EXCEPT !.held = {"infinite", "ponder"} \cap gui.kind # {}]
      /\ UNCHANGED <<thread, worker>>
  BY DEF Begin, At, Continue
<1>2. /\ Uci \in Actor /\ Main \in Thread /\ \A t \in Thread : t \in Actor /\ t # Uci
      /\ \A t \in 1 .. pool.size : t \in Thread
  BY ThreadNumbers DEF Actor, IInv, TypeOK, PoolState
<1>3. L \in Seq(Operations) /\ M \in Seq(Operations)
  BY <1>1, <1>2, HeadType DEF IInv
<1>4. /\ todo' \in [Actor -> Seq(Operations)] /\ todo'[Uci] = M
      /\ \A t \in Thread : todo'[t] = todo[t]
  BY <1>1, <1>2, <1>3, Updated DEF IInv
<1>5. ~Live /\ ~Live'
  <2>1. ~Live
    BY <1>1, UciHead
  <2> QED BY <1>1, <1>2, <1>4, <2>1 DEF Live
<1> HIDE DEF L, M
<1>6. GoList(L) /\ GoList(M) /\ ~Has(M, "begin") /\ Has(L, "begin")
  <2>1. GoList(L)
    BY <1>1, <1>3, QuietHead DEF IInv, ListInv, L
  <2>2. M = Tail(L)
    BY DEF M, L
  <2> QED BY <1>1, <1>3, <2>1, <2>2, GoHead, TailGo, TailHas
<1>7. /\ \A t : Awaits(L, t) => Awaits(M, t)
      /\ \A t : SetsUp(L, t) => SetsUp(M, t)
      /\ Has(L, "sized") => Has(M, "sized")
      /\ \A o \in ToSet(M) : o \in ToSet(L)
  <2>1. M = Tail(L)
    BY DEF M, L
  <2>2. /\ \A t : Awaits(L, t) <=> (Head(L).op = "wait" /\ Head(L).t = t) \/ Awaits(M, t)
        /\ \A t : SetsUp(L, t) <=> \/ Head(L).op = "run" /\ Head(L).job = "setup" /\ Head(L).t = t
                                   \/ SetsUp(M, t)
        /\ Has(L, "sized") <=> Head(L).op = "sized" \/ Has(M, "sized")
        /\ \A x : x \in ToSet(L) <=> x = Head(L) \/ x \in ToSet(M)
    BY <1>1, <1>3, <2>1, TailHas, TailMembers
  <2> QED BY <1>1, <2>2
<1>8. /\ pool' \in PoolState /\ pool'.size = pool.size /\ pool'.go = gui.go /\ ~pool'.stop
      /\ pool'.ponder = ("ponder" \in gui.kind)
      /\ pool'.setupStates = IF engine.states # NoStates THEN engine.states ELSE pool.setupStates
      /\ engine' \in EngineState /\ engine'.states = 0 /\ engine'.lists = engine.lists
      /\ gui' \in GuiState /\ gui'.go = gui.go /\ gui'.answered = gui.answered
      /\ gui'.kind = gui.kind /\ gui'.quit = gui.quit
      /\ gui'.held = ({"infinite", "ponder"} \cap gui.kind # {})
  <2>1. gui \in GuiState /\ engine \in EngineState /\ pool \in PoolState
    BY DEF IInv, TypeOK
  <2>2. /\ gui' \in GuiState /\ gui'.go = gui.go /\ gui'.answered = gui.answered
        /\ gui'.kind = gui.kind /\ gui'.quit = gui.quit
        /\ gui'.held = ({"infinite", "ponder"} \cap gui.kind # {})
    <3> DEFINE h == {"infinite", "ponder"} \cap gui.kind # {}
    <3>1. h \in BOOLEAN /\ gui' = [gui EXCEPT !.held = h]
      BY <1>1
    <3> HIDE DEF h
    <3>2. /\ gui' \in GuiState /\ gui'.go = gui.go /\ gui'.answered = gui.answered
          /\ gui'.kind = gui.kind /\ gui'.quit = gui.quit /\ gui'.held = h
      BY <2>1, <3>1 DEF GuiState
    <3> QED BY <3>2 DEF h
  <2>3. engine' \in EngineState /\ engine'.states = 0 /\ engine'.lists = engine.lists
    BY <1>1, <2>1 DEF EngineState, NoStates
  <2>4. \E s \in Nat :
          /\ s = IF engine.states # NoStates THEN engine.states ELSE pool.setupStates
          /\ pool' = [pool EXCEPT !.stop = FALSE, !.abortedSearch = FALSE, !.stopOnPonderhit = FALSE,
                                  !.ponder = "ponder" \in gui.kind, !.go = gui.go, !.setupStates = s]
    BY <1>1, <2>1 DEF PoolState, EngineState
  <2>5. PICK s \in Nat :
          /\ s = IF engine.states # NoStates THEN engine.states ELSE pool.setupStates
          /\ pool' = [pool EXCEPT !.stop = FALSE, !.abortedSearch = FALSE, !.stopOnPonderhit = FALSE,
                                  !.ponder = "ponder" \in gui.kind, !.go = gui.go, !.setupStates = s]
    BY <2>4
  <2>6. gui.go \in Nat /\ ("ponder" \in gui.kind) \in BOOLEAN
    BY <2>1 DEF GuiState
  <2>7. /\ pool' \in PoolState /\ pool'.size = pool.size /\ pool'.go = gui.go /\ ~pool'.stop
        /\ pool'.ponder = ("ponder" \in gui.kind) /\ pool'.setupStates = s
    BY <2>1, <2>5, <2>6 DEF PoolState
  <2> QED BY <2>2, <2>3, <2>5, <2>7
<1>9. ~Begun /\ Begun'
  BY <1>4, <1>6 DEF Begun, L
<1>10. TypeOK'
  BY <1>1, <1>4, <1>8 DEF IInv, TypeOK
<1>11. ThreadInv'
  BY <1>1, <1>4 DEF IInv, ThreadInv
<1>12. ListInv'
  <2>1. ~Has(todo'[Main], "answer")
    BY <1>5 DEF Live
  <2> QED BY <1>4, <1>6, <2>1 DEF ListInv
<1>13. SizeInv'
  BY <1>4, <1>7, <1>8 DEF IInv, SizeInv, L
<1>14. WorkInv'
  <2> SUFFICES ASSUME NEW t \in Thread, Busy(t)'
               PROVE  DoesChores(t)' /\ Awaits(M, t)
    BY <1>4, <1>5 DEF WorkInv
  <2>1. Busy(t)
    BY <1>1, <1>4 DEF Busy
  <2>2. DoesChores(t) /\ Awaits(L, t)
    BY <1>5, <2>1 DEF IInv, WorkInv, L
  <2> QED BY <1>1, <1>4, <1>7, <2>2 DEF DoesChores
<1>15. SetupInv'
  BY <1>9 DEF SetupInv
<1>16. pool.go < gui.go /\ \A t \in 1 .. pool.size : SetsUp(L, t)
  BY <1>6 DEF IInv, GoInv, L
<1>17. CountInv'
  BY <1>8, <1>16 DEF IInv, CountInv, TypeOK, PoolState, EngineState, GuiState, NoStates
<1>18. GoInv'
  <2>1. pool.size > 0
    BY <1>6 DEF IInv, GoInv, L
  <2>2. \A t \in 1 .. pool.size : IsBeingSetUp(t)'
    BY <1>4, <1>7, <1>16 DEF IsBeingSetUp
  <2>3. gui.answered < gui.go
    BY <1>16 DEF IInv, CountInv, TypeOK, PoolState, GuiState
  <2> QED BY <1>4, <1>5, <1>6, <1>8, <2>1, <2>2, <2>3 DEF GoInv
<1>19. LiveInv'
  BY <1>5 DEF LiveInv
<1>20. HeldInv'
  BY <1>5, <1>8, <1>9 DEF HeldInv, Held
<1> QED BY <1>10, <1>11, <1>12, <1>13, <1>14, <1>15, <1>17, <1>18, <1>19, <1>20 DEF IInv

\* A command is read.
LEMMA Reads ==
  ASSUME IInv, todo[Uci] = <<>>, ~gui.quit, NEW L \in Seq(Operations),
         todo' = [todo EXCEPT ![Uci] = L], UNCHANGED <<thread, worker>>,
         pool' \in PoolState, gui' \in GuiState, engine' \in EngineState,
         pool'.size = pool.size, pool'.go = pool.go, pool'.setupStates = pool.setupStates,
         \/ QuietList(L) /\ gui'.go = gui.go
         \/ /\ GoList(L) /\ Has(L, "begin") /\ gui'.go = gui.go + 1
            /\ \A t \in 1 .. pool.size : SetsUp(L, t),
         \A o \in ToSet(L) : o.op = "sized" => o.t > 0 \/ gui'.quit,
         L # <<>> => Head(L).op = "wait" /\ Head(L).t = Main,
         gui'.answered = gui.answered,
         engine' = engine \/
           (engine'.states = engine'.lists /\ engine'.lists = engine.lists + 1),
         Held' => /\ Held /\ gui'.kind = gui.kind /\ pool'.stop = pool.stop
                  /\ "infinite" \in gui.kind \/ pool'.ponder = pool.ponder
  PROVE  IInv'
<1>1. Uci \in Actor /\ Main \in Thread /\ \A t \in Thread : t \in Actor /\ t # Uci
  BY ThreadNumbers DEF Actor
<1>2. /\ todo' \in [Actor -> Seq(Operations)] /\ todo'[Uci] = L
      /\ \A t \in Thread : todo'[t] = todo[t]
  BY <1>1, Updated DEF IInv
<1>3. Live' <=> Live
  BY <1>1, <1>2 DEF Live
<1>4. ~Begun /\ ~Begun'
  <2>1. ~Begun
    BY Nothing DEF Begun
  <2>2. CASE QuietList(L)
    <3>1. ~GoList(L)
      BY <2>2, GoHead
    <3> QED BY <1>2, <2>1, <3>1 DEF Begun
  <2>3. CASE Has(L, "begin")
    BY <1>2, <2>1, <2>3 DEF Begun
  <2> QED BY <2>2, <2>3
<1>5. TypeOK'
  BY <1>2 DEF IInv, TypeOK
<1>6. ThreadInv'
  BY <1>2 DEF IInv, ThreadInv
<1>7. ListInv'
  BY <1>1, <1>2 DEF IInv, ListInv
<1>8. pool.size > 0
  <2>1. pool.size # 0
    BY Nothing DEF IInv, SizeInv
  <2> QED BY <2>1 DEF IInv, TypeOK, PoolState
<1>9. SizeInv'
  BY <1>2, <1>8 DEF SizeInv
<1>10. WorkInv'
  <2> SUFFICES ASSUME NEW t \in Thread, Busy(t)'
               PROVE  \/ Live' /\ t = Main
                      \/ Live' /\ t \in 2 .. pool'.size /\ Searches(t)' /\ Awaits(todo'[Main], t)
    BY DEF WorkInv
  <2>1. Busy(t) /\ ~Awaits(todo[Uci], t)
    BY <1>2, Nothing DEF Busy
  <2>2. \/ Live /\ t = Main
        \/ Live /\ t \in 2 .. pool.size /\ Searches(t) /\ Awaits(todo[Main], t)
    BY <2>1 DEF IInv, WorkInv
  <2> QED BY <1>1, <1>2, <1>3, <2>2 DEF Searches
<1>11. SetupInv'
  BY <1>2, <1>4 DEF IInv, SetupInv
<1>12. CountInv'
  BY DEF IInv, CountInv, TypeOK, PoolState, GuiState, EngineState
<1>13. GoInv'
  <2> SUFFICES ASSUME GoList(L) PROVE GoInv'
    BY <1>2 DEF GoInv
  <2>1. Has(L, "begin") /\ gui'.go = gui.go + 1 /\ \A t \in 1 .. pool.size : SetsUp(L, t)
    BY GoHead
  <2>2. pool.go < gui'.go
    BY <2>1 DEF IInv, CountInv, TypeOK, PoolState, GuiState
  <2> QED BY <1>2, <1>4, <1>8, <2>1, <2>2 DEF GoInv
<1>14. LiveInv'
  <2> SUFFICES ASSUME Live' PROVE LiveInv'
    BY DEF LiveInv
  <2>1. gui.answered < pool.go /\ \A t \in 1 .. pool.size : IsSetUp(t)
    BY <1>3 DEF IInv, LiveInv
  <2> QED BY <1>2, <1>8, <2>1 DEF LiveInv, IsSetUp
<1>15. HeldInv'
  BY <1>1, <1>2, <1>3, <1>4 DEF IInv, HeldInv, Held
<1> QED BY <1>5, <1>6, <1>7, <1>9, <1>10, <1>11, <1>12, <1>13, <1>14, <1>15 DEF IInv

-----------------------------------------------------------------------------
(* The UCI thread's steps.                                                  *)

\* The UCI thread waits.
LEMMA UciWaits ==
  ASSUME IInv, wait_for_search_finished(Uci)
  PROVE  IInv'
<1>1. /\ todo[Uci] # <<>> /\ Head(todo[Uci]).op = "wait" /\ Head(todo[Uci]).t \in Thread
      /\ AllSame /\ UNCHANGED <<pool, worker, engine, gui>>
      /\ \/ todo' = todo
         \/ /\ ~thread[Head(todo[Uci]).t].searching
            /\ todo' = [todo EXCEPT ![Uci] = Tail(todo[Uci])]
  BY WaitEffect DEF IInv, Actor
<1>2. CASE todo' = todo
  BY <1>1, <1>2, Stutter
<1>3. CASE /\ ~thread[Head(todo[Uci]).t].searching
           /\ todo' = [todo EXCEPT ![Uci] = Tail(todo[Uci])]
  <2>1. ~Live
    BY <1>1, <1>3, UciHead, LiveMain
  <2>2. ~Busy(Head(todo[Uci]).t)
    BY <1>1, <1>3 DEF IInv, ThreadInv, Busy
  <2>3. /\ thread' \in [Thread -> ThreadState]
        /\ \A t \in Thread : thread'[t].job = thread[t].job
    BY <1>1 DEF AllSame, Same
  <2>4. ThreadInv'
    <3>1. \A t \in Thread : todo'[t] = todo[t]
      BY <1>3, ThreadNumbers DEF IInv, TypeOK, Actor
    <3> QED BY <1>1, <3>1 DEF IInv, ThreadInv, AllSame, Same
  <2> QED BY <1>1, <1>3, <2>1, <2>2, <2>3, <2>4, UciMoves DEF IInv, TypeOK
<1> QED BY <1>1, <1>2, <1>3

\* The UCI thread gives a job.
LEMMA UciRuns ==
  ASSUME IInv, run_custom_job(Uci)
  PROVE  IInv'
<1> DEFINE w == Head(todo[Uci]).t
<1>1. /\ todo[Uci] # <<>> /\ Head(todo[Uci]).op = "run" /\ w \in Thread
      /\ thread' \in [Thread -> ThreadState]
      /\ UNCHANGED <<pool, worker, engine, gui>>
      /\ \/ AllSame /\ todo' = todo
         \/ /\ ~thread[w].searching
            /\ todo' = [todo EXCEPT ![Uci] = <<Op("notify", w)>> \o Tail(todo[Uci])]
            /\ thread'[w].place = thread[w].place
            /\ thread'[w].searching
            /\ thread'[w].job = Head(todo[Uci]).job
            /\ \A t \in Thread : t # w => Same(t)
  BY RunEffect DEF IInv, Actor
<1>2. ~Live
  BY <1>1, UciHead
<1>3. PICK u \in Thread : u = w
  BY <1>1
<1> HIDE DEF w
<1>4. u = Head(todo[Uci]).t
  BY <1>3 DEF w
<1> QED BY <1>1, <1>2, <1>3, <1>4, Stutter, UciGives

\* The UCI thread notifies.
LEMMA UciNotifies ==
  ASSUME IInv, Notify(Uci)
  PROVE  IInv'
<1>1. /\ todo[Uci] # <<>> /\ Head(todo[Uci]).op = "notify"
      /\ AllSame /\ UNCHANGED <<pool, worker, engine, gui>>
      /\ todo' = [todo EXCEPT ![Uci] = Tail(todo[Uci])]
  BY NotifyEffect DEF IInv, Actor
<1>2. /\ thread' \in [Thread -> ThreadState]
      /\ \A t \in Thread : thread'[t].job = thread[t].job
  BY <1>1 DEF AllSame, Same
<1>3. /\ \A t \in Thread : todo'[t] = todo[t]
      /\ Main \in Thread /\ \A t \in 1 .. pool.size : t \in Thread
  BY <1>1, ThreadNumbers DEF IInv, TypeOK, Actor, PoolState
<1>4. ThreadInv'
  BY <1>1, <1>3 DEF IInv, ThreadInv, AllSame, Same
<1>5. CASE ~Live
  BY <1>1, <1>2, <1>4, <1>5, UciMoves DEF IInv, TypeOK
<1>6. CASE Live
  <2>1. Tail(todo[Uci]) = <<>>
    BY <1>1, <1>6, UciHead
  <2>2. /\ todo' \in [Actor -> Seq(Operations)] /\ todo'[Uci] = <<>>
    BY <1>1, <2>1, Nothing, Updated DEF IInv, Actor
  <2>3. Live' /\ ~Begun /\ ~Begun'
    BY <1>2, <1>3, <1>6, <2>2, Nothing DEF IInv, GoInv, Begun, Live
  <2>4. TypeOK'
    BY <1>1, <1>2, <2>2 DEF IInv, TypeOK
  <2>5. ListInv' /\ SizeInv'
    <3>1. ListInv'
      BY <1>1, <1>3, <2>2, Nothing DEF IInv, ListInv
    <3>2. pool'.size # 0
      BY <1>1, <1>6, LiveMain
    <3>3. SizeInv'
      BY <2>2, <3>2, Nothing DEF SizeInv
    <3> QED BY <3>1, <3>3
  <2>6. WorkInv'
    BY <1>1, <1>2, <1>3, <1>6, <2>3 DEF IInv, WorkInv, Busy, Searches
  <2>7. SetupInv' /\ CountInv'
    BY <1>1, <1>2, <1>3, <2>3 DEF IInv, SetupInv, CountInv
  <2>8. GoInv'
    BY <2>2, Nothing DEF GoInv
  <2>9. LiveInv'
    BY <1>1, <1>6, <2>2 DEF IInv, LiveInv, IsSetUp
  <2>10. HeldInv'
    BY <1>1, <1>2, <1>3, <1>6, <2>3 DEF IInv, HeldInv, Held
  <2> QED BY <1>4, <2>4, <2>5, <2>6, <2>7, <2>8, <2>9, <2>10 DEF IInv
<1> QED BY <1>5, <1>6

\* Thread's constructor and destructor, and the size: nobody searches.
LEMMA UciBuilds ==
  ASSUME IInv, CreateThread \/ ExitThread \/ Join \/ Sized
  PROVE  IInv'
<1>1. /\ todo[Uci] # <<>> /\ Head(todo[Uci]).op \in {"create", "exit", "join", "sized"}
      /\ todo' = [todo EXCEPT ![Uci] = Tail(todo[Uci])]
      /\ UNCHANGED <<engine, gui>>
  BY DEF CreateThread, ExitThread, Join, Sized, At, Continue
<1>2. ~Live
  BY <1>1, UciHead
<1>3. ~GoList(todo[Uci])
  BY <1>1, UciHead, GoHead
<1>4. /\ \A t \in Thread : todo'[t] = todo[t]
      /\ Uci \in Actor
  BY <1>1, ThreadNumbers DEF IInv, TypeOK, Actor
<1>5. Head(todo[Uci]).op # "sized" => Head(todo[Uci]).t \in Thread
  BY <1>1, <1>4, HeadType DEF IInv
<1>6. CASE CreateThread
  <2> DEFINE u == Head(todo[Uci]).t
             x == [NoThread EXCEPT !.place = "running", !.searching = TRUE]
  <2>1. /\ thread' = [thread EXCEPT ![u] = x]
        /\ UNCHANGED <<pool, worker>> /\ Head(todo[Uci]).op = "create" /\ u \in Thread
    BY <1>5, <1>6 DEF CreateThread, At, Target
  <2>2. x \in ThreadState /\ x.job = "none" /\ x.searching /\ x.place = "running"
    BY DEF NoThread, ThreadState, Places, Jobs
  <2> HIDE DEF x, u
  <2>3. /\ thread' \in [Thread -> ThreadState] /\ thread'[u] = x
        /\ \A t \in Thread : t # u => thread'[t] = thread[t]
    BY <2>1, <2>2 DEF IInv, TypeOK
  <2>4. ThreadInv'
    BY <1>4, <2>2, <2>3 DEF IInv, ThreadInv
  <2>5. \A t \in Thread : thread'[t].job = thread[t].job \/ thread'[t].job = "none"
    BY <2>2, <2>3
  <2> QED BY <1>1, <1>2, <1>3, <2>1, <2>3, <2>4, <2>5, UciMoves DEF IInv, TypeOK
<1>7. CASE ExitThread
  <2> DEFINE u == Head(todo[Uci]).t
  <2>1. /\ thread' = [thread EXCEPT ![u].exit = TRUE]
        /\ UNCHANGED <<pool, worker>> /\ Head(todo[Uci]).op = "exit" /\ u \in Thread
    BY <1>5, <1>7 DEF ExitThread, At, Target
  <2> HIDE DEF u
  <2>2. AllSame
    BY <2>1 DEF IInv, TypeOK, ThreadState, AllSame, Same
  <2>3. /\ thread' \in [Thread -> ThreadState]
        /\ \A t \in Thread : thread'[t].job = thread[t].job
    BY <2>2 DEF AllSame, Same
  <2>4. ThreadInv'
    BY <1>4, <2>2 DEF IInv, ThreadInv, AllSame, Same
  <2> QED BY <1>1, <1>2, <1>3, <2>1, <2>3, <2>4, UciMoves DEF IInv, TypeOK
<1>8. CASE Join
  <2> DEFINE u == Head(todo[Uci]).t
  <2>1. /\ thread' = [thread EXCEPT ![u] = NoThread]
        /\ worker' = [worker EXCEPT ![u] = NoWork]
        /\ thread[u].place = "returned"
        /\ pool' = pool /\ Head(todo[Uci]).op = "join" /\ u \in Thread
    BY <1>5, <1>8 DEF Join, At, Target
  <2>2. /\ NoThread \in ThreadState /\ NoThread.job = "none" /\ NoThread.place = "none"
        /\ NoWork \in WorkerState
    <3>1. NoThread \in ThreadState /\ NoThread.job = "none" /\ NoThread.place = "none"
      BY DEF NoThread, ThreadState, Places, Jobs
    <3>2. NoWork \in WorkerState
      BY DEF NoWork, WorkerState, NoStates, SearchKinds
    <3> QED BY <3>1, <3>2
  <2> HIDE DEF u
  <2>3. /\ thread' \in [Thread -> ThreadState] /\ thread'[u] = NoThread
        /\ \A t \in Thread : t # u => thread'[t] = thread[t]
        /\ worker' \in [Thread -> WorkerState]
    BY <2>1, <2>2 DEF IInv, TypeOK
  <2>4. todo[u] = <<>>
    BY <2>1 DEF IInv, ThreadInv
  <2>5. ThreadInv'
    BY <1>4, <2>2, <2>3, <2>4 DEF IInv, ThreadInv
  <2>6. \A t \in Thread : thread'[t].job = thread[t].job \/ thread'[t].job = "none"
    BY <2>2, <2>3
  <2> QED BY <1>1, <1>2, <1>3, <2>1, <2>3, <2>5, <2>6, UciMoves
<1>9. CASE Sized
  <2>1. /\ pool' = [pool EXCEPT !.size = Head(todo[Uci]).t]
        /\ UNCHANGED <<thread, worker>> /\ Head(todo[Uci]).op = "sized"
    BY <1>9 DEF Sized, At, Target
  <2>2. ThreadInv'
    BY <1>4, <2>1 DEF IInv, ThreadInv
  <2> QED BY <1>1, <1>2, <1>3, <2>1, <2>2, UciMoves DEF IInv, TypeOK
<1> QED BY <1>6, <1>7, <1>8, <1>9

-----------------------------------------------------------------------------
(* The workers' steps.                                                      *)

\* While the answer is held, so are stop and ponder what they have to be.
LEMMA LiveHeld ==
  ASSUME IInv, Live, Held, todo[Main] # <<>>
  PROVE  /\ Holding(todo[Main]) /\ ~pool.stop /\ holds
         /\ "infinite" \in worker[Main].kind => ~Has(todo[Main], "decide")
         /\ "infinite" \in worker[Main].kind \/ pool.ponder
         /\ ~Cuts(worker[Main].kind)
<1>1. thread[Main].job = "none"
  BY WorkerHead, ThreadNumbers
<1>2. /\ Holding(todo[Main]) /\ ~pool.stop /\ worker[Main].kind = gui.kind
      /\ "infinite" \in gui.kind \/ pool.ponder
      /\ "infinite" \in gui.kind => ~Has(todo[Main], "decide")
  BY <1>1 DEF IInv, HeldInv
<1>3. ~Cuts(worker[Main].kind)
  BY <1>2 DEF Held
<1> QED BY <1>2, <1>3 DEF holds

\* Of the workers only the main thread waits for others, gives jobs and answers.
LEMMA OfMain ==
  ASSUME IInv, NEW w \in Thread, todo[w] # <<>>,
         Head(todo[w]).op \in (MainOps \cup {"answer"}) \ {"iterate", "search"}
  PROVE  w = Main /\ Live /\ SearchList(todo[w], pool.size)
<1>1. Head(todo[w]).op \notin Chores
  BY DEF MainOps, Chores
<1> QED BY <1>1, WorkerHead

\* The main thread is done with an operation but its last.
LEMMA MainGoesOn ==
  ASSUME IInv, Live, todo[Main] # <<>>, SearchList(todo[Main], pool.size),
         Head(todo[Main]).op # "answer",
         NEW M \in Seq(Operations),
         \/ M = Tail(todo[Main])
         \/ \E o \in Operations : /\ M = <<o>> \o Tail(todo[Main])
                                  /\ o.op \in MainOps \ {"run"}
                                  /\ Held => o.op # "raise"
                                  /\ Held /\ o.op = "decide" => "infinite" \notin worker[Main].kind,
         Held => Head(todo[Main]).op # "hold"
  PROVE  /\ SearchList(M, pool.size)
         /\ \A t : Awaits(todo[Main], t) =>
              Awaits(M, t) \/ (Head(todo[Main]).op = "wait" /\ Head(todo[Main]).t = t)
         /\ \A t : Awaits(Tail(todo[Main]), t) => Awaits(M, t)
         /\ Held => /\ Holding(M)
                    /\ "infinite" \in worker[Main].kind => ~Has(M, "decide")
<1> DEFINE L == todo[Main]
           R == Tail(todo[Main])
<1>1. L \in Seq(Operations) /\ L # <<>> /\ R \in Seq(Operations) /\ R = Tail(L)
  BY WorkerHead, ThreadNumbers
<1>2. Held => /\ Holding(L)
              /\ "infinite" \in worker[Main].kind => ~Has(L, "decide")
  BY LiveHeld
<1>3. Head(L).op # "answer" /\ SearchList(L, pool.size) /\ (Held => Head(L).op # "hold")
  OBVIOUS
<1>4. \/ M = R
      \/ \E o \in Operations : /\ M = <<o>> \o R
                               /\ o.op \in MainOps \ {"run"}
                               /\ Held => o.op # "raise"
                               /\ Held /\ o.op = "decide" => "infinite" \notin worker[Main].kind
  OBVIOUS
<1> HIDE DEF L, R
<1>5. SearchList(R, pool.size)
  BY <1>1, <1>3, TailSearch
<1>6. Held => Holding(R)
  BY <1>1, <1>2, <1>3, TailHolding
<1>7. /\ \A name : Has(L, name) <=> Head(L).op = name \/ Has(R, name)
      /\ \A t : Awaits(L, t) <=> (Head(L).op = "wait" /\ Head(L).t = t) \/ Awaits(R, t)
  BY <1>1, TailHas
<1>8. CASE M = R
  BY <1>2, <1>5, <1>6, <1>7, <1>8 DEF L, R
<1>9. CASE M # R
  <2>1. PICK o \in Operations : /\ M = <<o>> \o R
                                /\ o.op \in MainOps \ {"run"}
                                /\ Held => o.op # "raise"
                                /\ Held /\ o.op = "decide" => "infinite" \notin worker[Main].kind
    BY <1>4, <1>9
  <2>2. SearchList(M, pool.size)
    BY <1>1, <1>5, <2>1, LongerSearch
  <2>3. Held => Holding(M)
    BY <1>1, <1>6, <2>1, LongerHolding
  <2>4. /\ \A name : Has(M, name) <=> o.op = name \/ Has(R, name)
        /\ \A t : Awaits(M, t) <=> (o.op = "wait" /\ o.t = t) \/ Awaits(R, t)
    BY <1>1, <2>1, LongerHas
  <2> QED BY <1>2, <1>7, <2>1, <2>2, <2>3, <2>4 DEF L, R
<1> QED BY <1>8, <1>9

\* The main thread waits for a helper.
LEMMA WorkerWaits ==
  ASSUME IInv, NEW w \in Thread, wait_for_search_finished(w)
  PROVE  IInv'
<1>1. /\ todo[w] # <<>> /\ Head(todo[w]).op = "wait" /\ Head(todo[w]).t \in Thread
      /\ AllSame /\ UNCHANGED <<pool, worker, engine, gui>>
      /\ \/ todo' = todo
         \/ /\ ~thread[Head(todo[w]).t].searching
            /\ todo' = [todo EXCEPT ![w] = Tail(todo[w])]
  BY WaitEffect DEF IInv, Actor
<1>2. CASE todo' = todo
  BY <1>1, <1>2, Stutter
<1>3. CASE /\ ~thread[Head(todo[w]).t].searching
           /\ todo' = [todo EXCEPT ![w] = Tail(todo[w])]
  <2>1. w = Main /\ Live /\ SearchList(todo[w], pool.size)
    BY <1>1, OfMain DEF MainOps
  <2>2. Tail(todo[Main]) \in Seq(Operations)
    BY <1>1, <2>1, WorkerHead
  <2>3. /\ SearchList(Tail(todo[Main]), pool.size)
        /\ \A t : Awaits(todo[Main], t) =>
              Awaits(Tail(todo[Main]), t) \/ Head(todo[Main]).t = t
        /\ Held => /\ Holding(Tail(todo[Main])) /\ ~pool.stop
                   /\ "infinite" \in worker[Main].kind => ~Has(Tail(todo[Main]), "decide")
    BY <1>1, <2>1, <2>2, MainGoesOn, LiveHeld
  <2>4. ~Busy(Head(todo[w]).t)
    BY <1>1, <1>3 DEF IInv, ThreadInv, Busy
  <2>5. SameWork /\ pool \in PoolState
    BY <1>1 DEF SameWork, IInv, TypeOK
  <2> DEFINE M == Tail(todo[Main])
  <2>6. /\ thread' \in [Thread -> ThreadState]
        /\ \A t \in Thread : /\ thread'[t].place = thread[t].place
                             /\ thread[t].searching => thread'[t].searching
                             /\ thread'[t].job = thread[t].job
    BY <1>1 DEF AllSame, Same
  <2>7. \A t \in Thread : t # Main /\ Awaits(todo[Main], t) => Awaits(M, t) \/ ~Busy(t)
    BY <2>1, <2>3, <2>4
  <2> HIDE DEF M
  <2> QED BY <1>1, <1>3, <2>1, <2>2, <2>3, <2>5, <2>6, <2>7, MainMoves DEF M
<1> QED BY <1>1, <1>2, <1>3

\* The main thread gives a helper its search.
LEMMA WorkerRuns ==
  ASSUME IInv, NEW w \in Thread, run_custom_job(w)
  PROVE  IInv'
<1> DEFINE u == Head(todo[w]).t
           o == Op("notify", u)
           M == <<o>> \o Tail(todo[w])
<1>1. /\ todo[w] # <<>> /\ Head(todo[w]).op = "run" /\ u \in Thread
      /\ thread' \in [Thread -> ThreadState]
      /\ UNCHANGED <<pool, worker, engine, gui>>
      /\ \/ AllSame /\ todo' = todo
         \/ /\ ~thread[u].searching
            /\ todo' = [todo EXCEPT ![w] = M]
            /\ thread'[u].place = thread[u].place
            /\ thread'[u].searching
            /\ thread'[u].job = Head(todo[w]).job
            /\ \A t \in Thread : t # u => Same(t)
  BY RunEffect DEF IInv, Actor
<1>2. CASE AllSame /\ todo' = todo
  BY <1>1, <1>2, Stutter
<1>3. CASE /\ ~thread[u].searching
           /\ todo' = [todo EXCEPT ![w] = M]
           /\ thread'[u].place = thread[u].place
           /\ thread'[u].searching
           /\ thread'[u].job = Head(todo[w]).job
           /\ \A t \in Thread : t # u => Same(t)
  <2>1. w = Main /\ Live /\ SearchList(todo[w], pool.size)
    BY <1>1, OfMain DEF MainOps
  <2>2. todo[Main] \in Seq(Operations) /\ Tail(todo[Main]) \in Seq(Operations)
    BY <1>1, <2>1, WorkerHead
  <2>3. /\ Head(todo[Main]).job = "search" /\ u \in 2 .. pool.size
        /\ Awaits(Tail(todo[Main]), u)
    BY <1>1, <2>1, <2>2, SearchHead
  <2>4. o \in Operations /\ o.op = "notify"
    BY <1>1, OpType DEF Op, UciOps
  <2> HIDE DEF o
  <2>5. M \in Seq(Operations)
    BY <2>1, <2>2, <2>4, Longer
  <2>6. /\ SearchList(M, pool.size)
        /\ \A t : Awaits(todo[Main], t) => Awaits(M, t)
        /\ Awaits(M, u)
        /\ Held => /\ Holding(M) /\ ~pool.stop
                   /\ "infinite" \in worker[Main].kind => ~Has(M, "decide")
    <3>1. M = <<o>> \o Tail(todo[Main]) /\ o.op \in MainOps \ {"run"}
          /\ o.op # "raise" /\ o.op # "decide"
      BY <2>1, <2>4 DEF MainOps
    <3>2. todo[Main] # <<>> /\ Head(todo[Main]).op = "run" /\ SearchList(todo[Main], pool.size)
      BY <1>1, <2>1
    <3> HIDE DEF M
    <3>3. \E x \in Operations : /\ M = <<x>> \o Tail(todo[Main])
                                /\ x.op \in MainOps \ {"run"}
                                /\ Held => x.op # "raise"
                                /\ Held /\ x.op = "decide" => "infinite" \notin worker[Main].kind
      BY <2>4, <3>1
    <3> HIDE DEF u
    <3> QED BY <2>1, <2>3, <2>5, <3>2, <3>3, MainGoesOn, LiveHeld
  <2>7. SameWork /\ pool \in PoolState
    BY <1>1 DEF SameWork, IInv, TypeOK
  <2> HIDE DEF M, u
  <2>8. \A t \in Thread : /\ thread'[t].place = thread[t].place
                          /\ thread[t].searching => thread'[t].searching
                          /\ thread'[t].job = thread[t].job \/
                               (t \in 2 .. pool.size /\ thread'[t].job = "search"
                                  /\ thread'[t].searching /\ ~thread[t].searching /\ Awaits(M, t))
    BY <1>3, <2>1, <2>3, <2>6 DEF Same
  <2> QED BY <1>1, <1>3, <2>1, <2>5, <2>6, <2>7, <2>8, MainMoves
<1> QED BY <1>1, <1>2, <1>3

\* The main thread notifies.
LEMMA WorkerNotifies ==
  ASSUME IInv, NEW w \in Thread, Notify(w)
  PROVE  IInv'
<1>1. /\ todo[w] # <<>> /\ Head(todo[w]).op = "notify"
      /\ AllSame /\ UNCHANGED <<pool, worker, engine, gui>>
      /\ todo' = [todo EXCEPT ![w] = Tail(todo[w])]
  BY NotifyEffect DEF IInv, Actor
<1>2. w = Main /\ Live /\ SearchList(todo[w], pool.size)
  BY <1>1, OfMain DEF MainOps
<1>3. Tail(todo[Main]) \in Seq(Operations)
  BY <1>1, <1>2, WorkerHead
<1> DEFINE M == Tail(todo[Main])
<1>4. /\ SearchList(M, pool.size)
      /\ \A t : Awaits(todo[Main], t) => Awaits(M, t)
      /\ Held => /\ Holding(M) /\ ~pool.stop
                 /\ "infinite" \in worker[Main].kind => ~Has(M, "decide")
  BY <1>1, <1>2, <1>3, MainGoesOn, LiveHeld
<1>5. SameWork /\ pool \in PoolState
  BY <1>1 DEF SameWork, IInv, TypeOK
<1>6. /\ thread' \in [Thread -> ThreadState]
      /\ \A t \in Thread : /\ thread'[t].place = thread[t].place
                           /\ thread[t].searching => thread'[t].searching
                           /\ thread'[t].job = thread[t].job
  BY <1>1 DEF AllSame, Same
<1> HIDE DEF M
<1> QED BY <1>1, <1>2, <1>3, <1>4, <1>5, <1>6, MainMoves DEF M

\* A thread that is done with its job has nothing left that others count on.
LEMMA WorkerParks ==
  ASSUME IInv, NEW w \in Thread, Park(w)
  PROVE  IInv'
<1>1. /\ thread[w].place = "running" /\ todo[w] = <<>>
      /\ thread' \in [Thread -> ThreadState]
      /\ ~thread'[w].searching /\ thread'[w].place = "parked" /\ thread'[w].job = thread[w].job
      /\ \A t \in Thread : t # w => Same(t)
      /\ UNCHANGED <<todo, pool, worker, engine, gui>>
  BY ParkEffect DEF IInv
<1>2. \A t \in Thread : thread'[t].job = thread[t].job
  BY <1>1 DEF Same
<1>3. ThreadInv'
  BY <1>1 DEF IInv, ThreadInv, Same
<1> QED BY <1>1, <1>2, <1>3, Idle

\* The main thread takes the search; no helper has been given anything yet.
LEMMA SearchBegins ==
  ASSUME IInv, thread[Main].job = "search", todo[Main] = <<>>,
         todo' = [todo EXCEPT ![Main] = searching(Main)],
         thread' \in [Thread -> ThreadState],
         thread'[Main].place = "running", thread'[Main].searching, thread'[Main].job = "none",
         \A t \in Thread : t # Main => Same(t),
         UNCHANGED <<pool, worker, engine, gui>>
  PROVE  IInv'
<1> DEFINE M == searching(Main)
<1>1. Main \in Actor /\ Uci \in Actor /\ Uci # Main /\ Main \in Thread
      /\ \A t \in 1 .. pool.size : t \in Thread
  BY ThreadNumbers DEF Actor, Uci, Main, IInv, TypeOK, PoolState
<1>2. Live
  BY DEF Live
<1>3. M \in Seq(Operations) /\ SearchList(M, pool.size) /\ Holding(M) /\ ~Has(M, "decide")
  BY <1>2, LiveMain, SearchJob DEF IInv
<1> HIDE DEF M
<1>4. /\ todo' \in [Actor -> Seq(Operations)] /\ todo'[Main] = M /\ todo'[Uci] = todo[Uci]
      /\ \A t \in Thread : t # Main => todo'[t] = todo[t]
  BY <1>1, <1>3, Updated DEF IInv, Actor, M
<1>5. Has(M, "answer") /\ \A o \in ToSet(M) : o.op \in MainOps \cup {"answer"}
  BY <1>3, SearchHead
<1>6. Live' /\ (Begun' <=> Begun)
  BY <1>4, <1>5 DEF Live, Begun
<1>7. TypeOK'
  BY <1>4 DEF IInv, TypeOK
<1>8. ThreadInv'
  BY <1>4 DEF IInv, ThreadInv, Same
<1>9. ListInv'
  BY <1>3, <1>4 DEF IInv, ListInv
<1>10. SizeInv' /\ CountInv'
  BY <1>4 DEF IInv, SizeInv, CountInv
<1>11. WorkInv'
  <2>1. ASSUME NEW t \in Thread, t # Main PROVE ~Busy(t)'
    <3>1. ~Awaits(todo[Main], t)
      BY Nothing
    <3>2. ~Busy(t)
      BY <1>2, <2>1, <3>1 DEF IInv, WorkInv
    <3> QED BY <1>4, <2>1, <3>2 DEF Busy, Same
  <2> QED BY <1>6, <2>1 DEF WorkInv
<1>12. SetupInv'
  <2>1. \A t \in Thread : thread[t].job # "setup" /\ ~Has(todo[t], "setup")
    BY <1>2, LiveMain DEF Chores, Has
  <2> QED BY <1>4, <1>5, <2>1 DEF SetupInv, Has, MainOps, Same
<1>13. GoInv'
  <2>1. ~Begun
    BY <1>2 DEF IInv, GoInv, Begun
  <2> QED BY <1>4, <1>6, <2>1 DEF IInv, GoInv
<1>14. LiveInv'
  BY <1>1, <1>2, <1>4 DEF IInv, LiveInv, IsSetUp
<1>15. HeldInv'
  BY <1>2, <1>3, <1>4, <1>6 DEF IInv, HeldInv, Held
<1> QED BY <1>7, <1>8, <1>9, <1>10, <1>11, <1>12, <1>13, <1>14, <1>15 DEF IInv

\* A thread takes its job, and has then to do what the job was.
LEMMA WorkerWakes ==
  ASSUME IInv, NEW w \in Thread, Wake(w)
  PROVE  IInv'
<1>1. /\ thread' \in [Thread -> ThreadState] /\ UNCHANGED <<pool, worker, engine, gui>>
      /\ \/ AllSame /\ todo' = todo
         \/ /\ thread[w].place = "parked" /\ thread[w].searching
            /\ thread'[w].place = "returned" /\ todo' = todo
            /\ thread'[w].searching /\ thread'[w].job = thread[w].job
            /\ \A t \in Thread : t # w => Same(t)
         \/ /\ thread[w].place = "parked" /\ thread[w].searching
            /\ thread'[w].place = "running" /\ thread'[w].job = "none"
            /\ thread'[w].searching
            /\ todo' = [todo EXCEPT ![w] = JobOf(w, thread[w].job)]
            /\ \A t \in Thread : t # w => Same(t)
  BY WakeEffect DEF IInv
<1>2. CASE AllSame /\ todo' = todo
  BY <1>1, <1>2, Stutter
<1>3. CASE /\ thread[w].place = "parked" /\ thread[w].searching
           /\ thread'[w].place = "returned" /\ todo' = todo
           /\ thread'[w].searching /\ thread'[w].job = thread[w].job
           /\ \A t \in Thread : t # w => Same(t)
  <2>1. \A t \in Thread : thread'[t].job = thread[t].job
    BY <1>3 DEF Same
  <2>2. ThreadInv'
    BY <1>3 DEF IInv, ThreadInv, Same
  <2> QED BY <1>1, <1>3, <2>1, <2>2, Idle
<1>4. CASE /\ thread[w].place = "parked" /\ thread[w].searching
           /\ thread'[w].place = "running" /\ thread'[w].job = "none"
           /\ thread'[w].searching
           /\ todo' = [todo EXCEPT ![w] = JobOf(w, thread[w].job)]
           /\ \A t \in Thread : t # w => Same(t)
  <2>1. todo[w] = <<>>
    BY <1>4 DEF IInv, ThreadInv
  <2>2. thread[w].job \in Jobs
    BY DEF IInv, TypeOK, ThreadState
  <2>3. \A t \in Thread : worker'[t] = worker[t]
    BY <1>1
  <2>4. worker' \in [Thread -> WorkerState] /\ SameWork
    BY <1>1 DEF IInv, TypeOK, SameWork
  <2>5. CASE thread[w].job = "none"
    <3>1. todo' = todo
      BY <1>4, <2>1, <2>5 DEF JobOf, IInv, TypeOK
    <3>2. \A t \in Thread : thread'[t].job = thread[t].job
      BY <1>4, <2>5 DEF Same
    <3>3. ThreadInv'
      BY <1>4, <3>1 DEF IInv, ThreadInv, Same
    <3> QED BY <1>1, <3>1, <3>2, <3>3, Idle
  <2>6. CASE thread[w].job = "search" /\ w = Main
    <3>1. todo' = [todo EXCEPT ![Main] = searching(Main)]
      BY <1>4, <2>6 DEF JobOf
    <3> QED BY <1>1, <1>4, <2>1, <2>6, <3>1, SearchBegins
  <2>7. CASE thread[w].job = "search" /\ w # Main
    <3>1. Live /\ w \in 2 .. pool.size /\ Awaits(todo[Main], w)
      BY <2>7 DEF IInv, WorkInv, Busy, DoesChores, Chores
    <3> DEFINE M == <<Op("iterate", w)>>
    <3>2. Op("iterate", w) \in Operations /\ Op("iterate", w).op = "iterate"
      BY OpType DEF MainOps, Op
    <3>3. M \in Seq(Operations) /\ \A o \in ToSet(M) : o.op \in {"iterate", "search"}
      BY <3>2, Single
    <3>4. todo' = [todo EXCEPT ![w] = M]
      BY <1>4, <2>7 DEF JobOf, searching
    <3> HIDE DEF M
    <3> QED BY <1>1, <1>4, <2>4, <3>1, <3>3, <3>4, HelperMoves
  <2>8. CASE thread[w].job \in Chores
    <3>1. ~Live
      BY <2>8, LiveMain
    <3>2. Busy(w) /\ Awaits(todo[Uci], w)
      BY <2>8, <3>1 DEF IInv, WorkInv, Busy, Chores
    <3> DEFINE o == Op(thread[w].job, w)
               M == <<o>>
    <3>3. o \in Operations /\ o.op = thread[w].job
      BY <2>8, OpType DEF Chores, Op
    <3> HIDE DEF o
    <3>4. M \in Seq(Operations) /\ \A x : x \in ToSet(M) <=> x = o
      BY <3>3, Single
    <3>5. /\ \A x \in ToSet(M) : x.op \in Chores
          /\ Has(M, "setup") <=> thread[w].job = "setup"
      BY <2>8, <3>3, <3>4 DEF Has
    <3>6. todo' = [todo EXCEPT ![w] = M]
      BY <1>4, <2>8 DEF JobOf, Chores, o
    <3>7. Has(M, "setup") \/ SetsUp(todo[Uci], w) \/ (~IsBeingSetUp(w) /\ worker'[w] = worker[w])
      BY <2>1, <2>3, <3>5, Nothing DEF IsBeingSetUp
    <3> HIDE DEF M
    <3> QED BY <1>1, <1>4, <2>3, <2>4, <3>1, <3>2, <3>4, <3>5, <3>6, <3>7, ChoreMoves
  <2> QED BY <2>2, <2>5, <2>6, <2>7, <2>8 DEF Jobs, Chores
<1> QED BY <1>1, <1>2, <1>3, <1>4

\* The jobs of the UCI thread: Setup makes the worker one of the go last begun.
LEMMA WorkerChores ==
  ASSUME IInv, NEW w \in Thread, Setup(w) \/ Chore(w)
  PROVE  IInv'
<1> DEFINE L == todo[w]
           M == Tail(todo[w])
<1>1. /\ L # <<>> /\ Head(L).op \in Chores
      /\ todo' = [todo EXCEPT ![w] = M]
      /\ UNCHANGED <<thread, pool, engine, gui>>
  BY DEF Setup, Chore, At, Continue, Chores
<1>2. /\ L \in Seq(Operations) /\ M \in Seq(Operations)
      /\ thread[w].place = "running" /\ thread[w].searching /\ thread[w].job = "none"
      /\ ~Live /\ DoesChores(w) /\ Awaits(todo[Uci], w)
  <2>1. ~(Head(L).op \in {"iterate", "search"})
    BY <1>1 DEF Chores
  <2>2. ~SearchList(L, pool.size)
    <3>1. ASSUME SearchList(L, pool.size) PROVE FALSE
      <4>1. Head(L).op \in MainOps \cup {"answer"}
        BY <1>1, <3>1, WorkerHead, SearchHead
      <4> QED BY <1>1, <4>1 DEF MainOps, Chores
    <3> QED BY <3>1
  <2> QED BY <1>1, <2>1, <2>2, WorkerHead
<1>3. /\ \A name : Has(L, name) <=> Head(L).op = name \/ Has(M, name)
      /\ \A x : x \in ToSet(L) <=> x = Head(L) \/ x \in ToSet(M)
  <2>1. M = Tail(L)
    OBVIOUS
  <2> HIDE DEF M
  <2> QED BY <1>1, <1>2, <2>1, TailHas, TailMembers
<1>4. \A x \in ToSet(M) : x.op \in Chores
  BY <1>2, <1>3 DEF DoesChores
<1>5. thread' \in [Thread -> ThreadState] /\ \A t \in Thread : Same(t)
  BY <1>1 DEF Same, IInv, TypeOK
<1>6. CASE Setup(w)
  <2> DEFINE x == [go |-> gui.go, kind |-> gui.kind, hasMoves |-> engine.hasMoves,
                   states |-> pool.setupStates, rootDepth |-> 0, completedDepth |-> 0]
  <2>1. worker' = [worker EXCEPT ![w] = x] /\ Has(L, "setup")
    BY <1>1, <1>3, <1>6 DEF Setup, At
  <2>2. x \in WorkerState
    BY DEF IInv, TypeOK, WorkerState, GuiState, EngineState, PoolState
  <2>3. x.go = gui.go /\ x.kind = gui.kind /\ x.states = pool.setupStates
    OBVIOUS
  <2>4. Begun /\ pool.go = gui.go
    BY <2>1 DEF IInv, SetupInv, GoInv, Begun
  <2> HIDE DEF x
  <2>5. /\ worker' \in [Thread -> WorkerState] /\ worker'[w] = x
        /\ \A t \in Thread : t # w => worker'[t] = worker[t]
    BY <2>1, <2>2 DEF IInv, TypeOK
  <2>6. GetsSetUp(w)
    BY <2>3, <2>4, <2>5 DEF GetsSetUp
  <2> HIDE DEF M
  <2> QED BY <1>1, <1>2, <1>3, <1>4, <1>5, <2>5, <2>6, ChoreMoves
<1>7. CASE Chore(w)
  <2>1. worker' = worker /\ Head(L).op # "setup"
    BY <1>7 DEF Chore, At
  <2>2. worker' \in [Thread -> WorkerState] /\ \A t \in Thread : worker'[t] = worker[t]
    BY <2>1 DEF IInv, TypeOK
  <2>3. Has(M, "setup") \/ SetsUp(todo[Uci], w) \/ (~IsBeingSetUp(w) /\ worker'[w] = worker[w])
    BY <1>2, <1>3, <2>1, <2>2 DEF IsBeingSetUp
  <2> HIDE DEF M
  <2> QED BY <1>1, <1>2, <1>3, <1>4, <1>5, <2>2, <2>3, ChoreMoves
<1> QED BY <1>6, <1>7

\* An iteration of the main thread or of a helper.
LEMMA WorkerIterates ==
  ASSUME IInv, NEW w \in Thread, Iterate(w)
  PROVE  IInv'
<1> DEFINE o == Op("search", w)
           R == Tail(todo[w])
           d == worker[w].rootDepth + 1
<1>1. /\ todo[w] # <<>> /\ Head(todo[w]).op = "iterate"
      /\ worker' = [worker EXCEPT ![w].rootDepth = d]
      /\ \/ todo' = [todo EXCEPT ![w] = <<o>> \o todo[w]]
         \/ todo' = [todo EXCEPT ![w] = R]
      /\ UNCHANGED <<thread, pool, engine, gui>>
  BY DEF Iterate, At
<1>2. /\ todo[w] \in Seq(Operations) /\ R \in Seq(Operations)
      /\ thread[w].place = "running" /\ thread[w].searching /\ thread[w].job = "none"
      /\ \/ Live /\ w = Main /\ SearchList(todo[w], pool.size)
         \/ Live /\ w # Main /\ w \in 2 .. pool.size /\ Searches(w)
  BY <1>1, WorkerHead DEF Chores
<1>3. o \in Operations /\ o.op = "search"
  BY OpType DEF MainOps, Op
<1>4. SameWork
  <2>1. d \in Nat
    BY DEF IInv, TypeOK, WorkerState
  <2> HIDE DEF d
  <2> QED BY <1>1, <2>1 DEF SameWork, IInv, TypeOK, WorkerState
<1>5. /\ thread' \in [Thread -> ThreadState] /\ pool \in PoolState
      /\ \A t \in Thread : /\ Same(t) /\ thread'[t].place = thread[t].place
                           /\ thread[t].searching => thread'[t].searching
                           /\ thread'[t].job = thread[t].job
  BY <1>1 DEF Same, IInv, TypeOK
<1> HIDE DEF o, R, d
<1>6. PICK M \in Seq(Operations) : /\ M = <<o>> \o todo[w] \/ M = R
                                   /\ todo' = [todo EXCEPT ![w] = M]
  BY <1>1, <1>2, <1>3, Longer
<1>7. CASE w = Main
  <2>1. Live /\ SearchList(todo[Main], pool.size) /\ todo[Main] # <<>>
    BY <1>1, <1>2, <1>7
  <2>2. /\ SearchList(M, pool.size)
        /\ \A t : Awaits(todo[Main], t) => Awaits(M, t)
        /\ Held => /\ Holding(M) /\ ~pool.stop
                   /\ "infinite" \in worker[Main].kind => ~Has(M, "decide")
    <3>1. CASE M = R
      <4>1. M = Tail(todo[Main]) /\ Head(todo[Main]).op = "iterate"
        BY <1>1, <1>7, <3>1 DEF R
      <4> QED BY <2>1, <4>1, MainGoesOn, LiveHeld
    <3>2. CASE M = <<o>> \o todo[w]
      <4>1. M = <<o>> \o todo[Main] /\ todo[Main] \in Seq(Operations)
        BY <1>2, <1>7, <3>2
      <4>2. SearchList(M, pool.size)
        BY <1>3, <2>1, <4>1, LongerSearch DEF MainOps
      <4>3. Holding(todo[Main]) => Holding(M)
        BY <1>3, <4>1, LongerHolding
      <4>4. /\ \A name : Has(M, name) <=> o.op = name \/ Has(todo[Main], name)
            /\ \A t : Awaits(M, t) <=> (o.op = "wait" /\ o.t = t) \/ Awaits(todo[Main], t)
        BY <1>3, <4>1, LongerHas
      <4> QED BY <1>3, <2>1, <4>2, <4>3, <4>4, LiveHeld
    <3> QED BY <1>6, <3>1, <3>2
  <2> QED BY <1>1, <1>4, <1>5, <1>6, <1>7, <2>1, <2>2, MainMoves
<1>8. CASE w # Main
  <2>1. Live /\ w \in 2 .. pool.size /\ Searches(w)
    BY <1>2, <1>8
  <2>2. Busy(w) /\ Awaits(todo[Main], w)
    BY <1>1, <1>8, <2>1 DEF Busy, IInv, WorkInv
  <2>3. \A x \in ToSet(M) : x.op \in {"iterate", "search"}
    <3>1. \A x : x \in ToSet(<<o>> \o todo[w]) <=> x = o \/ x \in ToSet(todo[w])
      BY <1>2, <1>3, LongerHas
    <3>2. \A x : x \in ToSet(todo[w]) <=> x = Head(todo[w]) \/ x \in ToSet(R)
      BY <1>1, <1>2, TailMembers DEF R
    <3> QED BY <1>3, <1>6, <2>1, <3>1, <3>2 DEF Searches
  <2> QED BY <1>1, <1>2, <1>4, <1>5, <1>6, <2>1, <2>2, <2>3, HelperMoves
<1> QED BY <1>7, <1>8

\* The end of an iteration.
LEMMA WorkerSearched ==
  ASSUME IInv, NEW w \in Thread, Searched(w)
  PROVE  IInv'
<1> DEFINE o == Op("decide", Main)
           R == Tail(todo[w])
           d == IF pool.stop THEN worker[w].completedDepth ELSE worker[w].rootDepth
<1>1. /\ todo[w] # <<>> /\ Head(todo[w]).op = "search"
      /\ worker' = [worker EXCEPT ![w].completedDepth = d]
      /\ \/ todo' = [todo EXCEPT ![w] = <<>> \o R]
         \/ w = Main /\ use_time_management(w) /\ todo' = [todo EXCEPT ![w] = <<o>> \o R]
      /\ UNCHANGED <<thread, engine, gui>>
      /\ pool' \in PoolState /\ pool'.size = pool.size /\ pool'.go = pool.go
      /\ pool'.setupStates = pool.setupStates /\ pool'.ponder = pool.ponder
      /\ pool' = pool \/ (w = Main /\ "mate" \in worker[w].kind)
  <2>1. PICK mated \in BOOLEAN :
          /\ mated => w = Main /\ "mate" \in worker[w].kind
          /\ pool' = [pool EXCEPT !.stop = pool.stop \/ mated]
          /\ At(w, "search")
          /\ worker' = [worker EXCEPT ![w].completedDepth = d]
          /\ \/ todo' = [todo EXCEPT ![w] = <<>> \o R]
             \/ w = Main /\ use_time_management(w) /\ todo' = [todo EXCEPT ![w] = <<o>> \o R]
          /\ UNCHANGED <<thread, engine, gui>>
    BY DEF Searched, Do
  <2> DEFINE stop == pool.stop \/ mated
  <2>2. stop \in BOOLEAN /\ (~mated => stop = pool.stop)
    BY DEF IInv, TypeOK, PoolState
  <2>3. pool' = [pool EXCEPT !.stop = stop]
    BY <2>1
  <2> HIDE DEF stop
  <2>4. /\ pool' \in PoolState /\ pool'.size = pool.size /\ pool'.go = pool.go
        /\ pool'.setupStates = pool.setupStates /\ pool'.ponder = pool.ponder
    BY <2>2, <2>3 DEF IInv, TypeOK, PoolState
  <2>5. CASE mated
    BY <2>1, <2>4, <2>5 DEF At
  <2>6. CASE ~mated
    <3>1. [pool EXCEPT !.stop = pool.stop] = pool
      BY DEF IInv, TypeOK, PoolState
    <3> QED BY <2>1, <2>2, <2>3, <2>4, <2>6, <3>1 DEF At
  <2> QED BY <2>5, <2>6
<1>2. /\ todo[w] \in Seq(Operations) /\ R \in Seq(Operations)
      /\ thread[w].place = "running" /\ thread[w].searching /\ thread[w].job = "none"
      /\ \/ Live /\ w = Main /\ SearchList(todo[w], pool.size)
         \/ Live /\ w # Main /\ w \in 2 .. pool.size /\ Searches(w)
  BY <1>1, WorkerHead DEF Chores
<1>3. o \in Operations /\ o.op = "decide"
  BY OpType, ThreadNumbers DEF MainOps, Op
<1>4. SameWork
  <2>1. d \in Nat
    BY DEF IInv, TypeOK, WorkerState
  <2> HIDE DEF d
  <2> QED BY <1>1, <2>1 DEF SameWork, IInv, TypeOK, WorkerState
<1>5. /\ thread' \in [Thread -> ThreadState]
      /\ \A t \in Thread : /\ Same(t) /\ thread'[t].place = thread[t].place
                           /\ thread[t].searching => thread'[t].searching
                           /\ thread'[t].job = thread[t].job
  BY <1>1 DEF Same, IInv, TypeOK
<1>6. <<>> \o R = R
  BY <1>2
<1> HIDE DEF o, R, d
<1>7. PICK M \in Seq(Operations) :
         /\ M = R \/ (M = <<o>> \o R /\ w = Main /\ use_time_management(w))
         /\ todo' = [todo EXCEPT ![w] = M]
  BY <1>1, <1>2, <1>3, <1>6, Longer
<1>8. CASE w = Main
  <2>1. Live /\ SearchList(todo[Main], pool.size) /\ todo[Main] # <<>>
        /\ Head(todo[Main]).op = "search"
    BY <1>1, <1>2, <1>8
  <2>0. Held => pool' = pool /\ ~pool.stop /\ ("infinite" \in worker[Main].kind => ~use_time_management(Main))
    BY <1>1, <1>8, <2>1, LiveHeld DEF Cuts, Budgets, use_time_management
  <2>2. \/ M = Tail(todo[Main])
        \/ \E x \in Operations : /\ M = <<x>> \o Tail(todo[Main])
                                 /\ x.op \in MainOps \ {"run"}
                                 /\ Held => x.op # "raise"
                                 /\ Held /\ x.op = "decide" => "infinite" \notin worker[Main].kind
    BY <1>3, <1>7, <1>8, <2>0 DEF R, MainOps
  <2>3. /\ SearchList(M, pool.size)
        /\ \A t : Awaits(todo[Main], t) => Awaits(M, t)
        /\ Held => /\ Holding(M) /\ ~pool.stop
                   /\ "infinite" \in worker[Main].kind => ~Has(M, "decide")
    BY <2>1, <2>2, MainGoesOn, LiveHeld
  <2> QED BY <1>1, <1>4, <1>5, <1>7, <1>8, <2>0, <2>1, <2>3, MainMoves
<1>9. CASE w # Main
  <2>1. Live /\ w \in 2 .. pool.size /\ Searches(w)
    BY <1>2, <1>9
  <2>2. Busy(w) /\ Awaits(todo[Main], w)
    BY <1>1, <1>9, <2>1 DEF Busy, IInv, WorkInv
  <2>3. \A x \in ToSet(M) : x.op \in {"iterate", "search"}
    <3>1. \A x : x \in ToSet(todo[w]) <=> x = Head(todo[w]) \/ x \in ToSet(R)
      BY <1>1, <1>2, TailMembers DEF R
    <3> QED BY <1>7, <1>9, <2>1, <3>1 DEF Searches
  <2>4. pool' = pool
    BY <1>1, <1>9
  <2> QED BY <1>1, <1>2, <1>4, <1>5, <1>7, <2>1, <2>2, <2>3, <2>4, HelperMoves
<1> QED BY <1>8, <1>9

\* What the main thread does at the end of an iteration and of its search.
LEMMA MainEnds ==
  ASSUME IInv, Decide \/ StopOnPonderhit \/ Hold \/ Raise
  PROVE  IInv'
<1> DEFINE L == todo[Main]
           R == Tail(todo[Main])
           s == Op("stop on ponderhit", Main)
           r == Op("raise", Main)
<1>1. /\ L # <<>> /\ Head(L).op \in {"decide", "stop on ponderhit", "hold", "raise"}
      /\ UNCHANGED <<thread, worker, engine, gui>>
  BY DEF Decide, StopOnPonderhit, Hold, Raise, At
<1>2. Main \in Thread
  BY ThreadNumbers
<1>3. Live /\ SearchList(L, pool.size) /\ L \in Seq(Operations) /\ R \in Seq(Operations)
  BY <1>1, <1>2, OfMain, WorkerHead DEF MainOps
<1>4. s \in Operations /\ s.op = "stop on ponderhit" /\ r \in Operations /\ r.op = "raise"
  BY <1>2, OpType DEF MainOps, Op
<1>5. SameWork
  BY <1>1 DEF SameWork, IInv, TypeOK
<1>6. /\ thread' \in [Thread -> ThreadState]
      /\ \A t \in Thread : /\ thread'[t].place = thread[t].place
                           /\ thread[t].searching => thread'[t].searching
                           /\ thread'[t].job = thread[t].job
  BY <1>1 DEF IInv, TypeOK
<1>7. pool \in PoolState
  BY DEF IInv, TypeOK
<1>8. /\ pool' \in PoolState /\ pool'.size = pool.size /\ pool'.go = pool.go
      /\ pool'.setupStates = pool.setupStates /\ pool'.ponder = pool.ponder
      /\ Head(L).op # "raise" => pool'.stop = pool.stop
  <2>1. CASE Decide \/ Hold
    BY <1>7, <2>1 DEF Decide, Hold
  <2>2. CASE StopOnPonderhit
    BY <1>7, <2>2 DEF StopOnPonderhit, PoolState
  <2>3. CASE Raise
    BY <1>7, <2>3 DEF Raise, At, PoolState
  <2> QED BY <2>1, <2>2, <2>3
<1>9. Held => /\ Holding(L) /\ ~pool.stop /\ holds
              /\ "infinite" \in worker[Main].kind => ~Has(L, "decide")
              /\ "infinite" \in worker[Main].kind \/ pool.ponder
  BY <1>1, <1>3, LiveHeld
<1>10. Held => Head(L).op \notin {"hold", "raise"}
  <2>1. Head(L).op = "hold" => pool.stop \/ ~holds
    BY DEF Decide, StopOnPonderhit, Hold, Raise, At
  <2>2. Held => Head(L).op # "raise"
    BY <1>3, <1>9, Holds
  <2> QED BY <1>9, <2>1, <2>2
<1>11. Has(L, Head(L).op)
  BY <1>1, <1>3, TailHas
<1>12. PICK M \in Seq(Operations) :
          /\ todo' = [todo EXCEPT ![Main] = M]
          /\ \/ M = R
             \/ M = <<s>> \o R
             \/ M = <<r>> \o R /\ Head(L).op = "decide" /\ ~pool.ponder
  <2>1. CASE Decide
    <3>1. PICK up \in BOOLEAN :
         todo' = [todo EXCEPT ![Main] =
            (IF ~up THEN <<>> ELSE IF pool.ponder THEN <<s>> ELSE <<r>>) \o R]
      BY <2>1 DEF Decide, Do
    <3>2. <<>> \o R = R /\ <<s>> \o R \in Seq(Operations) /\ <<r>> \o R \in Seq(Operations)
      <4>1. R \in Seq(Operations) /\ s \in Operations /\ r \in Operations
        BY <1>3, <1>4
      <4> HIDE DEF s, r, R
      <4>2. <<>> \o R = R
        BY <4>1
      <4>3. <<s>> \o R \in Seq(Operations)
        BY <4>1
      <4>4. <<r>> \o R \in Seq(Operations)
        BY <4>1
      <4> QED BY <4>2, <4>3, <4>4
    <3>3. Head(L).op = "decide"
      BY <2>1 DEF Decide, At
    <3> HIDE DEF s, r, R, L
    <3> QED BY <1>3, <3>1, <3>2, <3>3
  <2>2. CASE StopOnPonderhit \/ Hold \/ Raise
    BY <1>3, <2>2 DEF StopOnPonderhit, Hold, Raise, Continue
  <2> QED BY <2>1, <2>2
<1>13. Held => M # <<r>> \o R \/ M = R \/ M = <<s>> \o R
  <2>1. ASSUME Held, Head(L).op = "decide", ~pool.ponder PROVE FALSE
    <3>1. "infinite" \in worker[Main].kind /\ ~Has(L, "decide")
      BY <1>9, <2>1
    <3>2. Has(L, "decide")
      BY <1>11, <2>1
    <3> QED BY <3>1, <3>2
  <2> QED BY <1>12, <2>1
<1>14. /\ SearchList(M, pool.size)
       /\ \A t : Awaits(L, t) => Awaits(M, t)
       /\ Held => /\ Holding(M)
                  /\ "infinite" \in worker[Main].kind => ~Has(M, "decide")
  <2>1. Head(L).op # "answer" /\ Head(L).op # "wait"
    BY <1>1
  <2>2. \/ M = R
        \/ \E o \in Operations : /\ M = <<o>> \o R
                                 /\ o.op \in MainOps \ {"run"}
                                 /\ Held => o.op # "raise"
                                 /\ Held /\ o.op = "decide" => "infinite" \notin worker[Main].kind
    <3>1. CASE M = R
      BY <3>1
    <3>2. CASE M = <<s>> \o R
      BY <1>4, <3>2 DEF MainOps
    <3>3. CASE M = <<r>> \o R /\ M # R /\ M # <<s>> \o R
      BY <1>4, <1>13, <3>3 DEF MainOps
    <3> HIDE DEF s, r, R
    <3> QED BY <1>12, <3>1, <3>2, <3>3
  <2> HIDE DEF s, r
  <2> QED BY <1>1, <1>3, <1>10, <2>1, <2>2, MainGoesOn
<1>15. Held => ~pool'.stop
  BY <1>8, <1>9, <1>10
<1> HIDE DEF s, r
<1> QED BY <1>1, <1>3, <1>5, <1>6, <1>8, <1>12, <1>14, <1>15, MainMoves

\* check_time only stops a search that is timed.
LEMMA TimeChecked ==
  ASSUME IInv, check_time
  PROVE  IInv'
<1>1. /\ todo[Main] # <<>> /\ Head(todo[Main]).op = "search"
      /\ ~pool.ponder /\ Budgets \cap worker[Main].kind # {}
      /\ pool' = [pool EXCEPT !.stop = TRUE, !.abortedSearch = TRUE]
      /\ UNCHANGED <<thread, todo, worker, engine, gui>>
  BY DEF check_time, At
<1>2. Live
  BY <1>1, ThreadNumbers, WorkerHead DEF Chores
<1>3. ~Held
  BY <1>1, <1>2, LiveHeld DEF Cuts
<1>4. /\ pool' \in PoolState /\ pool'.size = pool.size /\ pool'.go = pool.go
      /\ pool'.setupStates = pool.setupStates
  BY <1>1 DEF IInv, TypeOK, PoolState
<1>5. TypeOK' /\ ThreadInv'
  BY <1>1, <1>4 DEF IInv, TypeOK, ThreadInv
<1>6. HeldInv'
  BY <1>1, <1>3 DEF HeldInv, Held
<1> QED BY <1>1, <1>4, <1>5, <1>6, Still

\* The answer ends the search: nobody is searching any more.
LEMMA Answered ==
  ASSUME IInv, Answer
  PROVE  IInv' /\ ~Held
<1>1. /\ todo[Main] # <<>> /\ Head(todo[Main]).op = "answer"
      /\ gui' = [gui EXCEPT !.answered = worker[Main].go, !.held = FALSE]
      /\ todo' = [todo EXCEPT ![Main] = Tail(todo[Main])]
      /\ UNCHANGED <<thread, pool, worker, engine>>
  BY DEF Answer, At, Continue
<1>2. /\ Main \in Thread /\ Main \in Actor /\ Uci \in Actor /\ Uci # Main
      /\ \A t \in 1 .. pool.size : t \in Thread
  BY ThreadNumbers DEF Actor, Uci, Main, IInv, TypeOK, PoolState
<1>3. /\ Live /\ SearchList(todo[Main], pool.size) /\ todo[Main] \in Seq(Operations)
      /\ thread[Main].job = "none"
  BY <1>1, <1>2, OfMain, WorkerHead DEF MainOps
<1>4. ~Held
  BY <1>1, <1>3, LiveHeld, Holds
<1>5. Tail(todo[Main]) = <<>> /\ \A t : ~Awaits(todo[Main], t)
  <2>1. Tail(todo[Main]) = <<>>
    BY <1>1, <1>3, SearchHead
  <2>2. \A t : Awaits(todo[Main], t) <=>
          (Head(todo[Main]).op = "wait" /\ Head(todo[Main]).t = t) \/ Awaits(Tail(todo[Main]), t)
    BY <1>1, <1>3, TailHas
  <2> QED BY <1>1, <2>1, <2>2, Nothing
<1>6. /\ todo' \in [Actor -> Seq(Operations)] /\ todo'[Main] = <<>> /\ todo'[Uci] = todo[Uci]
      /\ \A t \in Thread : t # Main => todo'[t] = todo[t]
  BY <1>1, <1>2, <1>5, Nothing, Updated DEF IInv, Actor
<1>7. ~Live' /\ (Begun' <=> Begun)
  BY <1>1, <1>3, <1>6, Nothing DEF Live, Begun
<1>8. \A t \in Thread : ~Busy(t)'
  <2>1. ASSUME NEW t \in Thread, t # Main PROVE ~Busy(t)
    BY <1>3, <1>5, <2>1 DEF IInv, WorkInv
  <2> QED BY <1>1, <1>3, <1>6, <2>1 DEF Busy
<1>9. /\ gui' \in GuiState /\ gui'.answered = pool.go /\ gui'.go = gui.go
      /\ ~gui'.held /\ gui'.kind = gui.kind /\ gui'.quit = gui.quit
  <2>1. worker[Main].go = pool.go /\ pool.go \in Nat
    BY <1>3, LiveMain DEF IInv, LiveInv, IsSetUp, Main, TypeOK, PoolState
  <2> QED BY <1>1, <2>1 DEF IInv, TypeOK, GuiState
<1>10. TypeOK'
  BY <1>1, <1>6, <1>9 DEF IInv, TypeOK
<1>11. ThreadInv'
  BY <1>1, <1>6 DEF IInv, ThreadInv
<1>12. ListInv'
  BY <1>6, Nothing DEF IInv, ListInv
<1>13. SizeInv'
  BY <1>1, <1>6, <1>9 DEF IInv, SizeInv
<1>14. WorkInv'
  BY <1>8 DEF WorkInv
<1>15. SetupInv'
  BY <1>8, Nothing DEF SetupInv, Busy
<1>16. CountInv'
  BY <1>1, <1>9 DEF IInv, CountInv, TypeOK, PoolState
<1>17. GoInv'
  <2>1. ~Begun
    BY <1>3 DEF IInv, GoInv, Begun
  <2> QED BY <1>1, <1>6, <1>7, <1>9, <2>1 DEF IInv, GoInv
<1>18. LiveInv'
  BY <1>7 DEF LiveInv
<1>19. HeldInv'
  BY <1>4, <1>9 DEF HeldInv, Held
<1> QED BY <1>4, <1>10, <1>11, <1>12, <1>13, <1>14, <1>15, <1>16, <1>17, <1>18, <1>19 DEF IInv

-----------------------------------------------------------------------------
(* The commands, and the invariant.                                         *)

\* The GUI's record after a command.
LEMMA Asked ==
  ASSUME gui \in GuiState, NEW g \in Nat, NEW k \in SearchKinds, NEW h \in BOOLEAN,
         gui' = [gui EXCEPT !.commands = gui.commands + 1, !.go = g, !.kind = k, !.held = h]
  PROVE  /\ gui' \in GuiState /\ gui'.go = g /\ gui'.kind = k /\ gui'.held = h
         /\ gui'.answered = gui.answered
<1> DEFINE c == gui.commands + 1
<1>1. c \in Nat
  BY DEF GuiState
<1>2. gui' = [gui EXCEPT !.commands = c, !.go = g, !.kind = k, !.held = h]
  OBVIOUS
<1> HIDE DEF c
<1>3. gui' = [commands |-> c, go |-> g, kind |-> k, answered |-> gui.answered,
              held |-> h, quit |-> gui.quit]
  BY <1>2 DEF GuiState
<1>4. gui.answered \in Nat /\ gui.quit \in BOOLEAN
  BY DEF GuiState
<1> QED BY <1>1, <1>3, <1>4 DEF GuiState

\* Every command keeps the invariant: what it has the UCI thread do starts no search, or is a go.
LEMMA CommandsStep ==
  ASSUME IInv, Command
  PROVE  IInv'
<1>1. /\ pool \in PoolState /\ gui \in GuiState /\ engine \in EngineState
      /\ todo \in [Actor -> Seq(Operations)]
  BY DEF IInv, TypeOK
<1>2. PICK n \in Sizes : n > 0
  <2>1. \A m \in Sizes : m \in Nat \ {0}
    BY SizesAssumption
  <2>2. PICK m \in Sizes : TRUE
    BY SizesAssumption
  <2>3. m > 0
    BY <2>1, <2>2
  <2> QED BY <2>3
<1>3. CASE \E kind \in Kinds : Go(kind)
  <2>1. PICK kind \in Kinds : Go(kind)
    BY <1>3
  <2>2. /\ ~gui.held /\ todo[Uci] = <<>> /\ ~gui.quit
        /\ todo' = [todo EXCEPT ![Uci] = start_thinking]
        /\ gui' = [gui EXCEPT !.commands = @ + 1, !.go = @ + 1, !.kind = kind]
        /\ UNCHANGED <<thread, worker, pool, engine>>
    BY <2>1 DEF Go, Read, MayBlock
  <2>3. kind \in SearchKinds
    BY KindsAssumption DEF SearchKinds
  <2>4. /\ gui' \in GuiState /\ gui'.go = gui.go + 1 /\ ~gui'.held
        /\ gui'.answered = gui.answered
    <3>1. gui' = [gui EXCEPT !.commands = gui.commands + 1, !.go = gui.go + 1, !.kind = kind,
                             !.held = FALSE]
      BY <1>1, <2>2 DEF GuiState
    <3>2. gui.go + 1 \in Nat
      BY <1>1 DEF GuiState
    <3> QED BY <1>1, <2>3, <3>1, <3>2, Asked
  <2>5. /\ start_thinking \in Seq(Operations) /\ GoList(start_thinking)
        /\ Head(start_thinking).op = "wait" /\ Head(start_thinking).t = Main
        /\ Has(start_thinking, "begin") /\ ~Has(start_thinking, "sized")
        /\ \A t \in 1 .. pool.size : SetsUp(start_thinking, t)
    BY GoCommand DEF IInv
  <2>6. \A o \in ToSet(start_thinking) : o.op # "sized"
    BY <2>5 DEF Has
  <2> QED BY <1>1, <2>2, <2>4, <2>5, <2>6, Reads DEF Held
<1>4. CASE Stop
  <2>1. /\ todo[Uci] = <<>> /\ ~gui.quit
        /\ todo' = [todo EXCEPT ![Uci] = <<>>]
        /\ pool' = [pool EXCEPT !.stop = TRUE]
        /\ gui' = [gui EXCEPT !.commands = @ + 1, !.held = FALSE]
        /\ UNCHANGED <<thread, worker, engine>>
    BY <1>4 DEF Stop, Read
  <2>2. /\ gui' \in GuiState /\ gui'.go = gui.go /\ ~gui'.held /\ gui'.answered = gui.answered
    <3>1. gui' = [gui EXCEPT !.commands = gui.commands + 1, !.go = gui.go, !.kind = gui.kind,
                             !.held = FALSE]
      BY <1>1, <2>1 DEF GuiState
    <3>2. gui.go \in Nat /\ gui.kind \in SearchKinds
      BY <1>1 DEF GuiState
    <3> QED BY <1>1, <3>1, <3>2, Asked
  <2>3. /\ pool' \in PoolState /\ pool'.size = pool.size /\ pool'.go = pool.go
        /\ pool'.setupStates = pool.setupStates
    BY <1>1, <2>1 DEF PoolState
  <2> QED BY <1>1, <2>1, <2>2, <2>3, Nothing, Reads DEF Held
<1>5. CASE Ponderhit
  <2>1. /\ todo[Uci] = <<>> /\ ~gui.quit
        /\ todo' = [todo EXCEPT ![Uci] = <<>>]
        /\ pool' = [pool EXCEPT !.ponder = FALSE]
        /\ gui' = [gui EXCEPT !.commands = @ + 1, !.held = @ /\ "infinite" \in gui.kind]
        /\ UNCHANGED <<thread, worker, engine>>
    BY <1>5 DEF Ponderhit, Read
  <2>2. /\ gui' \in GuiState /\ gui'.go = gui.go /\ gui'.answered = gui.answered
        /\ gui'.kind = gui.kind /\ gui'.held = (gui.held /\ "infinite" \in gui.kind)
    <3> DEFINE h == gui.held /\ "infinite" \in gui.kind
    <3>1. h \in BOOLEAN /\ gui' = [gui EXCEPT !.commands = gui.commands + 1, !.held = h]
      BY <1>1, <2>1 DEF GuiState
    <3> HIDE DEF h
    <3>2. gui' = [gui EXCEPT !.commands = gui.commands + 1, !.go = gui.go, !.kind = gui.kind,
                             !.held = h]
      BY <1>1, <3>1 DEF GuiState
    <3>3. gui.go \in Nat /\ gui.kind \in SearchKinds
      BY <1>1 DEF GuiState
    <3>4. /\ gui' \in GuiState /\ gui'.go = gui.go /\ gui'.answered = gui.answered
          /\ gui'.kind = gui.kind /\ gui'.held = h
      <4>1. CASE h = TRUE
        BY <1>1, <3>2, <3>3, <4>1, Asked
      <4>2. CASE h = FALSE
        BY <1>1, <3>2, <3>3, <4>2, Asked
      <4> QED BY <3>1, <4>1, <4>2
    <3> QED BY <3>4 DEF h
  <2>3. /\ pool' \in PoolState /\ pool'.size = pool.size /\ pool'.go = pool.go
        /\ pool'.setupStates = pool.setupStates /\ pool'.stop = pool.stop
    BY <1>1, <2>1 DEF PoolState
  <2>4. Held' => Held /\ "infinite" \in gui.kind
    BY <2>2 DEF Held
  <2> QED BY <1>1, <2>1, <2>2, <2>3, <2>4, Nothing, Reads DEF Held
<1>6. CASE UciNewGame
  <2>1. /\ ~gui.held /\ todo[Uci] = <<>> /\ ~gui.quit
        /\ todo' = [todo EXCEPT ![Uci] = search_clear]
        /\ gui' = [gui EXCEPT !.commands = @ + 1]
        /\ UNCHANGED <<thread, worker, pool, engine>>
    BY <1>6 DEF UciNewGame, Read, MayBlock
  <2>2. /\ gui' \in GuiState /\ gui'.go = gui.go /\ ~gui'.held /\ gui'.answered = gui.answered
    BY <1>1, <2>1 DEF GuiState
  <2>3. /\ Plain(search_clear, n)
        /\ Head(search_clear).op = "wait" /\ Head(search_clear).t = Main
    BY <1>2, QuietCommands DEF IInv
  <2> QED BY <1>1, <1>2, <2>1, <2>2, <2>3, Reads DEF Plain, Held
<1>7. CASE Quit
  <2>1. /\ todo[Uci] = <<>> /\ ~gui.quit
        /\ todo' = [todo EXCEPT ![Uci] = destructor]
        /\ pool' = [pool EXCEPT !.stop = TRUE]
        /\ gui' = [gui EXCEPT !.quit = TRUE, !.held = FALSE]
        /\ UNCHANGED <<thread, worker, engine>>
    BY <1>7 DEF Quit
  <2>2. /\ gui' \in GuiState /\ gui'.go = gui.go /\ ~gui'.held /\ gui'.answered = gui.answered
        /\ gui'.quit
    BY <1>1, <2>1 DEF GuiState
  <2>3. /\ pool' \in PoolState /\ pool'.size = pool.size /\ pool'.go = pool.go
        /\ pool'.setupStates = pool.setupStates
    BY <1>1, <2>1 DEF PoolState
  <2>4. /\ Plain(destructor, 0)
        /\ Head(destructor).op = "wait" /\ Head(destructor).t = Main
    BY <1>2, QuietCommands DEF IInv
  <2> QED BY <1>1, <2>1, <2>2, <2>3, <2>4, Reads DEF Plain, Held
<1>8. CASE \E hasMoves \in BOOLEAN : PositionCommand(hasMoves)
  <2>1. PICK hasMoves \in BOOLEAN : PositionCommand(hasMoves)
    BY <1>8
  <2>2. /\ todo[Uci] = <<>> /\ ~gui.quit
        /\ todo' = [todo EXCEPT ![Uci] = <<>>]
        /\ engine' = [states |-> engine.lists + 1, position |-> engine.lists + 1,
                      hasMoves |-> hasMoves, lists |-> engine.lists + 1]
        /\ gui' = [gui EXCEPT !.commands = @ + 1]
        /\ UNCHANGED <<thread, worker, pool>>
    BY <2>1 DEF PositionCommand, Read
  <2>3. /\ gui' \in GuiState /\ gui'.go = gui.go /\ gui'.held = gui.held
        /\ gui'.answered = gui.answered /\ gui'.kind = gui.kind
    BY <1>1, <2>2 DEF GuiState
  <2>4. /\ engine' \in EngineState /\ engine'.states = engine'.lists
        /\ engine'.lists = engine.lists + 1
    BY <1>1, <2>2 DEF EngineState
  <2> QED BY <1>1, <2>2, <2>3, <2>4, Nothing, Reads DEF Held
<1>9. CASE \E m \in Sizes : SetThreads(m)
  <2>1. PICK m \in Sizes : SetThreads(m)
    BY <1>9
  <2>2. /\ ~gui.held /\ todo[Uci] = <<>> /\ ~gui.quit
        /\ todo' = [todo EXCEPT ![Uci] = setoption(m)]
        /\ gui' = [gui EXCEPT !.commands = @ + 1]
        /\ UNCHANGED <<thread, worker, pool, engine>>
    BY <2>1 DEF SetThreads, Read, MayBlock
  <2>3. /\ gui' \in GuiState /\ gui'.go = gui.go /\ ~gui'.held /\ gui'.answered = gui.answered
    BY <1>1, <2>2 DEF GuiState
  <2>4. /\ Plain(setoption(m), m) /\ m > 0
        /\ Head(setoption(m)).op = "wait" /\ Head(setoption(m)).t = Main
    BY QuietCommands, SizesAssumption DEF IInv
  <2> QED BY <1>1, <2>2, <2>3, <2>4, Reads DEF Plain, Held
<1> QED BY <1>3, <1>4, <1>5, <1>6, <1>7, <1>8, <1>9 DEF Command

\* The invariant is inductive.
LEMMA InvariantStep ==
  ASSUME IInv, [Next]_vars
  PROVE  IInv'
<1>1. CASE UciStep
  BY <1>1, UciWaits, UciRuns, UciNotifies, UciBuilds, BeginStep DEF UciStep, Shared
<1>2. CASE \E w \in Thread : WorkerStep(w)
  <2>1. PICK w \in Thread : WorkerStep(w)
    BY <1>2
  <2> QED BY <2>1, WorkerWaits, WorkerRuns, WorkerNotifies, WorkerParks, WorkerWakes,
             WorkerChores, WorkerIterates, WorkerSearched DEF WorkerStep, Shared
<1>3. CASE MainStep
  BY <1>3, MainEnds, Answered DEF MainStep
<1>4. CASE check_time
  BY <1>4, TimeChecked
<1>5. CASE Command
  BY <1>5, CommandsStep
<1>6. CASE UNCHANGED vars
  <2>1. AllSame
    BY <1>6 DEF vars, AllSame, Same, IInv, TypeOK
  <2> QED BY <1>6, <2>1, Stutter DEF vars
<1> QED BY <1>1, <1>2, <1>3, <1>4, <1>5, <1>6 DEF Next

\* The engine's constructor establishes it.
LEMMA InvariantInit ==
  ASSUME Init
  PROVE  IInv
<1>1. PICK n \in Sizes :
        todo = [a \in Actor |-> IF a = Uci THEN resize_threads(0, n) ELSE <<>>]
  BY DEF Init
<1>2. /\ Plain(resize_threads(0, n), n) /\ Has(resize_threads(0, n), "sized")
      /\ n > 0
  <2>1. 0 \in 0 .. Max(Sizes)
    BY ThreadNumbers
  <2> QED BY <2>1, FirstCommand, SizesAssumption
<1>3. /\ todo \in [Actor -> Seq(Operations)] /\ todo[Uci] = resize_threads(0, n)
      /\ \A t \in Thread : todo[t] = <<>>
  BY <1>1, <1>2, ThreadNumbers DEF Plain, Actor
<1>4. Main \in Thread /\ QuietList(todo[Uci]) /\ ~GoList(todo[Uci])
  BY <1>2, <1>3, ThreadNumbers, GoHead DEF Plain
<1>5. /\ thread \in [Thread -> ThreadState]
      /\ \A t \in Thread : thread[t].job = "none" /\ thread[t].place = "none"
  BY DEF Init, NoThread, ThreadState, Places, Jobs
<1>6. worker \in [Thread -> WorkerState]
  BY DEF Init, NoWork, WorkerState, NoStates, SearchKinds
<1>7. pool \in PoolState
  BY ThreadNumbers DEF Init, PoolState, NoStates
<1>8. engine \in EngineState /\ gui \in GuiState
  BY DEF Init, EngineState, GuiState, SearchKinds
<1>9. TypeOK
  BY <1>3, <1>5, <1>6, <1>7, <1>8 DEF TypeOK
<1>10. ~Live /\ ~Begun /\ \A t \in Thread : ~Busy(t)
  BY <1>3, <1>4, <1>5, Nothing DEF Live, Begun, Busy
<1>11. ThreadInv
  BY <1>3, <1>5 DEF ThreadInv
<1>12. ListInv
  BY <1>3, <1>4, Nothing DEF ListInv
<1>13. SizeInv
  BY <1>2, <1>3 DEF SizeInv, Plain
<1>14. WorkInv /\ SetupInv
  BY <1>3, <1>5, <1>10, Nothing DEF WorkInv, SetupInv
<1>15. CountInv
  BY DEF Init, CountInv, NoStates
<1>16. GoInv /\ LiveInv
  BY <1>4, <1>10 DEF GoInv, LiveInv
<1>17. HeldInv
  BY DEF Init, HeldInv, Held
<1> QED BY <1>9, <1>11, <1>12, <1>13, <1>14, <1>15, <1>16, <1>17 DEF IInv

\* The inductive invariant holds in every state of every behaviour: a job is given only to
\* a free thread, whoever gives it waits for its end, and no thread does anything but
\* search between the start of a search and its answer (Thread, ThreadPool, Engine).
THEOREM WizardThreadsInvariant == Spec => []IInv
<1>1. Init => IInv
  BY InvariantInit
<1>2. IInv /\ [Next]_vars => IInv'
  BY InvariantStep
<1> QED BY <1>1, <1>2, PTL DEF Spec

\* Every worker that searches does so for the go last begun, on the StateInfos the pool
\* keeps for it, and nobody clears, rebuilds or resets a worker before the main thread
\* has answered (start_thinking, start_searching, wait_for_search_finished).
THEOREM WizardSearchesOwnGoIsInvariant == Spec => []WizardSearchesOwnGo
<1>1. IInv => WizardSearchesOwnGo
  <2> SUFFICES ASSUME IInv, NEW w \in Thread, Searching(w)
               PROVE  /\ worker[w].go = pool.go /\ gui.answered < pool.go
                      /\ worker[w].states = pool.setupStates /\ pool.setupStates # engine.states
                      /\ Searching(Main)
                      /\ \A v \in Thread : ~\E i \in DOMAIN todo[v] :
                           todo[v][i].op \in {"construct", "clear", "clear table", "setup"}
    BY DEF WizardSearchesOwnGo
  <2>1. \A t \in Thread : /\ todo[t] \in Seq(Operations)
                          /\ \A i \in DOMAIN todo[t] : todo[t][i] \in ToSet(todo[t])
    <3> TAKE t \in Thread
    <3>1. todo[t] \in Seq(Operations)
      BY DEF IInv, TypeOK, Actor
    <3> QED BY <3>1, Members
  <2>2. todo[w] # <<>>
    BY DEF Searching
  <2>3. Live /\ w \in 1 .. pool.size
    <3>1. ~DoesChores(w)
      BY <2>1 DEF Searching, DoesChores, Chores
    <3>2. Live /\ (w = Main \/ w \in 2 .. pool.size)
      BY <2>2, <3>1, WorkerHead
    <3>3. pool.size > 0 /\ pool.size \in Nat
      BY <3>2, LiveMain DEF IInv, TypeOK, PoolState
    <3> QED BY <3>2, <3>3 DEF Main
  <2>4. Main \in Thread /\ Searching(Main)
    <3>1. w # Main => Awaits(todo[Main], w)
      BY <2>2, <2>3 DEF IInv, WorkInv, Busy
    <3>2. todo[Main] # <<>>
      BY <2>2, <3>1, Nothing
    <3>3. Main \in Thread /\ Has(todo[Main], "answer")
      BY <2>3, <3>2, LiveMain, WorkerHead, SearchHead, ThreadNumbers
    <3>4. PICK o \in ToSet(todo[Main]) : o.op = "answer"
      BY <3>3 DEF Has
    <3>5. PICK i \in 1 .. Len(todo[Main]) : o = todo[Main][i]
      BY <2>1, <3>3, <3>4, Members
    <3>6. i \in DOMAIN todo[Main]
      BY <2>1, <3>3
    <3> QED BY <3>3, <3>4, <3>5, <3>6 DEF Searching
  <2>5. \A v \in Thread : ~\E i \in DOMAIN todo[v] :
          todo[v][i].op \in {"construct", "clear", "clear table", "setup"}
    BY <2>1, <2>3, LiveMain DEF Chores
  <2>6. /\ worker[w].go = pool.go /\ worker[w].states = pool.setupStates
        /\ gui.answered < pool.go /\ pool.setupStates # engine.states
    BY <2>3 DEF IInv, LiveInv, IsSetUp, CountInv
  <2> QED BY <2>4, <2>5, <2>6
<1> QED BY <1>1, WizardThreadsInvariant, PTL

\* A search that the GUI asked to be held is not answered before its stop or ponderhit,
\* unless a mate or, under infinite, a clock or a budget may cut it short: the only step
\* that answers finds nothing else held.
THEOREM WizardHoldsAlways == Spec => WizardHolds
<1>1. IInv /\ [Next]_vars => [gui'.answered # gui.answered => ~Held]_vars
  <2> SUFFICES ASSUME IInv, Next, gui'.answered # gui.answered
               PROVE  ~Held
    OBVIOUS
  <2>0. gui \in GuiState
    BY DEF IInv, TypeOK
  <2>1. CASE UciStep
    BY <2>0, <2>1 DEF UciStep, Shared, wait_for_search_finished, run_custom_job, Notify,
       CreateThread, ExitThread, Join, Sized, Begin, GuiState
  <2>2. CASE \E w \in Thread : WorkerStep(w)
    BY <2>2 DEF WorkerStep, Shared, wait_for_search_finished, run_custom_job, Notify,
       Park, Wake, Setup, Chore, Iterate, Searched
  <2>3. CASE MainStep
    <3>1. Answer
      BY <2>3 DEF MainStep, Decide, StopOnPonderhit, Hold, Raise
    <3> QED BY <3>1, Answered
  <2>4. CASE check_time
    BY <2>4 DEF check_time
  <2>5. CASE Command
    BY <2>0, <2>5 DEF Command, Go, Stop, Ponderhit, UciNewGame, Quit, PositionCommand,
       SetThreads, Read, GuiState
  <2> QED BY <2>1, <2>2, <2>3, <2>4, <2>5 DEF Next
<1> QED BY <1>1, WizardThreadsInvariant, PTL DEF Spec, WizardHolds

=============================================================================
