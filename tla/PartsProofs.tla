----------------------------- MODULE PartsProofs -----------------------------
(***************************************************************************)
(* Proofs about three parts that share no state: the time manager, for any *)
(* clocks, increments, overheads and numbers of moves to go; the search    *)
(* clock, for any budgets, any limit that stands for "none" and however    *)
(* long the search runs; and the move picker, for any moves, scores and    *)
(* verdicts of see_ge, at any depth.                                       *)
(***************************************************************************)
EXTENDS GameClock, ClockStores, WizardMovePicker, FiniteSetTheorems, SequenceTheorems, TLAPS

-----------------------------------------------------------------------------
(* The budget of a move (GameClock). *)

\* compute_budget on a clock calls std::clamp with ordered bounds only, and
\* returns 1 <= optimum <= maximum <= what is left after the overhead.
LEMMA ClockBudgetBounds ==
  ASSUME NEW time \in Int, NEW i \in Nat, NEW mtg \in Nat, NEW o \in Nat
  PROVE  /\ ClockBudget(time, i, mtg, o) \in [opt : Nat, max : Nat]
         /\ 1 <= ClockBudget(time, i, mtg, o).opt
         /\ ClockBudget(time, i, mtg, o).opt <= ClockBudget(time, i, mtg, o).max
         /\ ClockBudget(time, i, mtg, o).max <= Remaining(time, o)
<1> DEFINE r == Remaining(time, o)
           opt == Clamp(Optimum(r, i, mtg, o), 1, r)
           max == Clamp(Maximum(r, i, mtg, o), opt, r)
<1>1. r \in Nat /\ 1 <= r
  BY DEF Remaining, Greatest
<1>2. Slice(r, i, mtg) \in Int
  <2>1. Horizon(mtg) \in Nat \ {0}
    BY DEF Horizon, Least
  <2>2. r \div Horizon(mtg) \in Int
    BY <1>1, <2>1
  <2>3. (3 * i) \div 4 \in Int
    OBVIOUS
  <2> QED BY <2>2, <2>3 DEF Slice
<1>3. Optimum(r, i, mtg, o) \in Int
  BY <1>1, <1>2 DEF Optimum, Least
<1>4. Maximum(r, i, mtg, o) \in Int
  BY <1>1, <1>2 DEF Maximum, Least
<1>5. opt \in Int /\ 1 <= opt /\ opt <= r
  <2> HIDE DEF r
  <2> QED BY <1>1, <1>3 DEF Clamp
<1>6. max \in Int /\ opt <= max /\ max <= r
  <2> HIDE DEF r, opt
  <2> QED BY <1>1, <1>4, <1>5 DEF Clamp
<1>7. ClockBudget(time, i, mtg, o) = [opt |-> opt, max |-> max]
  BY DEF ClockBudget, Budget
<1> QED
  <2> HIDE DEF r, opt, max
  <2>1. opt \in Nat /\ max \in Nat /\ 1 <= opt /\ opt <= max /\ max <= r
    BY <1>1, <1>5, <1>6
  <2> QED BY <1>7, <2>1 DEF r

\* A game that can be played on has a clock, which the overhead alone cannot
\* use up where NeverFlags says so.
GameInv ==
  /\ GameTypeOK
  /\ ~flagged => clock >= 1
  /\ thinking => ~flagged
  /\ BudgetInClock
  /\ (inc > overhead /\ \A s \in Starts : s > overhead) => ~flagged /\ clock > overhead

\* A game starts within the invariant.
LEMMA GameStarts == GameInit => GameInv
<1> SUFFICES ASSUME GameInit PROVE GameInv
  OBVIOUS
<1>1. clock \in 0..MaxClock /\ clock >= 1
  BY ClockAssumption DEF GameInit
<1>2. budget \in [opt : Nat, max : Nat]
  BY UnlimitedAssumption DEF GameInit, NoBudget, Budget
<1>3. GameTypeOK
  BY <1>1, <1>2 DEF GameInit, GameTypeOK
<1>4. (\A s \in Starts : s > overhead) => clock > overhead
  BY DEF GameInit
<1> QED BY <1>1, <1>3, <1>4 DEF GameInit, GameInv, BudgetInClock

\* Every move keeps it.
LEMMA GameStep == GameInv /\ [GameNext]_gameVars => GameInv'
<1> SUFFICES ASSUME GameInv, [GameNext]_gameVars PROVE GameInv'
  OBVIOUS
<1> USE DEF GameInv
<1>0. /\ inc \in Nat /\ overhead \in Nat /\ clock \in Nat /\ MaxClock \in Nat
      /\ clock <= MaxClock
  BY ClockAssumption DEF GameTypeOK
<1>1. CASE Go
  <2>1. PICK mtg \in Movestogo :
          budget' = ComputeBudget(Clocked(clock, inc, mtg), overhead, FALSE)
    BY <1>1 DEF Go
  <2>2. mtg \in Nat
    BY ClockAssumption
  <2>3. clock >= 1
    BY <1>1 DEF Go
  <2>4. budget' = ClockBudget(clock, inc, mtg, overhead)
    BY <1>0, <2>1, <2>3 DEF ComputeBudget, Clocked
  <2>5. /\ budget' \in [opt : Nat, max : Nat]
        /\ 1 <= budget'.opt /\ budget'.opt <= budget'.max
        /\ budget'.max <= Remaining(clock, overhead)
    <3> HIDE DEF GameInv
    <3>1. clock \in Int /\ inc \in Nat /\ overhead \in Nat
      BY <1>0
    <3>2. /\ ClockBudget(clock, inc, mtg, overhead) \in [opt : Nat, max : Nat]
          /\ 1 <= ClockBudget(clock, inc, mtg, overhead).opt
          /\ ClockBudget(clock, inc, mtg, overhead).opt
               <= ClockBudget(clock, inc, mtg, overhead).max
          /\ ClockBudget(clock, inc, mtg, overhead).max <= Remaining(clock, overhead)
      BY <2>2, <3>1, ClockBudgetBounds, Zenon
    <3> QED BY <2>4, <3>2
  <2> QED BY <1>1, <2>5 DEF Go, GameTypeOK, BudgetInClock
<1>2. CASE Move
  <2>1. PICK spent \in 0..budget.max, latency \in 0..overhead :
          LET left == clock - spent - latency
          IN  IF left < 0 \/ left + inc = 0
              THEN clock' = 0 /\ flagged' = TRUE
              ELSE clock' = Least(MaxClock, left + inc) /\ flagged' = FALSE
    BY <1>2 DEF Move
  <2> DEFINE left == clock - spent - latency
  <2>2. spent \in Nat /\ latency \in Nat /\ left \in Int
    BY <1>0, <2>1 DEF GameTypeOK
  <2>3. /\ flagged' = TRUE \/ flagged' = FALSE
        /\ clock' \in 0..MaxClock
        /\ flagged' = FALSE => clock' >= 1
    <3>1. CASE left < 0 \/ left + inc = 0
      <4>1. clock' = 0 /\ flagged' = TRUE
        BY <2>1, <3>1
      <4> QED BY <1>0, <4>1
    <3>2. CASE ~(left < 0 \/ left + inc = 0)
      <4>1. left + inc >= 1
        BY <1>0, <2>2, <3>2
      <4>2. clock' = Least(MaxClock, left + inc) /\ flagged' = FALSE
        BY <2>1, <3>2
      <4>3. MaxClock >= 1
        BY <1>0, <1>2 DEF Move
      <4> HIDE DEF left
      <4>4. clock' \in 1..MaxClock
        BY <1>0, <2>2, <4>1, <4>2, <4>3 DEF Least
      <4> QED BY <1>0, <4>2, <4>4
    <3> QED BY <3>1, <3>2
  <2>4. ASSUME inc > overhead, \A s \in Starts : s > overhead
        PROVE  ~flagged' /\ clock' > overhead
    <3>1. clock > overhead /\ Remaining(clock, overhead) = clock - overhead
      BY <1>0, <2>4 DEF Remaining, Greatest
    <3>2. spent <= clock - overhead
      BY <1>0, <1>2, <2>1, <2>2, <3>1 DEF Move, BudgetInClock, GameTypeOK
    <3>3. left >= 0 /\ left + inc > overhead
      BY <1>0, <2>1, <2>2, <2>4, <3>2
    <3> QED BY <1>0, <2>1, <2>2, <3>1, <3>3 DEF Least
  <2> QED BY <1>2, <2>3, <2>4 DEF Move, GameTypeOK, BudgetInClock
<1>3. CASE UNCHANGED gameVars
  BY <1>3 DEF gameVars, GameTypeOK, BudgetInClock, Remaining
<1> QED BY <1>1, <1>2, <1>3 DEF GameNext, Lost

\* The inductive invariant holds in every state of every game.
THEOREM GameInvIsInvariant == GameSpec => []GameInv
  BY GameStarts, GameStep, PTL DEF GameSpec

\* Every budget compute_budget publishes on our clock is ordered, at least a
\* millisecond, and within what is left once the overhead is reserved.
THEOREM BudgetIsInClock == GameSpec => []BudgetInClock
<1>1. GameInv => BudgetInClock
  BY DEF GameInv
<1> QED BY <1>1, GameInvIsInvariant, PTL

\* With an increment above the overhead no game is ever lost on time.
THEOREM GameNeverFlags == GameSpec => []NeverFlags
<1>1. GameInv => NeverFlags
  BY DEF GameInv, NeverFlags
<1> QED BY <1>1, GameInvIsInvariant, PTL

\* In low time a search that ends at its optimum costs no more than the
\* increment gives back.
THEOREM IncrementCarriesUs == GameSpec => []IncrementCarries
<1> DEFINE Low == LowTime(Remaining(clock, overhead), overhead)
           CarryInv == GameInv /\ IncrementCarries
<1>1. GameInit => CarryInv
  BY GameStarts DEF GameInit, IncrementCarries
<1>2. CarryInv /\ [GameNext]_gameVars => CarryInv'
  <2> SUFFICES ASSUME CarryInv, [GameNext]_gameVars PROVE IncrementCarries'
    BY GameStep
  <2>0. inc \in Nat /\ overhead \in Nat /\ clock \in Nat
    BY ClockAssumption DEF GameInv, GameTypeOK
  <2>1. CASE Go
    <3>1. PICK mtg \in Movestogo :
            budget' = ComputeBudget(Clocked(clock, inc, mtg), overhead, FALSE)
      BY <2>1 DEF Go
    <3>2. clock >= 1 /\ mtg \in Nat
      BY <2>1, ClockAssumption DEF Go, GameInv
    <3> DEFINE r == Remaining(clock, overhead)
               o == Optimum(r, inc, mtg, overhead)
    <3>3. budget'.opt = Clamp(o, 1, r)
      BY <2>0, <3>1, <3>2 DEF ComputeBudget, Clocked, ClockBudget, Budget
    <3> SUFFICES ASSUME Low, overhead > 0, inc >= 2 * overhead
                 PROVE  budget'.opt + overhead <= inc
      BY <2>1 DEF Go, IncrementCarries
    <3>4. r \in Nat /\ 1 <= r
      BY <2>0 DEF Remaining, Greatest
    <3>5. Slice(r, inc, mtg) \in Int
      <4>1. Horizon(mtg) \in Nat \ {0}
        BY <3>2 DEF Horizon, Least
      <4>2. r \div Horizon(mtg) \in Int
        BY <3>4, <4>1
      <4> QED BY <2>0, <4>2 DEF Slice
    <3>6. o \in Int /\ o <= inc \div 2
      BY <2>0, <3>4, <3>5 DEF Optimum, Least
    <3>7. Clamp(o, 1, r) <= inc \div 2 \/ Clamp(o, 1, r) = 1
      BY <2>0, <3>4, <3>6 DEF Clamp
    <3> HIDE DEF o, r
    <3>8. inc \div 2 + overhead <= inc /\ 1 + overhead <= inc
      BY <2>0
    <3>9. CASE budget'.opt = 1
      BY <3>8, <3>9
    <3>10. CASE budget'.opt <= inc \div 2
      <4>1. budget'.opt \in Int
        BY <3>3, <3>4, <3>6 DEF Clamp
      <4>2. inc \div 2 \in Int
        BY <2>0
      <4> QED BY <2>0, <3>8, <3>10, <4>1, <4>2
    <3> QED BY <3>3, <3>7, <3>9, <3>10
  <2>2. CASE ~Go
    BY <2>2 DEF GameNext, Move, Lost, gameVars, IncrementCarries
  <2> QED BY <2>1, <2>2
<1>3. CarryInv => IncrementCarries
  OBVIOUS
<1> QED BY <1>1, <1>2, <1>3, PTL DEF GameSpec

-----------------------------------------------------------------------------
(* The stores of the search clock (ClockStores).  The maximum is the last   *)
(* store of a ponderhit.  So a searching thread that has seen a finite      *)
(* maximum, and only that one reads on, has the whole clock of the go       *)
(* before it; and nothing writes it any more.                               *)

\* The stores that ponderhit has still to make.
Rests == {<<>>, <<"max">>, <<"opt", "max">>, <<"start", "opt", "max">>}

Searchers == [pc : {"init", "search", "gate", "read", "stopped"}, of : {"none", "opt", "max"},
              elapsed : Int, limit : Int]

ClockType ==
    /\ now \in Int /\ since \in Int
    /\ ponders \in BOOLEAN
    /\ timer \in [start : Int, opt : Int, max : Int]
    /\ goBudget \in [opt : Int, max : Int]
    /\ searcher \in Searchers
    /\ hitter \in Rests

\* The clock of the go, with nobody left to write it.
Settled == /\ ~ponders /\ hitter = <<>>
           /\ timer.opt = goBudget.opt /\ timer.max = goBudget.max

\* Until it is settled, a searching thread's clock has no maximum; the time it tells is
\* from the go or ponderhit on, except in a ponderhit's stores or before it comes.
WriterInv ==
    /\ since <= now
    /\ hitter # <<>> => ~ponders /\ searcher.pc # "init"
    /\ hitter = <<"max">> => timer.opt = goBudget.opt
    /\ searcher.pc # "init" =>
         /\ timer.start <= now
         /\ since <= timer.start \/ ponders \/ hitter = stores
         /\ Settled \/ NoLimit <= timer.max

\* What the searching thread has read is right, or too little to stop it.
ReaderInv ==
    /\ searcher.pc = "gate" => ~ponders /\ searcher.elapsed = NotRead /\ searcher.limit = NotRead
    /\ searcher.pc \in {"gate", "read", "stopped"} => searcher.of \in {"opt", "max"}
    /\ searcher.pc \in {"read", "stopped"} => Settled /\ since <= timer.start
    /\ searcher.pc = "read" =>
         /\ searcher.elapsed = NotRead \/ searcher.elapsed <= now - since
         /\ searcher.limit = NotRead \/ searcher.limit = goBudget[searcher.of]

ClockInv == ClockType /\ WriterInv /\ ReaderInv /\ NeverEarly

-----------------------------------------------------------------------------
\* A search starts with the clock the last one has left.
LEMMA ClockStarts ==
  ASSUME OwnBudgets \subseteq [opt : Int, max : Int], ClockInit
  PROVE  ClockInv
<1>1. searcher = [pc |-> "init", of |-> "none", elapsed |-> -1, limit |-> -1]
  BY DEF ClockInit, At, NotRead
<1>2. searcher \in Searchers
  BY <1>1 DEF Searchers
<1>3. hitter = <<>> /\ timer = [start |-> 0, opt |-> 1, max |-> 1] /\ goBudget \in OwnBudgets
      /\ now = 0 /\ since = 0 /\ ponders \in BOOLEAN
  BY DEF ClockInit
<1>4. ClockType
  BY <1>2, <1>3 DEF ClockType, Rests
<1> QED BY <1>1, <1>3, <1>4 DEF ClockInv, WriterInv, ReaderInv, NeverEarly

\* Time passes.
LEMMA ClockTicks ==
  ASSUME ClockInv, Tick
  PROVE  ClockInv'
<1>1. ClockType /\ now' = now + 1 /\ UNCHANGED <<ponders, timer, goBudget, searcher, hitter, since>>
  BY DEF ClockInv, Tick
<1>2. now' \in Int /\ now <= now'
  BY <1>1 DEF ClockType
<1>3. ClockType'
  BY <1>1, <1>2 DEF ClockType
<1>4. timer.start \in Int /\ since \in Int /\ now \in Int /\ searcher.elapsed \in Int
      /\ goBudget.opt \in Int /\ goBudget.max \in Int
  BY <1>1 DEF ClockType, Searchers
<1>5. WriterInv'
  BY <1>1, <1>2, <1>4 DEF ClockInv, WriterInv, Settled
<1>6. ReaderInv'
  BY <1>1, <1>2, <1>4 DEF ClockInv, ReaderInv, Settled
<1>7. NeverEarly'
  <2>1. searcher.pc = "stopped" => searcher.of \in {"opt", "max"} /\ goBudget[searcher.of] \in Int
    BY <1>4 DEF ClockInv, ReaderInv
  <2> QED BY <1>1, <1>2, <1>4, <2>1 DEF ClockInv, NeverEarly
<1> QED BY <1>3, <1>5, <1>6, <1>7 DEF ClockInv

\* The clock of a search is set before there is a reader.
LEMMA ClockIsSet ==
  ASSUME NoLimit \in Int, ClockInv, InitClock
  PROVE  ClockInv'
<1>1. ClockType /\ hitter = <<>>
  BY DEF ClockInv, InitClock, WriterInv
<1>2. searcher' = [pc |-> "search", of |-> "none", elapsed |-> -1, limit |-> -1]
      /\ since' = now /\ UNCHANGED <<now, ponders, goBudget, hitter>>
  BY DEF InitClock, Searching, At, NotRead
<1>3. timer' = [start |-> now, opt |-> IF ponders THEN NoLimit ELSE goBudget.opt,
                max |-> IF ponders THEN NoLimit ELSE goBudget.max]
  BY DEF InitClock, Unbounded
<1>4. searcher' \in Searchers
  BY <1>2 DEF Searchers
<1>5. timer' \in [start : Int, opt : Int, max : Int]
  BY <1>1, <1>3 DEF ClockType
<1>6. ClockType'
  BY <1>1, <1>2, <1>4, <1>5 DEF ClockType
<1>7. WriterInv' /\ ReaderInv' /\ NeverEarly'
  BY <1>1, <1>2, <1>3 DEF ClockType, WriterInv, ReaderInv, NeverEarly, Settled
<1> QED BY <1>6, <1>7 DEF ClockInv

\* A ponderhit comes.
LEMMA ClockIsHit ==
  ASSUME ClockInv, Hit
  PROVE  ClockInv'
<1>1. ClockType /\ ponders /\ hitter = <<>> /\ searcher.pc \notin {"init", "gate", "read", "stopped"}
  BY DEF ClockInv, Hit, WriterInv, ReaderInv, NeverEarly, Settled
<1>2. ~ponders' /\ since' = now /\ hitter' = <<"start", "opt", "max">>
      /\ UNCHANGED <<now, timer, goBudget, searcher>>
  BY DEF Hit, stores
<1>3. ClockType'
  BY <1>1, <1>2 DEF ClockType, Rests, Hit
<1>4. timer.start <= now /\ NoLimit <= timer.max
  BY <1>1 DEF ClockInv, WriterInv, Settled
<1> QED BY <1>1, <1>2, <1>3, <1>4 DEF ClockInv, ClockType, WriterInv, ReaderInv, NeverEarly, stores

\* The stores of a ponderhit, in their order.
LEMMA ClockStored ==
  ASSUME ClockInv, Store
  PROVE  ClockInv'
<1>1. ClockType /\ ~ponders /\ searcher.pc \notin {"init", "read", "stopped"}
      /\ UNCHANGED <<now, ponders, goBudget, searcher, since>>
  BY DEF ClockInv, Store, WriterInv, ReaderInv, Settled
<1>2. timer.start <= now /\ since <= now /\ (since <= timer.start \/ hitter = stores)
      /\ NoLimit <= timer.max
  BY <1>1 DEF ClockInv, WriterInv, Settled, Store
<1>3. CASE hitter = <<"start", "opt", "max">>
  <2>1. hitter' = <<"opt", "max">> /\ timer' = [timer EXCEPT !.start = now]
    <3>1. Head(hitter) = "start" /\ Tail(hitter) = <<"opt", "max">>
      BY <1>3
    <3> QED BY <3>1 DEF Store
  <2>2. timer'.start = now /\ timer'.opt = timer.opt /\ timer'.max = timer.max
        /\ timer' \in [start : Int, opt : Int, max : Int]
    BY <1>1, <2>1 DEF ClockType
  <2>3. ClockType'
    BY <1>1, <2>1, <2>2 DEF ClockType, Rests
  <2> QED BY <1>1, <1>2, <2>1, <2>2, <2>3 DEF ClockInv, ClockType, WriterInv, ReaderInv, NeverEarly
<1>4. CASE hitter = <<"opt", "max">>
  <2>1. hitter' = <<"max">> /\ timer' = [timer EXCEPT !.opt = goBudget.opt]
    <3>1. Head(hitter) = "opt" /\ Tail(hitter) = <<"max">>
      BY <1>4
    <3> QED BY <3>1 DEF Store
  <2>2. timer'.start = timer.start /\ timer'.max = timer.max /\ timer'.opt = goBudget.opt
        /\ timer' \in [start : Int, opt : Int, max : Int]
    BY <1>1, <2>1 DEF ClockType
  <2>3. ClockType'
    BY <1>1, <2>1, <2>2 DEF ClockType, Rests
  <2> QED BY <1>1, <1>2, <1>4, <2>1, <2>2, <2>3
          DEF ClockInv, ClockType, WriterInv, ReaderInv, NeverEarly, stores
<1>5. CASE hitter = <<"max">>
  <2>1. hitter' = <<>> /\ timer' = [timer EXCEPT !.max = goBudget.max]
    <3>1. Head(hitter) = "max" /\ Tail(hitter) = <<>>
      BY <1>5
    <3> QED BY <3>1 DEF Store
  <2>2. timer'.start = timer.start /\ timer'.opt = timer.opt /\ timer'.max = goBudget.max
        /\ timer' \in [start : Int, opt : Int, max : Int]
    BY <1>1, <2>1 DEF ClockType
  <2>3. ClockType'
    BY <1>1, <2>1, <2>2 DEF ClockType, Rests
  <2>4. timer.opt = goBudget.opt
    BY <1>5 DEF ClockInv, WriterInv
  <2>5. Settled' /\ since <= timer.start
    BY <1>1, <1>2, <1>5, <2>1, <2>2, <2>4 DEF Settled, stores
  <2> QED BY <1>1, <1>2, <2>1, <2>2, <2>3, <2>5
          DEF ClockInv, ClockType, WriterInv, ReaderInv, NeverEarly
<1> QED BY <1>1, <1>3, <1>4, <1>5 DEF ClockType, Rests, Store

\* The searching thread tests the clock.
LEMMA ClockIsRead ==
  ASSUME NoLimit \in Int, ClockInv, Ask \/ Gate \/ ReadElapsed \/ ReadLimit \/ Compare
  PROVE  ClockInv'
<1>1. ClockType /\ searcher \in Searchers /\ searcher.pc # "init"
      /\ UNCHANGED <<now, ponders, timer, goBudget, hitter, since>>
  BY DEF ClockInv, ClockType, Ask, Gate, ReadElapsed, ReadLimit, Compare, Searching, At
<1>2. timer.start \in Int /\ timer.max \in Int /\ since \in Int /\ now \in Int
      /\ goBudget.opt \in Int /\ goBudget.max \in Int
      /\ searcher.elapsed \in Int /\ searcher.limit \in Int
  BY <1>1 DEF ClockType, Searchers
<1>3. ASSUME searcher' \in Searchers, searcher'.pc # "init", ReaderInv', NeverEarly'
      PROVE  ClockInv'
  <2>1. ClockType'
    BY <1>1, <1>3 DEF ClockType
  <2>2. WriterInv'
    BY <1>1, <1>3 DEF ClockInv, WriterInv, Settled
  <2> QED BY <1>3, <2>1, <2>2 DEF ClockInv
<1>4. ASSUME searcher' = Searching
      PROVE  ClockInv'
  <2>1. searcher' = [pc |-> "search", of |-> "none", elapsed |-> -1, limit |-> -1]
    BY <1>4 DEF Searching, At, NotRead
  <2>2. searcher' \in Searchers /\ searcher'.pc = "search"
    BY <2>1 DEF Searchers
  <2> QED BY <1>3, <2>2 DEF ReaderInv, NeverEarly
<1>5. CASE Ask
  <2>1. ~ponders /\ \E of \in {"opt", "max"} :
           searcher' = [pc |-> "gate", of |-> of, elapsed |-> -1, limit |-> -1]
    BY <1>5 DEF Ask, At, NotRead
  <2>2. searcher' \in Searchers /\ searcher'.pc = "gate" /\ searcher'.of \in {"opt", "max"}
        /\ searcher'.elapsed = NotRead /\ searcher'.limit = NotRead
    BY <2>1 DEF Searchers, NotRead
  <2>3. ~ponders'
    BY <1>1, <2>1
  <2> QED BY <1>3, <2>2, <2>3 DEF ReaderInv, NeverEarly
<1>6. CASE Gate
  <2>1. CASE ~(timer.max < NoLimit)
    BY <1>4, <1>6, <2>1 DEF Gate
  <2>2. CASE timer.max < NoLimit
    <3>1. searcher.pc = "gate" /\ searcher' = [searcher EXCEPT !.pc = "read"]
      BY <1>6, <2>2 DEF Gate
    <3>2. searcher' \in Searchers /\ searcher'.pc = "read" /\ searcher'.of = searcher.of
          /\ searcher'.elapsed = searcher.elapsed /\ searcher'.limit = searcher.limit
      BY <1>1, <3>1 DEF Searchers
    <3>3. searcher.elapsed = NotRead /\ searcher.limit = NotRead
      BY <3>1 DEF ClockInv, ReaderInv
    <3>4. Settled /\ since <= timer.start
      <4>1. Settled
        BY <1>1, <1>2, <2>2 DEF ClockInv, WriterInv
      <4>2. hitter # stores /\ ~ponders
        BY <4>1 DEF Settled, stores
      <4> QED BY <1>1, <4>1, <4>2 DEF ClockInv, WriterInv
    <3> QED BY <1>1, <1>3, <3>1, <3>2, <3>3, <3>4 DEF ClockInv, ReaderInv, NeverEarly, Settled
  <2> QED BY <2>1, <2>2
<1>7. CASE ReadElapsed
  <2>1. searcher.pc = "read" /\ searcher' = [searcher EXCEPT !.elapsed = now - timer.start]
    BY <1>7 DEF ReadElapsed
  <2>2. now - timer.start \in Int /\ now - timer.start <= now - since
    BY <1>2, <2>1 DEF ClockInv, ReaderInv
  <2>3. searcher' \in Searchers /\ searcher'.pc = "read" /\ searcher'.of = searcher.of
        /\ searcher'.elapsed = now - timer.start /\ searcher'.limit = searcher.limit
    BY <1>1, <2>1, <2>2 DEF Searchers
  <2> QED BY <1>1, <1>3, <2>1, <2>2, <2>3 DEF ClockInv, ReaderInv, NeverEarly, Settled
<1>8. CASE ReadLimit
  <2>1. searcher.pc = "read" /\ searcher' = [searcher EXCEPT !.limit = timer[searcher.of]]
    BY <1>8 DEF ReadLimit
  <2>2. timer[searcher.of] = goBudget[searcher.of] /\ goBudget[searcher.of] \in Int
    BY <1>2, <2>1 DEF ClockInv, ReaderInv, Settled
  <2>3. searcher' \in Searchers /\ searcher'.pc = "read" /\ searcher'.of = searcher.of
        /\ searcher'.elapsed = searcher.elapsed /\ searcher'.limit = goBudget[searcher.of]
    BY <1>1, <2>1, <2>2 DEF Searchers
  <2> QED BY <1>1, <1>3, <2>1, <2>3 DEF ClockInv, ReaderInv, NeverEarly, Settled
<1>9. CASE Compare
  <2>1. CASE ~(searcher.elapsed >= searcher.limit)
    BY <1>4, <1>9, <2>1 DEF Compare
  <2>2. CASE searcher.elapsed >= searcher.limit
    <3>1. searcher.pc = "read" /\ searcher' = [searcher EXCEPT !.pc = "stopped"]
          /\ searcher.elapsed # NotRead /\ searcher.limit # NotRead
      BY <1>9, <2>2 DEF Compare
    <3>2. searcher' \in Searchers /\ searcher'.pc = "stopped" /\ searcher'.of = searcher.of
      BY <1>1, <3>1 DEF Searchers
    <3>3. searcher.elapsed <= now - since /\ searcher.limit = goBudget[searcher.of]
      BY <3>1 DEF ClockInv, ReaderInv
    <3>4. now - since >= goBudget[searcher.of]
      BY <1>2, <2>2, <3>3
    <3> QED BY <1>1, <1>3, <3>1, <3>2, <3>4 DEF ClockInv, ReaderInv, NeverEarly, Settled
  <2> QED BY <2>1, <2>2
<1> QED BY <1>5, <1>6, <1>7, <1>8, <1>9

\* However the stores of a ponderhit fall between the reads of a test of the clock, the
\* search is never stopped before the budget of its own go has run since the go or the
\* ponderhit, and never while it ponders (TimeManager, check_time).
THEOREM NeverStoppedEarly ==
  ASSUME NoLimit \in Int, OwnBudgets \subseteq [opt : Int, max : Int]
  PROVE  ClockInit /\ [][ClockNext]_clockVs => []NeverEarly
<1>1. ClockInit => ClockInv
  BY ClockStarts
<1>2. ClockInv /\ [ClockNext]_clockVs => ClockInv'
  <2>1. ClockInv /\ ClockNext => ClockInv'
    BY ClockTicks, ClockIsSet, ClockIsHit, ClockStored, ClockIsRead DEF ClockNext
  <2>2. ClockInv /\ UNCHANGED clockVs => ClockInv'
    BY DEF clockVs, ClockInv, ClockType, WriterInv, ReaderInv, Settled, NeverEarly
  <2> QED BY <2>1, <2>2
<1>3. ClockInv => NeverEarly
  BY DEF ClockInv
<1> QED BY <1>1, <1>2, <1>3, PTL

-----------------------------------------------------------------------------
(* The move picker (WizardMovePicker).  What is left in the array when a   *)
(* pass over it ends is a rearrangement of what was generated, split where *)
(* the pointers say, so that what next_move returns is always new.         *)

\* A nonempty set of natural numbers has a least element, which is its Min.
LEMMA LeastIsMin ==
  ASSUME NEW S \in SUBSET Nat, S # {}
  PROVE  Min(S) \in S /\ \A y \in S : Min(S) <= y
<1> DEFINE Below == {0 .. k : k \in S}
           R == StrictSubsetOrdering(Nat)
<1>1. IsWellFoundedOn(R, FiniteSubsetsOf(Nat))
  BY FS_StrictSubsetOrderingWellFounded
<1>2. Below \subseteq FiniteSubsetsOf(Nat) /\ Below # {}
  <2>1. \A k \in S : 0 .. k \in SUBSET Nat /\ IsFiniteSet(0 .. k)
    BY FS_Interval
  <2> QED BY <2>1 DEF FiniteSubsetsOf
<1>3. PICK I \in Below : \A J \in Below : <<J, I>> \notin R
  <2> HIDE DEF Below, R
  <2> QED BY <1>1, <1>2, WFMin
<1>4. PICK x \in S : I = 0 .. x
  OBVIOUS
<1>5. \A y \in S : x <= y
  <2> SUFFICES ASSUME NEW y \in S, y < x PROVE FALSE
    OBVIOUS
  <2>1. 0 .. y \subseteq 0 .. x /\ 0 .. y # 0 .. x
    OBVIOUS
  <2>2. <<0 .. y, 0 .. x>> \in R
    BY <2>1 DEF StrictSubsetOrdering
  <2> QED BY <1>3, <1>4, <2>2
<1> QED BY <1>5 DEF Min

\* A set of places that holds all before each of its own is the first so many.
LEMMA FirstPlaces ==
  ASSUME NEW n \in Nat, NEW A \in SUBSET (1 .. n), \A i \in A : \A j \in 1 .. i : j \in A
  PROVE  Cardinality(A) \in 0 .. n /\ A = 1 .. Cardinality(A)
<1> DEFINE Out == {k \in Nat : k >= 1 /\ k \notin A}
<1>1. Out \in SUBSET Nat /\ n + 1 \in Out
  OBVIOUS
<1>2. PICK k \in Out : \A j \in Out : k <= j
  <2> HIDE DEF Out
  <2> QED BY <1>1, LeastIsMin
<1>3. k \in 1 .. n + 1 /\ A = 1 .. k - 1
  <2>1. k <= n + 1 /\ k >= 1 /\ k \notin A /\ k \in Nat
    BY <1>1, <1>2
  <2>2. \A j \in 1 .. k - 1 : j \in A
    BY <1>2, <2>1
  <2>3. \A i \in A : i < k
    BY <2>1
  <2>4. \A j : j \in A <=> j \in 1 .. k - 1
    <3>1. \A j \in A : j \in 1 .. k - 1
      <4>1. \A j \in A : j \in 1 .. n /\ j < k
        BY <2>3
      <4> QED BY <2>1, <4>1
    <3> QED BY <2>2, <3>1
  <2>5. k \in 1 .. n + 1
    BY <2>1
  <2> QED BY <2>4, <2>5
<1>4. Cardinality(1 .. k - 1) = k - 1
  <2>1. \A i, j \in Int : Cardinality(i .. j) = IF i > j THEN 0 ELSE j - i + 1
    BY FS_Interval
  <2>2. 1 \in Int /\ k - 1 \in Int /\ k >= 1
    BY <1>3
  <2>3. Cardinality(1 .. k - 1) = IF 1 > k - 1 THEN 0 ELSE k - 1 - 1 + 1
    BY <2>1, <2>2
  <2> QED BY <2>2, <2>3
<1> HIDE DEF Out
<1> QED BY <1>3, <1>4

\* What stands in an array, no move twice, is what is in a list.
Arranges(s, list) ==
  /\ s \in Seq(AllMoves) /\ Len(s) = Len(list)
  /\ \A i, j \in 1 .. Len(s) : s[i] = s[j] => i = j
  /\ \A m : (\E i \in 1 .. Len(s) : s[i] = m) <=> \E i \in 1 .. Len(list) : list[i] = m

\* A list of moves to be sorted, by scores that are numbers.
Sortable(list, score, limit) ==
  /\ Arranges(list, list) /\ limit \in Int /\ \A m \in AllMoves : score[m] \in Int

\* What partial_insertion_sort has done after the first k moves: the front is sorted, all of
\* the rest that it has seen is worth less than the limit, and what is behind is untouched.
SortedTo(k, x, list, score, limit) ==
  /\ x.front \in 1 .. k
  /\ Arranges(x.s, list)
  /\ \A i \in 1 .. Len(list) : i > k => x.s[i] = list[i]
  /\ \A i, j \in 1 .. x.front : i < j => score[x.s[i]] >= score[x.s[j]]
  /\ \A i \in 1 .. Len(list) : x.front < i /\ i <= k => score[x.s[i]] < limit

\* Inserting one more move.
LEMMA Inserted ==
  ASSUME NEW list, NEW score, NEW limit, Sortable(list, score, limit),
         NEW p \in 2 .. Len(list), NEW x, SortedTo(p - 1, x, list, score, limit),
         score[list[p]] >= limit
  PROVE  SortedTo(p, [front |-> x.front + 1, s |-> SortStep(x.front, p, score, x.s)],
                  list, score, limit)
<1> DEFINE n == Len(list)  s == x.s  f == x.front  m == s[p]
           A == {i \in 1 .. f : ~Better(score, s[i], m)}  k == Cardinality(A)
           r == SortStep(f, p, score, s)
<1>1. /\ s \in Seq(AllMoves) /\ Len(s) = n /\ n \in Nat /\ DOMAIN s = 1 .. n
      /\ \A i, j \in 1 .. n : s[i] = s[j] => i = j
      /\ \A v : (\E i \in 1 .. n : s[i] = v) <=> \E i \in 1 .. n : list[i] = v
      /\ f \in 1 .. p - 1 /\ m = list[p] /\ p \in 1 .. n
      /\ \A i \in 1 .. n : s[i] \in AllMoves /\ score[s[i]] \in Int
      /\ limit \in Int
  <2>1. SortedTo(p - 1, x, list, score, limit) /\ Sortable(list, score, limit) /\ p \in 2 .. Len(list)
    OBVIOUS
  <2>2. /\ x.front \in 1 .. p - 1 /\ Arranges(x.s, list)
        /\ \A i \in 1 .. Len(list) : i > p - 1 => x.s[i] = list[i]
    BY <2>1 DEF SortedTo
  <2>3. /\ s \in Seq(AllMoves) /\ Len(s) = n
        /\ \A i, j \in 1 .. n : s[i] = s[j] => i = j
        /\ \A v : (\E i \in 1 .. n : s[i] = v) <=> \E i \in 1 .. n : list[i] = v
    BY <2>2 DEF Arranges
  <2>4. limit \in Int /\ list \in Seq(AllMoves) /\ \A v \in AllMoves : score[v] \in Int
    BY <2>1 DEF Sortable, Arranges
  <2>5. n \in Nat /\ p \in 1 .. n /\ f \in 1 .. p - 1 /\ m = list[p]
    BY <2>1, <2>2, <2>4
  <2> HIDE DEF s, n
  <2>6. DOMAIN s = 1 .. n /\ \A i \in 1 .. n : s[i] \in AllMoves
    BY <2>3, <2>5
  <2> QED BY <2>3, <2>4, <2>5, <2>6
<1>2. /\ \A i, j \in 1 .. f : i < j => score[s[i]] >= score[s[j]]
      /\ \A i \in 1 .. n : f < i /\ i <= p - 1 => score[s[i]] < limit
      /\ \A i \in 1 .. n : i > p - 1 => s[i] = list[i]
  BY DEF SortedTo
<1> HIDE DEF n, s, f, m, k
<1>3. k \in 0 .. f /\ A = 1 .. k
  <2>1. \A i \in A : \A j \in 1 .. i : j \in A
    BY <1>1, <1>2 DEF Better
  <2>2. f \in Nat /\ A \in SUBSET (1 .. f)
    BY <1>1
  <2> HIDE DEF A
  <2> QED BY <2>1, <2>2, FirstPlaces DEF k
<1>4. /\ \A i \in 1 .. k : score[s[i]] >= score[m]
      /\ \A i \in 1 .. f : i > k => score[s[i]] < score[m]
  <2>1. \A i \in 1 .. f : i \in A <=> ~(score[s[i]] < score[m])
    BY DEF Better
  <2>2. \A i \in 1 .. f : i \in A <=> i <= k
    BY <1>1, <1>3
  <2>3. score[m] \in Int
    BY <1>1 DEF m
  <2> QED BY <1>1, <1>3, <2>1, <2>2, <2>3
<1> HIDE DEF A
<1> DEFINE from(i) == IF i = k + 1 THEN p
                      ELSE IF k + 1 < i /\ i <= f + 1 THEN i - 1
                      ELSE IF i = p THEN f + 1 ELSE i
<1>5. r = [i \in 1 .. n |-> s[from(i)]]
  <2>1. r = [i \in DOMAIN s |-> CASE i < 1 + k \/ i > f + 1 -> [s EXCEPT ![p] = s[f + 1]][i]
                                  [] i = 1 + k -> m
                                  [] OTHER -> s[i - 1]]
    BY DEF SortStep, k, A, m
  <2>2. ASSUME NEW i \in 1 .. n
        PROVE  (CASE i < 1 + k \/ i > f + 1 -> [s EXCEPT ![p] = s[f + 1]][i]
                  [] i = 1 + k -> m
                  [] OTHER -> s[i - 1]) = s[from(i)]
    BY <1>1, <1>3 DEF m
  <2> HIDE DEF from
  <2> QED BY <1>1, <2>1, <2>2
<1>6. /\ \A i \in 1 .. n : from(i) \in 1 .. n
      /\ \A i, j \in 1 .. n : from(i) = from(j) => i = j
      /\ \A j \in 1 .. n : \E i \in 1 .. n : from(i) = j
  <2>1. \A i \in 1 .. n : from(i) \in 1 .. n
    BY <1>1, <1>3
  <2>2. \A i, j \in 1 .. n : from(i) = from(j) => i = j
    BY <1>1, <1>3
  <2>3. ASSUME NEW j \in 1 .. n PROVE \E i \in 1 .. n : from(i) = j
    <3>1. CASE j = p
      BY <1>1, <1>3, <3>1
    <3>2. CASE j # p /\ k < j /\ j <= f
      <4>1. j + 1 \in 1 .. n /\ from(j + 1) = j
        BY <1>1, <1>3, <3>2
      <4> QED BY <4>1
    <3>3. CASE j # p /\ j = f + 1
      <4>1. from(p) = j
        BY <1>1, <1>3, <3>3
      <4> QED BY <1>1, <4>1
    <3>4. CASE j # p /\ (j <= k \/ f + 1 < j)
      <4>1. from(j) = j
        BY <1>1, <1>3, <3>4
      <4> QED BY <4>1
    <3> QED BY <1>1, <1>3, <3>1, <3>2, <3>3, <3>4
  <2> QED BY <2>1, <2>2, <2>3
<1>7. /\ r \in Seq(AllMoves) /\ Len(r) = n /\ \A i \in 1 .. n : r[i] = s[from(i)]
  <2> HIDE DEF from, r
  <2>1. r \in [1 .. n -> AllMoves]
    BY <1>1, <1>5, <1>6
  <2>2. \A S : \A a \in Nat : [1 .. a -> S] \subseteq Seq(S)
    BY SeqDef
  <2>3. r \in Seq(AllMoves)
    BY <1>1, <2>1, <2>2
  <2>4. DOMAIN r = 1 .. n
    BY <1>5
  <2>5. Len(r) = n
    BY <1>1, <2>3, <2>4
  <2> QED BY <1>5, <2>3, <2>5
<1>8. Arranges(r, list)
  <2>1. \A i, j \in 1 .. n : r[i] = r[j] => i = j
    <3> SUFFICES ASSUME NEW i \in 1 .. n, NEW j \in 1 .. n, r[i] = r[j] PROVE i = j
      OBVIOUS
    <3> DEFINE a == from(i)  b == from(j)
    <3>1. a \in 1 .. n /\ b \in 1 .. n /\ (a = b => i = j)
      BY <1>6
    <3>2. s[a] = s[b]
      BY <1>7
    <3> HIDE DEF a, b, r, from
    <3> QED BY <1>1, <3>1, <3>2
  <2>2. ASSUME NEW v PROVE (\E i \in 1 .. n : r[i] = v) <=> \E i \in 1 .. n : list[i] = v
    <3> HIDE DEF from, r
    <3>1. (\E i \in 1 .. n : r[i] = v) <=> \E i \in 1 .. n : s[i] = v
      <4>1. ASSUME NEW i \in 1 .. n PROVE \E j \in 1 .. n : s[j] = r[i]
        <5>1. from(i) \in 1 .. n /\ r[i] = s[from(i)]
          BY <1>6, <1>7
        <5> QED BY <5>1
      <4>2. ASSUME NEW j \in 1 .. n PROVE \E i \in 1 .. n : r[i] = s[j]
        <5>1. PICK i \in 1 .. n : from(i) = j
          BY <1>6
        <5> QED BY <1>7, <5>1
      <4> QED BY <4>1, <4>2
    <3> QED BY <1>1, <3>1
  <2> HIDE DEF r
  <2> QED BY <1>7, <2>1, <2>2 DEF Arranges, n
<1> DEFINE y == [front |-> f + 1, s |-> r]
<1>9. y.front = f + 1 /\ y.s = r
  OBVIOUS
<1>10. \A i \in 1 .. n : i > p => r[i] = list[i]
  <2>1. \A i \in 1 .. n : i > p => from(i) = i
    BY <1>1, <1>3
  <2> HIDE DEF from, r
  <2> QED BY <1>1, <1>2, <1>7, <2>1
<1>11. \A i, j \in 1 .. f + 1 : i < j => score[r[i]] >= score[r[j]]
  <2> SUFFICES ASSUME NEW i \in 1 .. f + 1, NEW j \in 1 .. f + 1, i < j
               PROVE  score[r[i]] >= score[r[j]]
    OBVIOUS
  <2>1. i \in 1 .. n /\ j \in 1 .. n
    BY <1>1
  <2>2. r[i] = s[from(i)] /\ r[j] = s[from(j)]
    BY <1>7, <2>1
  <2> HIDE DEF r
  <2>3. CASE i <= k /\ j <= k
    <3>1. from(i) = i /\ from(j) = j /\ i \in 1 .. f /\ j \in 1 .. f
      BY <1>1, <1>3, <2>3
    <3> QED BY <1>2, <2>2, <3>1
  <2>4. CASE i <= k /\ j = k + 1
    <3>1. from(i) = i /\ from(j) = p /\ i \in 1 .. k
      BY <1>1, <1>3, <2>4
    <3> QED BY <1>4, <2>2, <3>1 DEF m
  <2>5. CASE i <= k /\ j > k + 1
    <3>1. from(i) = i /\ from(j) = j - 1 /\ i \in 1 .. f /\ j - 1 \in 1 .. f /\ i < j - 1
      BY <1>1, <1>3, <2>5
    <3> QED BY <1>2, <2>2, <3>1
  <2>6. CASE i = k + 1
    <3>1. from(i) = p /\ from(j) = j - 1 /\ j - 1 \in 1 .. f /\ j - 1 > k /\ j - 1 \in 1 .. n
      BY <1>1, <1>3, <2>6
    <3>2. score[s[j - 1]] < score[m] /\ score[s[j - 1]] \in Int /\ score[m] \in Int
      BY <1>1, <1>4, <3>1 DEF m
    <3> QED BY <2>2, <3>1, <3>2 DEF m
  <2>7. CASE i > k + 1
    <3>1. from(i) = i - 1 /\ from(j) = j - 1 /\ i - 1 \in 1 .. f /\ j - 1 \in 1 .. f /\ i - 1 < j - 1
      BY <1>1, <1>3, <2>7
    <3> QED BY <1>2, <2>2, <3>1
  <2> QED BY <1>1, <1>3, <2>3, <2>4, <2>5, <2>6, <2>7
<1>12. \A i \in 1 .. n : f + 1 < i /\ i <= p => score[r[i]] < limit
  <2> SUFFICES ASSUME NEW i \in 1 .. n, f + 1 < i, i <= p PROVE score[r[i]] < limit
    OBVIOUS
  <2>1. r[i] = s[from(i)]
    BY <1>7
  <2> HIDE DEF r
  <2>2. from(i) \in 1 .. n /\ f < from(i) /\ from(i) <= p - 1
    BY <1>1, <1>3
  <2> HIDE DEF from
  <2> QED BY <1>2, <2>1, <2>2
<1>13. f + 1 \in 1 .. p
  BY <1>1
<1> HIDE DEF r, from
<1>14. SortedTo(p, y, list, score, limit)
  <2> HIDE DEF y
  <2> QED BY <1>8, <1>9, <1>10, <1>11, <1>12, <1>13 DEF SortedTo, n
<1> QED BY <1>14 DEF r, f, s

\* The recursion of partial_insertion_sort over the first k moves of a list.
Sorting(p, f, list, score, limit) ==
  IF p = 1 THEN [front |-> 1, s |-> list]
  ELSE IF score[list[p]] >= limit
       THEN [front |-> f[p - 1].front + 1, s |-> SortStep(f[p - 1].front, p, score, f[p - 1].s)]
       ELSE f[p - 1]
Sorts(k, f, list, score, limit) == f = [p \in 1 .. k |-> Sorting(p, f, list, score, limit)]

\* The sort is what the recursion comes to.
LEMMA SortIsRecursive ==
  ASSUME NEW list, NEW score, NEW limit, list # <<>>
  PROVE  partial_insertion_sort(list, score, limit)
           = (CHOOSE f : Sorts(Len(list), f, list, score, limit))[Len(list)].s
BY DEF partial_insertion_sort, Sorts, Sorting

\* It can be carried to any length ...
LEMMA SortGoesOn ==
  ASSUME NEW list, NEW score, NEW limit, NEW n \in Nat
  PROVE  \E f : Sorts(n, f, list, score, limit)
<1> DEFINE Stuck == {k \in Nat : ~\E f : Sorts(k, f, list, score, limit)}
<1> SUFFICES ASSUME Stuck # {} PROVE FALSE
  OBVIOUS
<1>1. Stuck \in SUBSET Nat
  OBVIOUS
<1>2. PICK k \in Stuck : \A j \in Stuck : k <= j
  <2> HIDE DEF Stuck
  <2> QED BY <1>1, LeastIsMin
<1>3. k \in Nat /\ ~\E f : Sorts(k, f, list, score, limit)
  OBVIOUS
<1>4. CASE k = 0
  <2> DEFINE f == [p \in 1 .. 0 |-> 0]
  <2>1. \A p \in 1 .. 0 : FALSE
    OBVIOUS
  <2>2. f = [p \in 1 .. 0 |-> Sorting(p, f, list, score, limit)]
    BY <2>1
  <2> HIDE DEF f
  <2>3. Sorts(k, f, list, score, limit)
    BY <1>4, <2>2 DEF Sorts
  <2> QED BY <1>3, <2>3
<1>5. CASE k # 0
  <2>1. k - 1 \in Nat /\ k - 1 \notin Stuck
    BY <1>2, <1>3, <1>5
  <2>2. PICK f : Sorts(k - 1, f, list, score, limit)
    BY <2>1
  <2> DEFINE g == [p \in 1 .. k |-> IF p = k THEN Sorting(k, f, list, score, limit) ELSE f[p]]
  <2>3. ASSUME NEW p \in 1 .. k PROVE g[p] = Sorting(p, g, list, score, limit)
    <3>1. p # 1 => p - 1 \in 1 .. k /\ p - 1 # k /\ g[p - 1] = f[p - 1]
      BY <1>3
    <3>2. Sorting(p, g, list, score, limit) = Sorting(p, f, list, score, limit)
      <4> HIDE DEF g
      <4> QED BY <3>1 DEF Sorting
    <3>3. CASE p = k
      BY <3>2, <3>3
    <3>4. CASE p # k
      <4>1. p \in 1 .. k - 1
        BY <1>3, <3>4
      <4>2. f[p] = Sorting(p, f, list, score, limit)
        BY <2>2, <4>1 DEF Sorts
      <4> QED BY <3>2, <3>4, <4>2
    <3> QED BY <3>3, <3>4
  <2>4. g = [p \in 1 .. k |-> g[p]]
    OBVIOUS
  <2> HIDE DEF g
  <2>5. Sorts(k, g, list, score, limit)
    BY <2>3, <2>4 DEF Sorts
  <2> QED BY <1>3, <2>5
<1> QED BY <1>4, <1>5

\* ... and has sorted what it has gone through.
LEMMA SortedSoFar ==
  ASSUME NEW list, NEW score, NEW limit, Sortable(list, score, limit),
         NEW f, Sorts(Len(list), f, list, score, limit)
  PROVE  \A k \in 1 .. Len(list) : SortedTo(k, f[k], list, score, limit)
<1> DEFINE n == Len(list)
           Wrong == {k \in Nat : k \in 1 .. n /\ ~SortedTo(k, f[k], list, score, limit)}
<1>1. /\ list \in Seq(AllMoves) /\ n \in Nat /\ limit \in Int /\ Arranges(list, list)
      /\ \A i \in 1 .. n : list[i] \in AllMoves
  <2>1. list \in Seq(AllMoves)
    BY DEF Sortable, Arranges
  <2> QED BY <2>1 DEF Sortable
<1> SUFFICES ASSUME Wrong # {} PROVE FALSE
  <2>1. \A k \in 1 .. n : k \in Nat
    BY <1>1
  <2> QED BY <2>1
<1>2. Wrong \in SUBSET Nat
  OBVIOUS
<1>3. PICK k \in Wrong : \A j \in Wrong : k <= j
  <2> HIDE DEF Wrong
  <2> QED BY <1>2, LeastIsMin
<1>4. k \in 1 .. n /\ k \in Nat /\ ~SortedTo(k, f[k], list, score, limit)
  OBVIOUS
<1>5. f[k] = Sorting(k, f, list, score, limit)
  BY <1>4 DEF Sorts
<1>6. CASE k = 1
  <2> DEFINE x == [front |-> 1, s |-> list]
  <2>1. x.front = 1 /\ x.s = list /\ f[k] = x
    BY <1>5, <1>6 DEF Sorting
  <2> HIDE DEF x
  <2>2. SortedTo(k, x, list, score, limit)
    BY <1>1, <1>6, <2>1 DEF SortedTo
  <2> QED BY <1>4, <2>1, <2>2
<1>7. CASE k # 1
  <2>1. k - 1 \in 1 .. n /\ k - 1 \in Nat /\ k - 1 < k /\ k \in 2 .. n
    BY <1>1, <1>4, <1>7
  <2>2. k - 1 \notin Wrong
    BY <1>3, <1>4, <2>1
  <2>3. SortedTo(k - 1, f[k - 1], list, score, limit)
    BY <2>1, <2>2
  <2>4. CASE score[list[k]] >= limit
    <3>1. f[k] = [front |-> f[k - 1].front + 1, s |-> SortStep(f[k - 1].front, k, score, f[k - 1].s)]
      BY <1>5, <1>7, <2>4 DEF Sorting
    <3>2. SortedTo(k, f[k], list, score, limit)
      BY <2>1, <2>3, <2>4, <3>1, Inserted
    <3> QED BY <1>4, <3>2
  <2>5. CASE ~(score[list[k]] >= limit)
    <3>1. f[k] = f[k - 1]
      BY <1>5, <1>7, <2>5 DEF Sorting
    <3> DEFINE x == f[k - 1]
    <3>2. SortedTo(k - 1, x, list, score, limit)
      BY <2>3
    <3> HIDE DEF x
    <3>3. score[list[k]] < limit /\ x.s[k] = list[k]
      <4>1. score[list[k]] \in Int
        BY <1>1, <1>4 DEF Sortable
      <4>2. x.s[k] = list[k]
        BY <1>4, <3>2 DEF SortedTo
      <4> QED BY <1>1, <2>5, <4>1, <4>2
    <3>4. SortedTo(k, x, list, score, limit)
      BY <1>4, <2>1, <3>2, <3>3 DEF SortedTo
    <3> QED BY <1>4, <3>1, <3>4 DEF x
  <2> QED BY <2>4, <2>5
<1> QED BY <1>6, <1>7

\* partial_insertion_sort rearranges the list, and whatever is worth the limit stands in
\* order: neither a move lost nor one there twice, for any scores and limit.
LEMMA PartialSort ==
  ASSUME NEW list, NEW score, NEW limit, Sortable(list, score, limit)
  PROVE  LET r == partial_insertion_sort(list, score, limit)
         IN  /\ Arranges(r, list)
             /\ \A i, j \in 1 .. Len(list) :
                  i < j /\ score[r[i]] >= limit /\ score[r[j]] >= limit => score[r[i]] >= score[r[j]]
<1> DEFINE n == Len(list)  r == partial_insertion_sort(list, score, limit)
<1>1. list \in Seq(AllMoves) /\ n \in Nat /\ limit \in Int /\ Arranges(list, list)
      /\ \A m \in AllMoves : score[m] \in Int
  <2>1. list \in Seq(AllMoves)
    BY DEF Sortable, Arranges
  <2> QED BY <2>1 DEF Sortable
<1>2. CASE list = <<>>
  <2>1. r = list /\ n = 0
    BY <1>2 DEF partial_insertion_sort
  <2> HIDE DEF r
  <2> QED BY <1>1, <2>1 DEF r
<1>3. CASE list # <<>>
  <2> DEFINE f == CHOOSE g : Sorts(n, g, list, score, limit)
  <2>1. r = f[n].s
    BY <1>3, SortIsRecursive
  <2>2. Sorts(n, f, list, score, limit)
    BY <1>1, SortGoesOn
  <2> HIDE DEF f, r
  <2>3. n \in 1 .. n
    BY <1>1, <1>3
  <2> DEFINE x == f[n]
  <2>4. SortedTo(n, x, list, score, limit)
    BY <2>2, <2>3, SortedSoFar
  <2>5. r = x.s
    BY <2>1
  <2> HIDE DEF x
  <2>6. Arranges(r, list)
    BY <2>4, <2>5 DEF SortedTo
  <2>7. \A i \in 1 .. n : r[i] \in AllMoves /\ score[r[i]] \in Int
    <3>1. r \in Seq(AllMoves) /\ Len(r) = n
      BY <2>6 DEF Arranges
    <3>2. \A i \in 1 .. n : r[i] \in AllMoves
      BY <1>1, <3>1
    <3> QED BY <1>1, <3>2
  <2>8. ASSUME NEW i \in 1 .. n, NEW j \in 1 .. n, i < j, score[r[i]] >= limit, score[r[j]] >= limit
        PROVE  score[r[i]] >= score[r[j]]
    <3>1. /\ x.front \in 1 .. n
          /\ \A a, b \in 1 .. x.front : a < b => score[r[a]] >= score[r[b]]
          /\ \A a \in 1 .. n : x.front < a /\ a <= n => score[r[a]] < limit
      BY <2>4, <2>5 DEF SortedTo
    <3>2. i <= x.front /\ j <= x.front
      BY <1>1, <2>7, <2>8, <3>1
    <3>3. i \in 1 .. x.front /\ j \in 1 .. x.front
      BY <1>1, <3>1, <3>2
    <3> QED BY <2>8, <3>1, <3>3
  <2> QED BY <2>6, <2>8 DEF r
<1> QED BY <1>2, <1>3

\* A picker, in a call or between two.
Fields == {"moves", "cur", "endCur", "endBadCaptures", "endCaptures", "endGenerated", "stage", "skipQuiets"}
IsPicker(p) == p = [f \in Fields \cup {"out"} |-> p[f]]

\* What a pointer has gone over.
Between(p, a, b) == {p.moves[i] : i \in a .. b - 1}

\* The table's move, if the picker is to begin with it.
First == IF TtCounts(node.kind, node.tt) THEN {node.tt} ELSE {}

\* In the array's front stand, best first, the captures that see_ge has rejected.
Captured(p) ==
  /\ p.endBadCaptures \in 1 .. Len(Captures) + 1 /\ p.endCaptures = Len(Captures) + 1
  /\ \A i, j \in 1 .. p.endBadCaptures - 1 :
       /\ p.moves[i] = p.moves[j] => i = j
       /\ i < j => node.score[p.moves[i]] >= node.score[p.moves[j]]
  /\ \A m : m \in Between(p, 1, p.endBadCaptures)
               <=> m \in ToSet(Captures) /\ m \notin node.good /\ m # node.tt

\* Behind all captures stand the quiet moves, sorted as far as they are worth it.
AllGenerated == Len(Captures) + Len(Quiets) + 1
QuietsIn(p) ==
  /\ p.endGenerated = AllGenerated
  /\ \A i, j \in Len(Captures) + 1 .. AllGenerated - 1 :
       /\ p.moves[i] = p.moves[j] => i = j
       /\ i < j /\ node.score[p.moves[i]] >= -3560 * node.depth
                /\ node.score[p.moves[j]] >= -3560 * node.depth
            => node.score[p.moves[i]] >= node.score[p.moves[j]]
  /\ \A m : m \in Between(p, Len(Captures) + 1, AllGenerated) <=> m \in ToSet(Quiets)

\* Before anything is generated.
Begins(p, E) ==
  /\ p.stage \in {1, 2} /\ p.moves = <<>> /\ p.cur = 1
  /\ E = IF p.stage = 1 THEN {} ELSE First
  /\ p.stage = 1 => First # {}

\* In the pass over the good captures: the bad ones are in front, up to e, behind them the
\* good ones returned, and from b on everything as it was sorted.
SetAside(s, e, b, E) ==
  /\ Arranges(s, Captures)
  /\ b \in 1 .. Len(Captures) + 1 /\ e \in 1 .. b
  /\ \A i \in 1 .. e - 1 : s[i] \notin node.good /\ s[i] # node.tt
  /\ \A i \in e .. b - 1 : s[i] \in node.good \/ s[i] = node.tt
  /\ \A i, j \in 1 .. Len(Captures) : i < j /\ (j < e \/ b <= j) => node.score[s[i]] >= node.score[s[j]]
  /\ \A m : m \in E <=> m \in First \/ \E i \in e .. b - 1 : s[i] = m
InGoodCaptures(p, E) ==
  /\ p.stage = 3 /\ p.endCur = Len(Captures) + 1 /\ p.endCaptures = Len(Captures) + 1
  /\ SetAside(p.moves, p.endBadCaptures, p.cur, E)

\* All good captures returned.
BeforeQuiets(p, E) ==
  /\ p.stage = 4 /\ Captured(p)
  /\ p.moves \in Seq(AllMoves) /\ Len(p.moves) = Len(Captures) /\ p.cur = Len(Captures) + 1
  /\ \A m : m \in E <=> m \in First \/ m \in node.good

\* In the pass over the good quiets, unless they are to be skipped.
InGoodQuiets(p, E) ==
  /\ p.stage = 5 /\ Captured(p)
  /\ \A m \in First \cup node.good : m \in E
  /\ \A m \in E : m \in First \/ m \in node.good \/ (m \in ToSet(Quiets) /\ m \in GoodQuiets)
  /\ p.skipQuiets \/ /\ QuietsIn(p) /\ p.endCur = AllGenerated
                     /\ p.cur \in Len(Captures) + 1 .. AllGenerated
                     /\ \A m : m \in E <=> \/ m \in First \/ m \in node.good
                                           \/ m \in Between(p, Len(Captures) + 1, p.cur) /\ m \in GoodQuiets

\* In the pass over the bad captures.
InBadCaptures(p, E) ==
  /\ p.stage = 6 /\ Captured(p)
  /\ p.cur \in 1 .. p.endBadCaptures /\ p.endCur = p.endBadCaptures
  /\ \A m : m \in First \/ m \in node.good \/ m \in Between(p, 1, p.cur) => m \in E
  /\ \A m \in E : \/ m \in First \/ m \in node.good \/ m \in Between(p, 1, p.cur)
                  \/ m \in ToSet(Quiets) /\ m \in GoodQuiets
  /\ p.skipQuiets \/ (QuietsIn(p) /\ \A m \in ToSet(Quiets) : m \in GoodQuiets => m \in E)

\* In the pass over the bad quiets, unless they are to be skipped.
InBadQuiets(p, E) ==
  /\ p.stage = 7
  /\ \A m : m \in First \/ m \in ToSet(Captures) => m \in E
  /\ \A m \in E : m \in First \/ m \in ToSet(Captures) \/ m \in ToSet(Quiets)
  /\ p.skipQuiets \/ /\ QuietsIn(p) /\ p.endCur = AllGenerated
                     /\ p.cur \in Len(Captures) + 1 .. AllGenerated
                     /\ \A m : m \in E <=> \/ m \in First \/ m \in ToSet(Captures)
                                           \/ m \in ToSet(Quiets) /\ m \in GoodQuiets
                                           \/ m \in Between(p, Len(Captures) + 1, p.cur) /\ m \in BadQuiets

\* The other pickers go over one list once.
TheList == IF node.kind = "evasion" THEN Captures \o Quiets ELSE Captures
TheOnes == IF node.kind = "probcut" THEN GoodCaptures ELSE AllMoves
InThePass(p, E) ==
  /\ p.stage = 3 /\ Arranges(p.moves, TheList)
  /\ p.endCur = Len(TheList) + 1 /\ p.cur \in 1 .. Len(TheList) + 1
  /\ \A m : m \in E <=> m \in First \/ (m \in Between(p, 1, p.cur) /\ m \in TheOnes)

\* Where a call may begin, having returned E.
Ready(p, E) ==
  /\ p.skipQuiets \in BOOLEAN
  /\ \/ Begins(p, E)
     \/ node.kind = "main" /\ (InGoodCaptures(p, E) \/ InGoodQuiets(p, E) \/ InBadCaptures(p, E) \/ InBadQuiets(p, E))
     \/ node.kind # "main" /\ InThePass(p, E)

\* Nothing is left to return.
AllReturned(p, E) ==
  /\ \A m \in First : m \in E
  /\ node.kind = "probcut" => \A m \in node.good : m \in E
  /\ node.kind \in {"qsearch", "main"} => \A m \in ToSet(Captures) : m \in E
  /\ node.kind = "evasion" \/ (node.kind = "main" /\ ~p.skipQuiets) => \A m \in AllMoves : m \in E

\* Of what class a move is, and whether one may come before another.
Class(m) == IF m \in GoodCaptures THEN 1 ELSE IF IsCapture(m) THEN 3 ELSE IF m \in GoodQuiets THEN 2 ELSE 4
InOrder(m) == IsCapture(m) \/ node.score[m] >= -3560 * node.depth
Precedes(a, b) ==
  /\ Class(a) <= Class(b)
  /\ Class(a) = Class(b) /\ InOrder(a) /\ InOrder(b) => node.score[a] >= node.score[b]

\* A call that returns m, or NoMove when nothing is left.
Returns(q, E) ==
  /\ IsPicker(q) /\ q.skipQuiets \in BOOLEAN
  /\ \/ /\ q.out \in AllMoves /\ q.out \notin E /\ Ready(q, E \cup {q.out})
        /\ E = {} /\ First # {} => q.out = node.tt
        /\ node.kind = "main" => \A m \in E : m \in First \/ Precedes(m, q.out)
        /\ \/ q.out \in First
           \/ /\ node.kind = "probcut" => q.out \in node.good
              /\ node.kind = "qsearch" => q.out \in ToSet(Captures)
     \/ q.out = NoMove /\ AllReturned(q, E)

\* A call that has not returned yet: it goes on at the next stage.
GoesOn(q, E, stage) ==
  /\ IsPicker(q) /\ q.out = "pending" /\ q.skipQuiets \in BOOLEAN /\ q.stage = stage
  /\ Ready(q, E) \/ (node.kind = "main" /\ BeforeQuiets(q, E))

\* What is known of a node.
LEMMA NodeFacts ==
  ASSUME Generated, node \in Nodes
  PROVE  /\ node.kind \in {"main", "evasion", "probcut", "qsearch"}
         /\ node.tt \in AllMoves \cup {NoMove} /\ node.depth \in Int
         /\ node.good \subseteq ToSet(Captures)
         /\ \A m \in AllMoves : node.score[m] \in Int
         /\ \A m \in ToSet(Captures) : node.score[m] >= Lowest
         /\ ToSet(Captures) \subseteq AllMoves /\ ToSet(Quiets) \subseteq AllMoves
         /\ \A m \in AllMoves : m \in ToSet(Captures) \/ m \in ToSet(Quiets)
         /\ First \subseteq AllMoves
<1>1. /\ node.kind \in {"main", "evasion", "probcut", "qsearch"}
      /\ node.tt \in AllMoves \cup {NoMove} /\ node.depth \in Depths
      /\ node.good \in SUBSET ToSet(Captures)
      /\ node.score \in {f \in [AllMoves -> CaptureScores \cup QuietScores] :
                     \A m \in AllMoves : f[m] \in IF IsCapture(m) THEN CaptureScores ELSE QuietScores}
  BY DEF Nodes
<1>2. \A m \in AllMoves : node.score[m] \in CaptureScores \cup QuietScores
  BY <1>1
<1>3. \A m \in ToSet(Captures) : node.score[m] \in CaptureScores
  BY <1>1 DEF IsCapture, AllMoves
<1>4. First \subseteq AllMoves
  BY <1>1 DEF First, TtCounts
<1> QED BY <1>1, <1>2, <1>3, <1>4 DEF Generated, AllMoves

\* The lists that are sorted.
LEMMA ListsFacts ==
  ASSUME Generated, node \in Nodes, NEW limit \in Int
  PROVE  /\ Sortable(Captures, node.score, limit) /\ Sortable(Quiets, node.score, limit)
         /\ Sortable(Captures \o Quiets, node.score, limit)
         /\ \A m : m \in ToSet(Captures) <=> \E i \in 1 .. Len(Captures) : Captures[i] = m
         /\ \A m : m \in ToSet(Quiets) <=> \E i \in 1 .. Len(Quiets) : Quiets[i] = m
         /\ \A m : (\E i \in 1 .. Len(Captures \o Quiets) : (Captures \o Quiets)[i] = m) <=> m \in AllMoves
         /\ Len(Captures) \in Nat /\ Len(Quiets) \in Nat
<1> DEFINE c == Len(Captures)  q == Len(Quiets)  both == Captures \o Quiets
<1>1. /\ Captures \in Seq(AllMoves) /\ Quiets \in Seq(AllMoves) /\ c \in Nat /\ q \in Nat
      /\ DOMAIN Captures = 1 .. c /\ DOMAIN Quiets = 1 .. q
  <2>1. Captures \in Seq(AllMoves) /\ Quiets \in Seq(AllMoves)
    BY DEF Generated
  <2> QED BY <2>1
<1>2. /\ \A m : m \in ToSet(Captures) <=> \E i \in 1 .. c : Captures[i] = m
      /\ \A m : m \in ToSet(Quiets) <=> \E i \in 1 .. q : Quiets[i] = m
  BY <1>1 DEF ToSet
<1>3. /\ \A i, j \in 1 .. c : Captures[i] = Captures[j] => i = j
      /\ \A i, j \in 1 .. q : Quiets[i] = Quiets[j] => i = j
  BY <1>1 DEF Generated, IsInjective
<1>4. /\ both \in Seq(AllMoves) /\ Len(both) = c + q
      /\ \A i \in 1 .. c + q : both[i] = IF i <= c THEN Captures[i] ELSE Quiets[i - c]
  BY <1>1
<1>5. \A i \in 1 .. c, j \in 1 .. q : Captures[i] # Quiets[j]
  BY <1>2 DEF Generated
<1> HIDE DEF c, q, both
<1>6. \A i, j \in 1 .. c + q : both[i] = both[j] => i = j
  <2> SUFFICES ASSUME NEW i \in 1 .. c + q, NEW j \in 1 .. c + q, both[i] = both[j] PROVE i = j
    OBVIOUS
  <2>1. CASE i <= c /\ j <= c
    BY <1>1, <1>3, <1>4, <2>1
  <2>2. CASE i > c /\ j > c
    <3>1. i - c \in 1 .. q /\ j - c \in 1 .. q /\ Quiets[i - c] = Quiets[j - c]
      BY <1>1, <1>4, <2>2
    <3>2. i - c = j - c
      BY <1>3, <3>1
    <3> QED BY <1>1, <3>2
  <2>3. CASE i <= c /\ j > c
    <3>1. i \in 1 .. c /\ j - c \in 1 .. q /\ Captures[i] = Quiets[j - c]
      BY <1>1, <1>4, <2>3
    <3> QED BY <1>5, <3>1
  <2>4. CASE i > c /\ j <= c
    <3>1. j \in 1 .. c /\ i - c \in 1 .. q /\ Captures[j] = Quiets[i - c]
      BY <1>1, <1>4, <2>4
    <3> QED BY <1>5, <3>1
  <2> QED BY <1>1, <2>1, <2>2, <2>3, <2>4
<1>7. \A m : (\E i \in 1 .. c + q : both[i] = m) <=> m \in AllMoves
  <2>1. ASSUME NEW i \in 1 .. c + q PROVE both[i] \in AllMoves
    BY <1>4
  <2>2. ASSUME NEW i \in 1 .. c PROVE \E j \in 1 .. c + q : both[j] = Captures[i]
    <3>1. i \in 1 .. c + q /\ both[i] = Captures[i]
      BY <1>1, <1>4
    <3> QED BY <3>1
  <2>3. ASSUME NEW i \in 1 .. q PROVE \E j \in 1 .. c + q : both[j] = Quiets[i]
    <3>1. i + c \in 1 .. c + q /\ ~(i + c <= c) /\ (i + c) - c = i
      BY <1>1
    <3>2. both[i + c] = Quiets[i]
      BY <1>4, <3>1
    <3> QED BY <3>1, <3>2
  <2> QED BY <1>2, <2>1, <2>2, <2>3 DEF AllMoves
<1>8. \A m \in AllMoves : node.score[m] \in Int
  BY NodeFacts
<1>9. Arranges(Captures, Captures) /\ Arranges(Quiets, Quiets) /\ Arranges(both, both)
  BY <1>1, <1>3, <1>4, <1>6 DEF Arranges, c, q
<1> QED BY <1>1, <1>2, <1>4, <1>7, <1>8, <1>9 DEF Sortable, c, q, both

\* Returning the move behind the pointer.
MovesTo(p, v, w) == [p EXCEPT !.cur = v, !.out = w]

\* Moving the pointer.
PointsTo(p, v) == [p EXCEPT !.cur = v]

\* A pass goes to the next move that passes and is not the table's, or to its end.
LEMMA Selects ==
  ASSUME NEW p, NEW passing, p.cur \in Nat, p.endCur \in Nat, p.cur <= p.endCur
  PROVE  \/ \E i \in p.cur .. p.endCur - 1 :
              /\ p.moves[i] \in passing /\ p.moves[i] # node.tt /\ Found(p, passing) = i
              /\ \A j \in p.cur .. i - 1 : p.moves[j] \notin passing \/ p.moves[j] = node.tt
              /\ select(p, passing) = MovesTo(p, i + 1, p.moves[i])
         \/ /\ \A j \in p.cur .. p.endCur - 1 : p.moves[j] \notin passing \/ p.moves[j] = node.tt
            /\ select(p, passing) = PointsTo(Advance(p), p.endCur) /\ Found(p, passing) = p.endCur
<1> DEFINE S == {i \in p.cur .. p.endCur - 1 : p.moves[i] \in passing \ {node.tt}}  R == S \cup {p.endCur}
<1>1. R \in SUBSET Nat /\ R # {}
  OBVIOUS
<1> HIDE DEF R
<1>2. Min(R) \in R /\ \A y \in R : Min(R) <= y
  BY <1>1, LeastIsMin
<1>3. Found(p, passing) = Min(R)
  BY DEF Found, R
<1> DEFINE i == Min(R)
<1>4. i \in Nat /\ i \in R /\ \A y \in R : i <= y
  BY <1>1, <1>2
<1> HIDE DEF i
<1>5. CASE i = p.endCur
  <2>1. \A j \in p.cur .. p.endCur - 1 : j \notin R
    BY <1>4, <1>5
  <2>2. \A j \in p.cur .. p.endCur - 1 : p.moves[j] \notin passing \/ p.moves[j] = node.tt
    BY <2>1 DEF R
  <2>3. select(p, passing) = PointsTo(Advance(p), p.endCur)
    BY <1>3, <1>5 DEF select, i, MovesTo, PointsTo
  <2> QED BY <1>3, <1>5, <2>2, <2>3 DEF i
<1>6. CASE i # p.endCur
  <2>1. i \in p.cur .. p.endCur - 1 /\ p.moves[i] \in passing /\ p.moves[i] # node.tt
    BY <1>4, <1>6 DEF R
  <2>2. \A j \in p.cur .. i - 1 : j \notin R
    BY <1>4, <2>1
  <2>3. \A j \in p.cur .. i - 1 : p.moves[j] \notin passing \/ p.moves[j] = node.tt
    BY <2>1, <2>2 DEF R
  <2>4. select(p, passing) = MovesTo(p, i + 1, p.moves[i])
    BY <1>3, <1>6 DEF select, i, MovesTo, PointsTo
  <2> QED BY <1>3, <2>1, <2>3, <2>4 DEF i
<1> QED BY <1>5, <1>6

\* What an array that arranges the captures holds.
LEMMA ArrangedFacts ==
  ASSUME NEW s, NEW list, Arranges(s, list), list \in Seq(AllMoves)
  PROVE  /\ s \in Seq(AllMoves) /\ Len(s) = Len(list) /\ DOMAIN s = 1 .. Len(list) /\ Len(list) \in Nat
         /\ \A i \in 1 .. Len(list) : s[i] \in AllMoves
         /\ \A i, j \in 1 .. Len(list) : s[i] = s[j] => i = j
         /\ \A m : (\E i \in 1 .. Len(list) : s[i] = m) <=> \E i \in 1 .. Len(list) : list[i] = m
<1>1. /\ s \in Seq(AllMoves) /\ Len(s) = Len(list)
      /\ \A i, j \in 1 .. Len(s) : s[i] = s[j] => i = j
      /\ \A m : (\E i \in 1 .. Len(s) : s[i] = m) <=> \E i \in 1 .. Len(list) : list[i] = m
  BY DEF Arranges
<1>2. DOMAIN s = 1 .. Len(list) /\ Len(list) \in Nat /\ \A i \in 1 .. Len(list) : s[i] \in AllMoves
  BY <1>1
<1> QED BY <1>1, <1>2

\* A bad capture changes places with the first behind those set aside.
Swapped(s, e, b) == [s EXCEPT ![e] = s[b], ![b] = s[e]]

\* Setting one more bad capture aside keeps both parts in order.
LEMMA OneSetAside ==
  ASSUME Generated, node \in Nodes, NEW s, NEW e, NEW b, NEW E, SetAside(s, e, b, E),
         b \in 1 .. Len(Captures), s[b] \notin node.good, s[b] # node.tt
  PROVE  SetAside(Swapped(s, e, b), e + 1, b + 1, E)
<1> DEFINE c == Len(Captures)  r == Swapped(s, e, b)
<1>101. r = [s EXCEPT ![e] = s[b], ![b] = s[e]]
  BY DEF Swapped
<1> HIDE DEF r
<1>1. /\ s \in Seq(AllMoves) /\ Len(s) = c /\ DOMAIN s = 1 .. c /\ c \in Nat
      /\ \A i \in 1 .. c : s[i] \in AllMoves
      /\ \A i, j \in 1 .. c : s[i] = s[j] => i = j
      /\ \A m : (\E i \in 1 .. c : s[i] = m) <=> \E i \in 1 .. c : Captures[i] = m
  BY ArrangedFacts DEF SetAside, Generated
<1>2. /\ b \in 1 .. c /\ e \in 1 .. b /\ e \in 1 .. c
      /\ \A i \in 1 .. e - 1 : s[i] \notin node.good /\ s[i] # node.tt
      /\ \A i \in e .. b - 1 : s[i] \in node.good \/ s[i] = node.tt
      /\ \A i, j \in 1 .. c : i < j /\ (j < e \/ b <= j) => node.score[s[i]] >= node.score[s[j]]
      /\ \A m : m \in E <=> m \in First \/ \E i \in e .. b - 1 : s[i] = m
  BY <1>1 DEF SetAside
<1>100. b \in Nat /\ e \in Nat /\ c \in Nat /\ 1 <= e /\ e <= b /\ b <= c
  BY <1>1, <1>2
<1> HIDE DEF c
<1> DEFINE g(i) == IF i = b THEN e ELSE IF i = e THEN b ELSE i
<1>3. DOMAIN r = 1 .. c /\ \A i \in 1 .. c : r[i] = s[g(i)] /\ g(i) \in 1 .. c
  BY <1>1, <1>2, <1>101
<1>4. \A i, j \in 1 .. c : (g(i) = g(j) => i = j) /\ g(g(i)) = i
  BY <1>2
<1>5. \A i, j \in 1 .. c : r[i] = r[j] => i = j
  <2> SUFFICES ASSUME NEW i \in 1 .. c, NEW j \in 1 .. c, r[i] = r[j] PROVE i = j
    OBVIOUS
  <2> DEFINE x == g(i)  y == g(j)
  <2>1. s[x] = s[y] /\ x \in 1 .. c /\ y \in 1 .. c /\ (x = y => i = j)
    BY <1>3, <1>4
  <2> HIDE DEF x, y, g
  <2> QED BY <1>1, <2>1
<1>6. \A m : (\E i \in 1 .. c : r[i] = m) <=> \E i \in 1 .. c : s[i] = m
  <2>1. ASSUME NEW i \in 1 .. c PROVE \E j \in 1 .. c : s[j] = r[i]
    BY <1>3
  <2>2. ASSUME NEW i \in 1 .. c PROVE \E j \in 1 .. c : r[j] = s[i]
    <3>1. g(i) \in 1 .. c /\ g(g(i)) = i
      BY <1>3, <1>4
    <3> DEFINE x == g(i)
    <3>2. x \in 1 .. c /\ r[x] = s[i]
      BY <1>3, <3>1
    <3> QED BY <3>2
  <2> QED BY <2>1, <2>2
<1>7. r \in Seq(AllMoves) /\ Len(r) = c
  <2>1. r \in [1 .. c -> AllMoves]
    <3>1. \A i \in 1 .. c : r[i] \in AllMoves
      BY <1>1, <1>3
    <3>2. r = [i \in 1 .. c |-> r[i]]
      BY <1>1, <1>101
    <3> QED BY <3>1, <3>2
  <2>2. \A S : \A a \in Nat : [1 .. a -> S] \subseteq Seq(S)
    BY SeqDef
  <2>3. r \in Seq(AllMoves)
    BY <1>1, <2>1, <2>2
  <2> QED BY <1>1, <1>3, <2>3
<1>8. Arranges(r, Captures)
  BY <1>1, <1>5, <1>6, <1>7 DEF Arranges, c
<1>9. b + 1 \in 1 .. c + 1 /\ e + 1 \in 1 .. b + 1
  BY <1>1, <1>2
<1>10. \A i \in 1 .. (e + 1) - 1 : r[i] \notin node.good /\ r[i] # node.tt
  <2> SUFFICES ASSUME NEW i \in 1 .. (e + 1) - 1 PROVE r[i] \notin node.good /\ r[i] # node.tt
    OBVIOUS
  <2>1. i \in 1 .. c /\ g(e) = b
    BY <1>100
  <2>2. r[i] = s[g(i)]
    BY <1>3, <2>1
  <2>3. CASE i = e
    <3>1. r[i] = s[b]
      BY <2>1, <2>2, <2>3
    <3> QED BY <3>1
  <2>4. CASE i # e
    <3>1. g(i) = i /\ i \in 1 .. e - 1
      BY <1>100, <2>4
    <3> HIDE DEF g
    <3> QED BY <1>2, <2>2, <3>1
  <2> QED BY <2>3, <2>4
<1>11. \A i \in e + 1 .. (b + 1) - 1 : r[i] \in node.good \/ r[i] = node.tt
  <2> SUFFICES ASSUME NEW i \in e + 1 .. (b + 1) - 1 PROVE r[i] \in node.good \/ r[i] = node.tt
    OBVIOUS
  <2>1. i \in 1 .. c /\ g(i) \in e .. b - 1
    BY <1>100
  <2>2. r[i] = s[g(i)]
    BY <1>3, <2>1
  <2> HIDE DEF g
  <2> QED BY <1>2, <2>1, <2>2
<1>12. \A i, j \in 1 .. c : i < j /\ (j < e + 1 \/ b + 1 <= j) => node.score[r[i]] >= node.score[r[j]]
  <2> SUFFICES ASSUME NEW i \in 1 .. c, NEW j \in 1 .. c, i < j, j < e + 1 \/ b + 1 <= j
               PROVE  node.score[r[i]] >= node.score[r[j]]
    OBVIOUS
  <2> DEFINE x == g(i)  y == g(j)
  <2>1. r[i] = s[x] /\ r[j] = s[y] /\ x \in 1 .. c /\ y \in 1 .. c
    BY <1>3
  <2>2. x < y /\ (y < e \/ b <= y)
    BY <1>2
  <2> HIDE DEF x, y, g
  <2> QED BY <1>2, <2>1, <2>2
<1>13. \A m : (\E i \in e + 1 .. (b + 1) - 1 : r[i] = m) <=> \E i \in e .. b - 1 : s[i] = m
  <2>1. ASSUME NEW i \in e + 1 .. (b + 1) - 1 PROVE \E j \in e .. b - 1 : s[j] = r[i]
    <3>1. g(i) \in e .. b - 1 /\ i \in 1 .. c
      BY <1>100
    <3>2. r[i] = s[g(i)]
      BY <1>3, <3>1
    <3> HIDE DEF g
    <3> QED BY <3>1, <3>2
  <2>2. ASSUME NEW i \in e .. b - 1 PROVE \E j \in e + 1 .. (b + 1) - 1 : r[j] = s[i]
    <3> DEFINE x == IF i = e THEN b ELSE i
    <3>1. x \in e + 1 .. (b + 1) - 1 /\ x \in 1 .. c /\ g(x) = i
      BY <1>100
    <3>2. r[x] = s[g(x)]
      BY <1>3, <3>1
    <3> HIDE DEF g, x
    <3> QED BY <3>1, <3>2
  <2> QED BY <2>1, <2>2
<1> HIDE DEF g
<1>15. \A m : m \in E <=> m \in First \/ \E i \in e + 1 .. (b + 1) - 1 : r[i] = m
  BY <1>2, <1>13
<1> QED BY <1>8, <1>9, <1>10, <1>11, <1>12, <1>15 DEF SetAside, c, r

\* Going over the table's move, or over a good capture that is returned.
LEMMA OnePassed ==
  ASSUME Generated, node \in Nodes, NEW s, NEW e, NEW b, NEW E, SetAside(s, e, b, E),
         b \in 1 .. Len(Captures)
  PROVE  /\ s[b] = node.tt => SetAside(s, e, b + 1, E)
         /\ s[b] \in node.good /\ s[b] # node.tt
              => s[b] \notin E /\ SetAside(s, e, b + 1, E \cup {s[b]})
<1> DEFINE c == Len(Captures)
<1>1. /\ DOMAIN s = 1 .. c /\ c \in Nat /\ Arranges(s, Captures)
      /\ \A i \in 1 .. c : s[i] \in AllMoves
      /\ \A i, j \in 1 .. c : s[i] = s[j] => i = j
  BY ArrangedFacts DEF SetAside, Generated
<1>2. /\ b \in 1 .. c /\ e \in 1 .. b /\ e \in 1 .. c
      /\ \A i \in 1 .. e - 1 : s[i] \notin node.good /\ s[i] # node.tt
      /\ \A i \in e .. b - 1 : s[i] \in node.good \/ s[i] = node.tt
      /\ \A i, j \in 1 .. c : i < j /\ (j < e \/ b <= j) => node.score[s[i]] >= node.score[s[j]]
      /\ \A m : m \in E <=> m \in First \/ \E i \in e .. b - 1 : s[i] = m
  BY <1>1 DEF SetAside
<1>3. s[b] \in ToSet(Captures)
  <2>1. 0 \in Int
    OBVIOUS
  <2>2. \A m : m \in ToSet(Captures) <=> \E i \in 1 .. c : Captures[i] = m
    BY <2>1, ListsFacts
  <2>3. \A m : (\E i \in 1 .. c : s[i] = m) <=> \E i \in 1 .. c : Captures[i] = m
    BY ArrangedFacts DEF SetAside, Generated
  <2> HIDE DEF c
  <2> QED BY <1>2, <2>2, <2>3
<1> HIDE DEF c
<1>4. s[b] = node.tt => s[b] \in First
  <2>1. NoMove \notin AllMoves
    BY DEF Generated
  <2> QED BY <1>1, <1>2, <1>3, <2>1 DEF First, TtCounts, IsCapture
<1>5. \A i \in e .. (b + 1) - 1 : i \in e .. b - 1 \/ i = b
  BY <1>2
<1>6. b \in e .. (b + 1) - 1 /\ \A i \in e .. b - 1 : i \in e .. (b + 1) - 1
  BY <1>2
<1>7. b + 1 \in 1 .. c + 1 /\ e \in 1 .. b + 1
  BY <1>1, <1>2
<1>8. \A i, j \in 1 .. c : i < j /\ (j < e \/ b + 1 <= j) => node.score[s[i]] >= node.score[s[j]]
  <2>1. b \in Nat /\ \A j \in 1 .. c : b + 1 <= j => b <= j
    BY <1>1, <1>2
  <2> QED BY <1>2, <2>1
<1>9. ASSUME s[b] = node.tt PROVE SetAside(s, e, b + 1, E)
  <2>1. \A m : m \in E <=> m \in First \/ \E i \in e .. (b + 1) - 1 : s[i] = m
    BY <1>2, <1>4, <1>5, <1>6, <1>9
  <2>2. \A i \in e .. (b + 1) - 1 : s[i] \in node.good \/ s[i] = node.tt
    BY <1>2, <1>5, <1>9
  <2> QED BY <1>1, <1>2, <1>7, <1>8, <2>1, <2>2 DEF SetAside, c
<1>100. b \in Nat /\ e \in Nat /\ c \in Nat /\ 1 <= e /\ e <= b /\ b <= c
  BY <1>1, <1>2
<1>10. ASSUME s[b] \in node.good, s[b] # node.tt
       PROVE  s[b] \notin E /\ SetAside(s, e, b + 1, E \cup {s[b]})
  <2>1. s[b] \notin First
    BY <1>10 DEF First
  <2>2. \A i \in e .. b - 1 : i \in 1 .. c /\ i # b
    BY <1>100
  <2>3. s[b] \notin E
    BY <1>1, <1>2, <2>1, <2>2
  <2>4. \A m : m \in E \cup {s[b]} <=> m \in First \/ \E i \in e .. (b + 1) - 1 : s[i] = m
    BY <1>2, <1>5, <1>6
  <2>5. \A i \in e .. (b + 1) - 1 : s[i] \in node.good \/ s[i] = node.tt
    BY <1>2, <1>5, <1>10
  <2> QED BY <1>1, <1>2, <1>7, <1>8, <2>3, <2>4, <2>5 DEF SetAside, c
<1> QED BY <1>9, <1>10

\* The table's move is returned first, unless probcut does not take it.
LEMMA FirstFacts ==
  ASSUME Generated, node \in Nodes
  PROVE  /\ First \subseteq AllMoves /\ \A m \in First : m = node.tt /\ First = {node.tt}
         /\ \A m \in AllMoves : m = node.tt /\ (node.kind = "probcut" => m \in ToSet(Captures)) => m \in First
BY NodeFacts DEF First, TtCounts, IsCapture, Generated

\* The recursion of GOOD_CAPTURE's filter over the captures it rejects.
Setting(i, f, p) ==
  IF i < p.cur THEN p ELSE IF f[i - 1].moves[i] = node.tt THEN f[i - 1] ELSE set_aside(f[i - 1], i)
SetsAside(a, b, f, p) == f = [i \in a .. b |-> Setting(i, f, p)]

\* The pass is what the recursion comes to.
LEMMA FilterIsRecursive ==
  ASSUME NEW p
  PROVE  LET stop == Found(p, GoodCaptures)
             f == CHOOSE g : SetsAside(p.cur - 1, stop - 1, g, p)
         IN  GoodCapture(p) = select([f[stop - 1] EXCEPT !.cur = stop], GoodCaptures)
BY DEF GoodCapture, SetsAside, Setting

\* It can be carried to any place.
LEMMA FilterGoesOn ==
  ASSUME NEW p, p.cur \in Nat, NEW n \in Nat
  PROVE  \E f : SetsAside(p.cur - 1, p.cur - 1 + n, f, p)
<1> DEFINE a == p.cur - 1
           Stuck == {k \in Nat : ~\E f : SetsAside(a, a + k, f, p)}
<1> SUFFICES ASSUME Stuck # {} PROVE FALSE
  OBVIOUS
<1>1. Stuck \in SUBSET Nat
  OBVIOUS
<1>2. PICK k \in Stuck : \A j \in Stuck : k <= j
  <2> HIDE DEF Stuck
  <2> QED BY <1>1, LeastIsMin
<1>3. k \in Nat /\ a \in Int /\ a < p.cur /\ ~\E f : SetsAside(a, a + k, f, p)
  OBVIOUS
<1>4. CASE k = 0
  <2> DEFINE f == [i \in a .. a + k |-> p]
  <2>1. \A i \in a .. a + k : i < p.cur
    BY <1>3, <1>4
  <2>2. \A i \in a .. a + k : Setting(i, f, p) = p
    BY <2>1 DEF Setting
  <2>3. f = [i \in a .. a + k |-> Setting(i, f, p)]
    BY <2>2
  <2> HIDE DEF f
  <2>4. SetsAside(a, a + k, f, p)
    BY <2>3 DEF SetsAside
  <2> QED BY <1>3, <2>4
<1>5. CASE k # 0
  <2>1. k - 1 \in Nat /\ k - 1 \notin Stuck
    BY <1>2, <1>3, <1>5
  <2>2. PICK f : SetsAside(a, a + (k - 1), f, p)
    BY <2>1
  <2> DEFINE g == [i \in a .. a + k |-> IF i = a + k THEN Setting(i, f, p) ELSE f[i]]
  <2>3. ASSUME NEW i \in a .. a + k PROVE g[i] = Setting(i, g, p)
    <3>1. i >= p.cur => i - 1 \in a .. a + k /\ i - 1 # a + k /\ g[i - 1] = f[i - 1]
      BY <1>3
    <3>2. Setting(i, g, p) = Setting(i, f, p)
      <4>1. i \in Int /\ p.cur \in Int
        BY <1>3
      <4> HIDE DEF g, a
      <4> QED BY <3>1, <4>1 DEF Setting
    <3>3. CASE i = a + k
      BY <3>2, <3>3
    <3>4. CASE i # a + k
      <4>1. i \in a .. a + (k - 1)
        BY <1>3, <3>4
      <4>2. f[i] = Setting(i, f, p)
        BY <2>2, <4>1 DEF SetsAside
      <4> QED BY <3>2, <3>4, <4>2
    <3> QED BY <3>3, <3>4
  <2>4. g = [i \in a .. a + k |-> g[i]]
    OBVIOUS
  <2> HIDE DEF g
  <2>5. SetsAside(a, a + k, g, p)
    BY <2>3, <2>4 DEF SetsAside
  <2> QED BY <1>3, <2>5
<1> QED BY <1>4, <1>5

\* What it has done up to place i: all but two fields and the array behind are as they were.
AsideTo(i, x, p, E) ==
  /\ x = [p EXCEPT !.moves = x.moves, !.endBadCaptures = x.endBadCaptures]
  /\ SetAside(x.moves, x.endBadCaptures, i + 1, E)
  /\ \A j \in i + 1 .. Len(Captures) : x.moves[j] = p.moves[j]

\* It has set aside whatever it has gone over.
LEMMA AsideSoFar ==
  ASSUME Generated, node \in Nodes, NEW p, NEW E, IsPicker(p), InGoodCaptures(p, E),
         NEW stop \in p.cur .. Len(Captures) + 1,
         \A j \in p.cur .. stop - 1 : p.moves[j] \notin GoodCaptures \/ p.moves[j] = node.tt,
         NEW f, SetsAside(p.cur - 1, stop - 1, f, p)
  PROVE  \A i \in p.cur - 1 .. stop - 1 : AsideTo(i, f[i], p, E)
<1> DEFINE a == p.cur - 1  z == stop - 1  c == Len(Captures)
           Wrong == {k \in Nat : a + k \in a .. z /\ ~AsideTo(a + k, f[a + k], p, E)}
<1>1. /\ c \in Nat /\ p.cur \in 1 .. c + 1 /\ a \in Nat /\ z \in Nat /\ a <= z /\ z <= c /\ p.cur = a + 1
      /\ SetAside(p.moves, p.endBadCaptures, p.cur, E)
  <2>1. Captures \in Seq(AllMoves)
    BY DEF Generated
  <2>2. SetAside(p.moves, p.endBadCaptures, p.cur, E)
    BY DEF InGoodCaptures
  <2>3. p.cur \in 1 .. c + 1
    BY <2>2 DEF SetAside
  <2> QED BY <2>1, <2>2, <2>3
<1> HIDE DEF a, z, c
<1> SUFFICES ASSUME Wrong # {} PROVE FALSE
  <2> SUFFICES ASSUME NEW i \in a .. z, ~AsideTo(i, f[i], p, E) PROVE FALSE
    BY DEF a, z
  <2>1. i - a \in Nat /\ a + (i - a) = i
    BY <1>1
  <2>2. i - a \in Wrong
    BY <2>1
  <2> QED BY <2>2
<1>2. Wrong \in SUBSET Nat
  OBVIOUS
<1>3. PICK k \in Wrong : \A j \in Wrong : k <= j
  <2> HIDE DEF Wrong
  <2> QED BY <1>2, LeastIsMin
<1>4. k \in Nat /\ a + k \in a .. z /\ ~AsideTo(a + k, f[a + k], p, E)
  OBVIOUS
<1>5. f[a + k] = Setting(a + k, f, p)
  BY <1>4 DEF SetsAside, a, z
<1>6. CASE k = 0
  <2>1. f[a + k] = p
    BY <1>1, <1>5, <1>6 DEF Setting
  <2>2. p = [p EXCEPT !.moves = p.moves, !.endBadCaptures = p.endBadCaptures]
    BY DEF IsPicker
  <2>3. AsideTo(a + k, p, p, E)
    <3>1. a + k + 1 = p.cur
      BY <1>1, <1>6
    <3>2. SetAside(p.moves, p.endBadCaptures, a + k + 1, E)
      BY <1>1, <3>1
    <3> QED BY <2>2, <3>2 DEF AsideTo
  <2> QED BY <1>4, <2>1, <2>3
<1>7. CASE k # 0
  <2> DEFINE b == a + k  x == f[b - 1]
  <2>1. k - 1 \in Nat /\ a + (k - 1) = b - 1 /\ b - 1 \in a .. z /\ ~(k <= k - 1) /\ b \in p.cur .. z /\ b \in 1 .. c
    BY <1>1, <1>4, <1>7
  <2>2. k - 1 \notin Wrong
    BY <1>3, <2>1
  <2>3. AsideTo(b - 1, x, p, E)
    BY <2>1, <2>2
  <2>4. f[b] = IF x.moves[b] = node.tt THEN x ELSE set_aside(x, b)
    BY <1>1, <1>5, <2>1 DEF Setting
  <2> HIDE DEF x, b
  <2>5. SetAside(x.moves, x.endBadCaptures, b, E) /\ x.moves[b] = p.moves[b]
    <3>1. (b - 1) + 1 = b /\ b \in b .. c
      BY <1>1, <2>1
    <3> QED BY <2>3, <3>1 DEF AsideTo, c
  <2>6. CASE x.moves[b] = node.tt
    <3>1. SetAside(x.moves, x.endBadCaptures, b + 1, E)
      BY <2>1, <2>5, <2>6, OnePassed DEF c
    <3>2. \A j \in b + 1 .. c : j \in (b - 1) + 1 .. c
      BY <1>1, <2>1
    <3>3. AsideTo(b, x, p, E)
      BY <2>3, <3>1, <3>2 DEF AsideTo, c
    <3> QED BY <1>4, <2>4, <2>6, <3>3 DEF b
  <2>7. CASE x.moves[b] # node.tt
    <3> DEFINE y == set_aside(x, b)  e == x.endBadCaptures
               r == Swapped(x.moves, e, b)
    <3>1. x.moves[b] \notin node.good
      <4>1. b \in p.cur .. stop - 1
        BY <2>1 DEF z
      <4> QED BY <2>5, <2>7, <4>1 DEF GoodCaptures
    <3>2. SetAside(r, e + 1, b + 1, E) /\ \A j \in b + 1 .. c : r[j] = x.moves[j]
      <4> DEFINE s == x.moves
      <4>1. b \in 1 .. Len(Captures) /\ SetAside(s, e, b, E) /\ s[b] \notin node.good /\ s[b] # node.tt
        BY <2>1, <2>5, <2>7, <3>1 DEF c
      <4> HIDE DEF e, s
      <4>2. SetAside(Swapped(s, e, b), e + 1, b + 1, E)
        BY <4>1, OneSetAside
      <4>3. \A j \in b + 1 .. Len(Captures) : Swapped(s, e, b)[j] = s[j]
        <5>1. Arranges(s, Captures) /\ Captures \in Seq(AllMoves) /\ e \in 1 .. b
          BY <4>1 DEF SetAside, Generated
        <5>2. DOMAIN s = 1 .. Len(Captures) /\ Len(Captures) \in Nat
          BY <5>1, ArrangedFacts
        <5> QED BY <4>1, <5>1, <5>2 DEF Swapped
      <4> QED BY <4>2, <4>3 DEF c, s
    <3>3. y.moves = r /\ y.endBadCaptures = e + 1 /\ y = [p EXCEPT !.moves = y.moves, !.endBadCaptures = y.endBadCaptures]
      <4>1. x = [p EXCEPT !.moves = x.moves, !.endBadCaptures = x.endBadCaptures]
        BY <2>3 DEF AsideTo
      <4>2. p = [g \in Fields \cup {"out"} |-> p[g]]
        BY DEF IsPicker
      <4>3. DOMAIN x = Fields \cup {"out"}
        BY <4>1, <4>2
      <4>4. y = [x EXCEPT !.moves = r, !.endBadCaptures = e + 1]
        BY <4>3 DEF set_aside, Swapped, Fields
      <4> HIDE DEF y, r, e
      <4>5. y.moves = r /\ y.endBadCaptures = e + 1
        BY <4>3, <4>4 DEF Fields
      <4>6. y = [p EXCEPT !.moves = r, !.endBadCaptures = e + 1]
        BY <4>1, <4>2, <4>3, <4>4 DEF Fields
      <4> QED BY <4>5, <4>6
    <3> HIDE DEF y, r, e
    <3>4. \A j \in b + 1 .. c : y.moves[j] = p.moves[j]
      <4>1. \A j \in b + 1 .. c : j \in (b - 1) + 1 .. c
        BY <1>1, <2>1
      <4>2. \A j \in (b - 1) + 1 .. c : x.moves[j] = p.moves[j]
        BY <2>3 DEF AsideTo, c
      <4> QED BY <3>2, <3>3, <4>1, <4>2
    <3>5. AsideTo(b, y, p, E)
      BY <3>2, <3>3, <3>4 DEF AsideTo, c
    <3> QED BY <1>4, <2>4, <2>7, <3>5 DEF b, y
  <2> QED BY <2>6, <2>7
<1> QED BY <1>6, <1>7

\* At a stage the picker is where that stage is, and what came first is returned.
LEMMA GoingOn ==
  ASSUME Generated, node \in Nodes, NEW p, NEW E, NEW k, GoesOn(p, E, k)
  PROVE  /\ IsPicker(p) /\ p.out = "pending" /\ p.skipQuiets \in BOOLEAN /\ p.stage = k /\ k \in 1 .. 7
         /\ k \in {1, 2} => Begins(p, E)
         /\ k = 3 => \/ node.kind = "main" /\ InGoodCaptures(p, E)
                     \/ node.kind # "main" /\ InThePass(p, E)
         /\ k = 4 => node.kind = "main" /\ BeforeQuiets(p, E)
         /\ k = 5 => node.kind = "main" /\ InGoodQuiets(p, E)
         /\ k = 6 => node.kind = "main" /\ InBadCaptures(p, E)
         /\ k = 7 => node.kind = "main" /\ InBadQuiets(p, E)
<1>1. IsPicker(p) /\ p.out = "pending" /\ p.skipQuiets \in BOOLEAN /\ p.stage = k
  BY DEF GoesOn
<1>2. \/ Begins(p, E)
      \/ node.kind = "main" /\ \/ InGoodCaptures(p, E) \/ InGoodQuiets(p, E)
                               \/ InBadCaptures(p, E) \/ InBadQuiets(p, E) \/ BeforeQuiets(p, E)
      \/ node.kind # "main" /\ InThePass(p, E)
  BY DEF GoesOn, Ready
<1>3. /\ Begins(p, E) => k \in {1, 2}
      /\ InGoodCaptures(p, E) => k = 3
      /\ InThePass(p, E) => k = 3
      /\ BeforeQuiets(p, E) => k = 4
      /\ InGoodQuiets(p, E) => k = 5
      /\ InBadCaptures(p, E) => k = 6
      /\ InBadQuiets(p, E) => k = 7
  BY <1>1 DEF Begins, InGoodCaptures, InThePass, BeforeQuiets, InGoodQuiets, InBadCaptures, InBadQuiets
<1>4. k \in 1 .. 7
  BY <1>2, <1>3
<1>5. /\ k \in {1, 2} => Begins(p, E)
      /\ k = 4 => node.kind = "main" /\ BeforeQuiets(p, E)
      /\ k = 5 => node.kind = "main" /\ InGoodQuiets(p, E)
      /\ k = 6 => node.kind = "main" /\ InBadCaptures(p, E)
      /\ k = 7 => node.kind = "main" /\ InBadQuiets(p, E)
  BY <1>2, <1>3
<1>6. k = 3 => \/ node.kind = "main" /\ InGoodCaptures(p, E)
               \/ node.kind # "main" /\ InThePass(p, E)
  BY <1>2, <1>3
<1> QED BY <1>1, <1>4, <1>5, <1>6

\* What the steps through the stages leave as it is.
LeavesAlone(q, p) ==
  /\ IsPicker(q) /\ q.moves = p.moves /\ q.endBadCaptures = p.endBadCaptures
  /\ q.endCaptures = p.endCaptures /\ q.endGenerated = p.endGenerated /\ q.skipQuiets = p.skipQuiets

\* Going on to the next stage.
LEMMA AdvanceFields ==
  ASSUME NEW p, IsPicker(p)
  PROVE  LET q == Advance(p)
         IN  LeavesAlone(q, p) /\ q.out = p.out /\ q.cur = p.cur /\ q.endCur = p.endCur /\ q.stage = p.stage + 1
<1>1. p = [f \in Fields \cup {"out"} |-> p[f]]
  BY DEF IsPicker
<1> QED BY <1>1 DEF LeavesAlone, IsPicker, Fields, Advance

\* Returning a move.
LEMMA OutFields ==
  ASSUME NEW p, IsPicker(p), NEW v
  PROVE  LET q == [p EXCEPT !.out = v]
         IN  LeavesAlone(q, p) /\ q.out = v /\ q.cur = p.cur /\ q.endCur = p.endCur /\ q.stage = p.stage
<1>1. p = [f \in Fields \cup {"out"} |-> p[f]]
  BY DEF IsPicker
<1> QED BY <1>1 DEF LeavesAlone, IsPicker, Fields, Advance

\* Moving the pointer changes this field and no other.
LEMMA CurFields ==
  ASSUME NEW p, IsPicker(p), NEW v
  PROVE  LET q == PointsTo(p, v)
         IN  LeavesAlone(q, p) /\ q.out = p.out /\ q.cur = v /\ q.endCur = p.endCur /\ q.stage = p.stage
<1>1. p = [f \in Fields \cup {"out"} |-> p[f]]
  BY DEF IsPicker
<1> QED BY <1>1 DEF LeavesAlone, IsPicker, Fields, PointsTo

\* Returning the move behind the pointer changes these fields and no other.
LEMMA CurOutFields ==
  ASSUME NEW p, IsPicker(p), NEW v, NEW w
  PROVE  LET q == MovesTo(p, v, w)
         IN  LeavesAlone(q, p) /\ q.out = w /\ q.cur = v /\ q.endCur = p.endCur /\ q.stage = p.stage
<1>1. p = [f \in Fields \cup {"out"} |-> p[f]]
  BY DEF IsPicker
<1> QED BY <1>1 DEF LeavesAlone, IsPicker, Fields, MovesTo

\* Setting out on another pass.
SetsOut(p, v, w) == [p EXCEPT !.cur = v, !.endCur = w]

\* It changes these fields and no other.
LEMMA PassFields ==
  ASSUME NEW p, IsPicker(p), NEW v, NEW w
  PROVE  LET q == SetsOut(p, v, w)
         IN  LeavesAlone(q, p) /\ q.out = p.out /\ q.cur = v /\ q.endCur = w /\ q.stage = p.stage
<1>1. p = [f \in Fields \cup {"out"} |-> p[f]]
  BY DEF IsPicker
<1> QED BY <1>1 DEF LeavesAlone, IsPicker, Fields, SetsOut

\* Returning that nothing is left.
NoneLeft(p, v, w) == [p EXCEPT !.out = v, !.stage = w]

\* It changes these fields and no other.
LEMMA NoneFields ==
  ASSUME NEW p, IsPicker(p), NEW v, NEW w
  PROVE  LET q == NoneLeft(p, v, w)
         IN  LeavesAlone(q, p) /\ q.out = v /\ q.cur = p.cur /\ q.endCur = p.endCur /\ q.stage = w
<1>1. p = [f \in Fields \cup {"out"} |-> p[f]]
  BY DEF IsPicker
<1> QED BY <1>1 DEF LeavesAlone, IsPicker, Fields, NoneLeft

\* A pass over the places from lo on: it goes to a move that it has not gone over, or it has
\* gone over all.
LEMMA PassGoesOn ==
  ASSUME NEW p, NEW passing, NEW lo, p.cur \in Nat, p.endCur \in Nat, lo \in 1 .. p.cur,
         p.cur <= p.endCur,
         \A i, j \in lo .. p.endCur - 1 : p.moves[i] = p.moves[j] => i = j
  PROVE  \/ \E i \in p.cur .. p.endCur - 1 :
              /\ select(p, passing) = MovesTo(p, i + 1, p.moves[i])
              /\ p.moves[i] \in passing /\ p.moves[i] # node.tt
              /\ p.moves[i] \notin Between(p, lo, p.cur) /\ p.moves[i] \in Between(p, lo, p.endCur)
              /\ \A m : m # node.tt /\ m \in passing =>
                   (m \in Between(p, lo, i + 1) <=> m \in Between(p, lo, p.cur) \/ m = p.moves[i])
         \/ /\ select(p, passing) = PointsTo(Advance(p), p.endCur)
            /\ \A m : m # node.tt /\ m \in passing =>
                 (m \in Between(p, lo, p.endCur) <=> m \in Between(p, lo, p.cur))
<1> DEFINE a == p.cur  z == p.endCur  s == p.moves
<1>1. a \in Nat /\ z \in Nat /\ lo \in Nat /\ 1 <= lo /\ lo <= a /\ a <= z
  OBVIOUS
<1>2. \A i, j \in lo .. z - 1 : s[i] = s[j] => i = j
  OBVIOUS
<1>3. \A x, y : Between(p, x, y) = {s[i] : i \in x .. y - 1}
  BY DEF Between
<1>4. \/ \E i \in a .. z - 1 :
              /\ s[i] \in passing /\ s[i] # node.tt
              /\ \A j \in a .. i - 1 : s[j] \notin passing \/ s[j] = node.tt
              /\ select(p, passing) = MovesTo(p, i + 1, s[i])
      \/ /\ \A j \in a .. z - 1 : s[j] \notin passing \/ s[j] = node.tt
         /\ select(p, passing) = PointsTo(Advance(p), z)
  BY <1>1, Selects
<1> HIDE DEF a, z, s
<1>5. ASSUME NEW i \in a .. z - 1, s[i] \in passing, s[i] # node.tt,
             \A j \in a .. i - 1 : s[j] \notin passing \/ s[j] = node.tt
      PROVE  /\ s[i] \notin Between(p, lo, a) /\ s[i] \in Between(p, lo, z)
             /\ \A m : m # node.tt /\ m \in passing =>
                  (m \in Between(p, lo, i + 1) <=> m \in Between(p, lo, a) \/ m = s[i])
  <2>1. \A j \in lo .. a - 1 : j \in lo .. z - 1 /\ j # i /\ i \in lo .. z - 1
    BY <1>1
  <2>2. s[i] \notin Between(p, lo, a)
    BY <1>2, <1>3, <2>1
  <2>3. i \in lo .. z - 1
    BY <1>1
  <2>4. s[i] \in Between(p, lo, z)
    BY <1>3, <2>3
  <2>5. ASSUME NEW m, m # node.tt, m \in passing, m \in Between(p, lo, i + 1)
        PROVE  m \in Between(p, lo, a) \/ m = s[i]
    <3>1. PICK j \in lo .. (i + 1) - 1 : m = s[j]
      BY <1>3, <2>5
    <3>2. j \in lo .. a - 1 \/ j \in a .. i - 1 \/ j = i
      BY <1>1, <3>1
    <3> QED BY <1>3, <1>5, <2>5, <3>1, <3>2
  <2>6. ASSUME NEW m, m \in Between(p, lo, a) \/ m = s[i]
        PROVE  m \in Between(p, lo, i + 1)
    <3>1. \A j \in lo .. a - 1 : j \in lo .. (i + 1) - 1
      BY <1>1
    <3>2. i \in lo .. (i + 1) - 1
      BY <1>1
    <3> QED BY <1>3, <2>6, <3>1, <3>2
  <2> QED BY <2>2, <2>4, <2>5, <2>6
<1>6. ASSUME \A j \in a .. z - 1 : s[j] \notin passing \/ s[j] = node.tt
      PROVE  \A m : m # node.tt /\ m \in passing => (m \in Between(p, lo, z) <=> m \in Between(p, lo, a))
  <2>1. ASSUME NEW m, m # node.tt, m \in passing, m \in Between(p, lo, z) PROVE m \in Between(p, lo, a)
    <3>1. PICK j \in lo .. z - 1 : m = s[j]
      BY <1>3, <2>1
    <3>2. j \in lo .. a - 1 \/ j \in a .. z - 1
      BY <1>1, <3>1
    <3> QED BY <1>3, <1>6, <2>1, <3>1, <3>2
  <2>2. ASSUME NEW m, m \in Between(p, lo, a) PROVE m \in Between(p, lo, z)
    <3>1. \A j \in lo .. a - 1 : j \in lo .. z - 1
      BY <1>1
    <3> QED BY <1>3, <2>2, <3>1
  <2> QED BY <2>1, <2>2
<1>7. CASE \E i \in a .. z - 1 :
              /\ s[i] \in passing /\ s[i] # node.tt
              /\ \A j \in a .. i - 1 : s[j] \notin passing \/ s[j] = node.tt
              /\ select(p, passing) = MovesTo(p, i + 1, s[i])
  <2>1. PICK i \in a .. z - 1 :
              /\ s[i] \in passing /\ s[i] # node.tt
              /\ \A j \in a .. i - 1 : s[j] \notin passing \/ s[j] = node.tt
              /\ select(p, passing) = MovesTo(p, i + 1, s[i])
    BY <1>7
  <2> QED BY <1>5, <2>1 DEF a, z, s
<1>8. CASE /\ \A j \in a .. z - 1 : s[j] \notin passing \/ s[j] = node.tt
           /\ select(p, passing) = PointsTo(Advance(p), z)
  BY <1>6, <1>8 DEF a, z
<1> QED BY <1>4, <1>7, <1>8

\* The table's move comes first.
LEMMA TtCase ==
  ASSUME Generated, node \in Nodes, NEW p, NEW E, GoesOn(p, E, 1)
  PROVE  Returns(TtMove(p), E)
<1> DEFINE q == TtMove(p)
<1>1. IsPicker(p) /\ p.skipQuiets \in BOOLEAN /\ p.stage = 1 /\ Begins(p, E)
  BY GoingOn
<1>2. p.moves = <<>> /\ p.cur = 1 /\ E = {} /\ First # {}
  BY <1>1 DEF Begins
<1>3. First = {node.tt} /\ node.tt \in AllMoves
  BY <1>2, FirstFacts
<1>4. IsPicker(q) /\ q.out = node.tt /\ q.moves = <<>> /\ q.cur = 1 /\ q.stage = 2 /\ q.skipQuiets \in BOOLEAN
  <2> DEFINE x == Advance(p)
  <2>1. q = [x EXCEPT !.out = node.tt]
    BY DEF TtMove
  <2>2. IsPicker(x) /\ x.moves = <<>> /\ x.cur = 1 /\ x.stage = 2 /\ x.skipQuiets \in BOOLEAN
    <3>1. LeavesAlone(x, p) /\ x.cur = p.cur /\ x.stage = p.stage + 1
      BY ONLY <1>1, AdvanceFields
    <3> HIDE DEF x
    <3> QED BY <1>1, <1>2, <3>1 DEF LeavesAlone
  <2> HIDE DEF q, x
  <2> QED BY <2>1, <2>2, OutFields DEF LeavesAlone
<1> HIDE DEF q
<1>5. Begins(q, E \cup {q.out})
  BY <1>2, <1>3, <1>4 DEF Begins
<1>6. Ready(q, E \cup {q.out})
  BY <1>4, <1>5 DEF Ready
<1> QED BY <1>2, <1>3, <1>4, <1>6 DEF Returns, q

\* What stood in the array stays, and the list follows it, sorted.
LEMMA Generates ==
  ASSUME Generated, node \in Nodes, NEW p, NEW list, NEW limit, Sortable(list, node.score, limit),
         p.moves \in Seq(AllMoves), p.cur = Len(p.moves) + 1
  PROVE  LET r == partial_insertion_sort(list, node.score, limit)
         IN  /\ Arranges(r, list)
             /\ \A i, j \in 1 .. Len(list) :
                  i < j /\ node.score[r[i]] >= limit /\ node.score[r[j]] >= limit
                    => node.score[r[i]] >= node.score[r[j]]
             /\ generate(p, list, limit) = [p EXCEPT !.moves = p.moves \o r, !.endCur = p.cur + Len(list)]
             /\ p.moves = <<>> => p.moves \o r = r
<1> DEFINE r == partial_insertion_sort(list, node.score, limit)  s == p.moves  n == Len(s)
<1>1. /\ Arranges(r, list)
      /\ \A i, j \in 1 .. Len(list) :
           i < j /\ node.score[r[i]] >= limit /\ node.score[r[j]] >= limit => node.score[r[i]] >= node.score[r[j]]
  BY PartialSort
<1> HIDE DEF r
<1>2. SubSeq(s, 1, p.cur - 1) = s
  <2>1. s \in Seq(AllMoves) /\ n \in Nat /\ p.cur - 1 = n
    OBVIOUS
  <2> HIDE DEF s, n
  <2>2. SubSeq(s, 1, Len(s)) = s
    BY <2>1, SubSeqFull
  <2> QED BY <2>1, <2>2 DEF n
<1>3. generate(p, list, limit) = [p EXCEPT !.moves = s \o r, !.endCur = p.cur + Len(list)]
  BY <1>2 DEF generate, r
<1>4. <<>> \o r = r
  BY <1>1, ConcatEmptySeq DEF Arranges
<1> QED BY <1>1, <1>3, <1>4 DEF r

\* Filling the array with the captures.
CapturesIn(p, s, z) ==
  LET q == [p EXCEPT !.moves = s, !.endCur = z]
  IN  Advance([q EXCEPT !.endBadCaptures = p.cur, !.endCaptures = q.endCur])

\* It sets the pointers of the captures.
LEMMA CaptureInitFields ==
  ASSUME NEW p, IsPicker(p), NEW s, NEW z
  PROVE  LET x == CapturesIn(p, s, z)
         IN  /\ IsPicker(x) /\ x.moves = s /\ x.cur = p.cur /\ x.endCur = z /\ x.endBadCaptures = p.cur
             /\ x.endCaptures = z /\ x.stage = p.stage + 1 /\ x.out = p.out /\ x.skipQuiets = p.skipQuiets
<1>1. p = [f \in Fields \cup {"out"} |-> p[f]]
  BY DEF IsPicker
<1> QED BY <1>1 DEF IsPicker, Fields, Advance, CapturesIn

\* Filling it with quiet moves, or with all.
QuietsFill(p, s, z) ==
  LET q == [p EXCEPT !.moves = s, !.endCur = z]
  IN  Advance([q EXCEPT !.endGenerated = q.endCur])

\* It leaves the pointers of the captures.
LEMMA QuietInitFields ==
  ASSUME NEW p, IsPicker(p), NEW s, NEW z
  PROVE  LET x == QuietsFill(p, s, z)
         IN  /\ IsPicker(x) /\ x.moves = s /\ x.cur = p.cur /\ x.endCur = z /\ x.endBadCaptures = p.endBadCaptures
             /\ x.endCaptures = p.endCaptures /\ x.endGenerated = z /\ x.stage = p.stage + 1 /\ x.out = p.out
             /\ x.skipQuiets = p.skipQuiets
<1>1. p = [f \in Fields \cup {"out"} |-> p[f]]
  BY DEF IsPicker
<1> QED BY <1>1 DEF IsPicker, Fields, Advance, QuietsFill

\* The captures are generated and sorted: the pass over them begins.
LEMMA CaptureInitCase ==
  ASSUME Generated, node \in Nodes, NEW p, NEW E, GoesOn(p, E, 2), node.kind # "evasion"
  PROVE  GoesOn(CaptureInit(p), E, 3)
<1> DEFINE r == partial_insertion_sort(Captures, node.score, Lowest)  c == Len(Captures)  x == CaptureInit(p)
<1>1. IsPicker(p) /\ p.out = "pending" /\ p.skipQuiets \in BOOLEAN /\ p.stage = 2 /\ Begins(p, E)
  BY GoingOn
<1>2. p.moves = <<>> /\ p.cur = 1 /\ E = First
  <2>1. p.stage # 1
    BY <1>1
  <2> QED BY <1>1, <2>1, Zenon DEF Begins
<1>3. /\ Sortable(Captures, node.score, Lowest) /\ c \in Nat /\ Lowest \in Int
      /\ \A m : m \in ToSet(Captures) <=> \E i \in 1 .. c : Captures[i] = m
  <2>1. Lowest \in Int
    BY DEF Lowest
  <2> QED BY <2>1, ListsFacts
<1>4. p.moves \in Seq(AllMoves) /\ p.cur = Len(p.moves) + 1
  BY <1>2
<1>5. /\ Arranges(r, Captures) /\ p.moves \o r = r
      /\ \A i, j \in 1 .. c :
           i < j /\ node.score[r[i]] >= Lowest /\ node.score[r[j]] >= Lowest => node.score[r[i]] >= node.score[r[j]]
      /\ generate(p, Captures, Lowest) = [p EXCEPT !.moves = p.moves \o r, !.endCur = p.cur + c]
  <2>1. /\ Arranges(r, Captures)
        /\ generate(p, Captures, Lowest) = [p EXCEPT !.moves = p.moves \o r, !.endCur = p.cur + c]
        /\ p.moves = <<>> => p.moves \o r = r
    <3> DEFINE l == Lowest
    <3>1. Sortable(Captures, node.score, l)
      BY <1>3
    <3> HIDE DEF l
    <3>2. LET q == partial_insertion_sort(Captures, node.score, l)
          IN  /\ Arranges(q, Captures)
              /\ generate(p, Captures, l) = [p EXCEPT !.moves = p.moves \o q, !.endCur = p.cur + Len(Captures)]
              /\ p.moves = <<>> => p.moves \o q = q
      BY ONLY Generated, node \in Nodes, <1>4, <3>1, Generates
    <3> QED BY <3>2 DEF l
  <2>2. \A i, j \in 1 .. c :
           i < j /\ node.score[r[i]] >= Lowest /\ node.score[r[j]] >= Lowest => node.score[r[i]] >= node.score[r[j]]
    BY <1>3, PartialSort
  <2> QED BY <1>2, <2>1, <2>2
<1> HIDE DEF r
<1>6. \A i, j \in 1 .. c : i < j => node.score[r[i]] >= node.score[r[j]]
  <2>1. \A i \in 1 .. c : r[i] \in ToSet(Captures)
    <3>1. Captures \in Seq(AllMoves)
      BY DEF Generated
    <3>2. \A m : (\E i \in 1 .. c : r[i] = m) <=> \E i \in 1 .. c : Captures[i] = m
      BY <1>5, <3>1, ArrangedFacts
    <3> QED BY <1>3, <3>2
  <2>2. \A m \in ToSet(Captures) : node.score[m] >= Lowest
    BY NodeFacts
  <2> HIDE DEF c
  <2> QED BY <1>5, <2>1, <2>2
<1>7. /\ IsPicker(x) /\ x.moves = r /\ x.cur = 1 /\ x.endCur = c + 1 /\ x.endBadCaptures = 1
      /\ x.endCaptures = c + 1 /\ x.stage = 3 /\ x.out = "pending" /\ x.skipQuiets \in BOOLEAN
  <2> DEFINE z == p.cur + c
  <2>1. x = CapturesIn(p, r, z)
    BY <1>5 DEF CaptureInit, CapturesIn
  <2>2. z = c + 1
    BY <1>2, <1>3
  <2> HIDE DEF x, z, c
  <2>3. /\ IsPicker(x) /\ x.moves = r /\ x.cur = p.cur /\ x.endCur = z /\ x.endBadCaptures = p.cur
        /\ x.endCaptures = z /\ x.stage = p.stage + 1 /\ x.out = p.out /\ x.skipQuiets = p.skipQuiets
    BY <1>1, <2>1, CaptureInitFields
  <2> QED BY <1>1, <1>2, <2>2, <2>3
<1> HIDE DEF x
<1>8. \A m : m \in E <=> m \in First
  BY <1>2
<1>9. CASE node.kind = "main"
  <2>1. SetAside(r, 1, 1, E)
    <3>1. 1 \in 1 .. c + 1
      BY <1>3
    <3>2. \A i \in 1 .. 1 - 1 : FALSE
      OBVIOUS
    <3> QED BY <1>5, <1>6, <1>8, <3>1, <3>2 DEF SetAside, c
  <2>2. InGoodCaptures(x, E)
    BY <1>7, <2>1 DEF InGoodCaptures, c
  <2>3. Ready(x, E)
    BY <1>7, <1>9, <2>2 DEF Ready
  <2> QED BY <1>7, <2>3 DEF GoesOn, x
<1>10. CASE node.kind # "main"
  <2>1. TheList = Captures
    BY DEF TheList
  <2>2. \A m : m \notin Between(x, 1, x.cur)
    BY <1>7 DEF Between
  <2>3. x.cur \in 1 .. c + 1
    BY <1>3, <1>7
  <2>4. InThePass(x, E)
    BY <1>5, <1>7, <1>8, <2>1, <2>2, <2>3 DEF InThePass, c
  <2>5. Ready(x, E)
    BY <1>7, <1>10, <2>4 DEF Ready
  <2> QED BY <1>7, <2>5 DEF GoesOn, x
<1> QED BY <1>9, <1>10 DEF x

\* All moves are generated and sorted: the pass over them begins.
LEMMA EvasionInitCase ==
  ASSUME Generated, node \in Nodes, NEW p, NEW E, GoesOn(p, E, 2), node.kind = "evasion"
  PROVE  GoesOn(EvasionInit(p), E, 3)
<1> DEFINE list == Captures \o Quiets  r == partial_insertion_sort(list, node.score, Lowest)
           n == Len(list)  x == EvasionInit(p)
<1>1. IsPicker(p) /\ p.out = "pending" /\ p.skipQuiets \in BOOLEAN /\ p.stage = 2 /\ Begins(p, E)
  BY GoingOn
<1>2. p.moves = <<>> /\ p.cur = 1 /\ E = First
  <2>1. p.stage # 1
    BY <1>1
  <2> QED BY <1>1, <2>1, Zenon DEF Begins
<1>3. Sortable(list, node.score, Lowest) /\ n \in Nat
  <2>1. Lowest \in Int
    BY DEF Lowest
  <2>2. Sortable(list, node.score, Lowest)
    BY <2>1, ListsFacts
  <2>3. list \in Seq(AllMoves)
    BY <2>2 DEF Sortable, Arranges
  <2> QED BY <2>2, <2>3
<1>4. p.moves \in Seq(AllMoves) /\ p.cur = Len(p.moves) + 1
  BY <1>2
<1> HIDE DEF list
<1>5. /\ Arranges(r, list) /\ p.moves \o r = r
      /\ generate(p, list, Lowest) = [p EXCEPT !.moves = p.moves \o r, !.endCur = p.cur + n]
  <2> HIDE DEF n
  <2>1. Sortable(list, node.score, Lowest)
    BY <1>3
  <2>2. /\ Arranges(r, list) /\ (p.moves = <<>> => p.moves \o r = r)
        /\ generate(p, list, Lowest) = [p EXCEPT !.moves = p.moves \o r, !.endCur = p.cur + Len(list)]
    BY ONLY Generated, node \in Nodes, <1>4, <2>1, Generates
  <2> QED BY <1>2, <2>2 DEF n
<1> HIDE DEF r
<1>6. /\ IsPicker(x) /\ x.moves = r /\ x.cur = 1 /\ x.endCur = n + 1
      /\ x.stage = 3 /\ x.out = "pending" /\ x.skipQuiets \in BOOLEAN
  <2> DEFINE z == p.cur + n
  <2>1. x = QuietsFill(p, r, z)
    BY <1>5 DEF EvasionInit, QuietsFill, list
  <2>2. z = n + 1
    BY <1>2, <1>3
  <2> HIDE DEF x, z, n
  <2>3. /\ IsPicker(x) /\ x.moves = r /\ x.cur = p.cur /\ x.endCur = z
        /\ x.stage = p.stage + 1 /\ x.out = p.out /\ x.skipQuiets = p.skipQuiets
    BY <1>1, <2>1, QuietInitFields
  <2> QED BY <1>1, <1>2, <2>2, <2>3
<1> HIDE DEF x
<1>7. \A m : m \in E <=> m \in First
  BY <1>2
<1>8. TheList = list
  BY DEF TheList, list
<1>9. \A m : m \notin Between(x, 1, x.cur)
  BY <1>6 DEF Between
<1>10. x.cur \in 1 .. n + 1
  BY <1>3, <1>6
<1>11. InThePass(x, E)
  BY <1>5, <1>6, <1>7, <1>8, <1>9, <1>10 DEF InThePass, n
<1> QED BY <1>6, <1>11 DEF GoesOn, Ready, x

\* The pass over the one list of an evasion, of probcut or of quiescence returns each of
\* its moves, or nothing is left.
LEMMA PassCase ==
  ASSUME Generated, node \in Nodes, NEW p, NEW E, GoesOn(p, E, 3), node.kind # "main"
  PROVE  Returns(OrNone(select(p, TheOnes)), E)
<1> DEFINE n == Len(TheList)  s == p.moves
<1>1. IsPicker(p) /\ p.out = "pending" /\ p.skipQuiets \in BOOLEAN /\ p.stage = 3 /\ InThePass(p, E)
  BY GoingOn
<1>2. /\ Arranges(s, TheList) /\ p.endCur = n + 1 /\ p.cur \in 1 .. n + 1
      /\ \A m : m \in E <=> m \in First \/ (m \in Between(p, 1, p.cur) /\ m \in TheOnes)
  BY <1>1 DEF InThePass
<1>3. /\ TheList \in Seq(AllMoves)
      /\ \A m : (\E i \in 1 .. n : TheList[i] = m) <=>
                  IF node.kind = "evasion" THEN m \in AllMoves ELSE m \in ToSet(Captures)
  <2>1. 0 \in Int
    OBVIOUS
  <2>2. /\ Sortable(Captures, node.score, 0) /\ Sortable(Captures \o Quiets, node.score, 0)
        /\ \A m : m \in ToSet(Captures) <=> \E i \in 1 .. Len(Captures) : Captures[i] = m
        /\ \A m : (\E i \in 1 .. Len(Captures \o Quiets) : (Captures \o Quiets)[i] = m) <=> m \in AllMoves
    BY <2>1, ListsFacts
  <2> DEFINE both == Captures \o Quiets
  <2>3. Captures \in Seq(AllMoves) /\ both \in Seq(AllMoves)
    BY <2>2 DEF Sortable, Arranges
  <2>4. CASE node.kind = "evasion"
    <3>1. TheList = both
      BY <2>4 DEF TheList
    <3> HIDE DEF both
    <3> QED BY <2>2, <2>3, <2>4, <3>1 DEF both
  <2>5. CASE node.kind # "evasion"
    <3>1. TheList = Captures
      BY <2>5 DEF TheList
    <3> QED BY <2>2, <2>3, <2>5, <3>1
  <2> QED BY <2>4, <2>5
<1>4. /\ n \in Nat /\ \A i, j \in 1 .. n : s[i] = s[j] => i = j
      /\ \A i \in 1 .. n : s[i] \in AllMoves
      /\ \A m : (\E i \in 1 .. n : s[i] = m) <=> \E i \in 1 .. n : TheList[i] = m
  BY <1>2, <1>3, ArrangedFacts
<1>5. /\ p.cur \in Nat /\ p.endCur \in Nat /\ 1 \in 1 .. p.cur /\ p.cur <= p.endCur
      /\ \A i, j \in 1 .. p.endCur - 1 : s[i] = s[j] => i = j
  <2>1. p.endCur - 1 = n
    BY <1>2, <1>4
  <2>2. p.cur \in Nat /\ p.endCur \in Nat /\ 1 \in 1 .. p.cur /\ p.cur <= p.endCur
    BY <1>2, <1>4
  <2> QED BY <1>4, <2>1, <2>2
<1>6. \A m : m \in Between(p, 1, p.endCur) <=> \E i \in 1 .. n : s[i] = m
  <2>1. p.endCur - 1 = n
    BY <1>2, <1>4
  <2> HIDE DEF n
  <2> QED BY <2>1 DEF Between
<1>7. /\ \A m \in TheOnes : m \in AllMoves
      /\ \A m \in TheOnes : m \in Between(p, 1, p.endCur) /\ m = node.tt => m \in First
      /\ \A m \in TheOnes : node.kind = "probcut" => m \in node.good
      /\ \A m \in Between(p, 1, p.endCur) : node.kind # "evasion" => m \in ToSet(Captures)
  <2>1. /\ \A m \in TheOnes : m \in AllMoves /\ (node.kind = "probcut" => m \in node.good /\ m \in ToSet(Captures))
    BY NodeFacts DEF TheOnes, GoodCaptures
  <2>2. \A m \in TheOnes : m = node.tt => m \in First
    BY <2>1, FirstFacts
  <2>3. \A m \in Between(p, 1, p.endCur) : node.kind # "evasion" => m \in ToSet(Captures)
    BY <1>3, <1>4, <1>6
  <2> QED BY <2>1, <2>2, <2>3
<1>8. ASSUME NEW i \in p.cur .. p.endCur - 1, NEW q, q = MovesTo(p, i + 1, s[i]),
             s[i] \in TheOnes, s[i] # node.tt, s[i] \notin Between(p, 1, p.cur), s[i] \in Between(p, 1, p.endCur),
             \A m : m # node.tt /\ m \in TheOnes =>
               (m \in Between(p, 1, i + 1) <=> m \in Between(p, 1, p.cur) \/ m = s[i])
      PROVE  Returns(OrNone(q), E)
  <2>1. LeavesAlone(q, p) /\ q.out = s[i] /\ q.cur = i + 1 /\ q.endCur = p.endCur /\ q.stage = 3
    <3> DEFINE v == i + 1  w == s[i]
    <3>1. q = MovesTo(p, v, w)
      BY <1>8 DEF MovesTo
    <3> HIDE DEF v, w
    <3>2. LeavesAlone(q, p) /\ q.out = w /\ q.cur = v /\ q.endCur = p.endCur /\ q.stage = p.stage
      BY <1>1, <3>1, CurOutFields
    <3> QED BY <1>1, <3>2 DEF v, w
  <2>2. IsPicker(q) /\ q.moves = s /\ q.skipQuiets \in BOOLEAN
    BY <1>1, <2>1 DEF LeavesAlone
  <2>3. q.out \in AllMoves /\ q.out \notin First /\ q.out \notin E
    <3>1. \A m \in First : m = node.tt
      BY FirstFacts
    <3> QED BY <1>2, <1>7, <1>8, <2>1, <3>1
  <2>4. OrNone(q) = q
    <3>1. "pending" \notin AllMoves
      BY DEF Generated
    <3> QED BY <2>3, <3>1 DEF OrNone
  <2>5. ASSUME NEW m
        PROVE  m \in E \cup {q.out} <=> m \in First \/ (m \in Between(q, 1, q.cur) /\ m \in TheOnes)
    <3>1. Between(q, 1, q.cur) = Between(p, 1, i + 1)
      BY <2>1, <2>2 DEF Between
    <3>2. CASE m = node.tt
      <4>1. m \in TheOnes /\ m \in Between(p, 1, p.cur) => m \in First
        <5>1. ASSUME m \in Between(p, 1, p.cur) PROVE m \in Between(p, 1, p.endCur)
          <6>1. \A j \in 1 .. p.cur - 1 : j \in 1 .. p.endCur - 1
            BY <1>5
          <6> QED BY <5>1, <6>1 DEF Between
        <5> QED BY <1>7, <3>2, <5>1
      <4>2. m \in TheOnes /\ m \in Between(p, 1, i + 1) => m \in First
        <5>1. ASSUME m \in Between(p, 1, i + 1) PROVE m \in Between(p, 1, p.endCur)
          <6>1. \A j \in 1 .. (i + 1) - 1 : j \in 1 .. p.endCur - 1
            BY <1>5
          <6> QED BY <5>1, <6>1 DEF Between
        <5> QED BY <1>7, <3>2, <5>1
      <4>3. m # q.out
        BY <1>8, <2>1, <3>2
      <4>4. m \in E <=> m \in First \/ (m \in Between(p, 1, p.cur) /\ m \in TheOnes)
        BY <1>2
      <4> QED BY <3>1, <4>1, <4>2, <4>3, <4>4
    <3>3. CASE m # node.tt
      <4>1. m \in E <=> m \in First \/ (m \in Between(p, 1, p.cur) /\ m \in TheOnes)
        BY <1>2
      <4>2. m \in TheOnes => (m \in Between(p, 1, i + 1) <=> m \in Between(p, 1, p.cur) \/ m = s[i])
        BY <1>8, <3>3
      <4> QED BY <1>8, <2>1, <3>1, <4>1, <4>2
    <3> QED BY <3>2, <3>3
  <2>6. InThePass(q, E \cup {q.out})
    <3>1. q.cur \in 1 .. n + 1
      BY <1>2, <1>4, <2>1
    <3> QED BY <1>2, <2>1, <2>2, <2>5, <3>1 DEF InThePass
  <2>7. Ready(q, E \cup {q.out})
    BY <2>2, <2>6 DEF Ready
  <2>8. E = {} /\ First # {} => q.out = node.tt
    BY <1>2
  <2>9. /\ node.kind = "probcut" => q.out \in node.good
        /\ node.kind = "qsearch" => q.out \in ToSet(Captures)
    BY <1>7, <1>8, <2>1
  <2> QED BY <2>2, <2>3, <2>4, <2>7, <2>8, <2>9 DEF Returns
<1>9. ASSUME NEW q, q = PointsTo(Advance(p), p.endCur),
             \A m : m # node.tt /\ m \in TheOnes =>
               (m \in Between(p, 1, p.endCur) <=> m \in Between(p, 1, p.cur))
      PROVE  Returns(OrNone(q), E)
  <2> DEFINE o == OrNone(q)
  <2>1. IsPicker(o) /\ o.out = NoMove /\ o.skipQuiets \in BOOLEAN
    <3> DEFINE x == Advance(p)  v == p.endCur  w == Len(Stages(node.kind))
    <3>1. LeavesAlone(x, p) /\ x.out = "pending"
      BY <1>1, AdvanceFields
    <3>2. q = PointsTo(x, v)
      BY <1>9 DEF PointsTo
    <3> HIDE DEF x, v, w
    <3>3. IsPicker(x) /\ x.skipQuiets \in BOOLEAN
      BY <1>1, <3>1 DEF LeavesAlone
    <3>4. LeavesAlone(q, x) /\ q.out = "pending"
      BY <3>1, <3>2, <3>3, CurFields
    <3>5. IsPicker(q) /\ q.skipQuiets \in BOOLEAN
      BY <3>3, <3>4 DEF LeavesAlone
    <3>6. o = NoneLeft(q, NoMove, w)
      BY <3>4 DEF OrNone, NoneLeft, w
    <3> HIDE DEF o
    <3>7. LeavesAlone(o, q) /\ o.out = NoMove
      BY <3>5, <3>6, NoneFields
    <3> QED BY <3>5, <3>7 DEF LeavesAlone
  <2>2. \A m \in TheOnes : m \in Between(p, 1, p.endCur) => m \in E
    <3> SUFFICES ASSUME NEW m \in TheOnes, m \in Between(p, 1, p.endCur) PROVE m \in E
      OBVIOUS
    <3>1. m \in E <=> m \in First \/ (m \in Between(p, 1, p.cur) /\ m \in TheOnes)
      BY <1>2
    <3>2. m = node.tt => m \in First
      BY <1>7
    <3>3. m # node.tt => m \in Between(p, 1, p.cur)
      BY <1>9
    <3> QED BY <3>1, <3>2, <3>3
  <2>3. \A m : m \in Between(p, 1, p.endCur) <=> IF node.kind = "evasion" THEN m \in AllMoves ELSE m \in ToSet(Captures)
    BY <1>3, <1>4, <1>6
  <2>4. node.good \subseteq ToSet(Captures) /\ ToSet(Captures) \subseteq AllMoves
    BY NodeFacts
  <2>5. \A m \in First : m \in E
    BY <1>2
  <2>6. AllReturned(o, E)
    <3>1. node.kind = "probcut" => \A m \in node.good : m \in E
      BY <2>2, <2>3, <2>4 DEF TheOnes, GoodCaptures
    <3>2. node.kind = "qsearch" => \A m \in ToSet(Captures) : m \in E
      BY <2>2, <2>3, <2>4 DEF TheOnes
    <3>3. node.kind = "evasion" => \A m \in AllMoves : m \in E
      BY <2>2, <2>3 DEF TheOnes
    <3> HIDE DEF o
    <3> QED BY <2>5, <3>1, <3>2, <3>3 DEF AllReturned
  <2> HIDE DEF o
  <2>7. Returns(o, E)
    BY <2>1, <2>6 DEF Returns
  <2> QED BY <2>7 DEF o
<1> HIDE DEF s, n
<1>10. \/ \E i \in p.cur .. p.endCur - 1 :
              /\ select(p, TheOnes) = MovesTo(p, i + 1, p.moves[i])
              /\ p.moves[i] \in TheOnes /\ p.moves[i] # node.tt
              /\ p.moves[i] \notin Between(p, 1, p.cur) /\ p.moves[i] \in Between(p, 1, p.endCur)
              /\ \A m : m # node.tt /\ m \in TheOnes =>
                   (m \in Between(p, 1, i + 1) <=> m \in Between(p, 1, p.cur) \/ m = p.moves[i])
       \/ /\ select(p, TheOnes) = PointsTo(Advance(p), p.endCur)
          /\ \A m : m # node.tt /\ m \in TheOnes =>
               (m \in Between(p, 1, p.endCur) <=> m \in Between(p, 1, p.cur))
  BY <1>5, PassGoesOn DEF s
<1> DEFINE q == select(p, TheOnes)
<1> HIDE DEF q
<1>11. CASE \E i \in p.cur .. p.endCur - 1 :
              /\ q = MovesTo(p, i + 1, p.moves[i])
              /\ p.moves[i] \in TheOnes /\ p.moves[i] # node.tt
              /\ p.moves[i] \notin Between(p, 1, p.cur) /\ p.moves[i] \in Between(p, 1, p.endCur)
              /\ \A m : m # node.tt /\ m \in TheOnes =>
                   (m \in Between(p, 1, i + 1) <=> m \in Between(p, 1, p.cur) \/ m = p.moves[i])
  <2>1. PICK i \in p.cur .. p.endCur - 1 :
              /\ q = MovesTo(p, i + 1, p.moves[i])
              /\ p.moves[i] \in TheOnes /\ p.moves[i] # node.tt
              /\ p.moves[i] \notin Between(p, 1, p.cur) /\ p.moves[i] \in Between(p, 1, p.endCur)
              /\ \A m : m # node.tt /\ m \in TheOnes =>
                   (m \in Between(p, 1, i + 1) <=> m \in Between(p, 1, p.cur) \/ m = p.moves[i])
    BY <1>11
  <2>2. Returns(OrNone(q), E)
    BY <1>8, <2>1 DEF s
  <2> QED BY <2>2 DEF q
<1>12. CASE /\ q = PointsTo(Advance(p), p.endCur)
            /\ \A m : m # node.tt /\ m \in TheOnes =>
                 (m \in Between(p, 1, p.endCur) <=> m \in Between(p, 1, p.cur))
  <2>1. Returns(OrNone(q), E)
    BY <1>9, <1>12
  <2> QED BY <2>1 DEF q
<1> QED BY <1>10, <1>11, <1>12 DEF q

\* The classes of moves.
LEMMA Classes ==
  ASSUME Generated, node \in Nodes, NEW m
  PROVE  /\ m \in node.good => Class(m) = 1 /\ InOrder(m)
         /\ m \in ToSet(Captures) /\ m \notin node.good => Class(m) = 3 /\ InOrder(m)
         /\ m \in ToSet(Quiets) /\ m \in GoodQuiets => Class(m) = 2
         /\ m \in ToSet(Quiets) /\ m \notin GoodQuiets => Class(m) = 4
         /\ m \in ToSet(Quiets) => ~IsCapture(m)
<1>1. node.good \subseteq ToSet(Captures) /\ \A v \in ToSet(Quiets) : v \notin ToSet(Captures)
  BY NodeFacts DEF Generated
<1> QED BY <1>1 DEF Class, InOrder, IsCapture, GoodCaptures

\* The filter of GOOD_CAPTURE leaves the picker at the next good capture, or at the end.
LEMMA Filtered ==
  ASSUME Generated, node \in Nodes, NEW p, NEW E, GoesOn(p, E, 3), node.kind = "main"
  PROVE  \E q, stop :
           /\ GoodCapture(p) = select(q, GoodCaptures)
           /\ IsPicker(q) /\ q.cur = stop /\ q.endCur = Len(Captures) + 1 /\ q.endCaptures = Len(Captures) + 1
           /\ q.stage = 3 /\ q.out = "pending" /\ q.skipQuiets \in BOOLEAN
           /\ SetAside(q.moves, q.endBadCaptures, stop, E)
           /\ stop <= Len(Captures) => q.moves[stop] \in GoodCaptures /\ q.moves[stop] # node.tt
<1> DEFINE c == Len(Captures)  stop == Found(p, GoodCaptures)
           f == CHOOSE g : SetsAside(p.cur - 1, stop - 1, g, p)
           x == f[stop - 1]  q == [x EXCEPT !.cur = stop]
<1>1. /\ IsPicker(p) /\ p.out = "pending" /\ p.skipQuiets \in BOOLEAN /\ p.stage = 3 /\ InGoodCaptures(p, E)
      /\ p.endCur = c + 1 /\ p.endCaptures = c + 1 /\ SetAside(p.moves, p.endBadCaptures, p.cur, E)
  <2>1. IsPicker(p) /\ p.out = "pending" /\ p.skipQuiets \in BOOLEAN /\ p.stage = 3 /\ InGoodCaptures(p, E)
    BY GoingOn
  <2> QED BY <2>1 DEF InGoodCaptures
<1>2. c \in Nat /\ p.cur \in 1 .. c + 1
  <2>1. Captures \in Seq(AllMoves)
    BY DEF Generated
  <2> QED BY <1>1, <2>1 DEF SetAside
<1>3. /\ stop \in p.cur .. c + 1
      /\ \A j \in p.cur .. stop - 1 : p.moves[j] \notin GoodCaptures \/ p.moves[j] = node.tt
      /\ stop <= c => p.moves[stop] \in GoodCaptures /\ p.moves[stop] # node.tt
  <2>1. p.cur \in Nat /\ p.endCur \in Nat /\ p.cur <= p.endCur /\ p.endCur - 1 = c
    BY <1>1, <1>2
  <2>2. \/ \E i \in p.cur .. p.endCur - 1 :
              /\ p.moves[i] \in GoodCaptures /\ p.moves[i] # node.tt /\ stop = i
              /\ \A j \in p.cur .. i - 1 : p.moves[j] \notin GoodCaptures \/ p.moves[j] = node.tt
        \/ /\ \A j \in p.cur .. p.endCur - 1 : p.moves[j] \notin GoodCaptures \/ p.moves[j] = node.tt
           /\ stop = p.endCur
    BY <2>1, Selects
  <2> HIDE DEF stop, c
  <2>3. CASE stop = p.endCur /\ \A j \in p.cur .. p.endCur - 1 : p.moves[j] \notin GoodCaptures \/ p.moves[j] = node.tt
    BY <1>1, <1>2, <2>1, <2>3
  <2>4. CASE \E i \in p.cur .. p.endCur - 1 :
              /\ p.moves[i] \in GoodCaptures /\ p.moves[i] # node.tt /\ stop = i
              /\ \A j \in p.cur .. i - 1 : p.moves[j] \notin GoodCaptures \/ p.moves[j] = node.tt
    BY <1>1, <1>2, <2>1, <2>4
  <2> QED BY <2>2, <2>3, <2>4
<1>4. GoodCapture(p) = select(q, GoodCaptures)
  BY FilterIsRecursive
<1> HIDE DEF stop
<1>5. SetsAside(p.cur - 1, stop - 1, f, p)
  <2> DEFINE n == stop - p.cur
  <2>1. p.cur \in Nat /\ n \in Nat /\ (p.cur - 1) + n = stop - 1
    BY <1>2, <1>3
  <2> HIDE DEF n
  <2>2. \E g : SetsAside(p.cur - 1, p.cur - 1 + n, g, p)
    BY <2>1, FilterGoesOn
  <2>3. \E g : SetsAside(p.cur - 1, stop - 1, g, p)
    BY <2>1, <2>2
  <2> QED BY <2>3
<1> HIDE DEF f
<1>6. AsideTo(stop - 1, x, p, E)
  <2>1. stop - 1 \in p.cur - 1 .. stop - 1
    BY <1>2, <1>3
  <2>2. stop \in p.cur .. Len(Captures) + 1
    BY <1>3
  <2> QED BY <1>1, <1>3, <1>5, <2>1, <2>2, AsideSoFar
<1> HIDE DEF x
<1>7. /\ IsPicker(x) /\ x.endCur = c + 1 /\ x.endCaptures = c + 1 /\ x.stage = 3 /\ x.out = "pending"
      /\ x.skipQuiets \in BOOLEAN
  <2>1. x = [p EXCEPT !.moves = x.moves, !.endBadCaptures = x.endBadCaptures]
    BY <1>6 DEF AsideTo
  <2>2. p = [g \in Fields \cup {"out"} |-> p[g]]
    BY <1>1 DEF IsPicker
  <2> DEFINE s == x.moves  e == x.endBadCaptures
  <2> HIDE DEF s, e
  <2>3. x = [p EXCEPT !.moves = s, !.endBadCaptures = e]
    BY <2>1 DEF s, e
  <2> HIDE DEF c
  <2> QED BY <1>1, <2>2, <2>3 DEF IsPicker, Fields
<1>8. (stop - 1) + 1 = stop
  BY <1>2, <1>3
<1>9. /\ SetAside(x.moves, x.endBadCaptures, stop, E)
      /\ \A j \in stop .. c : x.moves[j] = p.moves[j]
  BY <1>6, <1>8 DEF AsideTo
<1>10. stop <= c => x.moves[stop] \in GoodCaptures /\ x.moves[stop] # node.tt
  <2>1. stop <= c => stop \in stop .. c
    BY <1>2, <1>3
  <2> QED BY <1>3, <1>9, <2>1
<1>11. LeavesAlone(q, x) /\ q.out = x.out /\ q.cur = stop /\ q.endCur = x.endCur /\ q.stage = x.stage
  <2>1. q = PointsTo(x, stop)
    BY DEF PointsTo
  <2> HIDE DEF q
  <2> QED BY <1>7, <2>1, CurFields
<1> HIDE DEF q
<1> QED BY <1>4, <1>7, <1>9, <1>10, <1>11 DEF LeavesAlone

\* The pass over the captures returns the best good one left, or goes on to the quiets.
LEMMA GoodCaptureCase ==
  ASSUME Generated, node \in Nodes, NEW p, NEW E, GoesOn(p, E, 3), node.kind = "main"
  PROVE  Returns(GoodCapture(p), E) \/ GoesOn(GoodCapture(p), E, 4)
<1> DEFINE c == Len(Captures)
<1>1. PICK q, stop :
           /\ GoodCapture(p) = select(q, GoodCaptures)
           /\ IsPicker(q) /\ q.cur = stop /\ q.endCur = Len(Captures) + 1 /\ q.endCaptures = Len(Captures) + 1
           /\ q.stage = 3 /\ q.out = "pending" /\ q.skipQuiets \in BOOLEAN
           /\ SetAside(q.moves, q.endBadCaptures, stop, E)
           /\ stop <= Len(Captures) => q.moves[stop] \in GoodCaptures /\ q.moves[stop] # node.tt
  BY Filtered
<1> DEFINE s == q.moves  e == q.endBadCaptures  r == select(q, GoodCaptures)
<1>2. /\ s \in Seq(AllMoves) /\ Len(s) = c /\ c \in Nat
      /\ \A i \in 1 .. c : s[i] \in AllMoves
      /\ \A i, j \in 1 .. c : s[i] = s[j] => i = j
      /\ \A m : m \in ToSet(Captures) <=> \E i \in 1 .. c : s[i] = m
  <2>1. Arranges(s, Captures) /\ Captures \in Seq(AllMoves)
    BY <1>1 DEF SetAside, Generated
  <2>2. 0 \in Int
    OBVIOUS
  <2>3. \A m : m \in ToSet(Captures) <=> \E i \in 1 .. c : Captures[i] = m
    BY <2>2, ListsFacts
  <2> HIDE DEF s
  <2>4. /\ s \in Seq(AllMoves) /\ Len(s) = c /\ c \in Nat /\ \A i \in 1 .. c : s[i] \in AllMoves
        /\ \A i, j \in 1 .. c : s[i] = s[j] => i = j
    BY <2>1, ArrangedFacts
  <2>5. \A m : (\E i \in 1 .. c : s[i] = m) <=> \E i \in 1 .. c : Captures[i] = m
    BY <2>1, ArrangedFacts
  <2> HIDE DEF c
  <2> QED BY <2>3, <2>4, <2>5
<1>3. /\ stop \in 1 .. c + 1 /\ e \in 1 .. stop
      /\ \A i \in 1 .. e - 1 : s[i] \notin node.good /\ s[i] # node.tt
      /\ \A i \in e .. stop - 1 : s[i] \in node.good \/ s[i] = node.tt
      /\ \A i, j \in 1 .. c : i < j /\ (j < e \/ stop <= j) => node.score[s[i]] >= node.score[s[j]]
      /\ \A m : m \in E <=> m \in First \/ \E i \in e .. stop - 1 : s[i] = m
  BY <1>1 DEF SetAside
<1>4. \A m \in AllMoves : m = node.tt => m \in First
  BY <1>1, FirstFacts
<1>5. \/ \E i \in stop .. c :
              /\ s[i] \in GoodCaptures /\ s[i] # node.tt
              /\ \A j \in stop .. i - 1 : s[j] \notin GoodCaptures \/ s[j] = node.tt
              /\ r = MovesTo(q, i + 1, s[i])
      \/ /\ \A j \in stop .. c : s[j] \notin GoodCaptures \/ s[j] = node.tt
         /\ r = PointsTo(Advance(q), q.endCur)
  <2>1. q.cur = stop /\ q.cur \in Nat /\ q.endCur \in Nat /\ q.cur <= q.endCur /\ q.endCur - 1 = c
    BY <1>1, <1>2, <1>3
  <2>2. \/ \E i \in q.cur .. q.endCur - 1 :
              /\ s[i] \in GoodCaptures /\ s[i] # node.tt
              /\ \A j \in q.cur .. i - 1 : s[j] \notin GoodCaptures \/ s[j] = node.tt
              /\ r = MovesTo(q, i + 1, s[i])
      \/ /\ \A j \in q.cur .. q.endCur - 1 : s[j] \notin GoodCaptures \/ s[j] = node.tt
         /\ r = PointsTo(Advance(q), q.endCur)
    BY <2>1, Selects
  <2> HIDE DEF s, r, c
  <2> QED BY <2>1, <2>2
<1> HIDE DEF r, s, e
<1>6. CASE stop <= c
  <2>0. stop \in stop .. c /\ stop \in 1 .. c
    BY <1>2, <1>3, <1>6
  <2>1. s[stop] \in GoodCaptures /\ s[stop] # node.tt
    BY <1>1, <1>6 DEF s
  <2>2. r = MovesTo(q, stop + 1, s[stop])
    <3>1. ~\A j \in stop .. c : s[j] \notin GoodCaptures \/ s[j] = node.tt
      BY <2>0, <2>1
    <3>2. PICK i \in stop .. c :
              /\ \A j \in stop .. i - 1 : s[j] \notin GoodCaptures \/ s[j] = node.tt
              /\ r = MovesTo(q, i + 1, s[i])
      BY <1>5, <3>1
    <3>3. i = stop
      <4>1. i > stop => stop \in stop .. i - 1
        BY <2>0
      <4> QED BY <2>0, <2>1, <3>2, <4>1
    <3> QED BY <3>2, <3>3
  <2>3. LeavesAlone(r, q) /\ r.out = s[stop] /\ r.cur = stop + 1 /\ r.endCur = c + 1 /\ r.stage = 3
    <3> DEFINE v == stop + 1  w == s[stop]
    <3>1. r = MovesTo(q, v, w)
      BY <2>2 DEF MovesTo
    <3> HIDE DEF v, w
    <3>2. LeavesAlone(r, q) /\ r.out = w /\ r.cur = v /\ r.endCur = q.endCur /\ r.stage = q.stage
      BY <1>1, <3>1, CurOutFields
    <3> QED BY <1>1, <3>2 DEF v, w
  <2>4. IsPicker(r) /\ r.moves = s /\ r.endBadCaptures = e /\ r.endCaptures = c + 1 /\ r.skipQuiets \in BOOLEAN
    BY <1>1, <2>3 DEF LeavesAlone, s, e
  <2>5. s[stop] \notin E /\ SetAside(s, e, stop + 1, E \cup {s[stop]})
    <3>1. SetAside(s, e, stop, E) /\ stop \in 1 .. Len(Captures) /\ s[stop] \in node.good /\ s[stop] # node.tt
      BY <1>1, <2>0, <2>1 DEF GoodCaptures, s, e
    <3> QED BY <3>1, OnePassed
  <2>6. Ready(r, E \cup {r.out})
    <3>1. InGoodCaptures(r, E \cup {r.out})
      BY <2>3, <2>4, <2>5 DEF InGoodCaptures
    <3> QED BY <1>1, <2>4, <3>1 DEF Ready
  <2>7. ASSUME NEW m \in E PROVE m \in First \/ Precedes(m, r.out)
    <3> SUFFICES ASSUME m \notin First PROVE Precedes(m, r.out)
      OBVIOUS
    <3>1. PICK i \in e .. stop - 1 : s[i] = m
      BY <1>3
    <3>2. i \in 1 .. c /\ i < stop /\ stop \in 1 .. c
      BY <1>2, <1>3, <2>0
    <3>3. m \in node.good
      BY <1>2, <1>3, <1>4, <3>1, <3>2
    <3>4. node.score[m] >= node.score[r.out]
      <4>1. stop <= stop
        BY <2>0
      <4> QED BY <1>3, <2>3, <3>1, <3>2, <4>1
    <3>5. r.out \in node.good
      BY <2>1, <2>3 DEF GoodCaptures
    <3> QED BY <3>3, <3>4, <3>5, Classes DEF Precedes
  <2>8. E = {} /\ First # {} => r.out = node.tt
    BY <1>3
  <2>9. r.out \in AllMoves
    BY <1>2, <2>0, <2>3
  <2>10. Returns(r, E)
    BY <1>1, <2>3, <2>4, <2>5, <2>6, <2>7, <2>8, <2>9 DEF Returns
  <2> QED BY <1>1, <2>10 DEF r
<1>7. CASE ~(stop <= c)
  <2>1. stop = c + 1
    BY <1>2, <1>3, <1>7
  <2>2. r = PointsTo(Advance(q), q.endCur)
    <3>1. \A i \in stop .. c : FALSE
      BY <1>2, <2>1
    <3> QED BY <1>5, <3>1
  <2>3. /\ IsPicker(r) /\ r.moves = s /\ r.endBadCaptures = e /\ r.endCaptures = c + 1 /\ r.skipQuiets \in BOOLEAN
        /\ r.out = "pending" /\ r.cur = c + 1 /\ r.stage = 4
    <3> DEFINE x == Advance(q)  v == q.endCur
    <3>1. LeavesAlone(x, q) /\ x.out = "pending" /\ x.stage = 4
      BY <1>1, AdvanceFields
    <3>2. r = PointsTo(x, v) /\ v = c + 1
      BY <1>1, <2>2 DEF PointsTo
    <3> HIDE DEF x, v
    <3>3. IsPicker(x) /\ x.moves = s /\ x.endBadCaptures = e /\ x.endCaptures = c + 1 /\ x.skipQuiets \in BOOLEAN
      BY <1>1, <3>1 DEF LeavesAlone, s, e
    <3>4. LeavesAlone(r, x) /\ r.out = x.out /\ r.cur = v /\ r.stage = x.stage
      BY <3>2, <3>3, CurFields
    <3> QED BY <3>1, <3>2, <3>3, <3>4 DEF LeavesAlone
  <2>4. Captured(r)
    <3>1. e \in 1 .. c + 1 /\ e \in Nat
      BY <1>2, <1>3, <2>1
    <3>2. \A i \in 1 .. e - 1 : i \in 1 .. c /\ i < e
      BY <1>2, <3>1
    <3>3. \A i, j \in 1 .. e - 1 : (s[i] = s[j] => i = j) /\ (i < j => node.score[s[i]] >= node.score[s[j]])
      BY <1>2, <1>3, <3>2
    <3>4. ASSUME NEW m
          PROVE  m \in Between(r, 1, e) <=> m \in ToSet(Captures) /\ m \notin node.good /\ m # node.tt
      <4>1. m \in Between(r, 1, e) <=> \E i \in 1 .. e - 1 : s[i] = m
        BY <2>3 DEF Between
      <4>2. ASSUME NEW i \in 1 .. c, s[i] \notin node.good, s[i] # node.tt PROVE i \in 1 .. e - 1
        <5>1. i \notin e .. stop - 1
          BY <1>3, <4>2
        <5> QED BY <1>2, <2>1, <3>1, <5>1
      <4> QED BY <1>2, <1>3, <3>2, <4>1, <4>2
    <3> QED BY <2>3, <3>1, <3>3, <3>4 DEF Captured, c
  <2>5. ASSUME NEW m PROVE m \in E <=> m \in First \/ m \in node.good
    <3>1. m \in E <=> m \in First \/ \E i \in e .. stop - 1 : s[i] = m
      BY <1>3
    <3>2. ASSUME NEW i \in e .. stop - 1, s[i] = m PROVE m \in First \/ m \in node.good
      <4>1. i \in 1 .. c
        BY <1>2, <1>3, <2>1
      <4> QED BY <1>2, <1>3, <1>4, <3>2, <4>1
    <3>3. ASSUME m \in node.good PROVE \E i \in e .. stop - 1 : s[i] = m
      <4>1. m \in ToSet(Captures)
        BY <3>3, NodeFacts
      <4>2. PICK i \in 1 .. c : s[i] = m
        BY <1>2, <4>1
      <4>3. i \notin 1 .. e - 1
        BY <1>3, <3>3, <4>2
      <4>4. i \in e .. stop - 1
        BY <1>2, <1>3, <2>1, <4>3
      <4> QED BY <4>2, <4>4
    <3> QED BY <3>1, <3>2, <3>3
  <2>6. BeforeQuiets(r, E)
    BY <1>2, <2>3, <2>4, <2>5 DEF BeforeQuiets, c
  <2>7. GoesOn(r, E, 4)
    BY <1>1, <2>3, <2>6 DEF GoesOn
  <2> QED BY <1>1, <2>7 DEF r
<1> QED BY <1>6, <1>7

\* What depends on the array and its pointers alone stays.
LEMMA StaysIn ==
  ASSUME NEW p, NEW q, LeavesAlone(q, p)
  PROVE  /\ Captured(p) => Captured(q)
         /\ QuietsIn(p) => QuietsIn(q)
         /\ \A a, b : Between(q, a, b) = Between(p, a, b)
<1>1. /\ q.moves = p.moves /\ q.endBadCaptures = p.endBadCaptures
      /\ q.endCaptures = p.endCaptures /\ q.endGenerated = p.endGenerated
  BY DEF LeavesAlone
<1>2. \A a, b : Between(q, a, b) = Between(p, a, b)
  BY <1>1 DEF Between
<1>3. Captured(p) => Captured(q)
  BY <1>1, <1>2 DEF Captured
<1>4. QuietsIn(p) => QuietsIn(q)
  BY <1>1, <1>2 DEF QuietsIn
<1> QED BY <1>2, <1>3, <1>4

\* The quiet moves are generated behind the captures and sorted, unless they are skipped.
LEMMA QuietInitCase ==
  ASSUME Generated, node \in Nodes, NEW p, NEW E, GoesOn(p, E, 4)
  PROVE  GoesOn(QuietInit(p), E, 5)
<1> DEFINE c == Len(Captures)  n == Len(Quiets)  x == QuietInit(p)
<1>1. /\ IsPicker(p) /\ p.out = "pending" /\ p.skipQuiets \in BOOLEAN /\ p.stage = 4
      /\ node.kind = "main" /\ BeforeQuiets(p, E)
  BY GoingOn
<1>2. /\ Captured(p) /\ p.moves \in Seq(AllMoves) /\ Len(p.moves) = c /\ p.cur = c + 1
      /\ \A m : m \in E <=> m \in First \/ m \in node.good
  BY <1>1 DEF BeforeQuiets
<1>3. CASE p.skipQuiets
  <2>1. x = Advance(p)
    BY <1>3 DEF QuietInit
  <2>2. LeavesAlone(x, p) /\ x.out = "pending" /\ x.stage = 5
    <3>1. LeavesAlone(Advance(p), p) /\ Advance(p).out = p.out /\ Advance(p).stage = p.stage + 1
      BY <1>1, AdvanceFields
    <3> HIDE DEF x
    <3> QED BY <1>1, <2>1, <3>1
  <2> HIDE DEF x
  <2>3. Captured(x)
    BY <1>2, <2>2, StaysIn
  <2>4. IsPicker(x) /\ x.skipQuiets
    BY <1>3, <2>2 DEF LeavesAlone
  <2>5. InGoodQuiets(x, E)
    BY <1>2, <2>2, <2>3, <2>4 DEF InGoodQuiets
  <2>6. Ready(x, E)
    BY <1>1, <1>3, <2>2, <2>4, <2>5 DEF Ready, LeavesAlone
  <2> QED BY <1>1, <2>2, <2>4, <2>6 DEF GoesOn, LeavesAlone, x
<1>4. CASE ~p.skipQuiets
  <2> DEFINE l == -3560 * node.depth  r == partial_insertion_sort(Quiets, node.score, l)
             s == p.moves \o r
  <2>1. l \in Int
    BY NodeFacts
  <2> HIDE DEF l
  <2>2. /\ Sortable(Quiets, node.score, l) /\ c \in Nat /\ n \in Nat
        /\ \A m : m \in ToSet(Quiets) <=> \E i \in 1 .. n : Quiets[i] = m
    BY <2>1, ListsFacts
  <2>3. p.moves \in Seq(AllMoves) /\ p.cur = Len(p.moves) + 1
    BY <1>2
  <2>4. generate(p, Quiets, l) = [p EXCEPT !.moves = s, !.endCur = p.cur + n]
    BY <2>2, <2>3, Generates
  <2>5. /\ Arranges(r, Quiets)
        /\ \A i, j \in 1 .. n :
             i < j /\ node.score[r[i]] >= l /\ node.score[r[j]] >= l => node.score[r[i]] >= node.score[r[j]]
    BY <2>2, PartialSort
  <2> HIDE DEF r
  <2>6. /\ r \in Seq(AllMoves) /\ Len(r) = n
        /\ \A i, j \in 1 .. n : r[i] = r[j] => i = j
        /\ \A m : m \in ToSet(Quiets) <=> \E i \in 1 .. n : r[i] = m
    <3>1. Quiets \in Seq(AllMoves)
      BY DEF Generated
    <3>2. r \in Seq(AllMoves) /\ Len(r) = n /\ \A i, j \in 1 .. n : r[i] = r[j] => i = j
      BY <2>5, <3>1, ArrangedFacts
    <3>3. \A m : (\E i \in 1 .. n : r[i] = m) <=> \E i \in 1 .. n : Quiets[i] = m
      BY <2>5, <3>1, ArrangedFacts
    <3> QED BY <2>2, <3>2, <3>3
  <2>7. /\ \A i \in 1 .. c : s[i] = p.moves[i]
        /\ \A i \in c + 1 .. c + n : i - c \in 1 .. n /\ s[i] = r[i - c]
    <3> DEFINE t == p.moves
    <3>1. t \in Seq(AllMoves) /\ Len(t) = c /\ s = t \o r
      BY <1>2
    <3> HIDE DEF s, t
    <3>2. /\ \A i \in 1 .. c : s[i] = t[i]
          /\ \A i \in c + 1 .. c + n : i - c \in 1 .. n /\ s[i] = r[i - c]
      <4>1. \A i \in 1 .. c + n : (t \o r)[i] = IF i <= c THEN t[i] ELSE r[i - c]
        BY <2>6, <3>1, ConcatProperties
      <4>2. ASSUME NEW i \in 1 .. c PROVE s[i] = t[i]
        <5>1. i \in 1 .. c + n /\ i <= c
          BY <2>2
        <5> QED BY <3>1, <4>1, <5>1
      <4>3. ASSUME NEW i \in c + 1 .. c + n PROVE i - c \in 1 .. n /\ s[i] = r[i - c]
        <5>1. i \in 1 .. c + n /\ ~(i <= c) /\ i - c \in 1 .. n
          BY <2>2
        <5> QED BY <3>1, <4>1, <5>1
      <4> QED BY <4>2, <4>3
    <3> QED BY <3>2 DEF t
  <2> HIDE DEF s
  <2>8. /\ IsPicker(x) /\ x.moves = s /\ x.cur = c + 1 /\ x.endCur = AllGenerated
        /\ x.endBadCaptures = p.endBadCaptures /\ x.endCaptures = p.endCaptures
        /\ x.endGenerated = AllGenerated /\ x.stage = 5 /\ x.out = "pending" /\ x.skipQuiets \in BOOLEAN
    <3> DEFINE z == p.cur + n
    <3>1. x = QuietsFill(p, s, z)
      <4> DEFINE g == generate(p, Quiets, l)
      <4>1. x = Advance([g EXCEPT !.endGenerated = g.endCur])
        BY <1>4, SMT DEF QuietInit, l
      <4>2. g = [p EXCEPT !.moves = s, !.endCur = z]
        BY <2>4
      <4> HIDE DEF g, x, z
      <4> QED BY <4>1, <4>2, Zenon DEF QuietsFill
    <3>2. z = AllGenerated
      BY <1>2, <2>2 DEF AllGenerated
    <3> HIDE DEF x, z
    <3>3. /\ IsPicker(x) /\ x.moves = s /\ x.cur = p.cur /\ x.endCur = z
          /\ x.endBadCaptures = p.endBadCaptures /\ x.endCaptures = p.endCaptures /\ x.endGenerated = z
          /\ x.stage = p.stage + 1 /\ x.out = p.out /\ x.skipQuiets = p.skipQuiets
      BY <1>1, <3>1, QuietInitFields
    <3> QED BY <1>1, <1>2, <3>2, <3>3
  <2> HIDE DEF x
  <2>9. Captured(x)
    <3> DEFINE e == p.endBadCaptures
    <3>1. /\ e \in 1 .. c + 1 /\ p.endCaptures = c + 1
          /\ \A i, j \in 1 .. e - 1 :
               /\ p.moves[i] = p.moves[j] => i = j
               /\ i < j => node.score[p.moves[i]] >= node.score[p.moves[j]]
          /\ \A m : m \in Between(p, 1, e) <=> m \in ToSet(Captures) /\ m \notin node.good /\ m # node.tt
      BY <1>2 DEF Captured
    <3>2. \A i \in 1 .. e - 1 : x.moves[i] = p.moves[i]
      <4>1. \A i \in 1 .. e - 1 : i \in 1 .. c
        BY <2>2, <3>1
      <4> QED BY <2>7, <2>8, <4>1
    <3>3. Between(x, 1, e) = Between(p, 1, e)
      BY <3>2 DEF Between
    <3> QED BY <2>8, <3>1, <3>2, <3>3 DEF Captured
  <2>10. QuietsIn(x)
    <3>1. AllGenerated - 1 = c + n
      BY <2>2 DEF AllGenerated
    <3>2. ASSUME NEW i \in c + 1 .. c + n, NEW j \in c + 1 .. c + n
          PROVE  /\ s[i] = s[j] => i = j
                 /\ (i < j /\ node.score[s[i]] >= l /\ node.score[s[j]] >= l) => node.score[s[i]] >= node.score[s[j]]
      <4> DEFINE a == i - c  b == j - c
      <4>1. a \in 1 .. n /\ b \in 1 .. n /\ s[i] = r[a] /\ s[j] = r[b]
        BY <2>7
      <4>2. (a = b => i = j) /\ (i < j => a < b)
        BY <2>2
      <4> HIDE DEF a, b
      <4> QED BY <2>5, <2>6, <4>1, <4>2
    <3>3. ASSUME NEW m PROVE m \in Between(x, c + 1, AllGenerated) <=> m \in ToSet(Quiets)
      <4>1. m \in Between(x, c + 1, AllGenerated) <=> \E i \in c + 1 .. c + n : s[i] = m
        BY <2>8, <3>1 DEF Between
      <4>2. ASSUME NEW i \in 1 .. n PROVE i + c \in c + 1 .. c + n /\ s[i + c] = r[i]
        <5>1. i + c \in c + 1 .. c + n /\ (i + c) - c = i
          BY <2>2
        <5> QED BY <2>7, <5>1
      <4>3. (\E i \in c + 1 .. c + n : s[i] = m) <=> \E i \in 1 .. n : r[i] = m
        BY <2>7, <4>2
      <4> QED BY <2>6, <4>1, <4>3
    <3> QED BY <2>8, <3>1, <3>2, <3>3 DEF QuietsIn, l
  <2>11. InGoodQuiets(x, E)
    <3>1. x.cur \in Len(Captures) + 1 .. AllGenerated
      BY <2>2, <2>8 DEF AllGenerated
    <3>2. \A m : m \notin Between(x, Len(Captures) + 1, x.cur)
      BY <2>2, <2>8 DEF Between
    <3> QED BY <1>2, <2>8, <2>9, <2>10, <3>1, <3>2 DEF InGoodQuiets
  <2>12. Ready(x, E)
    BY <1>1, <2>8, <2>11 DEF Ready
  <2> QED BY <2>8, <2>12 DEF GoesOn, x
<1> QED BY <1>1, <1>3, <1>4

\* The picker returns the move at place i, a new one that passes.
Took(p, q, passing, lo, i) ==
  /\ LeavesAlone(q, p) /\ q.out = p.moves[i] /\ q.cur = i + 1 /\ q.endCur = p.endCur /\ q.stage = p.stage
  /\ p.moves[i] \in passing /\ p.moves[i] # node.tt
  /\ p.moves[i] \notin Between(p, lo, p.cur) /\ p.moves[i] \in Between(p, lo, p.endCur)
  /\ \A m : m # node.tt /\ m \in passing =>
       (m \in Between(p, lo, i + 1) <=> m \in Between(p, lo, p.cur) \/ m = p.moves[i])

\* The pass has ended: it has gone over whatever passes.
Ended(p, q, passing, lo) ==
  /\ LeavesAlone(q, p) /\ q.out = p.out /\ q.stage = p.stage + 1
  /\ \A m : m # node.tt /\ m \in passing =>
       (m \in Between(p, lo, p.endCur) <=> m \in Between(p, lo, p.cur))

\* A pass does one or the other.
LEMMA Passes ==
  ASSUME NEW p, NEW passing, NEW lo, IsPicker(p), p.cur \in Nat, p.endCur \in Nat, lo \in 1 .. p.cur,
         p.cur <= p.endCur,
         \A i, j \in lo .. p.endCur - 1 : p.moves[i] = p.moves[j] => i = j
  PROVE  \/ \E i \in p.cur .. p.endCur - 1 : Took(p, select(p, passing), passing, lo, i)
         \/ Ended(p, select(p, passing), passing, lo)
<1> DEFINE q == select(p, passing)
<1>1. \/ \E i \in p.cur .. p.endCur - 1 :
              /\ q = MovesTo(p, i + 1, p.moves[i])
              /\ p.moves[i] \in passing /\ p.moves[i] # node.tt
              /\ p.moves[i] \notin Between(p, lo, p.cur) /\ p.moves[i] \in Between(p, lo, p.endCur)
              /\ \A m : m # node.tt /\ m \in passing =>
                   (m \in Between(p, lo, i + 1) <=> m \in Between(p, lo, p.cur) \/ m = p.moves[i])
      \/ /\ q = PointsTo(Advance(p), p.endCur)
         /\ \A m : m # node.tt /\ m \in passing =>
              (m \in Between(p, lo, p.endCur) <=> m \in Between(p, lo, p.cur))
  BY PassGoesOn
<1> HIDE DEF q
<1>2. ASSUME NEW i \in p.cur .. p.endCur - 1, q = MovesTo(p, i + 1, p.moves[i])
      PROVE  LeavesAlone(q, p) /\ q.out = p.moves[i] /\ q.cur = i + 1 /\ q.endCur = p.endCur /\ q.stage = p.stage
  <2> DEFINE v == i + 1  w == p.moves[i]
  <2>1. q = MovesTo(p, v, w)
    BY <1>2 DEF MovesTo
  <2> HIDE DEF v, w
  <2>2. LeavesAlone(q, p) /\ q.out = w /\ q.cur = v /\ q.endCur = p.endCur /\ q.stage = p.stage
    BY <2>1, CurOutFields
  <2> QED BY <2>2 DEF v, w
<1>3. ASSUME q = PointsTo(Advance(p), p.endCur)
      PROVE  LeavesAlone(q, p) /\ q.out = p.out /\ q.stage = p.stage + 1
  <2> DEFINE x == Advance(p)  v == p.endCur
  <2>1. LeavesAlone(x, p) /\ x.out = p.out /\ x.stage = p.stage + 1
    BY AdvanceFields
  <2>2. q = PointsTo(x, v)
    BY <1>3 DEF PointsTo
  <2> HIDE DEF x, v
  <2>3. IsPicker(x)
    BY <2>1 DEF LeavesAlone
  <2>4. LeavesAlone(q, x) /\ q.out = x.out /\ q.stage = x.stage
    BY <2>2, <2>3, CurFields
  <2> QED BY <2>1, <2>4 DEF LeavesAlone
<1>4. CASE \E i \in p.cur .. p.endCur - 1 :
              /\ q = MovesTo(p, i + 1, p.moves[i])
              /\ p.moves[i] \in passing /\ p.moves[i] # node.tt
              /\ p.moves[i] \notin Between(p, lo, p.cur) /\ p.moves[i] \in Between(p, lo, p.endCur)
              /\ \A m : m # node.tt /\ m \in passing =>
                   (m \in Between(p, lo, i + 1) <=> m \in Between(p, lo, p.cur) \/ m = p.moves[i])
  <2>1. PICK i \in p.cur .. p.endCur - 1 :
              /\ q = MovesTo(p, i + 1, p.moves[i])
              /\ p.moves[i] \in passing /\ p.moves[i] # node.tt
              /\ p.moves[i] \notin Between(p, lo, p.cur) /\ p.moves[i] \in Between(p, lo, p.endCur)
              /\ \A m : m # node.tt /\ m \in passing =>
                   (m \in Between(p, lo, i + 1) <=> m \in Between(p, lo, p.cur) \/ m = p.moves[i])
    BY <1>4
  <2>2. Took(p, q, passing, lo, i)
    BY <1>2, <2>1 DEF Took
  <2> QED BY <2>2 DEF q
<1>5. CASE /\ q = PointsTo(Advance(p), p.endCur)
           /\ \A m : m # node.tt /\ m \in passing =>
                (m \in Between(p, lo, p.endCur) <=> m \in Between(p, lo, p.cur))
  <2>1. Ended(p, q, passing, lo)
    BY <1>3, <1>5 DEF Ended
  <2> QED BY <2>1 DEF q
<1> QED BY <1>1, <1>4, <1>5

\* What is known in a pass over the quiet moves.
LEMMA InQuiets ==
  ASSUME Generated, node \in Nodes, NEW p, IsPicker(p), QuietsIn(p), p.endCur = AllGenerated,
         p.cur \in Len(Captures) + 1 .. AllGenerated, NEW passing
  PROVE  /\ \/ \E i \in p.cur .. AllGenerated - 1 : Took(p, select(p, passing), passing, Len(Captures) + 1, i)
            \/ Ended(p, select(p, passing), passing, Len(Captures) + 1)
         /\ \A i \in p.cur .. AllGenerated - 1 :
              /\ i + 1 \in Len(Captures) + 1 .. AllGenerated /\ p.moves[i] \in ToSet(Quiets)
              /\ \A m \in Between(p, Len(Captures) + 1, p.cur) :
                   m \in ToSet(Quiets) /\ (InOrder(m) /\ InOrder(p.moves[i]) => node.score[m] >= node.score[p.moves[i]])
         /\ \A m : m \in Between(p, Len(Captures) + 1, p.endCur) <=> m \in ToSet(Quiets)
         /\ \A m \in Between(p, Len(Captures) + 1, p.cur) : m \in ToSet(Quiets)
<1> DEFINE lo == Len(Captures) + 1  z == AllGenerated  s == p.moves  l == -3560 * node.depth
<1>1. lo \in Nat /\ z \in Nat /\ lo >= 1 /\ lo <= p.cur /\ p.cur <= z /\ p.cur \in Nat
  <2>1. 0 \in Int
    OBVIOUS
  <2>2. Len(Captures) \in Nat /\ Len(Quiets) \in Nat
    BY <2>1, ListsFacts
  <2> QED BY <2>2 DEF AllGenerated
<1>2. /\ \A i, j \in lo .. z - 1 :
           /\ s[i] = s[j] => i = j
           /\ (i < j /\ node.score[s[i]] >= l /\ node.score[s[j]] >= l) => node.score[s[i]] >= node.score[s[j]]
      /\ \A m : m \in Between(p, lo, z) <=> m \in ToSet(Quiets)
  BY DEF QuietsIn
<1>3. \A m : InOrder(m) /\ m \in ToSet(Quiets) => node.score[m] >= l
  BY Classes DEF InOrder
<1> HIDE DEF lo, z, s, l
<1>4. \/ \E i \in p.cur .. z - 1 : Took(p, select(p, passing), passing, lo, i)
      \/ Ended(p, select(p, passing), passing, lo)
  <2>1. p.endCur = z
    BY DEF z
  <2>2. p.cur \in Nat /\ p.endCur \in Nat /\ lo \in 1 .. p.cur /\ p.cur <= p.endCur
    BY <1>1, <2>1
  <2>3. \A i, j \in lo .. p.endCur - 1 : p.moves[i] = p.moves[j] => i = j
    BY <1>2, <2>1 DEF s
  <2>4. \/ \E i \in p.cur .. p.endCur - 1 : Took(p, select(p, passing), passing, lo, i)
        \/ Ended(p, select(p, passing), passing, lo)
    BY <2>2, <2>3, Passes
  <2> QED BY <2>1, <2>4
<1>5. \A i \in lo .. z - 1 : s[i] \in ToSet(Quiets)
  <2>1. \A i \in lo .. z - 1 : s[i] \in Between(p, lo, z)
    BY DEF Between, s
  <2> QED BY <1>2, <2>1
<1>6. ASSUME NEW m \in Between(p, lo, p.cur) PROVE \E j \in lo .. p.cur - 1 : m = s[j] /\ j \in lo .. z - 1
  <2>1. PICK j \in lo .. p.cur - 1 : m = s[j]
    BY DEF Between, s
  <2>2. j \in lo .. z - 1
    BY <1>1
  <2> QED BY <2>1, <2>2
<1>7. ASSUME NEW i \in p.cur .. z - 1
      PROVE  /\ i + 1 \in lo .. z /\ s[i] \in ToSet(Quiets)
             /\ \A m \in Between(p, lo, p.cur) :
                   m \in ToSet(Quiets) /\ (InOrder(m) /\ InOrder(s[i]) => node.score[m] >= node.score[s[i]])
  <2>1. i + 1 \in lo .. z /\ i \in lo .. z - 1
    BY <1>1
  <2>2. ASSUME NEW m \in Between(p, lo, p.cur)
        PROVE  m \in ToSet(Quiets) /\ (InOrder(m) /\ InOrder(s[i]) => node.score[m] >= node.score[s[i]])
    <3>1. PICK j \in lo .. p.cur - 1 : m = s[j] /\ j \in lo .. z - 1
      BY <1>6
    <3>2. j < i
      BY <1>1
    <3>3. m \in ToSet(Quiets) /\ s[i] \in ToSet(Quiets)
      BY <1>5, <2>1, <3>1
    <3>4. InOrder(m) /\ InOrder(s[i]) => node.score[m] >= l /\ node.score[s[i]] >= l
      BY <1>3, <3>3
    <3> QED BY <1>2, <2>1, <3>1, <3>2, <3>3, <3>4
  <2> QED BY <1>5, <2>1, <2>2
<1>8. \A m \in Between(p, lo, p.cur) : m \in ToSet(Quiets)
  BY <1>5, <1>6
<1> QED BY <1>2, <1>4, <1>7, <1>8 DEF lo, z, s

\* A pass over the captures begins.
LEMMA ToBadCaptures ==
  ASSUME Generated, node \in Nodes, node.kind = "main", NEW p, NEW q, NEW E, LeavesAlone(q, p), IsPicker(p), Captured(p),
         q.out = "pending", q.stage = 6, p.skipQuiets \in BOOLEAN,
         \A m \in First \cup node.good : m \in E,
         \A m \in E : m \in First \/ m \in node.good \/ (m \in ToSet(Quiets) /\ m \in GoodQuiets),
         p.skipQuiets \/ (QuietsIn(p) /\ \A m \in ToSet(Quiets) : m \in GoodQuiets => m \in E)
  PROVE  GoesOn([q EXCEPT !.cur = 1, !.endCur = p.endBadCaptures], E, 6)
<1> DEFINE e == p.endBadCaptures  x == SetsOut(q, 1, e)
<1>1. IsPicker(q) /\ q.skipQuiets = p.skipQuiets /\ q.endBadCaptures = e
  BY DEF LeavesAlone
<1> HIDE DEF e
<1>2. LeavesAlone(x, q) /\ x.out = q.out /\ x.cur = 1 /\ x.endCur = e /\ x.stage = q.stage
  BY <1>1, PassFields
<1>3. x = [q EXCEPT !.cur = 1, !.endCur = e]
  BY DEF SetsOut
<1> HIDE DEF x
<1>4. IsPicker(x) /\ x.skipQuiets = p.skipQuiets /\ x.endBadCaptures = e
  BY <1>1, <1>2 DEF LeavesAlone
<1>5. Captured(x) /\ (QuietsIn(p) => QuietsIn(x))
  BY <1>2, StaysIn
<1>6. 1 \in 1 .. e
  <2>1. e \in 1 .. Len(Captures) + 1
    BY DEF Captured, e
  <2> QED BY <2>1
<1>7. \A m : m \notin Between(x, 1, x.cur)
  BY <1>2 DEF Between
<1>8. InBadCaptures(x, E)
  BY <1>2, <1>4, <1>5, <1>6, <1>7 DEF InBadCaptures
<1>9. Ready(x, E)
  BY <1>4, <1>8 DEF Ready
<1>10. GoesOn(x, E, 6)
  BY <1>2, <1>4, <1>9 DEF GoesOn
<1> QED BY <1>3, <1>10 DEF e

\* The pass over the quiet moves returns the next good one, or goes on to the bad captures.
LEMMA GoodQuietCase ==
  ASSUME Generated, node \in Nodes, NEW p, NEW E, GoesOn(p, E, 5)
  PROVE  Returns(GoodQuiet(p), E) \/ GoesOn(GoodQuiet(p), E, 6)
<1> DEFINE c == Len(Captures)  lo == c + 1
<1>1. /\ IsPicker(p) /\ p.out = "pending" /\ p.skipQuiets \in BOOLEAN /\ p.stage = 5
      /\ node.kind = "main" /\ InGoodQuiets(p, E)
  BY GoingOn
<1>2. /\ Captured(p)
      /\ \A m \in First \cup node.good : m \in E
      /\ \A m \in E : m \in First \/ m \in node.good \/ (m \in ToSet(Quiets) /\ m \in GoodQuiets)
      /\ p.skipQuiets \/ /\ QuietsIn(p) /\ p.endCur = AllGenerated /\ p.cur \in Len(Captures) + 1 .. AllGenerated
                         /\ \A m : m \in E <=> \/ m \in First \/ m \in node.good
                                               \/ (m \in Between(p, lo, p.cur) /\ m \in GoodQuiets)
  BY <1>1 DEF InGoodQuiets
<1>3. /\ \A m \in First : m = node.tt
      /\ \A m \in AllMoves : m = node.tt => m \in First
      /\ \A m \in ToSet(Quiets) : m \in AllMoves /\ m \notin node.good /\ m # "pending"
      /\ \A m \in GoodQuiets : m \in AllMoves
  <2>1. \A m \in First : m = node.tt
    BY FirstFacts
  <2>2. \A m \in AllMoves : m = node.tt => m \in First
    BY <1>1, FirstFacts
  <2>3. \A m \in ToSet(Quiets) : m \in AllMoves /\ m \notin node.good /\ m # "pending"
    BY NodeFacts DEF Generated
  <2> QED BY <2>1, <2>2, <2>3 DEF GoodQuiets
<1>4. CASE p.skipQuiets
  <2> DEFINE x == Advance(p)
  <2>1. LeavesAlone(x, p) /\ x.out = "pending" /\ x.stage = 6
    BY <1>1, AdvanceFields
  <2>2. GoodQuiet(p) = [x EXCEPT !.cur = 1, !.endCur = p.endBadCaptures]
    BY <1>4, <2>1 DEF GoodQuiet
  <2> HIDE DEF x
  <2>3. GoesOn([x EXCEPT !.cur = 1, !.endCur = p.endBadCaptures], E, 6)
    BY <1>1, <1>2, <1>4, <2>1, ToBadCaptures
  <2> QED BY <2>2, <2>3
<1>5. CASE ~p.skipQuiets
  <2> DEFINE r == select(p, GoodQuiets)
  <2>1. /\ QuietsIn(p) /\ p.endCur = AllGenerated /\ p.cur \in Len(Captures) + 1 .. AllGenerated
        /\ \A m : m \in E <=> \/ m \in First \/ m \in node.good
                              \/ (m \in Between(p, lo, p.cur) /\ m \in GoodQuiets)
    BY <1>2, <1>5
  <2>2. /\ \/ \E i \in p.cur .. AllGenerated - 1 : Took(p, r, GoodQuiets, lo, i)
           \/ Ended(p, r, GoodQuiets, lo)
        /\ \A i \in p.cur .. AllGenerated - 1 :
              /\ i + 1 \in Len(Captures) + 1 .. AllGenerated /\ p.moves[i] \in ToSet(Quiets)
              /\ \A m \in Between(p, lo, p.cur) :
                   m \in ToSet(Quiets) /\ (InOrder(m) /\ InOrder(p.moves[i]) => node.score[m] >= node.score[p.moves[i]])
        /\ \A m : m \in Between(p, lo, p.endCur) <=> m \in ToSet(Quiets)
        /\ \A m \in Between(p, lo, p.cur) : m \in ToSet(Quiets)
    BY <1>1, <2>1, InQuiets
  <2>3. GoodQuiet(p) = IF r.out # "pending" THEN r ELSE [r EXCEPT !.cur = 1, !.endCur = p.endBadCaptures]
    BY <1>5 DEF GoodQuiet
  <2> HIDE DEF r, lo
  <2>4. ASSUME NEW i \in p.cur .. AllGenerated - 1, Took(p, r, GoodQuiets, lo, i)
        PROVE  Returns(GoodQuiet(p), E)
    <3> DEFINE out == p.moves[i]
    <3>1. /\ LeavesAlone(r, p) /\ r.out = out /\ r.cur = i + 1 /\ r.endCur = p.endCur /\ r.stage = p.stage
          /\ out \in GoodQuiets /\ out # node.tt /\ out \notin Between(p, lo, p.cur)
          /\ \A m : m # node.tt /\ m \in GoodQuiets =>
               (m \in Between(p, lo, i + 1) <=> m \in Between(p, lo, p.cur) \/ m = out)
      BY <2>4 DEF Took
    <3>2. out \in ToSet(Quiets) /\ i + 1 \in Len(Captures) + 1 .. AllGenerated
      BY <2>2
    <3> HIDE DEF out
    <3>3. IsPicker(r) /\ r.skipQuiets \in BOOLEAN /\ GoodQuiet(p) = r
      BY <1>1, <1>3, <2>3, <3>1, <3>2 DEF LeavesAlone
    <3>4. out \in AllMoves /\ out \notin E
      BY <1>3, <2>1, <3>1, <3>2
    <3>5. ASSUME NEW m
          PROVE  m \in E \cup {out} <=> \/ m \in First \/ m \in node.good
                                        \/ (m \in Between(r, lo, r.cur) /\ m \in GoodQuiets)
      <4>1. Between(r, lo, r.cur) = Between(p, lo, i + 1)
        BY <3>1, StaysIn
      <4>2. m \in E <=> \/ m \in First \/ m \in node.good \/ (m \in Between(p, lo, p.cur) /\ m \in GoodQuiets)
        BY <2>1
      <4>3. CASE m = node.tt
        BY <1>3, <3>1, <4>1, <4>2, <4>3
      <4>4. CASE m # node.tt
        <5>1. m \in GoodQuiets => (m \in Between(p, lo, i + 1) <=> m \in Between(p, lo, p.cur) \/ m = out)
          BY <3>1, <4>4
        <5> QED BY <3>1, <4>1, <4>2, <5>1
      <4> QED BY <4>3, <4>4
    <3>6. InGoodQuiets(r, E \cup {out})
      <4>1. Captured(r) /\ QuietsIn(r)
        BY <1>2, <2>1, <3>1, StaysIn
      <4>2. \A m \in E \cup {out} : m \in First \/ m \in node.good \/ (m \in ToSet(Quiets) /\ m \in GoodQuiets)
        BY <1>2, <3>1, <3>2
      <4>3. \A m \in First \cup node.good : m \in E \cup {out}
        BY <1>2
      <4> QED BY <1>1, <2>1, <3>1, <3>2, <3>5, <4>1, <4>2, <4>3 DEF InGoodQuiets, lo
    <3>7. Ready(r, E \cup {out})
      BY <1>1, <3>3, <3>6 DEF Ready
    <3>8. \A m \in E : m \in First \/ Precedes(m, out)
      <4>1. Class(out) = 2
        BY <3>1, <3>2, Classes
      <4>2. \A m \in node.good : Class(m) = 1
        BY Classes
      <4>3. \A m \in node.good : Precedes(m, out)
        BY <4>1, <4>2 DEF Precedes
      <4>4. ASSUME NEW m \in Between(p, lo, p.cur), m \in GoodQuiets PROVE Precedes(m, out)
        <5>1. m \in ToSet(Quiets) /\ (InOrder(m) /\ InOrder(out) => node.score[m] >= node.score[out])
          BY <2>2 DEF out
        <5>2. Class(m) = 2
          BY <4>4, <5>1, Classes
        <5> QED BY <4>1, <5>1, <5>2 DEF Precedes
      <4> QED BY <2>1, <4>3, <4>4
    <3>9. E = {} => First = {}
      BY <1>2
    <3> QED BY <1>1, <3>1, <3>3, <3>4, <3>7, <3>8, <3>9 DEF Returns
  <2>5. ASSUME Ended(p, r, GoodQuiets, lo)
        PROVE  GoesOn(GoodQuiet(p), E, 6)
    <3>1. /\ LeavesAlone(r, p) /\ r.out = "pending" /\ r.stage = 6
          /\ \A m : m # node.tt /\ m \in GoodQuiets =>
               (m \in Between(p, lo, p.endCur) <=> m \in Between(p, lo, p.cur))
      BY <1>1, <2>5 DEF Ended
    <3>2. \A m \in ToSet(Quiets) : m \in GoodQuiets => m \in E
      <4> SUFFICES ASSUME NEW m \in ToSet(Quiets), m \in GoodQuiets PROVE m \in E
        OBVIOUS
      <4>1. m = node.tt => m \in First
        BY <1>3
      <4>2. m # node.tt => m \in Between(p, lo, p.cur)
        BY <2>2, <3>1
      <4> QED BY <2>1, <4>1, <4>2
    <3>3. GoodQuiet(p) = [r EXCEPT !.cur = 1, !.endCur = p.endBadCaptures]
      BY <2>3, <3>1
    <3>4. GoesOn([r EXCEPT !.cur = 1, !.endCur = p.endBadCaptures], E, 6)
      BY <1>1, <1>2, <2>1, <3>1, <3>2, ToBadCaptures
    <3> QED BY <3>3, <3>4
  <2> QED BY <2>2, <2>4, <2>5
<1> QED BY <1>1, <1>4, <1>5

\* The last pass, over the bad quiet moves, begins.
LEMMA ToBadQuiets ==
  ASSUME Generated, node \in Nodes, node.kind = "main", NEW p, NEW q, NEW E, LeavesAlone(q, p), Captured(p),
         q.out = "pending", q.stage = 7, p.skipQuiets \in BOOLEAN,
         \A m : m \in First \/ m \in ToSet(Captures) => m \in E,
         \A m \in E : m \in First \/ m \in ToSet(Captures) \/ (m \in ToSet(Quiets) /\ m \in GoodQuiets),
         p.skipQuiets \/ (QuietsIn(p) /\ \A m \in ToSet(Quiets) : m \in GoodQuiets => m \in E)
  PROVE  GoesOn([q EXCEPT !.cur = p.endCaptures, !.endCur = p.endGenerated], E, 7)
<1> DEFINE a == p.endCaptures  z == p.endGenerated  x == SetsOut(q, a, z)
<1>1. IsPicker(q) /\ q.skipQuiets = p.skipQuiets
  BY DEF LeavesAlone
<1> HIDE DEF a, z
<1>2. LeavesAlone(x, q) /\ x.out = q.out /\ x.cur = a /\ x.endCur = z /\ x.stage = q.stage
  BY <1>1, PassFields
<1>3. x = [q EXCEPT !.cur = a, !.endCur = z]
  BY DEF SetsOut
<1> HIDE DEF x
<1>4. IsPicker(x) /\ x.skipQuiets = p.skipQuiets
  BY <1>1, <1>2 DEF LeavesAlone
<1>5. QuietsIn(p) => QuietsIn(x)
  BY <1>2, StaysIn
<1>6. a = Len(Captures) + 1 /\ (QuietsIn(p) => z = AllGenerated)
  BY DEF Captured, QuietsIn, a, z
<1>7. a \in Len(Captures) + 1 .. AllGenerated
  <2>1. 0 \in Int
    OBVIOUS
  <2>2. Len(Captures) \in Nat /\ Len(Quiets) \in Nat
    BY <2>1, ListsFacts
  <2> QED BY <1>6, <2>2 DEF AllGenerated
<1>8. \A m : m \notin Between(x, Len(Captures) + 1, x.cur)
  BY <1>2, <1>6, <1>7 DEF Between
<1>9. InBadQuiets(x, E)
  <2>1. \A m \in E : m \in First \/ m \in ToSet(Captures) \/ m \in ToSet(Quiets)
    OBVIOUS
  <2>2. ASSUME ~p.skipQuiets
        PROVE  \A m : m \in E <=> \/ m \in First \/ m \in ToSet(Captures)
                                  \/ (m \in ToSet(Quiets) /\ m \in GoodQuiets)
                                  \/ (m \in Between(x, Len(Captures) + 1, x.cur) /\ m \in BadQuiets)
    BY <1>8, <2>2
  <2> QED BY <1>2, <1>4, <1>5, <1>6, <1>7, <2>1, <2>2 DEF InBadQuiets
<1>10. Ready(x, E)
  BY <1>4, <1>9 DEF Ready
<1>11. GoesOn(x, E, 7)
  BY <1>2, <1>4, <1>10 DEF GoesOn
<1> QED BY <1>3, <1>11 DEF a, z

\* The pass over the bad captures returns each, in the order they were sorted in, or goes
\* on to the bad quiet moves.
LEMMA BadCaptureCase ==
  ASSUME Generated, node \in Nodes, NEW p, NEW E, GoesOn(p, E, 6)
  PROVE  Returns(BadCapture(p), E) \/ GoesOn(BadCapture(p), E, 7)
<1> DEFINE c == Len(Captures)  e == p.endBadCaptures  s == p.moves  r == select(p, AllMoves)
<1>1. /\ IsPicker(p) /\ p.out = "pending" /\ p.skipQuiets \in BOOLEAN /\ p.stage = 6
      /\ node.kind = "main" /\ InBadCaptures(p, E)
  BY GoingOn
<1>2. /\ Captured(p) /\ p.cur \in 1 .. e /\ p.endCur = e
      /\ \A m : m \in First \/ m \in node.good \/ m \in Between(p, 1, p.cur) => m \in E
      /\ \A m \in E : \/ m \in First \/ m \in node.good \/ m \in Between(p, 1, p.cur)
                      \/ (m \in ToSet(Quiets) /\ m \in GoodQuiets)
      /\ p.skipQuiets \/ (QuietsIn(p) /\ \A m \in ToSet(Quiets) : m \in GoodQuiets => m \in E)
  BY <1>1 DEF InBadCaptures
<1>3. /\ e \in 1 .. c + 1 /\ e \in Nat
      /\ \A i, j \in 1 .. e - 1 :
           /\ s[i] = s[j] => i = j
           /\ i < j => node.score[s[i]] >= node.score[s[j]]
      /\ \A m : m \in Between(p, 1, e) <=> m \in ToSet(Captures) /\ m \notin node.good /\ m # node.tt
  BY <1>2 DEF Captured
<1>4. /\ \A m \in First : m = node.tt
      /\ \A m \in AllMoves : m = node.tt => m \in First
      /\ \A m \in ToSet(Captures) : m \in AllMoves /\ m # "pending" /\ m \notin ToSet(Quiets)
  <2>1. \A m \in AllMoves : m = node.tt => m \in First
    BY <1>1, FirstFacts
  <2>2. \A m \in ToSet(Captures) : m \in AllMoves /\ m # "pending" /\ m \notin ToSet(Quiets)
    BY NodeFacts DEF Generated
  <2> QED BY <2>1, <2>2, FirstFacts
<1>5. \/ \E i \in p.cur .. e - 1 : Took(p, r, AllMoves, 1, i)
      \/ Ended(p, r, AllMoves, 1)
  <2>1. p.cur \in Nat /\ p.endCur \in Nat /\ 1 \in 1 .. p.cur /\ p.cur <= p.endCur
    BY <1>2, <1>3
  <2>2. \A i, j \in 1 .. p.endCur - 1 : p.moves[i] = p.moves[j] => i = j
    BY <1>2, <1>3
  <2>3. \/ \E i \in p.cur .. p.endCur - 1 : Took(p, r, AllMoves, 1, i)
        \/ Ended(p, r, AllMoves, 1)
    BY <1>1, <2>1, <2>2, Passes
  <2> QED BY <1>2, <2>3
<1>6. BadCapture(p) = IF r.out # "pending" THEN r ELSE [r EXCEPT !.cur = p.endCaptures, !.endCur = p.endGenerated]
  BY DEF BadCapture
<1>7. \A m \in Between(p, 1, p.cur) : m \in Between(p, 1, e) /\ \E j \in 1 .. p.cur - 1 : m = s[j] /\ j \in 1 .. e - 1
  <2>1. \A j \in 1 .. p.cur - 1 : j \in 1 .. e - 1
    BY <1>2, <1>3
  <2> QED BY <2>1 DEF Between
<1> HIDE DEF r, e, s
<1>8. ASSUME NEW i \in p.cur .. e - 1, Took(p, r, AllMoves, 1, i)
      PROVE  Returns(BadCapture(p), E)
  <2> DEFINE out == p.moves[i]
  <2>1. /\ LeavesAlone(r, p) /\ r.out = out /\ r.cur = i + 1 /\ r.endCur = e /\ r.stage = 6
        /\ out # node.tt /\ out \notin Between(p, 1, p.cur) /\ out \in Between(p, 1, e)
        /\ \A m : m # node.tt /\ m \in AllMoves =>
             (m \in Between(p, 1, i + 1) <=> m \in Between(p, 1, p.cur) \/ m = out)
    BY <1>1, <1>2, <1>8 DEF Took
  <2>2. out \in ToSet(Captures) /\ out \notin node.good /\ out \in AllMoves /\ out \notin ToSet(Quiets) /\ out # "pending"
    BY <1>3, <1>4, <2>1
  <2>3. i \in 1 .. e - 1 /\ i + 1 \in 1 .. e /\ out = s[i]
    BY <1>2, <1>3 DEF s
  <2> HIDE DEF out
  <2>4. IsPicker(r) /\ r.skipQuiets = p.skipQuiets /\ r.endBadCaptures = e /\ BadCapture(p) = r
    BY <1>6, <2>1, <2>2 DEF LeavesAlone, e
  <2>5. out \notin E
    BY <1>2, <1>4, <2>1, <2>2
  <2>6. \A m : m \in Between(r, 1, r.cur) <=> m \in Between(p, 1, p.cur) \/ m = out
    <3>1. Between(r, 1, r.cur) = Between(p, 1, i + 1)
      BY <2>1, StaysIn
    <3>2. \A m \in Between(p, 1, i + 1) : m \in Between(p, 1, e)
      <4>1. \A j \in 1 .. (i + 1) - 1 : j \in 1 .. e - 1
        BY <1>3, <2>3
      <4> QED BY <4>1 DEF Between
    <3>3. \A m \in Between(p, 1, e) : m \in AllMoves /\ m # node.tt
      BY <1>3, <1>4
    <3>4. \A m \in Between(p, 1, p.cur) : m \in Between(p, 1, e)
      BY <1>7
    <3> QED BY <2>1, <3>1, <3>2, <3>3, <3>4
  <2>7. InBadCaptures(r, E \cup {out})
    <3>1. Captured(r) /\ (QuietsIn(p) => QuietsIn(r))
      BY <1>2, <2>1, StaysIn
    <3>2. \A m : m \in First \/ m \in node.good \/ m \in Between(r, 1, r.cur) => m \in E \cup {out}
      BY <1>2, <2>6
    <3>3. \A m \in E \cup {out} : \/ m \in First \/ m \in node.good \/ m \in Between(r, 1, r.cur)
                                  \/ (m \in ToSet(Quiets) /\ m \in GoodQuiets)
      BY <1>2, <2>6
    <3>4. p.skipQuiets \/ (QuietsIn(r) /\ \A m \in ToSet(Quiets) : m \in GoodQuiets => m \in E \cup {out})
      BY <1>2, <3>1
    <3> QED BY <2>1, <2>3, <2>4, <3>1, <3>2, <3>3, <3>4 DEF InBadCaptures
  <2>8. Ready(r, E \cup {out})
    BY <1>1, <2>4, <2>7 DEF Ready
  <2>9. \A m \in E : m \in First \/ Precedes(m, out)
    <3>1. Class(out) = 3
      BY <2>2, Classes
    <3>2. \A m \in node.good : Class(m) = 1
      BY Classes
    <3>3. \A m \in ToSet(Quiets) : m \in GoodQuiets => Class(m) = 2
      BY Classes
    <3>4. ASSUME NEW m \in Between(p, 1, p.cur) PROVE Precedes(m, out)
      <4>1. PICK j \in 1 .. p.cur - 1 : m = s[j] /\ j \in 1 .. e - 1
        BY <1>7
      <4>2. j < i
        BY <1>2, <1>3
      <4>3. node.score[m] >= node.score[out]
        BY <1>3, <2>3, <4>1, <4>2
      <4>4. Class(m) = 3
        BY <1>3, <1>7, Classes
      <4> QED BY <3>1, <4>3, <4>4 DEF Precedes
    <3> QED BY <1>2, <3>1, <3>2, <3>3, <3>4 DEF Precedes
  <2>10. E = {} => First = {}
    BY <1>2
  <2> QED BY <1>1, <2>1, <2>2, <2>4, <2>5, <2>8, <2>9, <2>10 DEF Returns
<1>9. ASSUME Ended(p, r, AllMoves, 1)
      PROVE  GoesOn(BadCapture(p), E, 7)
  <2>1. /\ LeavesAlone(r, p) /\ r.out = "pending" /\ r.stage = 7
        /\ \A m : m # node.tt /\ m \in AllMoves => (m \in Between(p, 1, e) <=> m \in Between(p, 1, p.cur))
    BY <1>1, <1>2, <1>9 DEF Ended
  <2>2. \A m : m \in First \/ m \in ToSet(Captures) => m \in E
    <3> SUFFICES ASSUME NEW m \in ToSet(Captures), m \notin First, m \notin node.good PROVE m \in E
      BY <1>2
    <3>1. m \in AllMoves /\ m # node.tt
      BY <1>4
    <3>2. m \in Between(p, 1, p.cur)
      BY <1>3, <2>1, <3>1
    <3> QED BY <1>2, <3>2
  <2>3. \A m \in E : m \in First \/ m \in ToSet(Captures) \/ (m \in ToSet(Quiets) /\ m \in GoodQuiets)
    <3>1. \A m \in node.good : m \in ToSet(Captures)
      BY NodeFacts
    <3>2. \A m \in Between(p, 1, p.cur) : m \in ToSet(Captures)
      BY <1>3, <1>7
    <3> QED BY <1>2, <3>1, <3>2
  <2>4. BadCapture(p) = [r EXCEPT !.cur = p.endCaptures, !.endCur = p.endGenerated]
    BY <1>6, <2>1
  <2>5. GoesOn([r EXCEPT !.cur = p.endCaptures, !.endCur = p.endGenerated], E, 7)
    BY <1>1, <1>2, <2>1, <2>2, <2>3, ToBadQuiets
  <2> QED BY <2>4, <2>5
<1> QED BY <1>5, <1>8, <1>9

\* Nothing is left to return.
LEMMA NothingLeft ==
  ASSUME NEW p, NEW E, IsPicker(p), p.out = "pending", p.skipQuiets \in BOOLEAN, AllReturned(p, E)
  PROVE  Returns(OrNone(p), E)
<1> DEFINE w == Len(Stages(node.kind))  q == NoneLeft(p, NoMove, w)
<1>1. OrNone(p) = q
  BY DEF OrNone, NoneLeft
<1> HIDE DEF w
<1>2. LeavesAlone(q, p) /\ q.out = NoMove
  BY NoneFields
<1> HIDE DEF q
<1>3. IsPicker(q) /\ q.skipQuiets = p.skipQuiets
  BY <1>2 DEF LeavesAlone
<1>4. AllReturned(q, E)
  BY <1>3 DEF AllReturned
<1> QED BY <1>1, <1>2, <1>3, <1>4 DEF Returns

\* The pass over the quiet moves again returns the bad ones, or nothing is left.
LEMMA BadQuietCase ==
  ASSUME Generated, node \in Nodes, NEW p, NEW E, GoesOn(p, E, 7)
  PROVE  Returns(BadQuiet(p), E)
<1> DEFINE c == Len(Captures)  lo == c + 1
<1>1. /\ IsPicker(p) /\ p.out = "pending" /\ p.skipQuiets \in BOOLEAN /\ p.stage = 7
      /\ node.kind = "main" /\ InBadQuiets(p, E)
  BY GoingOn
<1>2. /\ \A m : m \in First \/ m \in ToSet(Captures) => m \in E
      /\ \A m \in E : m \in First \/ m \in ToSet(Captures) \/ m \in ToSet(Quiets)
      /\ p.skipQuiets \/ /\ QuietsIn(p) /\ p.endCur = AllGenerated
                         /\ p.cur \in Len(Captures) + 1 .. AllGenerated
                         /\ \A m : m \in E <=> \/ m \in First \/ m \in ToSet(Captures)
                                               \/ (m \in ToSet(Quiets) /\ m \in GoodQuiets)
                                               \/ (m \in Between(p, lo, p.cur) /\ m \in BadQuiets)
  BY <1>1 DEF InBadQuiets
<1>3. /\ \A m \in First : m = node.tt
      /\ \A m \in AllMoves : m = node.tt => m \in First
      /\ \A m \in ToSet(Quiets) : m \in AllMoves /\ m \notin ToSet(Captures) /\ m # "pending"
      /\ \A m \in BadQuiets : m \in AllMoves /\ m \notin GoodQuiets
      /\ \A m \in AllMoves : m \in ToSet(Captures) \/ m \in ToSet(Quiets)
  <2>1. \A m \in AllMoves : m = node.tt => m \in First
    BY <1>1, FirstFacts
  <2>2. \A m \in ToSet(Quiets) : m \in AllMoves /\ m \notin ToSet(Captures) /\ m # "pending"
    BY NodeFacts DEF Generated
  <2>3. \A m \in First : m = node.tt
    BY FirstFacts
  <2>4. \A m \in AllMoves : m \in ToSet(Captures) \/ m \in ToSet(Quiets)
    BY NodeFacts
  <2> QED BY <2>1, <2>2, <2>3, <2>4 DEF BadQuiets
<1>4. CASE p.skipQuiets
  <2>1. AllReturned(p, E)
    BY <1>1, <1>2, <1>4 DEF AllReturned
  <2>2. BadQuiet(p) = OrNone(p)
    BY <1>4 DEF BadQuiet
  <2> QED BY <1>1, <2>1, <2>2, NothingLeft
<1>5. CASE ~p.skipQuiets
  <2> DEFINE r == select(p, BadQuiets)
  <2>1. /\ QuietsIn(p) /\ p.endCur = AllGenerated /\ p.cur \in Len(Captures) + 1 .. AllGenerated
        /\ \A m : m \in E <=> \/ m \in First \/ m \in ToSet(Captures)
                              \/ (m \in ToSet(Quiets) /\ m \in GoodQuiets)
                              \/ (m \in Between(p, lo, p.cur) /\ m \in BadQuiets)
    BY <1>2, <1>5
  <2>2. /\ \/ \E i \in p.cur .. AllGenerated - 1 : Took(p, r, BadQuiets, lo, i)
           \/ Ended(p, r, BadQuiets, lo)
        /\ \A i \in p.cur .. AllGenerated - 1 :
              /\ i + 1 \in Len(Captures) + 1 .. AllGenerated /\ p.moves[i] \in ToSet(Quiets)
              /\ \A m \in Between(p, lo, p.cur) :
                   m \in ToSet(Quiets) /\ (InOrder(m) /\ InOrder(p.moves[i]) => node.score[m] >= node.score[p.moves[i]])
        /\ \A m : m \in Between(p, lo, p.endCur) <=> m \in ToSet(Quiets)
        /\ \A m \in Between(p, lo, p.cur) : m \in ToSet(Quiets)
    BY <1>1, <2>1, InQuiets
  <2>3. BadQuiet(p) = OrNone(r)
    BY <1>5 DEF BadQuiet
  <2> HIDE DEF r, lo
  <2>4. ASSUME NEW i \in p.cur .. AllGenerated - 1, Took(p, r, BadQuiets, lo, i)
        PROVE  Returns(BadQuiet(p), E)
    <3> DEFINE out == p.moves[i]
    <3>1. /\ LeavesAlone(r, p) /\ r.out = out /\ r.cur = i + 1 /\ r.endCur = p.endCur /\ r.stage = p.stage
          /\ out \in BadQuiets /\ out # node.tt /\ out \notin Between(p, lo, p.cur)
          /\ \A m : m # node.tt /\ m \in BadQuiets =>
               (m \in Between(p, lo, i + 1) <=> m \in Between(p, lo, p.cur) \/ m = out)
      BY <2>4 DEF Took
    <3>2. out \in ToSet(Quiets) /\ i + 1 \in Len(Captures) + 1 .. AllGenerated
      BY <2>2
    <3> HIDE DEF out
    <3>3. IsPicker(r) /\ r.skipQuiets = p.skipQuiets /\ BadQuiet(p) = r
      BY <1>3, <2>3, <3>1, <3>2 DEF LeavesAlone, OrNone
    <3>4. out \in AllMoves /\ out \notin E /\ out \notin GoodQuiets
      BY <1>3, <2>1, <3>1, <3>2
    <3>5. ASSUME NEW m
          PROVE  m \in E \cup {out} <=> \/ m \in First \/ m \in ToSet(Captures)
                                        \/ (m \in ToSet(Quiets) /\ m \in GoodQuiets)
                                        \/ (m \in Between(r, lo, r.cur) /\ m \in BadQuiets)
      <4>1. Between(r, lo, r.cur) = Between(p, lo, i + 1)
        BY <3>1, StaysIn
      <4>2. m \in E <=> \/ m \in First \/ m \in ToSet(Captures)
                        \/ (m \in ToSet(Quiets) /\ m \in GoodQuiets)
                        \/ (m \in Between(p, lo, p.cur) /\ m \in BadQuiets)
        BY <2>1
      <4>3. CASE m = node.tt
        BY <1>3, <3>1, <4>1, <4>2, <4>3
      <4>4. CASE m # node.tt
        <5>1. m \in BadQuiets => (m \in Between(p, lo, i + 1) <=> m \in Between(p, lo, p.cur) \/ m = out)
          BY <3>1, <4>4
        <5> QED BY <3>1, <4>1, <4>2, <5>1
      <4> QED BY <4>3, <4>4
    <3>6. InBadQuiets(r, E \cup {out})
      <4>1. QuietsIn(r)
        BY <2>1, <3>1, StaysIn
      <4>2. \A m \in E \cup {out} : m \in First \/ m \in ToSet(Captures) \/ m \in ToSet(Quiets)
        BY <1>2, <3>2
      <4>3. \A m : m \in First \/ m \in ToSet(Captures) => m \in E \cup {out}
        BY <1>2
      <4> QED BY <1>1, <2>1, <3>1, <3>2, <3>5, <4>1, <4>2, <4>3 DEF InBadQuiets, lo
    <3>7. Ready(r, E \cup {out})
      BY <1>1, <3>3, <3>6 DEF Ready
    <3>8. \A m \in E : m \in First \/ Precedes(m, out)
      <4>1. Class(out) = 4
        BY <3>2, <3>4, Classes
      <4>2. \A m \in ToSet(Captures) : Class(m) = 1 \/ Class(m) = 3
        BY Classes
      <4>3. \A m \in ToSet(Captures) : Precedes(m, out)
        BY <4>1, <4>2 DEF Precedes
      <4>4. \A m \in ToSet(Quiets) : m \in GoodQuiets => Class(m) = 2
        BY Classes
      <4>5. \A m \in ToSet(Quiets) : m \in GoodQuiets => Precedes(m, out)
        BY <4>1, <4>4 DEF Precedes
      <4>6. ASSUME NEW m \in Between(p, lo, p.cur), m \in BadQuiets PROVE Precedes(m, out)
        <5>1. m \in ToSet(Quiets) /\ (InOrder(m) /\ InOrder(out) => node.score[m] >= node.score[out])
          BY <2>2 DEF out
        <5>2. Class(m) = 4
          BY <1>3, <4>6, <5>1, Classes
        <5> QED BY <4>1, <5>1, <5>2 DEF Precedes
      <4> QED BY <2>1, <4>3, <4>5, <4>6
    <3>9. E = {} => First = {}
      BY <1>2
    <3> QED BY <1>1, <3>1, <3>3, <3>4, <3>7, <3>8, <3>9 DEF Returns
  <2>5. ASSUME Ended(p, r, BadQuiets, lo)
        PROVE  Returns(BadQuiet(p), E)
    <3>1. /\ LeavesAlone(r, p) /\ r.out = "pending"
          /\ \A m : m # node.tt /\ m \in BadQuiets =>
               (m \in Between(p, lo, p.endCur) <=> m \in Between(p, lo, p.cur))
      BY <1>1, <2>5 DEF Ended
    <3>2. IsPicker(r) /\ r.skipQuiets = p.skipQuiets
      BY <3>1 DEF LeavesAlone
    <3>3. \A m \in AllMoves : m \in E
      <4> SUFFICES ASSUME NEW m \in AllMoves, m \notin First, m \notin ToSet(Captures), m \notin GoodQuiets
                   PROVE  m \in E
        BY <1>2, <1>3, <2>1
      <4>1. m \in BadQuiets /\ m \in ToSet(Quiets) /\ m # node.tt
        BY <1>3 DEF BadQuiets
      <4>2. m \in Between(p, lo, p.cur)
        BY <2>2, <3>1, <4>1
      <4> QED BY <2>1, <4>1, <4>2
    <3>4. AllReturned(r, E)
      BY <1>1, <1>2, <3>3 DEF AllReturned
    <3> QED BY <1>1, <2>3, <3>1, <3>2, <3>4, NothingLeft
  <2> QED BY <2>2, <2>4, <2>5
<1> QED BY <1>1, <1>4, <1>5

\* Which case each stage is.
LEMMA CaseOf ==
  ASSUME Generated, node \in Nodes, NEW p
  PROVE  /\ p.stage = 1 => Case(p) = TtMove(p)
         /\ p.stage = 2 /\ node.kind # "evasion" => Case(p) = CaptureInit(p)
         /\ p.stage = 2 /\ node.kind = "evasion" => Case(p) = EvasionInit(p)
         /\ p.stage = 3 /\ node.kind # "main" => Case(p) = OrNone(select(p, TheOnes))
         /\ node.kind = "main" =>
              /\ p.stage = 3 => Case(p) = GoodCapture(p)
              /\ p.stage = 4 => Case(p) = QuietInit(p)
              /\ p.stage = 5 => Case(p) = GoodQuiet(p)
              /\ p.stage = 6 => Case(p) = BadCapture(p)
              /\ p.stage = 7 => Case(p) = BadQuiet(p)
<1>1. node.kind \in {"main", "evasion", "probcut", "qsearch"}
  BY NodeFacts
<1>2. CASE node.kind = "main"
  <2>1. Stages(node.kind) = <<"MAIN_TT", "CAPTURE_INIT", "GOOD_CAPTURE", "QUIET_INIT", "GOOD_QUIET", "BAD_CAPTURE", "BAD_QUIET">>
    BY <1>2 DEF Stages
  <2>2. StageOf(p) = Stages(node.kind)[p.stage]
    BY DEF StageOf
  <2>3. /\ p.stage = 1 => StageOf(p) = "MAIN_TT"
        /\ p.stage = 2 => StageOf(p) = "CAPTURE_INIT"
        /\ p.stage = 3 => StageOf(p) = "GOOD_CAPTURE"
        /\ p.stage = 4 => StageOf(p) = "QUIET_INIT"
        /\ p.stage = 5 => StageOf(p) = "GOOD_QUIET"
        /\ p.stage = 6 => StageOf(p) = "BAD_CAPTURE"
        /\ p.stage = 7 => StageOf(p) = "BAD_QUIET"
    BY <2>1, <2>2
  <2> QED BY <1>2, <2>3 DEF Case
<1>3. CASE node.kind = "evasion"
  <2>1. Stages(node.kind) = <<"EVASION_TT", "EVASION_INIT", "EVASION">>
    BY <1>3 DEF Stages
  <2>2. StageOf(p) = Stages(node.kind)[p.stage]
    BY DEF StageOf
  <2>3. /\ p.stage = 1 => StageOf(p) = "EVASION_TT"
        /\ p.stage = 2 => StageOf(p) = "EVASION_INIT"
        /\ p.stage = 3 => StageOf(p) = "EVASION"
    BY <2>1, <2>2
  <2>4. TheOnes = AllMoves
    BY <1>3 DEF TheOnes
  <2> QED BY <1>3, <2>3, <2>4 DEF Case
<1>4. CASE node.kind = "probcut"
  <2>1. Stages(node.kind) = <<"PROBCUT_TT", "PROBCUT_INIT", "PROBCUT">>
    BY <1>4 DEF Stages
  <2>2. StageOf(p) = Stages(node.kind)[p.stage]
    BY DEF StageOf
  <2>3. /\ p.stage = 1 => StageOf(p) = "PROBCUT_TT"
        /\ p.stage = 2 => StageOf(p) = "PROBCUT_INIT"
        /\ p.stage = 3 => StageOf(p) = "PROBCUT"
    BY <2>1, <2>2
  <2>4. TheOnes = GoodCaptures
    BY <1>4 DEF TheOnes
  <2> QED BY <1>4, <2>3, <2>4 DEF Case
<1>5. CASE node.kind = "qsearch"
  <2>1. Stages(node.kind) = <<"QSEARCH_TT", "QCAPTURE_INIT", "QCAPTURE">>
    BY <1>5 DEF Stages
  <2>2. StageOf(p) = Stages(node.kind)[p.stage]
    BY DEF StageOf
  <2>3. /\ p.stage = 1 => StageOf(p) = "QSEARCH_TT"
        /\ p.stage = 2 => StageOf(p) = "QCAPTURE_INIT"
        /\ p.stage = 3 => StageOf(p) = "QCAPTURE"
    BY <2>1, <2>2
  <2>4. TheOnes = AllMoves
    BY <1>5 DEF TheOnes
  <2> QED BY <1>5, <2>3, <2>4 DEF Case
<1> QED BY <1>1, <1>2, <1>3, <1>4, <1>5

\* Each case returns a move, or that nothing is left, or goes on to the next stage.
LEMMA EachCase ==
  ASSUME Generated, node \in Nodes, NEW p, NEW E, NEW k, GoesOn(p, E, k)
  PROVE  k \in 1 .. 7 /\ (Returns(Case(p), E) \/ GoesOn(Case(p), E, k + 1))
<1>1. /\ k \in 1 .. 7 /\ p.stage = k
      /\ k = 3 => node.kind = "main" \/ node.kind # "main"
      /\ k \in {4, 5, 6, 7} => node.kind = "main"
  BY GoingOn
<1>2. CASE k = 1
  <2>1. Returns(TtMove(p), E) /\ Case(p) = TtMove(p)
    BY <1>1, <1>2, TtCase, CaseOf
  <2> QED BY <1>1, <2>1
<1>3. CASE k = 2 /\ node.kind # "evasion"
  <2>1. GoesOn(CaptureInit(p), E, 3) /\ Case(p) = CaptureInit(p)
    BY <1>1, <1>3, CaptureInitCase, CaseOf
  <2> QED BY <1>1, <1>3, <2>1
<1>4. CASE k = 2 /\ node.kind = "evasion"
  <2>1. GoesOn(EvasionInit(p), E, 3) /\ Case(p) = EvasionInit(p)
    BY <1>1, <1>4, EvasionInitCase, CaseOf
  <2> QED BY <1>1, <1>4, <2>1
<1>5. CASE k = 3 /\ node.kind = "main"
  <2>1. (Returns(GoodCapture(p), E) \/ GoesOn(GoodCapture(p), E, 4)) /\ Case(p) = GoodCapture(p)
    BY <1>1, <1>5, GoodCaptureCase, CaseOf
  <2> QED BY <1>1, <1>5, <2>1
<1>6. CASE k = 3 /\ node.kind # "main"
  <2>1. Returns(OrNone(select(p, TheOnes)), E) /\ Case(p) = OrNone(select(p, TheOnes))
    BY <1>1, <1>6, PassCase, CaseOf
  <2> QED BY <1>1, <1>6, <2>1
<1>7. CASE k = 4
  <2>1. GoesOn(QuietInit(p), E, 5) /\ Case(p) = QuietInit(p)
    BY <1>1, <1>7, QuietInitCase, CaseOf
  <2> QED BY <1>1, <1>7, <2>1
<1>8. CASE k = 5
  <2>1. (Returns(GoodQuiet(p), E) \/ GoesOn(GoodQuiet(p), E, 6)) /\ Case(p) = GoodQuiet(p)
    BY <1>1, <1>8, GoodQuietCase, CaseOf
  <2> QED BY <1>1, <1>8, <2>1
<1>9. CASE k = 6
  <2>1. (Returns(BadCapture(p), E) \/ GoesOn(BadCapture(p), E, 7)) /\ Case(p) = BadCapture(p)
    BY <1>1, <1>9, BadCaptureCase, CaseOf
  <2> QED BY <1>1, <1>9, <2>1
<1>10. CASE k = 7
  <2>1. Returns(BadQuiet(p), E) /\ Case(p) = BadQuiet(p)
    BY <1>1, <1>10, BadQuietCase, CaseOf
  <2> QED BY <1>1, <2>1
<1>11. k = 1 \/ k = 2 \/ k = 3 \/ k = 4 \/ k = 5 \/ k = 6 \/ k = 7
  BY <1>1
<1> QED BY <1>2, <1>3, <1>4, <1>5, <1>6, <1>7, <1>8, <1>9, <1>10, <1>11

\* The recursion of a call through the cases.
Calls(n, f, p) ==
  IF n = 0 THEN [x \in DOMAIN p \cup {"out"} |-> IF x = "out" THEN "pending" ELSE p[x]]
  ELSE IF f[n - 1].out # "pending" THEN f[n - 1] ELSE Case(f[n - 1])
CallsUpTo(z, f, p) == f = [n \in 0 .. z |-> Calls(n, f, p)]

\* The call is what the recursion comes to.
LEMMA CallIsRecursive ==
  ASSUME NEW p
  PROVE  Call(p) = (CHOOSE f : CallsUpTo(7, f, p))[7]
BY DEF Call, CallsUpTo, Calls

\* It can be carried to any length.
LEMMA CallGoesOn ==
  ASSUME NEW p, NEW z \in Nat
  PROVE  \E f : CallsUpTo(z, f, p)
<1> DEFINE Stuck == {k \in Nat : ~\E f : CallsUpTo(k, f, p)}
<1> SUFFICES ASSUME Stuck # {} PROVE FALSE
  OBVIOUS
<1>1. Stuck \in SUBSET Nat
  OBVIOUS
<1>2. PICK k \in Stuck : \A j \in Stuck : k <= j
  <2> HIDE DEF Stuck
  <2> QED BY <1>1, LeastIsMin
<1>3. k \in Nat /\ ~\E f : CallsUpTo(k, f, p)
  OBVIOUS
<1>4. CASE k = 0
  <2> DEFINE x == [x \in DOMAIN p \cup {"out"} |-> IF x = "out" THEN "pending" ELSE p[x]]
  <2> HIDE DEF x
  <2> DEFINE f == [n \in 0 .. 0 |-> x]
  <2>1. \A n \in 0 .. 0 : n = 0
    OBVIOUS
  <2>2. \A n \in 0 .. 0 : Calls(n, f, p) = x
    BY <2>1 DEF Calls, x
  <2>3. f = [n \in 0 .. 0 |-> Calls(n, f, p)]
    BY <2>2
  <2> HIDE DEF f
  <2>4. CallsUpTo(k, f, p)
    BY <1>4, <2>3 DEF CallsUpTo
  <2> QED BY <1>3, <2>4
<1>5. CASE k # 0
  <2>1. k - 1 \in Nat /\ k - 1 \notin Stuck
    BY <1>2, <1>3, <1>5
  <2>2. PICK f : CallsUpTo(k - 1, f, p)
    BY <2>1
  <2> DEFINE g == [n \in 0 .. k |-> IF n = k THEN Calls(k, f, p) ELSE f[n]]
  <2>3. ASSUME NEW n \in 0 .. k PROVE g[n] = Calls(n, g, p)
    <3>1. n # 0 => n - 1 \in 0 .. k /\ n - 1 # k /\ g[n - 1] = f[n - 1]
      BY <1>3
    <3>2. Calls(n, g, p) = Calls(n, f, p)
      <4> HIDE DEF g
      <4> QED BY <3>1 DEF Calls
    <3>3. CASE n = k
      BY <3>2, <3>3
    <3>4. CASE n # k
      <4>1. n \in 0 .. k - 1
        BY <1>3, <3>4
      <4>2. f[n] = Calls(n, f, p)
        BY <2>2, <4>1 DEF CallsUpTo
      <4> QED BY <3>2, <3>4, <4>2
    <3> QED BY <3>3, <3>4
  <2>4. g = [n \in 0 .. k |-> g[n]]
    OBVIOUS
  <2> HIDE DEF g
  <2>5. CallsUpTo(k, g, p)
    BY <2>3, <2>4 DEF CallsUpTo
  <2> QED BY <1>3, <2>5
<1> QED BY <1>4, <1>5

\* Where a call may begin depends on the fields alone.
SameFields(q, p) ==
  /\ q.moves = p.moves /\ q.cur = p.cur /\ q.endCur = p.endCur /\ q.endBadCaptures = p.endBadCaptures
  /\ q.endCaptures = p.endCaptures /\ q.endGenerated = p.endGenerated /\ q.stage = p.stage
  /\ q.skipQuiets = p.skipQuiets

\* Whatever else the record holds.
LEMMA ReadyByFields ==
  ASSUME NEW p, NEW q, NEW E, SameFields(q, p)
  PROVE  /\ Ready(p, E) => Ready(q, E)
         /\ AllReturned(p, E) => AllReturned(q, E)
<1>1. \A a, b : Between(q, a, b) = Between(p, a, b)
  BY DEF Between, SameFields
<1>2. (Captured(p) => Captured(q)) /\ (QuietsIn(p) => QuietsIn(q))
  BY <1>1 DEF Captured, QuietsIn, SameFields
<1>3. Begins(p, E) => Begins(q, E)
  BY DEF Begins, SameFields
<1>4. InGoodCaptures(p, E) => InGoodCaptures(q, E)
  BY DEF InGoodCaptures, SameFields
<1>5. InGoodQuiets(p, E) => InGoodQuiets(q, E)
  BY <1>1, <1>2 DEF InGoodQuiets, SameFields
<1>6. InBadCaptures(p, E) => InBadCaptures(q, E)
  BY <1>1, <1>2 DEF InBadCaptures, SameFields
<1>7. InBadQuiets(p, E) => InBadQuiets(q, E)
  BY <1>1, <1>2 DEF InBadQuiets, SameFields
<1>8. InThePass(p, E) => InThePass(q, E)
  BY <1>1 DEF InThePass, SameFields
<1>9. q.skipQuiets = p.skipQuiets
  BY DEF SameFields
<1>10. Ready(p, E) => Ready(q, E)
  BY <1>3, <1>4, <1>5, <1>6, <1>7, <1>8, <1>9 DEF Ready
<1>11. AllReturned(p, E) => AllReturned(q, E)
  BY <1>9 DEF AllReturned
<1> QED BY <1>10, <1>11

\* A call returns: the stages are at most seven.
LEMMA CallReturns ==
  ASSUME Generated, node \in Nodes, NEW p, NEW E, p = [f \in Fields |-> p[f]], Ready(p, E)
  PROVE  Returns(Call(p), E)
<1> DEFINE g == CHOOSE f : CallsUpTo(7, f, p)  k == p.stage
<1>1. Call(p) = g[7]
  BY CallIsRecursive
<1>2. CallsUpTo(7, g, p)
  <2>1. \E f : CallsUpTo(7, f, p)
    BY CallGoesOn
  <2> QED BY <2>1
<1> HIDE DEF g
<1>3. g[0] = [x \in DOMAIN p \cup {"out"} |-> IF x = "out" THEN "pending" ELSE p[x]]
      /\ \A n \in 0 .. 6 : g[n + 1] = IF g[n].out # "pending" THEN g[n] ELSE Case(g[n])
  <2>1. g = [n \in 0 .. 7 |-> Calls(n, g, p)]
    BY <1>2 DEF CallsUpTo
  <2>2. g[0] = Calls(0, g, p)
    BY <2>1
  <2>3. \A n \in 0 .. 6 : g[n + 1] = Calls(n + 1, g, p) /\ n + 1 # 0 /\ (n + 1) - 1 = n
    BY <2>1
  <2>4. g[0] = [x \in DOMAIN p \cup {"out"} |-> IF x = "out" THEN "pending" ELSE p[x]]
    BY <2>2 DEF Calls
  <2>5. \A n \in 0 .. 6 : g[n + 1] = IF g[n].out # "pending" THEN g[n] ELSE Case(g[n])
    BY <2>3 DEF Calls
  <2> QED BY <2>4, <2>5
<1>4. GoesOn(g[0], E, k)
  <2> DEFINE x == g[0]
  <2>1. x = [f \in Fields \cup {"out"} |-> IF f = "out" THEN "pending" ELSE p[f]]
    <3>1. DOMAIN p = Fields
      OBVIOUS
    <3> QED BY <1>3, <3>1
  <2> HIDE DEF x
  <2>2. IsPicker(x) /\ x.out = "pending" /\ SameFields(x, p)
    BY <2>1 DEF IsPicker, SameFields, Fields
  <2>3. Ready(x, E)
    BY <2>2, ReadyByFields
  <2>4. x.skipQuiets \in BOOLEAN
    BY <2>3 DEF Ready
  <2>5. x.stage = k
    BY <2>2 DEF SameFields
  <2>6. GoesOn(x, E, k)
    BY <2>2, <2>3, <2>4, <2>5 DEF GoesOn
  <2> QED BY <2>6 DEF x
<1>5. k \in 1 .. 7
  BY <1>4, EachCase
<1> HIDE DEF k
<1>6. ASSUME NEW n \in 0 .. 6, Returns(g[n], E) \/ GoesOn(g[n], E, k + n)
      PROVE  Returns(g[n + 1], E) \/ GoesOn(g[n + 1], E, k + (n + 1))
  <2> DEFINE x == g[n]  y == g[n + 1]
  <2>1. y = IF x.out # "pending" THEN x ELSE Case(x)
    BY <1>3
  <2>2. k + (n + 1) = (k + n) + 1
    BY <1>5
  <2>3. CASE Returns(x, E)
    <3>1. x.out # "pending"
      BY <2>3 DEF Returns, Generated
    <3> QED BY <2>1, <2>3, <3>1
  <2>4. CASE GoesOn(x, E, k + n)
    <3>1. x.out = "pending"
      BY <2>4 DEF GoesOn
    <3> HIDE DEF x, y
    <3>2. Returns(Case(x), E) \/ GoesOn(Case(x), E, (k + n) + 1)
      BY <2>4, EachCase
    <3> QED BY <2>1, <2>2, <3>1, <3>2 DEF y
  <2> QED BY <1>6, <2>3, <2>4
<1> DEFINE P(n) == Returns(g[n], E) \/ GoesOn(g[n], E, k + n)
<1>7. P(0)
  <2>1. k + 0 = k
    BY <1>5
  <2> QED BY <1>4, <2>1
<1>8. \A n \in 0 .. 6 : P(n) => P(n + 1)
  BY <1>6
<1> HIDE DEF P
<1>9. P(7)
  <2>1. P(1)
    BY <1>7, <1>8
  <2>2. P(2)
    BY <1>8, <2>1
  <2>3. P(3)
    BY <1>8, <2>2
  <2>4. P(4)
    BY <1>8, <2>3
  <2>5. P(5)
    BY <1>8, <2>4
  <2>6. P(6)
    BY <1>8, <2>5
  <2> QED BY <1>8, <2>6
<1>10. ~GoesOn(g[7], E, k + 7)
  <2>1. k + 7 \notin 1 .. 7
    BY <1>5
  <2> QED BY <2>1, EachCase
<1> QED BY <1>1, <1>9, <1>10 DEF P

----------------------------------------------------------------------------
(* The node does not change while its picker is used. *)

\* What the definitions say of a record or a set they say after the step too.
LEMMA SameNode ==
  ASSUME node' = node
  PROVE  /\ First' = First /\ TheList' = TheList /\ TheOnes' = TheOnes
         /\ GoodCaptures' = GoodCaptures /\ GoodQuiets' = GoodQuiets /\ BadQuiets' = BadQuiets
BY DEF First, TtCounts, IsCapture, TheList, TheOnes, GoodCaptures, GoodQuiets, BadQuiets, AllMoves

\* The order of two moves.
LEMMA SameOrder ==
  ASSUME node' = node, NEW a, NEW b
  PROVE  Precedes(a, b)' <=> Precedes(a, b)
BY DEF Precedes, Class, InOrder, GoodCaptures, IsCapture, GoodQuiets, AllMoves

\* The captures that are set aside.
LEMMA SameCaptured ==
  ASSUME node' = node, NEW p
  PROVE  Captured(p)' <=> Captured(p)
BY DEF Captured, Between

\* The quiet moves.
LEMMA SameQuiets ==
  ASSUME node' = node, NEW p
  PROVE  QuietsIn(p)' <=> QuietsIn(p)
BY DEF QuietsIn, Between, AllGenerated

\* The pass over the good captures.
LEMMA SameSetAside ==
  ASSUME node' = node, NEW s, NEW e, NEW b, NEW E
  PROVE  SetAside(s, e, b, E)' <=> SetAside(s, e, b, E)
BY SameNode DEF SetAside, Arranges, AllMoves

\* The stages, one by one.
LEMMA SameStages ==
  ASSUME node' = node, NEW p, NEW E
  PROVE  /\ Begins(p, E)' <=> Begins(p, E)
         /\ InGoodCaptures(p, E)' <=> InGoodCaptures(p, E)
         /\ InGoodQuiets(p, E)' <=> InGoodQuiets(p, E)
         /\ InBadCaptures(p, E)' <=> InBadCaptures(p, E)
         /\ InBadQuiets(p, E)' <=> InBadQuiets(p, E)
         /\ InThePass(p, E)' <=> InThePass(p, E)
<1>1. Begins(p, E)' <=> Begins(p, E)
  BY SameNode DEF Begins
<1>2. InGoodCaptures(p, E)' <=> InGoodCaptures(p, E)
  BY SameSetAside DEF InGoodCaptures
<1>3. InGoodQuiets(p, E)' <=> InGoodQuiets(p, E)
  BY SameNode, SameCaptured, SameQuiets DEF InGoodQuiets, AllGenerated, Between
<1>4. InBadCaptures(p, E)' <=> InBadCaptures(p, E)
  BY SameNode, SameCaptured, SameQuiets DEF InBadCaptures, Between
<1>5. InBadQuiets(p, E)' <=> InBadQuiets(p, E)
  BY SameNode, SameQuiets DEF InBadQuiets, AllGenerated, Between
<1>6. InThePass(p, E)' <=> InThePass(p, E)
  BY SameNode DEF InThePass, Arranges, Between, AllMoves
<1> QED BY <1>1, <1>2, <1>3, <1>4, <1>5, <1>6

\* Where a call may begin, and whether anything is left.
LEMMA SameReady ==
  ASSUME node' = node, NEW p, NEW E
  PROVE  /\ Ready(p, E)' <=> Ready(p, E)
         /\ AllReturned(p, E)' <=> AllReturned(p, E)
<1>1. Ready(p, E)' <=> Ready(p, E)
  BY SameStages DEF Ready
<1>2. AllReturned(p, E)' <=> AllReturned(p, E)
  BY SameNode DEF AllReturned, AllMoves
<1> QED BY <1>1, <1>2

----------------------------------------------------------------------------
(* The invariant: what has been returned, and where the picker stands. *)

\* The moves returned.
Tried == {emitted[i] : i \in DOMAIN emitted} \ {NoMove}

\* One that may come after the first.
MayCome(m) ==
  \/ m \in First
  \/ /\ node.kind = "probcut" => m \in node.good
     /\ node.kind = "qsearch" => m \in ToSet(Captures)

\* No move comes twice, NoMove last, the table's first, and the others in order.
WellReturned ==
  /\ emitted \in Seq(AllMoves \cup {NoMove})
  /\ \A i, j \in 1 .. Len(emitted) : emitted[i] = emitted[j] => i = j
  /\ \A i \in 1 .. Len(emitted) : emitted[i] = NoMove => i = Len(emitted)
  /\ \A i \in 1 .. Len(emitted) : emitted[i] # NoMove => MayCome(emitted[i])
  /\ emitted # <<>> /\ First # {} => emitted[1] = node.tt
  /\ node.kind = "main" => \A i, j \in 1 .. Len(emitted) :
       i < j /\ emitted[j] # NoMove => emitted[i] \in First \/ Precedes(emitted[i], emitted[j])

\* The invariant: while moves are due the picker stands where what has been returned says, and
\* in the end nothing is left.
PickerInv ==
  /\ node \in Nodes /\ mp = [f \in Fields |-> mp[f]] /\ mp.skipQuiets \in BOOLEAN
  /\ WellReturned
  /\ IF Returned THEN AllReturned(mp, Tried) ELSE Ready(mp, Tried)

\* A picker is made ready.
LEMMA PickerBegins ==
  ASSUME Generated, PickerInit
  PROVE  PickerInv
<1> PICK n \in Nodes : node = n /\ mp = MovePicker(n) /\ emitted = <<>>
  BY DEF PickerInit
<1>1. mp = [f \in Fields |-> mp[f]] /\ mp.skipQuiets = FALSE /\ mp.moves = <<>> /\ mp.cur = 1
      /\ mp.stage = IF First # {} THEN 1 ELSE 2
  BY DEF MovePicker, Fields, First
<1>2. WellReturned
  BY DEF WellReturned
<1>3. Tried = {} /\ ~Returned
  BY DEF Tried, Returned
<1>4. Begins(mp, Tried)
  BY <1>1, <1>3 DEF Begins
<1>5. Ready(mp, Tried)
  BY <1>1, <1>4 DEF Ready
<1> QED BY <1>1, <1>2, <1>3, <1>5 DEF PickerInv

\* A call returns a move that is due, or nothing is left.
LEMMA NextMoveKeeps ==
  ASSUME Generated, PickerInv, next_move
  PROVE  PickerInv'
<1> DEFINE q == Call(mp)  m == q.out
<1>1. ~Returned /\ Ready(mp, Tried) /\ node' = node /\ emitted' = Append(emitted, m)
      /\ mp' = Restrict(q, DOMAIN mp)
  BY DEF PickerInv, next_move
<1>2. Returns(q, Tried)
  BY <1>1, CallReturns DEF PickerInv
<1> HIDE DEF q
<1>3. IsPicker(q) /\ q.skipQuiets \in BOOLEAN
  BY <1>2 DEF Returns
<1>4. mp' = [f \in Fields |-> q[f]]
  <2>1. DOMAIN mp = Fields
    BY DEF PickerInv
  <2> QED BY <1>1, <2>1 DEF Restrict
<1>5. mp' = [f \in Fields |-> mp'[f]] /\ SameFields(mp', q) /\ mp'.skipQuiets \in BOOLEAN
  <2>1. mp' = [f \in Fields |-> mp'[f]]
    BY <1>4
  <2>2. SameFields(mp', q)
    BY <1>4 DEF SameFields, Fields
  <2>3. mp'.skipQuiets \in BOOLEAN
    BY <1>3, <2>2 DEF SameFields
  <2> QED BY <2>1, <2>2, <2>3
<1> DEFINE L == Len(emitted)  M == AllMoves \cup {NoMove}
<1>6. m \in M /\ (m # NoMove => m \in AllMoves /\ m \notin Tried) /\ "pending" \notin M
  BY <1>2 DEF Returns, Generated
<1>7. emitted \in Seq(M) /\ L \in Nat
  BY DEF PickerInv, WellReturned
<1>8. \A i \in 1 .. L : emitted[i] # NoMove /\ emitted[i] \in Tried
  <2> TAKE i \in 1 .. L
  <2>1. emitted[i] # NoMove
    <3> SUFFICES ASSUME emitted[i] = NoMove PROVE FALSE
      OBVIOUS
    <3>1. i = L /\ emitted # <<>>
      BY <1>7 DEF PickerInv, WellReturned
    <3> QED BY <1>1, <3>1 DEF Returned, Last
  <2>2. i \in DOMAIN emitted
    BY <1>7
  <2> QED BY <2>1, <2>2 DEF Tried
<1>9. /\ emitted' \in Seq(M) /\ Len(emitted') = L + 1 /\ DOMAIN emitted' = 1 .. L + 1
      /\ emitted'[L + 1] = m /\ \A i \in 1 .. L : emitted'[i] = emitted[i]
  <2> HIDE DEF m, M
  <2> QED BY <1>1, <1>6, <1>7
<1>10. Tried' = Tried \cup ({m} \ {NoMove})
  <2>1. DOMAIN emitted = 1 .. L
    BY <1>7
  <2> HIDE DEF m, M
  <2>2. ASSUME NEW x PROVE x \in Tried' <=> x \in Tried \cup ({m} \ {NoMove})
    <3>1. x \in Tried' <=> x # NoMove /\ \E i \in 1 .. L + 1 : emitted'[i] = x
      BY <1>9 DEF Tried
    <3>2. x \in Tried <=> x # NoMove /\ \E i \in 1 .. L : emitted[i] = x
      BY <2>1 DEF Tried
    <3>3. \A i : i \in 1 .. L + 1 <=> i \in 1 .. L \/ i = L + 1
      BY <1>7
    <3> HIDE DEF L
    <3> QED BY <3>1, <3>2, <3>3, <1>9
  <2> QED BY <2>2
<1>11. Returned' <=> m = NoMove
  <2>1. emitted' # <<>>
    BY <1>9, <1>7
  <2> QED BY <2>1, <1>9 DEF Returned, Last
<1>12. WellReturned'
  <2> DEFINE e == emitted'
  <2>1. \A i \in 1 .. L + 1 : i \in 1 .. L \/ i = L + 1
    BY <1>7
  <2>2. \A i \in 1 .. L : e[i] = emitted[i] /\ e[i] # m
    BY <1>6, <1>8, <1>9
  <2>3. e[L + 1] = m
    BY <1>9
  <2>4. m # NoMove => MayCome(m)
    BY <1>2 DEF Returns, MayCome
  <2>5. node.kind = "main" /\ m # NoMove => \A i \in 1 .. L : emitted[i] \in First \/ Precedes(emitted[i], m)
    BY <1>2, <1>8 DEF Returns
  <2> HIDE DEF m, M, e
  <2>6. e \in Seq(M) /\ Len(e) = L + 1
    BY <1>9 DEF e
  <2>7. \A i, j \in 1 .. L + 1 : e[i] = e[j] => i = j
    <3>1. \A i, j \in 1 .. L : emitted[i] = emitted[j] => i = j
      BY DEF PickerInv, WellReturned
    <3> HIDE DEF L
    <3> QED BY <2>1, <2>2, <2>3, <3>1
  <2>8. \A i \in 1 .. L + 1 : e[i] = NoMove => i = L + 1
    <3> HIDE DEF L
    <3> QED BY <2>1, <2>2, <1>8
  <2>9. \A i \in 1 .. L + 1 : e[i] # NoMove => MayCome(e[i])
    <3>1. \A i \in 1 .. L : MayCome(emitted[i])
      BY <1>8 DEF PickerInv, WellReturned
    <3> HIDE DEF L
    <3> QED BY <2>1, <2>2, <2>3, <2>4, <3>1
  <2>10. First # {} => e[1] = node.tt
    <3>1. CASE emitted = <<>>
      <4>1. L = 0
        BY <3>1
      <4>2. Tried = {}
        BY <3>1 DEF Tried
      <4>3. e[1] = m
        BY <2>3, <4>1
      <4>4. First # {} => m = node.tt
        BY <1>2, <4>2 DEF Returns, AllReturned, m
      <4> QED BY <4>3, <4>4
    <3>2. CASE emitted # <<>>
      <4>1. 1 \in 1 .. L
        BY <1>7, <3>2
      <4>2. First # {} => emitted[1] = node.tt
        BY <3>2 DEF PickerInv, WellReturned
      <4> QED BY <2>2, <4>1, <4>2
    <3> QED BY <3>1, <3>2
  <2>11. node.kind = "main" => \A i, j \in 1 .. L + 1 :
            i < j /\ e[j] # NoMove => e[i] \in First \/ Precedes(e[i], e[j])
    <3> SUFFICES ASSUME node.kind = "main", NEW i \in 1 .. L + 1, NEW j \in 1 .. L + 1, i < j, e[j] # NoMove
                 PROVE  e[i] \in First \/ Precedes(e[i], e[j])
      OBVIOUS
    <3>1. i \in 1 .. L /\ e[i] = emitted[i]
      BY <1>7, <2>2
    <3>2. CASE j = L + 1
      BY <2>3, <2>5, <3>1, <3>2
    <3>3. CASE j \in 1 .. L
      <4>1. e[j] = emitted[j] /\ emitted[j] # NoMove
        BY <2>2, <3>3
      <4>2. emitted[i] \in First \/ Precedes(emitted[i], emitted[j])
        BY <3>1, <3>3, <4>1 DEF PickerInv, WellReturned
      <4> QED BY <3>1, <4>1, <4>2
    <3> QED BY <2>1, <3>2, <3>3
  <2>12. First' = First /\ (\A x : MayCome(x)' <=> MayCome(x)) /\ \A x, y : Precedes(x, y)' <=> Precedes(x, y)
    <3>1. First' = First
      BY <1>1, SameNode
    <3>2. ASSUME NEW x PROVE MayCome(x)' <=> MayCome(x)
      BY <1>1, <3>1 DEF MayCome
    <3>3. ASSUME NEW x, NEW y PROVE Precedes(x, y)' <=> Precedes(x, y)
      BY <1>1, SameOrder
    <3> QED BY <3>1, <3>2, <3>3
  <2>13. AllMoves' = AllMoves
    BY DEF AllMoves
  <2> QED BY <2>6, <2>7, <2>8, <2>9, <2>10, <2>11, <2>12, <2>13, <1>1 DEF WellReturned, e, M
<1>13. IF Returned' THEN AllReturned(mp', Tried') ELSE Ready(mp', Tried')
  <2>1. CASE m = NoMove
    <3>1. AllReturned(q, Tried) /\ Tried' = Tried
      BY <1>2, <1>10, <2>1 DEF Returns, Generated
    <3>2. AllReturned(mp', Tried')
      BY <1>5, <3>1, ReadyByFields
    <3> QED BY <1>11, <2>1, <3>2
  <2>2. CASE m # NoMove
    <3>1. Ready(q, Tried')
      <4>1. Tried' = Tried \cup {q.out}
        BY <1>10, <2>2
      <4> QED BY <1>2, <2>2, <4>1 DEF Returns
    <3>2. Ready(mp', Tried')
      BY <1>5, <3>1, ReadyByFields
    <3> QED BY <1>11, <2>2, <3>2
  <2> QED BY <2>1, <2>2
<1>14. (IF Returned THEN AllReturned(mp, Tried) ELSE Ready(mp, Tried))'
  BY <1>1, <1>13, SameReady
<1>15. node' \in Nodes'
  BY <1>1 DEF PickerInv, Nodes, AllMoves, IsCapture
<1> QED BY <1>5, <1>12, <1>14, <1>15 DEF PickerInv

\* Enough moves have been tried: what is returned stays.
LEMMA SkipKeeps ==
  ASSUME Generated, PickerInv, skip_quiet_moves
  PROVE  PickerInv'
<1>1. ~Returned /\ Ready(mp, Tried) /\ node' = node /\ emitted' = emitted
      /\ mp' = [mp EXCEPT !.skipQuiets = TRUE]
  BY DEF PickerInv, skip_quiet_moves
<1>2. mp = [f \in Fields |-> mp[f]]
  BY DEF PickerInv
<1>3. /\ mp' = [f \in Fields |-> mp'[f]] /\ mp'.skipQuiets = TRUE
      /\ mp'.moves = mp.moves /\ mp'.cur = mp.cur /\ mp'.endCur = mp.endCur
      /\ mp'.endBadCaptures = mp.endBadCaptures /\ mp'.endCaptures = mp.endCaptures
      /\ mp'.endGenerated = mp.endGenerated /\ mp'.stage = mp.stage
  BY <1>1, <1>2 DEF Fields
<1> DEFINE E == Tried  q == mp'
<1>4. \A a, b : Between(q, a, b) = Between(mp, a, b)
  BY <1>3 DEF Between
<1> HIDE DEF E, q
<1>5. Captured(mp) => Captured(q)
  BY <1>3, <1>4 DEF Captured, q
<1>6. Begins(mp, E) => Begins(q, E)
  BY <1>3 DEF Begins, q
<1>7. InGoodCaptures(mp, E) => InGoodCaptures(q, E)
  BY <1>3 DEF InGoodCaptures, q
<1>8. InGoodQuiets(mp, E) => InGoodQuiets(q, E)
  BY <1>3, <1>5 DEF InGoodQuiets, q
<1>9. InBadCaptures(mp, E) => InBadCaptures(q, E)
  BY <1>3, <1>4, <1>5 DEF InBadCaptures, q
<1>10. InBadQuiets(mp, E) => InBadQuiets(q, E)
  BY <1>3 DEF InBadQuiets, q
<1>11. InThePass(mp, E) => InThePass(q, E)
  BY <1>3, <1>4 DEF InThePass, q
<1>12. Ready(q, E)
  <2>1. q.skipQuiets \in BOOLEAN
    BY <1>3 DEF q
  <2> QED BY <1>1, <2>1, <1>6, <1>7, <1>8, <1>9, <1>10, <1>11 DEF Ready, E
<1>13. Ready(mp, Tried)' /\ Tried' = Tried /\ ~Returned'
  <2>1. Tried' = Tried /\ ~Returned'
    BY <1>1 DEF Tried, Returned
  <2> QED BY <1>1, <1>12, <2>1, SameReady DEF q, E
<1>14. WellReturned'
  <2>1. First' = First /\ (\A x : MayCome(x)' <=> MayCome(x)) /\ \A x, y : Precedes(x, y)' <=> Precedes(x, y)
    <3>1. First' = First
      BY <1>1, SameNode
    <3>2. ASSUME NEW x PROVE MayCome(x)' <=> MayCome(x)
      BY <1>1, <3>1 DEF MayCome
    <3>3. ASSUME NEW x, NEW y PROVE Precedes(x, y)' <=> Precedes(x, y)
      BY <1>1, SameOrder
    <3> QED BY <3>1, <3>2, <3>3
  <2>2. WellReturned /\ AllMoves' = AllMoves
    BY DEF PickerInv, AllMoves
  <2> QED BY <1>1, <2>1, <2>2 DEF WellReturned
<1>15. node' \in Nodes'
  BY <1>1 DEF PickerInv, Nodes, AllMoves, IsCapture
<1> QED BY <1>3, <1>13, <1>14, <1>15 DEF PickerInv

\* A picker that nothing is done with.
LEMMA SearchedKeeps ==
  ASSUME PickerInv, UNCHANGED pickerVars
  PROVE  PickerInv'
<1>1. node' = node /\ mp' = mp /\ emitted' = emitted
  BY DEF pickerVars
<1>2. First' = First /\ (\A x : MayCome(x)' <=> MayCome(x)) /\ \A x, y : Precedes(x, y)' <=> Precedes(x, y)
  <2>1. First' = First
    BY <1>1, SameNode
  <2>2. ASSUME NEW x PROVE MayCome(x)' <=> MayCome(x)
    BY <1>1, <2>1 DEF MayCome
  <2>3. ASSUME NEW x, NEW y PROVE Precedes(x, y)' <=> Precedes(x, y)
    BY <1>1, SameOrder
  <2> QED BY <2>1, <2>2, <2>3
<1>3. WellReturned'
  <2>1. WellReturned /\ AllMoves' = AllMoves
    BY DEF PickerInv, AllMoves
  <2> QED BY <1>1, <1>2, <2>1 DEF WellReturned
<1>4. Tried' = Tried /\ Returned' = Returned
  BY <1>1 DEF Tried, Returned
<1>5. (IF Returned THEN AllReturned(mp, Tried) ELSE Ready(mp, Tried))'
  BY <1>1, <1>4, SameReady DEF PickerInv
<1>6. node' \in Nodes'
  BY <1>1 DEF PickerInv, Nodes, AllMoves, IsCapture
<1> QED BY <1>1, <1>3, <1>5, <1>6 DEF PickerInv

\* Between any two moves returned lies the order of their classes, and of their scores.
LEMMA InvGivesOrder ==
  ASSUME Generated, PickerInv
  PROVE  PicksBestFirst
<1> DEFINE rest == IF TtCounts(node.kind, node.tt) THEN SubSeq(emitted, 2, Len(emitted)) ELSE emitted
<1> SUFFICES ASSUME node.kind = "main", NEW i \in DOMAIN rest, NEW j \in DOMAIN rest, i < j, rest[j] # NoMove
             PROVE  Precedes(rest[i], rest[j]) /\ rest[i] \in AllMoves /\ rest[j] \in AllMoves
  <2> DEFINE kind(m) == IF m \in GoodCaptures THEN 1 ELSE IF IsCapture(m) THEN 3 ELSE IF m \in GoodQuiets THEN 2 ELSE 4
             sorted == {m \in AllMoves : IsCapture(m) \/ node.score[m] >= -3560 * node.depth}
  <2>1. ASSUME NEW a, NEW b, Precedes(a, b)
        PROVE  /\ kind(a) <= kind(b)
               /\ kind(a) = kind(b) /\ {a, b} \subseteq sorted => node.score[a] >= node.score[b]
    BY <2>1 DEF Precedes, Class, InOrder
  <2> HIDE DEF sorted, kind, rest
  <2>2. node.kind = "main" => \A i, j \in DOMAIN rest : i < j /\ rest[j] # NoMove =>
          /\ kind(rest[i]) <= kind(rest[j])
          /\ kind(rest[i]) = kind(rest[j]) /\ {rest[i], rest[j]} \subseteq sorted
               => node.score[rest[i]] >= node.score[rest[j]]
    BY <2>1
  <2> USE DEF sorted, kind, rest
  <2> QED BY <2>2, Zenon DEF PicksBestFirst
<1>1. emitted \in Seq(AllMoves \cup {NoMove}) /\ Len(emitted) \in Nat
  BY DEF PickerInv, WellReturned
<1>2. PICK k \in {0, 1} : /\ i + k \in 1 .. Len(emitted) /\ j + k \in 1 .. Len(emitted) /\ i + k \in Nat /\ j + k \in Nat
                          /\ rest[i] = emitted[i + k] /\ rest[j] = emitted[j + k]
                          /\ First # {} => i + k > 1
  <2>1. CASE TtCounts(node.kind, node.tt)
    <3>1. rest = SubSeq(emitted, 2, Len(emitted))
      BY <2>1
    <3> HIDE DEF rest
    <3>2. /\ i \in 1 .. Len(emitted) - 1 /\ j \in 1 .. Len(emitted) - 1
          /\ rest[i] = emitted[i + 1] /\ rest[j] = emitted[j + 1]
      BY <1>1, <3>1
    <3> QED BY <1>1, <3>2
  <2>2. CASE ~TtCounts(node.kind, node.tt)
    <3>1. rest = emitted /\ First = {}
      BY <2>2 DEF First
    <3> HIDE DEF rest
    <3> QED BY <1>1, <3>1
  <2> QED BY <2>1, <2>2
<1> DEFINE a == i + k  b == j + k
<1>3. a \in 1 .. Len(emitted) /\ b \in 1 .. Len(emitted) /\ a < b
  <2>1. i \in Int /\ j \in Int
    <3>1. rest \in Seq(AllMoves \cup {NoMove})
      BY <1>1
    <3> HIDE DEF rest
    <3> QED BY <3>1
  <2> QED BY <1>2, <2>1
<1>4. emitted[b] # NoMove /\ emitted[a] # NoMove
  BY <1>1, <1>2, <1>3 DEF PickerInv, WellReturned
<1>5. emitted[a] \notin First
  <2> SUFFICES ASSUME emitted[a] \in First PROVE FALSE
    OBVIOUS
  <2>1. emitted[a] = node.tt /\ emitted # <<>>
    BY <1>1, <1>3 DEF First
  <2>2. emitted[1] = node.tt /\ 1 \in 1 .. Len(emitted)
    BY <1>1, <1>3, <2>1 DEF PickerInv, WellReturned
  <2>3. a = 1
    BY <1>3, <2>1, <2>2 DEF PickerInv, WellReturned
  <2> QED BY <1>2, <2>3
<1> HIDE DEF rest, a, b
<1>6. Precedes(emitted[a], emitted[b])
  BY <1>3, <1>4, <1>5 DEF PickerInv, WellReturned
<1>7. rest[i] = emitted[a] /\ rest[j] = emitted[b]
  BY <1>2 DEF a, b
<1>8. emitted[a] \in AllMoves /\ emitted[b] \in AllMoves
  BY <1>1, <1>3, <1>4
<1> QED BY <1>6, <1>7, <1>8

\* Nothing comes twice, and at the end nothing is missing.
LEMMA InvGivesOnce ==
  ASSUME Generated, PickerInv
  PROVE  PicksEachOnce
<1> DEFINE K == ToSet(Captures)  Q == ToSet(Quiets)
           due == First \cup (CASE node.kind = "probcut" -> node.good
                                [] node.kind = "qsearch" -> K
                                [] node.kind = "main" /\ mp.skipQuiets -> K
                                [] OTHER -> AllMoves)
<1>1. emitted \in Seq(AllMoves \cup {NoMove}) /\ DOMAIN emitted = 1 .. Len(emitted)
  BY DEF PickerInv, WellReturned
<1>2. IsInjective(emitted)
  BY <1>1 DEF IsInjective, PickerInv, WellReturned
<1>3. emitted # <<>> /\ First # {} => emitted[1] = node.tt
  BY DEF PickerInv, WellReturned
<1>4. \A m \in Tried : m \in AllMoves /\ MayCome(m)
  BY <1>1 DEF Tried, PickerInv, WellReturned
<1>5. AllMoves = K \cup Q /\ node.kind \in {"main", "evasion", "probcut", "qsearch"}
  BY DEF AllMoves, PickerInv, Nodes
<1> HIDE DEF K, Q
<1>6. Tried \subseteq due \cup Q
  BY <1>4, <1>5 DEF MayCome, K
<1>7. node.kind \in {"probcut", "qsearch"} => Tried \subseteq due
  BY <1>4 DEF MayCome, K
<1>8. Returned => due \subseteq Tried
  <2> SUFFICES ASSUME Returned PROVE due \subseteq Tried
    OBVIOUS
  <2>1. AllReturned(mp, Tried)
    BY DEF PickerInv
  <2>2. First \subseteq Tried
    BY <2>1 DEF AllReturned
  <2>3. CASE node.kind = "probcut"
    BY <2>1, <2>2, <2>3 DEF AllReturned
  <2>4. CASE node.kind = "qsearch"
    BY <2>1, <2>2, <2>4 DEF AllReturned, K
  <2>5. CASE node.kind = "main"
    BY <2>1, <2>2, <2>5 DEF AllReturned, K
  <2>6. CASE node.kind = "evasion"
    BY <2>1, <2>2, <2>6 DEF AllReturned
  <2> QED BY <1>5, <2>3, <2>4, <2>5, <2>6
<1> QED BY <1>2, <1>3, <1>6, <1>7, <1>8 DEF PicksEachOnce, Tried, First, K, Q

\* MCParts' MovesPicked for every list of moves, every score and verdict of see_ge, every depth
\* and every table's move: the picker returns each move that is due once, the table's first and
\* the others in the order of their classes, best first, whenever the quiets begin to be skipped
\* (movepick.cpp: MovePicker, next_move, select, partial_insertion_sort, skip_quiet_moves).
THEOREM PickerAlwaysExact ==
  ASSUME Generated
  PROVE  PickerInit /\ [][PickerNext]_pickerVars => [](PicksEachOnce /\ PicksBestFirst)
<1>1. PickerInit => PickerInv
  BY PickerBegins
<1>2. PickerInv /\ [PickerNext]_pickerVars => PickerInv'
  BY NextMoveKeeps, SkipKeeps, SearchedKeeps DEF PickerNext, Searched
<1>3. PickerInv => PicksEachOnce /\ PicksBestFirst
  BY InvGivesOnce, InvGivesOrder
<1> QED BY <1>1, <1>2, <1>3, PTL

=============================================================================
