----------------------------- MODULE ClockStores -----------------------------
(***************************************************************************)
(* The search clock as its threads see it (search.cpp: TimeManager, and    *)
(* the tests of check_time and iterative_deepening).  startTime, optimumMs *)
(* and maximumMs are three stores; the thread that answers ponderhit sets  *)
(* them one by one while the searching thread reads them one by one.       *)
(***************************************************************************)
EXTENDS Integers, Sequences

CONSTANTS
    OwnBudgets,   \* the budgets a "go" may come to, as [opt, max]
    NoLimit,      \* INT64_MAX / 4
    MaxNow        \* bound: the last millisecond

VARIABLES
    now,          \* steady_clock, in milliseconds
    ponders,      \* Search::pondering
    timer,        \* TimeManager's startTime, optimumMs and maximumMs
    goBudget,     \* what savedLimits come to once the clock runs
    searcher,     \* where the searching thread is, and what it has read
    hitter,       \* the stores ponderhit has still to make
    since         \* when the go or the ponderhit came

clockVs == <<now, ponders, timer, goBudget, searcher, hitter, since>>

NotRead == -1
At(pc, of, elapsed, limit) == [pc |-> pc, of |-> of, elapsed |-> elapsed, limit |-> limit]
Searching == At("search", "none", NotRead, NotRead)
Unbounded == [opt |-> NoLimit, max |-> NoLimit]

\* The last search has left its clock behind.
ClockInit ==
    /\ now = 0 /\ since = 0
    /\ ponders \in BOOLEAN
    /\ timer = [start |-> 0, opt |-> 1, max |-> 1]
    /\ goBudget \in OwnBudgets
    /\ searcher = At("init", "none", NotRead, NotRead)
    /\ hitter = <<>>

Tick == now < MaxNow /\ now' = now + 1 /\ UNCHANGED <<ponders, timer, goBudget, searcher, hitter, since>>

\* think: Time.init, before there is a reader.
InitClock ==
    /\ searcher.pc = "init"
    /\ LET budget == IF ponders THEN Unbounded ELSE goBudget
       IN  timer' = [start |-> now, opt |-> budget.opt, max |-> budget.max]
    /\ since' = now
    /\ searcher' = Searching
    /\ UNCHANGED <<now, ponders, goBudget, hitter>>

\* restart: the origin of the clock, then the budget, the maximum last.
stores == <<"start", "opt", "max">>

\* A ponderhit for a search under way; UciSearch has those that come before.
Hit ==
    /\ ponders /\ searcher.pc # "init"
    /\ ponders' = FALSE
    /\ since' = now
    /\ hitter' = stores
    /\ UNCHANGED <<now, timer, goBudget, searcher>>

Store ==
    /\ hitter # <<>>
    /\ timer' = [timer EXCEPT ![Head(hitter)] = IF Head(hitter) = "start" THEN now ELSE goBudget[Head(hitter)]]
    /\ hitter' = Tail(hitter)
    /\ UNCHANGED <<now, ponders, goBudget, searcher, since>>

\* check_time asks for the maximum, the end of an iteration for the optimum; both
\* look at pondering first ...
Ask ==
    /\ searcher = Searching /\ ~ponders
    /\ \E of \in {"opt", "max"} : searcher' = At("gate", of, NotRead, NotRead)
    /\ UNCHANGED <<now, ponders, timer, goBudget, hitter, since>>

\* ... then whether the maximum is finite ...
Gate ==
    /\ searcher.pc = "gate"
    /\ searcher' = IF timer.max < NoLimit THEN [searcher EXCEPT !.pc = "read"] ELSE Searching
    /\ UNCHANGED <<now, ponders, timer, goBudget, hitter, since>>

\* ... and compare the time elapsed with the limit, read in either order.
ReadElapsed ==
    /\ searcher.pc = "read" /\ searcher.elapsed = NotRead
    /\ searcher' = [searcher EXCEPT !.elapsed = now - timer.start]
    /\ UNCHANGED <<now, ponders, timer, goBudget, hitter, since>>
ReadLimit ==
    /\ searcher.pc = "read" /\ searcher.limit = NotRead
    /\ searcher' = [searcher EXCEPT !.limit = timer[searcher.of]]
    /\ UNCHANGED <<now, ponders, timer, goBudget, hitter, since>>
Compare ==
    /\ searcher.pc = "read" /\ searcher.elapsed # NotRead /\ searcher.limit # NotRead
    /\ searcher' = IF searcher.elapsed >= searcher.limit THEN [searcher EXCEPT !.pc = "stopped"] ELSE Searching
    /\ UNCHANGED <<now, ponders, timer, goBudget, hitter, since>>

ClockNext == Tick \/ InitClock \/ Hit \/ Store \/ Ask \/ Gate \/ ReadElapsed \/ ReadLimit \/ Compare

----------------------------------------------------------------------------
\* However the stores of a ponderhit fall between the reads of a test of the clock,
\* the search is never stopped before the budget of its own "go" has run since the
\* go or the ponderhit (search.hpp: "never a spurious early stop"), and never by the
\* clock while it ponders.
NeverEarly ==
    searcher.pc = "stopped" => ~ponders /\ now - since >= goBudget[searcher.of]
=============================================================================
