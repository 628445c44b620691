----------------------------- MODULE GameClock -----------------------------
(***************************************************************************)
(* A whole game on the clock: before each of our moves the GUI sends "go"  *)
(* with what is left, the engine derives a budget from it and searches for *)
(* at most that long, and the arbiter takes off the time of the search and *)
(* of the connection, and adds the increment.                              *)
(***************************************************************************)
EXTENDS TimeManager

CONSTANTS
  Starts,      \* the clocks a game may start with
  Incs,        \* the increments a game may be played with
  Overheads,   \* the values of the "Move Overhead" option
  Movestogo,   \* the values of movestogo the GUI may send
  MaxClock     \* bound: the arbiter shows no more than this

ASSUME ClockAssumption == /\ MaxClock \in Nat
                          /\ Starts \subseteq 1..MaxClock
                          /\ Incs \subseteq 0..MaxClock
                          /\ Overheads \subseteq Nat
                          /\ Movestogo \subseteq Nat
ASSUME UnlimitedAssumption == Unlimited \in Nat /\ MaxClock < Unlimited

VARIABLES inc, overhead,   \* of this game
          clock,           \* what is left for us
          budget,          \* the TimeManager's, while we think
          thinking,
          flagged          \* our clock ran out

gameVars == <<inc, overhead, clock, budget, thinking, flagged>>

GameTypeOK == /\ inc \in Incs
          /\ overhead \in Overheads
          /\ clock \in 0..MaxClock
          /\ budget \in [opt : Nat, max : Nat]
          /\ thinking \in BOOLEAN
          /\ flagged \in BOOLEAN

GameInit == /\ inc \in Incs
        /\ overhead \in Overheads
        /\ clock \in Starts
        /\ budget = NoBudget
        /\ thinking = FALSE
        /\ flagged = FALSE

\* Our turn: "go wtime .. winc .. movestogo ..", TimeManager::init.
Go == /\ ~thinking /\ ~flagged
      /\ \E mtg \in Movestogo :
           budget' = ComputeBudget(Clocked(clock, inc, mtg), overhead, FALSE)
      /\ thinking' = TRUE
      /\ UNCHANGED <<inc, overhead, clock, flagged>>

\* The search ends after "spent" ms: check_time ends it at the maximum, an
\* iteration that completes may end it earlier.  The connection, and the time
\* between two check_time polls, take at most the overhead.
Move == /\ thinking
        /\ \E spent \in 0..budget.max, latency \in 0..overhead :
             LET left == clock - spent - latency
             IN  IF left < 0 \/ left + inc = 0
                 THEN clock' = 0 /\ flagged' = TRUE
                 ELSE clock' = Least(MaxClock, left + inc) /\ flagged' = FALSE
        /\ thinking' = FALSE
        /\ UNCHANGED <<inc, overhead, budget>>

\* The game is lost on time.
Lost == flagged /\ UNCHANGED gameVars

GameNext == Go \/ Move \/ Lost

GameSpec == GameInit /\ [][GameNext]_gameVars

-----------------------------------------------------------------------------
\* While we think the optimum is within the maximum, and the maximum within
\* what is left once the overhead is reserved, or is a single millisecond.
BudgetInClock ==
  thinking => /\ 1 <= budget.opt
              /\ budget.opt <= budget.max
              /\ budget.max <= Remaining(clock, overhead)

\* With an increment above the overhead we can only be flagged on a clock the
\* overhead alone might have used up: a game that starts with more than the
\* overhead is never lost on time, however long it lasts.
NeverFlags ==
  (inc > overhead /\ \A s \in Starts : s > overhead) => ~flagged

\* In low time the increment carries us: a search that ends at its optimum,
\* and the overhead with it, cost no more than an increment of twice the
\* overhead gives back.
IncrementCarries ==
  (thinking /\ LowTime(Remaining(clock, overhead), overhead)
     /\ overhead > 0 /\ inc >= 2 * overhead) => budget.opt + overhead <= inc
=============================================================================
