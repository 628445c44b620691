---------------------------- MODULE TimeManager ----------------------------
(***************************************************************************)
(* search.cpp, TimeManager::compute_budget: how many milliseconds a move   *)
(* may take.  All quantities are int64_t in the code and stay far from its *)
(* range; halves and three quarters are computed in double and truncated.  *)
(***************************************************************************)
EXTENDS Integers

CONSTANT Unlimited    \* INT64_MAX / 4

Least(a, b)    == IF a < b THEN a ELSE b
Greatest(a, b) == IF a < b THEN b ELSE a

\* std::clamp, undefined for lo > hi.
Clamp(v, lo, hi) == IF v < lo THEN lo ELSE IF hi < v THEN hi ELSE v

\* A "go" for the side to move: its clock and increment, the moves to the
\* next time control (0: none), movetime (0: none), and whether depth, nodes
\* or infinite was given.
Clocked(time, inc, movestogo) ==
  [time |-> time, inc |-> inc, movestogo |-> movestogo, movetime |-> 0,
   unclocked |-> FALSE]

Budget(opt, max) == [opt |-> opt, max |-> max]

NoBudget == Budget(Unlimited, Unlimited)

\* Time safely usable on this move.
Remaining(time, overhead) == Greatest(1, time - overhead)

\* "bullet": so little is left that the increment has to carry us.
LowTime(remaining, overhead) == remaining < 20 * overhead

Horizon(movestogo) == IF movestogo > 0 THEN Least(movestogo, 40) ELSE 40

\* The optimum and maximum before the final clamps.
Slice(remaining, inc, movestogo) ==
  remaining \div Horizon(movestogo) + (3 * inc) \div 4

OptimumFullInc(remaining, inc, movestogo, overhead) ==   \* mutant: spends the increment
  LET slice == Slice(remaining, inc, movestogo)
  IN  IF LowTime(remaining, overhead)
      THEN Least(slice, IF inc > 0 THEN inc ELSE remaining \div 30)
      ELSE slice

Optimum(remaining, inc, movestogo, overhead) ==
  LET slice == Slice(remaining, inc, movestogo)
  IN  IF LowTime(remaining, overhead)
      THEN Least(slice, IF inc > 0 THEN inc \div 2 ELSE remaining \div 30)
      ELSE slice

\* Both are taken from the unclamped slice: the safety net narrows each.
Maximum(remaining, inc, movestogo, overhead) ==
  LET max == Least(3 * Slice(remaining, inc, movestogo), remaining \div 4)
  IN  IF LowTime(remaining, overhead)
      THEN Least(max, IF inc > 0 THEN inc ELSE remaining \div 15)
      ELSE max

ClockBudgetNoReserve(time, inc, movestogo, overhead) ==   \* mutant: no overhead in the clamps
  LET remaining == Remaining(time, overhead)
      opt == Clamp(Optimum(remaining, inc, movestogo, overhead), 1, Greatest(1, time))
  IN  Budget(opt, Clamp(Maximum(remaining, inc, movestogo, overhead), opt, Greatest(1, time)))

ClockBudgetLooseMax(time, inc, movestogo, overhead) ==   \* mutant: maximum below optimum
  LET remaining == Remaining(time, overhead)
  IN  Budget(Clamp(Optimum(remaining, inc, movestogo, overhead), 1, remaining),
             Clamp(Maximum(remaining, inc, movestogo, overhead), 1, remaining))

ClockBudget(time, inc, movestogo, overhead) ==
  LET remaining == Remaining(time, overhead)
      opt == Clamp(Optimum(remaining, inc, movestogo, overhead), 1, remaining)
  IN  Budget(opt, Clamp(Maximum(remaining, inc, movestogo, overhead), opt, remaining))

ComputeBudget(limits, overhead, pondering) ==
  IF pondering THEN NoBudget
  ELSE IF limits.movetime > 0
  THEN LET mt == Greatest(1, limits.movetime - overhead) IN Budget(mt, mt)
  ELSE IF limits.unclocked \/ (limits.time = 0 /\ limits.inc = 0) THEN NoBudget
  ELSE ClockBudget(limits.time, limits.inc, limits.movestogo, overhead)
=============================================================================
