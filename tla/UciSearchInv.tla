---------------------------- MODULE UciSearchInv ----------------------------
(***************************************************************************)
(* The inductive invariant behind the safety properties of UciSearch.      *)
(*                                                                         *)
(* A "go" that has not been answered is in exactly one of three places:    *)
(* still in stdin, in the hands of the UCI thread, or live in the search   *)
(* thread.  Behind it the GUI only writes commands that leave the root and *)
(* the table alone, and only "isready" while it has released nothing.      *)
(***************************************************************************)
EXTENDS UciSearch

\* The UCI thread has read this command and not finished with it.
Handling(op) == uciPc \in {"join", "exec"} /\ uciCmd.op = op

InHand == Handling("go")

\* The search thread has been launched and has not printed its bestmove.
Live == mainPc \notin {"none", "clear", "done"}

\* What the GUI can have written after the latest "go".
LateOps == IF told = {} THEN {"isready"} ELSE {"isready", "stop", "ponderhit", "quit"}

OnlyLateAfter(i) == \A j \in 1..Len(stdin) : j > i => stdin[j].op \in LateOps

QueueInv ==
  /\ \A i \in 1..Len(stdin) : stdin[i].op = "go" =>
       /\ Outstanding /\ ~InHand /\ ~Live
       /\ stdin[i].limits = asked
       /\ OnlyLateAfter(i)
       /\ i > 1 => stdin[i - 1].op = "position" /\ stdin[i - 1].root = gos
       /\ i = 1 => \/ Handling("position") /\ uciCmd.root = gos
                   \/ uciPc = "read" /\ rootPos = gos
  /\ \A i \in 1..Len(stdin) : stdin[i].op = "position" =>
       i < Len(stdin) /\ stdin[i + 1].op = "go"
  /\ Handling("position") => Len(stdin) > 0 /\ stdin[1].op = "go"

HandInv == InHand =>
  /\ Outstanding /\ ~Live
  /\ uciCmd.limits = asked
  /\ rootPos = gos
  /\ OnlyLateAfter(0)

LiveInv == Live =>
  /\ Outstanding
  /\ uciPc \notin {"exec", "resize", "exited"}
  /\ uciPc = "join" => uciCmd.op \in {"stop", "quit", "eof"}
  /\ limits = asked
  /\ rootInfo = gos
  /\ mainPc \in {"search", "reported", "idle", "finish", "gather"} => workRoot = gos
  /\ OnlyLateAfter(0)

\* No outstanding "go" is mislaid.
PlacedInv == Outstanding =>
  InHand \/ Live \/ \E i \in 1..Len(stdin) : stdin[i].op = "go"

CountInv == Len(answers) <= gos /\ gos <= Len(answers) + 1

\* An unreleased ponder search keeps pondering, with stop unset.
PonderInv == (Live /\ asked.ponder /\ told = {}) =>
  /\ uciPc = "read" \/ (uciPc = "join" /\ uciCmd.op = "eof")
  /\ mainPc \notin {"finish", "gather"}
  /\ mainPc # "reset" => ~stop
  /\ mainPc \notin {"reset", "arm"} => pondering

FlagInv == pondering => limits.ponder /\ mainPc \notin {"none", "reset", "arm", "done"}

HelperInv ==
  /\ mainPc \in {"none", "reset", "arm", "save", "load", "publish", "spawn", "done"}
       => \A h \in Helpers : helperPc[h] = "off"
  /\ mainPc = "clear" => \A h \in Helpers : helperPc[h] = "done"

EndInv ==
  /\ uciPc \in {"exec", "exited"} => mainPc = "none"
  /\ \A i \in 1..Len(stdin) : stdin[i].op \notin {"eof"}
  /\ \A i \in 1..Len(stdin) : stdin[i].op = "quit" => closed = "quit"
  /\ Handling("quit") => closed = "quit"
  /\ Handling("eof") => closed = "eof" /\ stdin = <<>>
  /\ uciPc = "exited" => closed # "open"
  /\ uciPc = "exited" /\ closed = "eof" => ~Outstanding

OrderInv == \A n \in 1..Len(answers) : answers[n] = n

\* The inductive invariant: true initially and kept by every step.
IInv == /\ TypeOK
        /\ CountInv /\ OrderInv
        /\ QueueInv /\ HandInv /\ LiveInv /\ PlacedInv
        /\ PonderInv /\ FlagInv /\ HelperInv /\ EndInv

----------------------------------------------------------------------------
(* For a patient GUI, which lets a search print an info line before it says *)
(* more about it: what keeps its stop, quit and ponderhit from being lost.  *)

Hitting == uciPc \in {"hitClear", "hitLoad", "hitPublish"}

\* What is said of a search is said once it searches.
PatientInv ==
  /\ info <= gos
  /\ told # {} => info = gos
  /\ Outstanding /\ ~Searching => info < gos

\* The flag is raised when its search is past the store that clears it.
StopInv == (uciPc = "join" /\ uciCmd.op \in {"stop", "quit"} /\ Live) => stop /\ Searching

\* A ponderhit is carried out on the search it was meant for, or on none.
HitInv ==
  /\ Hitting => Searching \/ mainPc \in {"clear", "done"}
  /\ uciPc \in {"hitLoad", "hitPublish"} => ~pondering
  /\ uciPc = "hitPublish" /\ Searching => uciBudget = Budget(limits.kind, FALSE)

\* The budget on its way from the limits of the search to its threads.
BudgetInv ==
  /\ mainPc \in {"load", "publish", "spawn"} \/ Searching => saved = limits.kind
  /\ mainPc \in {"save", "load", "publish", "spawn"} => pondering = limits.ponder
  /\ mainPc = "publish" => mainBudget = Budget(limits.kind, limits.ponder)
  /\ mainPc = "spawn" => budget = Budget(limits.kind, limits.ponder)

\* A ponderhit that was written is read, carried out, or has been.
ReleaseInv == ("ponderhit" \in told /\ Searching /\ pondering) =>
  uciPc = "hitClear" \/ \E i \in 1..Len(stdin) : stdin[i].op = "ponderhit"

\* Inductive together with IInv.
HeardInv == PatientInv /\ StopInv /\ HitInv /\ BudgetInv /\ ClockArmed /\ ReleaseInv
=============================================================================
