----------------------------- MODULE UciSearch -----------------------------
(***************************************************************************)
(* The engine process as its threads see it: the UCI thread (uci.cpp,      *)
(* uci_loop_stdin), the search thread a "go" spawns (search.cpp, think and *)
(* worker 0's iterative_deepening) and the Lazy-SMP helper threads, which  *)
(* share the atomics Search::stop and Search::pondering, the time budget   *)
(* and the root description.  The GUI is the environment: it writes        *)
(* commands to stdin and reads stdout.                                     *)
(*                                                                         *)
(* A step is the longest piece of a thread's code with one access that     *)
(* matters to another thread.  The tree search itself is abstract: an      *)
(* iteration may complete, with or without a mate score, or be aborted by  *)
(* check_time; the clock may read anything.  Of a time budget we keep      *)
(* whether it is finite: readers consult TimeManager::optimum only after   *)
(* they have seen a finite maximum, so the two are published as one.       *)
(***************************************************************************)
EXTENDS Naturals, Sequences

CONSTANTS
  Helpers,       \* ids of the helper threads (worker 0 is the search thread)
  MaxDepth,      \* bound: MAX_PLY - 1, the depth no iteration goes beyond
  DepthLimit,    \* what "go depth" asks for
  MaxGo,         \* bound: how many "go" commands the GUI sends
  MaxPending,    \* bound: no idle-time command is written behind this many
  Kinds,         \* the kinds of limit the GUI's "go" may carry
  OwnBook,       \* the OwnBook option, with a book loaded
  Eager,         \* the GUI may follow a "go" before that search's first info
  Abandons       \* the GUI may close stdin on an unreleased search

AllKinds == {"timed", "depth", "nodes", "infinite"}

ASSUME HelpersAssumption == Helpers \subseteq Nat \ {0}
ASSUME DepthAssumption == /\ MaxDepth \in Nat \ {0}
                          /\ DepthLimit \in 1..MaxDepth
ASSUME MaxGoAssumption == MaxGo \in Nat
ASSUME MaxPendingAssumption == MaxPending \in Nat
ASSUME KindsAssumption == Kinds \subseteq AllKinds
ASSUME SwitchesAssumption == {OwnBook, Eager, Abandons} \subseteq BOOLEAN

VARIABLES
  gos,          \* GUI: number of "go" commands written
  asked,        \* GUI: the limits of the latest "go"
  told,         \* GUI: what it has sent since that "go"
  closed,       \* GUI: stdin is "open", or ended by "quit" or "eof"
  pinged,       \* GUI: an "isready" has not been answered
  stdin,        \* commands written and not yet read
  answers,      \* stdout: for each "bestmove", the "go" whose root it is for
  info,         \* stdout: the latest "go" an info line was printed for
  stop,         \* Search::stop
  pondering,    \* Search::pondering
  saved,        \* TimeManager::savedLimits, its kind
  budget,       \* TimeManager::maximumMs, finite or not
  rootPos,      \* the "go" the UCI thread's rootPos was set up for
  rootInfo,     \* the same of Search::rootInfo
  uciPc, uciCmd, uciBudget,              \* the UCI thread
  mainPc, limits, depth, mate, mainBudget, workRoot,   \* the search thread
  helperPc, helperDepth                  \* the helper threads

guiVars    == <<gos, asked, told, closed, pinged, stdin>>
outVars    == <<answers, info>>
flagVars   == <<stop, pondering>>
clockVars  == <<saved, budget>>
rootVars   == <<rootPos, rootInfo>>
uciVars    == <<uciPc, uciCmd, uciBudget>>
iterVars   == <<limits, depth, mate, mainBudget, workRoot>>
mainVars   == <<mainPc, iterVars>>
helperVars == <<helperPc, helperDepth>>
sharedVars == <<flagVars, clockVars, rootVars>>
engineVars == <<sharedVars, uciVars, mainVars, helperVars>>

vars == <<guiVars, outVars, engineVars>>

-----------------------------------------------------------------------------
\* SearchLimits: which limit is in force, and whether this is a "go ponder".
Limits == [kind : AllKinds, ponder : BOOLEAN]

NoLimits == [kind |-> "infinite", ponder |-> FALSE]

Ops == {"position", "go", "stop", "ponderhit", "quit", "isready",
        "ucinewgame", "hash"}

Commands == [op : Ops \cup {"eof"}, root : 0..MaxGo, limits : Limits]

Command(op) == [op |-> op, root |-> 0, limits |-> NoLimits]

Budgets == {"inf", "fin"}

\* compute_budget: a finite budget for a clock or a movetime, else none.
Budget(kind, ponder) == IF ~ponder /\ kind = "timed" THEN "fin" ELSE "inf"

\* iterative_deepening's maxDepth and startDepth.
DepthCap(l) == IF l.kind = "depth" THEN DepthLimit ELSE MaxDepth
StartDepth(id) == 1 + (id % 2)

UciPcs == {"read", "join", "exec", "resize", "hitClear", "hitLoad",
           "hitPublish", "exited"}
MainPcs == {"none", "reset", "arm", "save", "load", "publish", "spawn",
            "search", "reported", "idle", "finish", "gather", "clear", "done"}
HelperPcs == {"off", "search", "done"}

TypeOK ==
  /\ gos \in 0..MaxGo
  /\ asked \in Limits
  /\ told \subseteq {"stop", "ponderhit", "quit"}
  /\ closed \in {"open", "quit", "eof"}
  /\ pinged \in BOOLEAN
  /\ stdin \in Seq(Commands)
  /\ answers \in Seq(0..MaxGo)
  /\ info \in 0..MaxGo
  /\ stop \in BOOLEAN
  /\ pondering \in BOOLEAN
  /\ saved \in AllKinds
  /\ budget \in Budgets
  /\ rootPos \in 0..MaxGo
  /\ rootInfo \in 0..MaxGo
  /\ uciPc \in UciPcs
  /\ uciCmd \in Commands
  /\ uciBudget \in Budgets
  /\ mainPc \in MainPcs
  /\ limits \in Limits
  /\ depth \in 1..MaxDepth
  /\ mate \in BOOLEAN
  /\ mainBudget \in Budgets
  /\ workRoot \in 0..MaxGo
  /\ helperPc \in [Helpers -> HelperPcs]
  /\ helperDepth \in [Helpers -> Nat]

Init ==
  /\ gos = 0 /\ asked = NoLimits /\ told = {} /\ closed = "open"
  /\ pinged = FALSE /\ stdin = <<>>
  /\ answers = <<>> /\ info = 0
  /\ stop = FALSE /\ pondering = FALSE
  /\ saved = "infinite" /\ budget = "fin"
  /\ rootPos = 0 /\ rootInfo = 0
  /\ uciPc = "read" /\ uciCmd = Command("isready") /\ uciBudget = "inf"
  /\ mainPc = "none" /\ limits = NoLimits /\ depth = 1 /\ mate = FALSE
  /\ mainBudget = "inf" /\ workRoot = 0
  /\ helperPc = [h \in Helpers |-> "off"]
  /\ helperDepth = [h \in Helpers |-> 1]

-----------------------------------------------------------------------------
(* The GUI.                                                                *)

Outstanding == gos > Len(answers)

\* What the latest "go" asks for: nothing before "ponderhit", "stop" or "quit"
\* releases a "go ponder", and nothing by itself of a "go infinite".
Claim == IF asked.ponder /\ told = {} THEN "held"
         ELSE IF asked.kind = "infinite" /\ told \cap {"stop", "quit"} = {}
         THEN "free"
         ELSE "due"

\* A patient GUI lets a search print an info line before it says more.
MayFollow == Eager \/ ~Outstanding \/ info = gos

GuiGo ==
  /\ closed = "open"
  /\ ~Outstanding
  /\ gos < MaxGo
  /\ \E l \in [kind : Kinds, ponder : BOOLEAN] :
       /\ asked' = l
       /\ stdin' = stdin \o
            <<[op |-> "position", root |-> gos + 1, limits |-> NoLimits],
              [op |-> "go", root |-> gos + 1, limits |-> l]>>
  /\ gos' = gos + 1
  /\ told' = {}
  /\ UNCHANGED <<closed, pinged, outVars, engineVars>>

GuiRelease(op) ==
  /\ closed = "open"
  /\ Outstanding
  /\ MayFollow
  /\ "stop" \notin told
  /\ op = "ponderhit" => asked.ponder /\ op \notin told
  /\ told' = told \cup {op}
  /\ stdin' = Append(stdin, Command(op))
  /\ UNCHANGED <<gos, asked, closed, pinged, outVars, engineVars>>

GuiQuit ==
  /\ closed = "open"
  /\ MayFollow
  /\ told' = IF Outstanding THEN told \cup {"quit"} ELSE told
  /\ closed' = "quit"
  /\ stdin' = Append(stdin, Command("quit"))
  /\ UNCHANGED <<gos, asked, pinged, outVars, engineVars>>

GuiEof ==
  /\ closed = "open"
  /\ Abandons \/ ~Outstanding \/ Claim = "due"
  /\ closed' = "eof"
  /\ UNCHANGED <<gos, asked, told, pinged, stdin, outVars, engineVars>>

GuiIsReady ==
  /\ closed = "open"
  /\ ~pinged
  /\ Len(stdin) < MaxPending
  /\ pinged' = TRUE
  /\ stdin' = Append(stdin, Command("isready"))
  /\ UNCHANGED <<gos, asked, told, closed, outVars, engineVars>>

\* Options and ucinewgame are written between searches only.
GuiBetweenSearches(op) ==
  /\ closed = "open"
  /\ ~Outstanding
  /\ Len(stdin) < MaxPending
  /\ stdin' = Append(stdin, Command(op))
  /\ UNCHANGED <<gos, asked, told, closed, pinged, outVars, engineVars>>

Gui == \/ GuiGo
       \/ \E op \in {"ponderhit", "stop"} : GuiRelease(op)
       \/ GuiQuit
       \/ GuiEof
       \/ GuiIsReady
       \/ \E op \in {"ucinewgame", "hash"} : GuiBetweenSearches(op)

-----------------------------------------------------------------------------
(* The UCI thread.                                                         *)

\* Where the dispatch on a command's first word leads: a handler that joins
\* the search first, one that does not, or back to the loop.
DispatchHitJoins(op) ==   \* mutant: ponderhit joins
  CASE op = "isready" -> "read" [] op = "hash" -> "resize" [] OTHER -> "join"

Dispatch(op) ==
  CASE op = "isready" -> "read"
    [] op = "hash" -> "resize"
    [] op = "ponderhit" -> IF pondering THEN "hitClear" ELSE "read"
    [] OTHER -> "join"

\* The commands whose handler raises Search::stop before it joins.
RaisesStop(op) == op \in {"stop", "quit"}

\* std::getline and the dispatch, with the handler's first shared access.
UciRead ==
  /\ uciPc = "read"
  /\ stdin # <<>>
  /\ LET op == Head(stdin).op IN
       /\ uciPc' = Dispatch(op)
       /\ stop' = (RaisesStop(op) \/ stop)
       /\ pinged' = (op # "isready" /\ pinged)
  /\ uciCmd' = Head(stdin)
  /\ stdin' = Tail(stdin)
  /\ UNCHANGED <<gos, asked, told, closed, outVars, pondering, clockVars,
                 rootVars, uciBudget, mainVars, helperVars>>

\* getline fails: leave the loop and join whatever search is running.
UciEofNoJoin ==   \* mutant: exits at once
  /\ uciPc = "read"
  /\ stdin = <<>>
  /\ closed = "eof"
  /\ uciPc' = "exited"
  /\ UNCHANGED <<guiVars, outVars, sharedVars, uciCmd, uciBudget, mainVars,
                 helperVars>>

UciEof ==
  /\ uciPc = "read"
  /\ stdin = <<>>
  /\ closed = "eof"
  /\ uciPc' = "join"
  /\ uciCmd' = Command("eof")
  /\ UNCHANGED <<guiVars, outVars, sharedVars, uciBudget, mainVars, helperVars>>

\* join_search: searchThread is not joinable, or think has returned.
UciJoin ==
  /\ uciPc = "join"
  /\ mainPc \in {"none", "done"}
  /\ mainPc' = "none"
  /\ uciPc' = CASE uciCmd.op = "stop" -> "read"
                [] uciCmd.op \in {"quit", "eof"} -> "exited"
                [] OTHER -> "exec"
  /\ UNCHANGED <<guiVars, outVars, sharedVars, uciCmd, uciBudget, iterVars,
                 helperVars>>

\* set_position.
UciPosition ==
  /\ uciPc = "exec"
  /\ uciCmd.op = "position"
  /\ rootPos' = uciCmd.root
  /\ uciPc' = "read"
  /\ UNCHANGED <<guiVars, outVars, flagVars, clockVars, rootInfo, uciCmd,
                 uciBudget, mainVars, helperVars>>

\* Search::clear (ucinewgame) and TT.resize (setoption Hash): both only
\* rewrite the table, whose contents this module leaves out.
UciTable ==
  /\ \/ uciPc = "exec" /\ uciCmd.op = "ucinewgame"
     \/ uciPc = "resize"
  /\ uciPc' = "read"
  /\ UNCHANGED <<guiVars, outVars, sharedVars, uciCmd, uciBudget, mainVars,
                 helperVars>>

\* go, answered from the opening book.
UciBook ==
  /\ uciPc = "exec"
  /\ uciCmd.op = "go"
  /\ OwnBook
  /\ ~uciCmd.limits.ponder
  /\ answers' = Append(answers, rootPos)
  /\ uciPc' = "read"
  /\ UNCHANGED <<guiVars, info, sharedVars, uciCmd, uciBudget, mainVars,
                 helperVars>>

\* set_root.
SetRootOnce == rootInfo' = IF rootInfo = 0 THEN rootPos ELSE rootInfo   \* mutant

SetRoot == rootInfo' = rootPos

\* go, which resets stop, stashes the root and spawns the search thread.
UciLaunch ==
  /\ uciPc = "exec"
  /\ uciCmd.op = "go"
  /\ stop' = FALSE
  /\ SetRoot
  /\ limits' = uciCmd.limits
  /\ mainPc' = "reset"
  /\ uciPc' = "read"
  /\ UNCHANGED <<guiVars, outVars, pondering, clockVars, rootPos, uciCmd,
                 uciBudget, depth, mate, mainBudget, workRoot, helperVars>>

\* ponderhit, after its test of pondering: clear the flag ...
HitClearNot ==   \* mutant: only restarts the clock
  /\ uciPc = "hitClear"
  /\ uciPc' = "hitLoad"
  /\ UNCHANGED <<guiVars, outVars, sharedVars, uciCmd, uciBudget, mainVars,
                 helperVars>>

HitClear ==
  /\ uciPc = "hitClear"
  /\ pondering' = FALSE
  /\ uciPc' = "hitLoad"
  /\ UNCHANGED <<guiVars, outVars, stop, clockVars, rootVars, uciCmd, uciBudget,
                 mainVars, helperVars>>

\* ... compute the budget from savedLimits, which may be torn while the
\* search thread is still copying into it ...
HitLoad ==
  /\ uciPc = "hitLoad"
  /\ \E kind \in IF mainPc = "save" THEN AllKinds ELSE {saved} :
       uciBudget' = Budget(kind, pondering)
  /\ uciPc' = "hitPublish"
  /\ UNCHANGED <<guiVars, outVars, sharedVars, uciCmd, mainVars, helperVars>>

\* ... and publish it.
HitPublishNot ==   \* mutant: leaves the ponder search's budget
  /\ uciPc = "hitPublish"
  /\ uciPc' = "read"
  /\ UNCHANGED <<guiVars, outVars, sharedVars, uciCmd, uciBudget, mainVars,
                 helperVars>>

HitPublish ==
  /\ uciPc = "hitPublish"
  /\ budget' = uciBudget
  /\ uciPc' = "read"
  /\ UNCHANGED <<guiVars, outVars, flagVars, saved, rootVars, uciCmd, uciBudget,
                 mainVars, helperVars>>

Uci == \/ UciRead \/ UciEof \/ UciJoin \/ UciPosition \/ UciTable
       \/ UciBook \/ UciLaunch \/ HitClear \/ HitLoad \/ HitPublish

-----------------------------------------------------------------------------
(* The search thread: think, with worker 0's iterative_deepening inlined.  *)

\* Steps of think that leave the iteration's own state and the GUI alone.
MainStep(from, to) == mainPc = from /\ mainPc' = to

MainReset ==
  /\ MainStep("reset", "arm")
  /\ stop' = FALSE
  /\ UNCHANGED <<guiVars, outVars, pondering, clockVars, rootVars, uciVars,
                 iterVars, helperVars>>

MainArm ==
  /\ MainStep("arm", "save")
  /\ pondering' = limits.ponder
  /\ UNCHANGED <<guiVars, outVars, stop, clockVars, rootVars, uciVars, iterVars,
                 helperVars>>

\* TimeManager::init: copy the limits ...
MainSave ==
  /\ MainStep("save", "load")
  /\ saved' = limits.kind
  /\ UNCHANGED <<guiVars, outVars, flagVars, budget, rootVars, uciVars, iterVars,
                 helperVars>>

\* ... derive a budget from them and from pondering ...
MainLoad ==
  /\ MainStep("load", "publish")
  /\ mainBudget' = Budget(saved, pondering)
  /\ UNCHANGED <<guiVars, outVars, sharedVars, uciVars, limits, depth, mate,
                 workRoot, helperVars>>

\* ... and publish it.
MainPublish ==
  /\ MainStep("publish", "spawn")
  /\ budget' = mainBudget
  /\ UNCHANGED <<guiVars, outVars, flagVars, saved, rootVars, uciVars, iterVars,
                 helperVars>>

\* Build the workers from the stashed root and launch the helpers.
MainSpawn ==
  /\ MainStep("spawn", "search")
  /\ workRoot' = rootInfo
  /\ depth' = 1
  /\ mate' = FALSE
  /\ helperDepth' = [h \in Helpers |-> StartDepth(h)]
  /\ helperPc' = [h \in Helpers |->
                    IF StartDepth(h) <= DepthCap(limits) THEN "search" ELSE "done"]
  /\ UNCHANGED <<guiVars, outVars, sharedVars, uciVars, limits, mainBudget>>

\* check_time in worker 0: a stop was requested ...
MainAbort ==
  /\ MainStep("search", "finish")
  /\ stop
  /\ UNCHANGED <<guiVars, outVars, sharedVars, uciVars, iterVars, helperVars>>

\* ... or the node limit or the maximum time is reached.
LimitReached == limits.kind = "nodes" \/ budget = "fin"

MainExpire ==
  /\ MainStep("search", "finish")
  /\ ~pondering
  /\ LimitReached
  /\ stop' = TRUE
  /\ UNCHANGED <<guiVars, outVars, pondering, clockVars, rootVars, uciVars,
                 iterVars, helperVars>>

\* An iteration completes, with or without a mate score; its info line.
MainIterate ==
  /\ MainStep("search", "reported")
  /\ mate' \in BOOLEAN
  /\ info' = workRoot
  /\ UNCHANGED <<guiVars, answers, sharedVars, uciVars, limits, depth, mainBudget,
                 workRoot, helperVars>>

\* The for loop's increment and test.
NextDepth == IF depth < DepthCap(limits)
             THEN mainPc' = "search" /\ depth' = depth + 1
             ELSE mainPc' = "finish" /\ depth' = depth

\* Solved, as far as a ponder search is concerned: a mate, the last depth, or
\* the node count of a node limit (which may not have been reached yet).
MaySolve  == mate \/ depth >= DepthCap(limits) \/ limits.kind = "nodes"
MustSolve == mate \/ depth >= DepthCap(limits)

\* After an info line, still pondering: idle if this is solved, else go on.
MainPonderOnNoIdle ==   \* mutant: falls out of the loop when solved
  /\ mainPc = "reported"
  /\ pondering
  /\ NextDepth
  /\ UNCHANGED <<guiVars, outVars, sharedVars, uciVars, limits, mate, mainBudget,
                 workRoot, helperVars>>

MainPonderOn ==
  /\ mainPc = "reported"
  /\ pondering
  /\ \/ MaySolve /\ mainPc' = "idle" /\ depth' = depth
     \/ ~MustSolve /\ NextDepth
  /\ UNCHANGED <<guiVars, outVars, sharedVars, uciVars, limits, mate, mainBudget,
                 workRoot, helperVars>>

\* The idle loop ends on ponderhit or stop.
IdleOverOnHit == ~pondering   \* mutant: stop does not wake it

IdleOver == ~pondering \/ stop

MainWake ==
  /\ mainPc = "idle"
  /\ IdleOver
  /\ NextDepth
  /\ UNCHANGED <<guiVars, outVars, sharedVars, uciVars, limits, mate, mainBudget,
                 workRoot, helperVars>>

\* After an info line, the clock running: the optimum time, a mate or the
\* node limit ends the search ...
MainConclude ==
  /\ MainStep("reported", "finish")
  /\ ~pondering
  /\ mate \/ LimitReached
  /\ stop' = TRUE
  /\ UNCHANGED <<guiVars, outVars, pondering, clockVars, rootVars, uciVars,
                 iterVars, helperVars>>

\* ... or it goes on to the next depth.
MainDeepen ==
  /\ mainPc = "reported"
  /\ ~pondering
  /\ ~mate
  /\ NextDepth
  /\ UNCHANGED <<guiVars, outVars, sharedVars, uciVars, limits, mate, mainBudget,
                 workRoot, helperVars>>

\* Worker 0 is through: tell the helpers.
MainFinish ==
  /\ MainStep("finish", "gather")
  /\ stop' = TRUE
  /\ UNCHANGED <<guiVars, outVars, pondering, clockVars, rootVars, uciVars,
                 iterVars, helperVars>>

\* The pool is joined.
PoolJoinedNot == TRUE   \* mutant: no join before the answer

PoolJoined == \A h \in Helpers : helperPc[h] = "done"

\* Join the pool, pick the best worker and print its move.
MainAnswer ==
  /\ MainStep("gather", "clear")
  /\ PoolJoined
  /\ answers' = Append(answers, workRoot)
  /\ UNCHANGED <<guiVars, info, sharedVars, uciVars, iterVars, helperVars>>

\* think's last store to pondering.
DropPonderingNot == UNCHANGED pondering   \* mutant: keeps the flag

DropPondering == pondering' = FALSE

\* Clear pondering, free the workers and return.
MainClear ==
  /\ MainStep("clear", "done")
  /\ DropPondering
  /\ helperPc' = [h \in Helpers |-> "off"]
  /\ UNCHANGED <<guiVars, outVars, stop, clockVars, rootVars, uciVars, iterVars,
                 helperDepth>>

Main == \/ MainReset \/ MainArm \/ MainSave \/ MainLoad \/ MainPublish
        \/ MainSpawn \/ MainAbort \/ MainExpire \/ MainIterate
        \/ MainPonderOn \/ MainWake \/ MainConclude \/ MainDeepen
        \/ MainFinish \/ MainAnswer \/ MainClear

-----------------------------------------------------------------------------
(* The helper threads: iterative_deepening with th.id > 0.                 *)

\* check_time in a helper: a stop was requested.
HelperAbort(h) ==
  /\ helperPc[h] = "search"
  /\ stop
  /\ helperPc' = [helperPc EXCEPT ![h] = "done"]
  /\ UNCHANGED <<guiVars, outVars, sharedVars, uciVars, mainVars, helperDepth>>

\* An iteration completes, with a mate score if found: leave the loop on a
\* mate unless pondering, on a stop, or after the last depth.
HelperIterate(h) ==
  /\ helperPc[h] = "search"
  /\ \E found \in BOOLEAN :
       IF (found /\ ~pondering) \/ stop \/ helperDepth[h] >= DepthCap(limits)
       THEN /\ helperPc' = [helperPc EXCEPT ![h] = "done"]
            /\ UNCHANGED helperDepth
       ELSE /\ helperDepth' = [helperDepth EXCEPT ![h] = @ + 1]
            /\ UNCHANGED helperPc
  /\ UNCHANGED <<guiVars, outVars, sharedVars, uciVars, mainVars>>

Helper(h) == HelperAbort(h) \/ HelperIterate(h)

\* The process has returned from main: nothing more happens.
Exited == uciPc = "exited" /\ UNCHANGED vars

Next == \/ Gui
        \/ Uci
        \/ Main
        \/ \E h \in Helpers : Helper(h)
        \/ Exited

Safety == Init /\ [][Next]_vars

(***************************************************************************)
(* The operating system schedules every thread.  An iteration of the tree  *)
(* search is promised to end only where nothing but its depth bounds it:   *)
(* elsewhere it may outlast any stop, clock or node limit, and check_time  *)
(* must be enough.  Nothing is promised of the GUI.                        *)
(***************************************************************************)
MainProgress == \/ Main /\ mainPc # "search"
                \/ MainAbort \/ MainExpire
                \/ MainIterate /\ limits.kind = "depth"

Fairness == /\ WF_vars(Uci)
            /\ WF_vars(MainProgress)
            /\ \A h \in Helpers : WF_vars(HelperAbort(h))

Spec == Safety /\ Fairness

-----------------------------------------------------------------------------
(* Safety.                                                                 *)

Searching == mainPc \in {"search", "reported", "idle", "finish", "gather"}

\* While the UCI thread rewrites the transposition table or the root, no worker
\* is inside the search.  set_position and ucinewgame join first; setoption
\* Hash does not, and rests on the helpers having been joined before the
\* bestmove the GUI waited for.
SharedStateQuiet ==
  uciPc \in {"exec", "resize"} =>
     /\ ~Searching
     /\ \A h \in Helpers : helperPc[h] # "search"

\* The n-th bestmove is chosen from the position that was sent with the n-th
\* go: none is skipped, repeated, or computed on an older root.
AnswersInOrder ==
  /\ Len(answers) <= gos
  /\ \A n \in DOMAIN answers : answers[n] = n

\* "stop" and "quit" are not lost: once the UCI thread waits for the search to
\* end, whatever has not yet seen the flag will find it set.
StopNotLost ==
  (uciPc = "join" /\ uciCmd.op \in {"stop", "quit"} /\ mainPc \notin {"none", "clear", "done"})
     => stop

\* A clocked search that no longer ponders runs on a finite budget, once the
\* ponderhit that released it has been carried out.
ClockArmed ==
  (/\ mainPc \in {"search", "reported", "idle"}
   /\ limits.kind = "timed"
   /\ ~pondering
   /\ uciPc \notin {"hitLoad", "hitPublish"}) => budget = "fin"

\* The pondering flag never leaks out of the ponder search it was set for,
\* and no helper outlives the search that launched it.
NothingLeaks ==
  /\ pondering => limits.ponder /\ mainPc \notin {"none", "done"}
  /\ mainPc \in {"none", "reset", "arm", "save", "load", "publish", "spawn", "done"}
       => \A h \in Helpers : helperPc[h] = "off"

\* A ponderhit is not lost: once it has been read, the search it was meant for
\* is no longer pondering.
PonderhitHeard ==
  ("ponderhit" \in told /\ stdin = <<>> /\ uciPc = "read" /\ Searching)
     => ~pondering

\* No command of a patient GUI is lost on the threads it is meant for
\* (uci.cpp: stop, quit, ponderhit; search.cpp: think, ponderhit).
CommandsHeard == StopNotLost /\ ClockArmed /\ PonderhitHeard

\* The process exits only with its search thread joined and, unless it was
\* told to quit, every go answered.
CleanExit ==
  uciPc = "exited" => /\ mainPc = "none"
                      /\ closed = "eof" => ~Outstanding

Protocol == INSTANCE UciProtocol WITH
              asks <- gos, claim <- Claim, replies <- Len(answers)

\* Every behaviour is one the protocol allows: in particular a "go ponder" is
\* not answered before ponderhit, stop or quit, and no go is answered twice.
ImplementsProtocolSafety == Protocol!ProtocolSafety

\* And the protocol's promise is kept: a request that is due is answered.
ImplementsProtocol == Protocol!ProtocolSpec

-----------------------------------------------------------------------------
(* Liveness.                                                               *)

\* quit ends the process.
QuitExits == (closed = "quit") ~> (uciPc = "exited")

\* The end of stdin ends the process once the running search has finished.
EofExits == (closed = "eof") ~> (uciPc = "exited")

\* Either way the process ends (uci.cpp: uci_loop_stdin's end).
Ends == QuitExits /\ EofExits

\* isready is answered, also in the middle of a search.
ReadyIsAnswered == pinged ~> ~pinged
=============================================================================
