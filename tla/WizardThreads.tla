--------------------------- MODULE WizardThreads ---------------------------
(***************************************************************************)
(* The wizard's thread pool and the life of a search in it                 *)
(* (wizard/thread.cpp, engine.cpp, uci.cpp, and start_searching and        *)
(* iterative_deepening of search.cpp).                                     *)
(*                                                                         *)
(* Each Thread has one condition variable for three purposes: its own      *)
(* thread waits there for a job, and others wait for it to be free; every  *)
(* notification wakes one waiter.  An actor, the UCI thread or a worker,   *)
(* is a list of operations to do; a worker with nothing to do goes back to *)
(* idle_loop().  What lies between two operations of an actor is what the  *)
(* code does in one critical section or with one atomic variable.          *)
(***************************************************************************)
EXTENDS Integers, SequencesExt

CONSTANTS
    Sizes,          \* the values of the option Threads tried; 1 .. Max(Sizes) are the threads
    MaxCommands,    \* bound: the commands read
    MaxPly,         \* bound for MAX_PLY: the iterations of a search
    Kinds           \* of searches: sets of the words that a go may have

ASSUME SizesAssumption == IsFiniteSet(Sizes) /\ Sizes # {} /\ Sizes \subseteq Nat \ {0}
\* What the LimitsType of a go says; "time" is a clock for either side.
Words == {"ponder", "infinite", "mate", "depth", "time", "movetime", "nodes"}

ASSUME KindsAssumption == Kinds \subseteq SUBSET Words
ASSUME BoundsAssumption == {MaxCommands, MaxPly} \subseteq Nat

VARIABLES
    thread,     \* per Thread: searching, exit, job, the waiters on cv, where its thread is
    todo,       \* per actor: the operations it has yet to do
    pool,       \* ThreadPool: size, stop, abortedSearch, setupStates; the manager's flags
    worker,     \* per Thread, what the setup job wrote into its Worker
    engine,     \* Engine: the position's StateInfos, owned until a search takes them
    gui         \* what has been asked and answered

vars == <<thread, todo, pool, worker, engine, gui>>

Main == 1
Thread == 1 .. Max(Sizes)
Uci == 0
Actor == {Uci} \cup Thread
NoStates == 0

----------------------------------------------------------------------------
(* Operations, and the lists the commands and jobs are made of. *)

Op(name, t) == [op |-> name, t |-> t, job |-> "none"]
Wait(t) == <<Op("wait", t)>>
Run(t, job) == <<[Op("run", t) EXCEPT !.job = job]>>
Do(name) == <<Op(name, Main)>>

ForAll(threads, list(_)) == FlattenSeq([i \in DOMAIN threads |-> list(threads[i])])
Threads(n) == [i \in 1 .. n |-> i]
Helpers(n) == [i \in 1 .. n - 1 |-> i + 1]

\* A job on every thread, and then wait for all.
OnAll(n, job) == ForAll(Threads(n), LAMBDA t : Run(t, job)) \o ForAll(Threads(n), Wait)

\* Thread's constructor and destructor.
Create(t) == <<Op("create", t)>> \o Wait(t) \o Run(t, "construct") \o Wait(t)
Destroy(t) == <<Op("exit", t)>> \o Run(t, "none") \o <<Op("join", t)>>

\* ThreadPool::clear, TranspositionTable::resize and clear.
Clear(n) == OnAll(n, "clear")
ClearTable(n) == OnAll(n, "clear table")

\* ThreadPool::set.
Set(old, new) ==
    (IF old > 0 THEN Wait(Main) \o ForAll(Threads(old), Destroy) ELSE <<>>)
      \o ForAll(Threads(new), Create) \o <<Op("sized", new)>> \o Clear(new) \o Wait(Main)

\* Engine::resize_threads waits for the helpers, set_tt_size for the main thread.
resize_threads(old, new) ==
    ForAll(Helpers(old), Wait) \o Set(old, new) \o Wait(Main) \o ClearTable(new)

\* Mutant: the option is set without waiting for the search.
setoption_at_once(new) == resize_threads(pool.size, new)
\* UCIEngine::setoption.
setoption(new) == Wait(Main) \o resize_threads(pool.size, new)

search_clear == Wait(Main) \o ClearTable(pool.size) \o Clear(pool.size)

start_thinking ==
    Wait(Main) \o Do("begin") \o OnAll(pool.size, "setup") \o Run(Main, "search")

\* ~ThreadPool.
destructor == Wait(Main) \o ForAll(Threads(pool.size), Destroy) \o <<Op("sized", 0)>>

\* Mutant: the answer does not wait for the helpers.
searching_alone(w) ==
    CASE w # Main -> <<Op("iterate", w)>>
      [] w = Main /\ ~worker[w].hasMoves -> Do("hold") \o Do("raise") \o Do("answer")
      [] OTHER -> ForAll(Helpers(pool.size), LAMBDA t : Run(t, "search")) \o <<Op("iterate", w)>>
                    \o Do("hold") \o Do("raise") \o Do("answer")

\* Worker::start_searching; without a legal move no helper is started.
searching(w) ==
    LET finish == Do("hold") \o Do("raise") \o ForAll(Helpers(pool.size), Wait) \o Do("answer")
    IN  CASE w # Main -> <<Op("iterate", w)>>
          [] w = Main /\ ~worker[w].hasMoves -> finish
          [] OTHER -> ForAll(Helpers(pool.size), LAMBDA t : Run(t, "search")) \o <<Op("iterate", w)>> \o finish

JobOf(w, job) ==
    CASE job = "search" -> searching(w)
      [] job = "none" -> <<>>
      [] OTHER -> <<Op(job, w)>>

----------------------------------------------------------------------------
NoThread == [place |-> "none", searching |-> FALSE, exit |-> FALSE, job |-> "none", waiters |-> {}]
NoWork == [go |-> 0, kind |-> {}, hasMoves |-> FALSE, states |-> NoStates,
           rootDepth |-> 0, completedDepth |-> 0]

\* Engine's constructor: no thread yet.
Init ==
    /\ thread = [t \in Thread |-> NoThread]
    /\ \E n \in Sizes : todo = [a \in Actor |-> IF a = Uci THEN resize_threads(0, n) ELSE <<>>]
    /\ pool = [size |-> 0, stop |-> FALSE, abortedSearch |-> FALSE, setupStates |-> NoStates,
               ponder |-> FALSE, stopOnPonderhit |-> FALSE, go |-> 0]
    /\ worker = [t \in Thread |-> NoWork]
    /\ engine = [states |-> 1, position |-> 1, hasMoves |-> TRUE, lists |-> 1]
    /\ gui = [commands |-> 0, go |-> 0, kind |-> {}, answered |-> 0, held |-> FALSE, quit |-> FALSE]

Continue(a) == todo' = [todo EXCEPT ![a] = Tail(@)]
At(a, name) == todo[a] # <<>> /\ Head(todo[a]).op = name
Target(a) == Head(todo[a]).t
Blocked(a) == \E t \in Thread : a \in thread[t].waiters

\* cv.notify_one() and cv.wait(): the thread record after one waiter is woken.
Notified(t) == IF thread[t].waiters = {} THEN {thread[t]}
               ELSE {[thread[t] EXCEPT !.waiters = @ \ {a}] : a \in thread[t].waiters}
Waits(a, t) == /\ thread' = [thread EXCEPT ![t].waiters = @ \cup {a}]
               /\ UNCHANGED todo

wait_for_search_finished(a) ==
    /\ At(a, "wait") /\ ~Blocked(a)
    /\ IF thread[Target(a)].searching THEN Waits(a, Target(a))
       ELSE Continue(a) /\ UNCHANGED thread
    /\ UNCHANGED <<pool, worker, engine, gui>>

\* The notification of run_custom_job comes after its lock is released.
run_custom_job(a) ==
    LET t == Target(a)
    IN  /\ At(a, "run") /\ ~Blocked(a)
        /\ IF thread[t].searching THEN Waits(a, t)
           ELSE /\ thread' = [thread EXCEPT ![t].job = Head(todo[a]).job, ![t].searching = TRUE]
                /\ todo' = [todo EXCEPT ![a] = <<Op("notify", t)>> \o Tail(@)]
        /\ UNCHANGED <<pool, worker, engine, gui>>

Notify(a) ==
    /\ At(a, "notify")
    /\ \E x \in Notified(Target(a)) : thread' = [thread EXCEPT ![Target(a)] = x]
    /\ Continue(a)
    /\ UNCHANGED <<pool, worker, engine, gui>>

\* The top of idle_loop, up to its wait; and what follows when it returns.
Park(w) ==
    /\ thread[w].place = "running" /\ todo[w] = <<>>
    /\ \E x \in Notified(w) : thread' = [thread EXCEPT ![w] =
          [x EXCEPT !.searching = FALSE, !.place = "parked", !.waiters = @ \cup {w}]]
    /\ UNCHANGED <<todo, pool, worker, engine, gui>>

Wake(w) ==
    /\ thread[w].place = "parked" /\ ~Blocked(w)
    /\ IF ~thread[w].searching THEN Waits(w, w)
       ELSE IF thread[w].exit THEN /\ thread' = [thread EXCEPT ![w].place = "returned"]
                                   /\ UNCHANGED todo
       ELSE /\ thread' = [thread EXCEPT ![w].place = "running", ![w].job = "none"]
            /\ todo' = [todo EXCEPT ![w] = JobOf(w, thread[w].job)]
    /\ UNCHANGED <<pool, worker, engine, gui>>

CreateThread ==
    /\ At(Uci, "create")
    /\ thread' = [thread EXCEPT ![Target(Uci)] = [NoThread EXCEPT !.place = "running", !.searching = TRUE]]
    /\ Continue(Uci)
    /\ UNCHANGED <<pool, worker, engine, gui>>

ExitThread ==
    /\ At(Uci, "exit")
    /\ thread' = [thread EXCEPT ![Target(Uci)].exit = TRUE]
    /\ Continue(Uci)
    /\ UNCHANGED <<pool, worker, engine, gui>>

\* Once joined the Thread and its Worker are gone.
Join ==
    /\ At(Uci, "join") /\ thread[Target(Uci)].place = "returned"
    /\ thread' = [thread EXCEPT ![Target(Uci)] = NoThread]
    /\ worker' = [worker EXCEPT ![Target(Uci)] = NoWork]
    /\ Continue(Uci)
    /\ UNCHANGED <<pool, engine, gui>>

Sized ==
    /\ At(Uci, "sized")
    /\ pool' = [pool EXCEPT !.size = Target(Uci)]
    /\ Continue(Uci)
    /\ UNCHANGED <<thread, worker, engine, gui>>

----------------------------------------------------------------------------
(* Jobs. *)

\* start_thinking, before the setup jobs: the engine's StateInfos change hands.
Begin ==
    /\ At(Uci, "begin")
    /\ pool' = [pool EXCEPT !.stop = FALSE, !.abortedSearch = FALSE, !.stopOnPonderhit = FALSE,
                            !.ponder = "ponder" \in gui.kind, !.go = gui.go,
                            !.setupStates = IF engine.states # NoStates THEN engine.states ELSE @]
    /\ engine' = [engine EXCEPT !.states = NoStates]
    /\ gui' = [gui EXCEPT !.held = {"infinite", "ponder"} \cap gui.kind # {}]
    /\ Continue(Uci)
    /\ UNCHANGED <<thread, worker>>

Setup(w) ==
    /\ At(w, "setup")
    /\ worker' = [worker EXCEPT ![w] =
          [go |-> gui.go, kind |-> gui.kind, hasMoves |-> engine.hasMoves,
           states |-> pool.setupStates, rootDepth |-> 0, completedDepth |-> 0]]
    /\ Continue(w)
    /\ UNCHANGED <<thread, pool, engine, gui>>

\* The other jobs touch only memory of their own.
Chore(w) ==
    /\ \E name \in {"construct", "clear", "clear table"} : At(w, name)
    /\ Continue(w)
    /\ UNCHANGED <<thread, pool, worker, engine, gui>>

DepthLimit == 1
use_time_management(w) == "time" \in worker[w].kind

\* One more iteration, if there is to be one.
Iterate(w) ==
    LET depth == worker[w].rootDepth + 1
        goes == /\ depth < MaxPly /\ ~pool.stop
                /\ ~("depth" \in worker[w].kind /\ w = Main /\ depth > DepthLimit)
    IN  /\ At(w, "iterate")
        /\ worker' = [worker EXCEPT ![w].rootDepth = depth]
        /\ todo' = [todo EXCEPT ![w] = IF goes THEN <<Op("search", w)>> \o @ ELSE Tail(@)]
        /\ UNCHANGED <<thread, pool, engine, gui>>

\* search<Root> and what follows it: an iteration is complete unless stopped, and go mate
\* stops the search as soon as the mate is found, whoever waits for a stop or ponderhit.
Searched(w) ==
    \E mated \in BOOLEAN :
       LET decides == w = Main /\ use_time_management(w) /\ ~pool.stop /\ ~mated /\ ~pool.stopOnPonderhit
       IN  /\ At(w, "search")
           /\ mated => w = Main /\ "mate" \in worker[w].kind
           /\ worker' = [worker EXCEPT ![w].completedDepth = IF pool.stop THEN @ ELSE worker[w].rootDepth]
           /\ pool' = [pool EXCEPT !.stop = @ \/ mated]
           /\ todo' = [todo EXCEPT ![w] = (IF decides THEN Do("decide") ELSE <<>>) \o Tail(@)]
           /\ UNCHANGED <<thread, engine, gui>>

\* check_time, somewhere in the main thread's search: what has elapsed and the nodes
\* searched are anything.
Budgets == {"time", "movetime", "nodes"}
check_time ==
    /\ At(Main, "search")
    /\ ~pool.ponder /\ worker[Main].completedDepth >= 1 /\ Budgets \cap worker[Main].kind # {}
    /\ pool' = [pool EXCEPT !.stop = TRUE, !.abortedSearch = TRUE]
    /\ UNCHANGED <<thread, todo, worker, engine, gui>>

\* The time for another iteration may be up; ponder is read before it is acted on.
Decide ==
    /\ At(Main, "decide")
    /\ \E up \in BOOLEAN :
         todo' = [todo EXCEPT ![Main] =
            (IF ~up THEN <<>> ELSE IF pool.ponder THEN Do("stop on ponderhit") ELSE Do("raise")) \o Tail(@)]
    /\ UNCHANGED <<thread, pool, worker, engine, gui>>

StopOnPonderhit ==
    /\ At(Main, "stop on ponderhit")
    /\ pool' = [pool EXCEPT !.stopOnPonderhit = TRUE]
    /\ Continue(Main)
    /\ UNCHANGED <<thread, worker, engine, gui>>

\* Mutant: a ponder search answers when it is done.
holds_infinite == "infinite" \in worker[Main].kind
holds == pool.ponder \/ "infinite" \in worker[Main].kind

\* The busy wait, and the order to the helpers.
Hold ==
    /\ At(Main, "hold")
    /\ pool.stop \/ ~holds
    /\ Continue(Main)
    /\ UNCHANGED <<thread, pool, worker, engine, gui>>

Raise ==
    /\ At(Main, "raise")
    /\ pool' = [pool EXCEPT !.stop = TRUE]
    /\ Continue(Main)
    /\ UNCHANGED <<thread, worker, engine, gui>>

Answer ==
    /\ At(Main, "answer")
    /\ gui' = [gui EXCEPT !.answered = worker[Main].go, !.held = FALSE]
    /\ Continue(Main)
    /\ UNCHANGED <<thread, pool, worker, engine>>

----------------------------------------------------------------------------
(* Commands. *)

Read(list) ==
    /\ todo[Uci] = <<>> /\ ~gui.quit /\ gui.commands < MaxCommands
    /\ todo' = [todo EXCEPT ![Uci] = list]
    /\ UNCHANGED <<thread, worker>>

\* A GUI does not ask for something new while a search waits for its stop or
\* ponderhit: the UCI thread would wait for the search, and never read either.
MayBlock == ~gui.held

Go(kind) ==
    /\ MayBlock /\ Read(start_thinking)
    /\ gui' = [gui EXCEPT !.commands = @ + 1, !.go = @ + 1, !.kind = kind]
    /\ UNCHANGED <<pool, engine>>

Stop ==
    /\ Read(<<>>)
    /\ pool' = [pool EXCEPT !.stop = TRUE]
    /\ gui' = [gui EXCEPT !.commands = @ + 1, !.held = FALSE]
    /\ UNCHANGED engine

Ponderhit ==
    /\ Read(<<>>)
    /\ pool' = [pool EXCEPT !.ponder = FALSE]
    /\ gui' = [gui EXCEPT !.commands = @ + 1, !.held = @ /\ "infinite" \in gui.kind]
    /\ UNCHANGED engine

\* The list the engine still owns is freed, searching or not.
PositionCommand(hasMoves) ==
    /\ Read(<<>>)
    /\ engine' = [states |-> engine.lists + 1, position |-> engine.lists + 1, hasMoves |-> hasMoves,
                  lists |-> engine.lists + 1]
    /\ gui' = [gui EXCEPT !.commands = @ + 1]
    /\ UNCHANGED pool

UciNewGame ==
    /\ MayBlock /\ Read(search_clear)
    /\ gui' = [gui EXCEPT !.commands = @ + 1]
    /\ UNCHANGED <<pool, engine>>

SetThreads(n) ==
    /\ MayBlock /\ Read(setoption(n))
    /\ gui' = [gui EXCEPT !.commands = @ + 1]
    /\ UNCHANGED <<pool, engine>>

\* Or the end of the input.
Quit ==
    /\ todo[Uci] = <<>> /\ ~gui.quit
    /\ todo' = [todo EXCEPT ![Uci] = destructor]
    /\ pool' = [pool EXCEPT !.stop = TRUE]
    /\ gui' = [gui EXCEPT !.quit = TRUE, !.held = FALSE]
    /\ UNCHANGED <<thread, worker, engine>>

Command ==
    \/ \E kind \in Kinds : Go(kind)
    \/ Stop \/ Ponderhit \/ UciNewGame \/ Quit
    \/ \E hasMoves \in BOOLEAN : PositionCommand(hasMoves)
    \/ \E n \in Sizes : SetThreads(n)

Shared(a) == wait_for_search_finished(a) \/ run_custom_job(a) \/ Notify(a)
UciStep == Shared(Uci) \/ CreateThread \/ ExitThread \/ Join \/ Sized \/ Begin
WorkerStep(w) == Shared(w) \/ Park(w) \/ Wake(w) \/ Setup(w) \/ Chore(w) \/ Iterate(w) \/ Searched(w)
MainStep == Decide \/ StopOnPonderhit \/ Hold \/ Raise \/ Answer

Next == UciStep \/ (\E w \in Thread : WorkerStep(w)) \/ MainStep \/ check_time \/ Command

\* Every thread runs; nothing is assumed of the clock or of the GUI, but that its
\* input ends.
Fairness == /\ WF_vars(UciStep) /\ WF_vars(MainStep) /\ WF_vars(Quit)
            /\ \A w \in Thread : WF_vars(WorkerStep(w))
Spec == Init /\ [][Next]_vars /\ Fairness

----------------------------------------------------------------------------
(* Properties. *)

Searching(w) == \E i \in DOMAIN todo[w] : todo[w][i].op \in {"iterate", "search", "answer"}

\* Every worker that searches does so for the go last begun, on the list of StateInfos
\* the pool keeps for it, whatever positions have come since; and until the main
\* thread has answered nobody else clears, rebuilds or resets a worker.
WizardSearchesOwnGo == \A w \in Thread : Searching(w) =>
    /\ worker[w].go = pool.go /\ gui.answered < pool.go
    /\ worker[w].states = pool.setupStates /\ pool.setupStates # engine.states
    /\ Searching(Main)
    /\ \A v \in Thread : ~\E i \in DOMAIN todo[v] :
         todo[v][i].op \in {"construct", "clear", "clear table", "setup"}

\* What the code lets end a held search: a mate found for go mate, and under go infinite,
\* which check_time does not spare, whatever else bounds the search.
Cuts(kind) == "mate" \in kind \/ ("infinite" \in kind /\ Budgets \cap kind # {})
Held == gui.held /\ ~Cuts(gui.kind)

\* A search that ponders or is infinite is not answered before its stop or ponderhit,
\* unless it is also one of mate, or an infinite one that has a clock or a budget.
WizardHolds == [][gui'.answered # gui.answered => ~Held]_vars

\* No search is answered while the GUI holds it: "the UCI protocol states that we
\* shouldn't print the best move before the GUI sends a stop or ponderhit command"
\* (Worker::start_searching).
HoldsForRelease == [][gui'.answered # gui.answered => ~gui.held]_vars

\* No wakeup is lost, though each notification wakes but one of the waiters of a
\* thread: every command is done with and every search that is not held answered,
\* and when the input ends all threads are joined.
WizardGoesOn ==
    /\ todo[Uci] # <<>> ~> todo[Uci] = <<>>
    /\ gui.go > gui.answered /\ ~gui.held ~> gui.go = gui.answered
    /\ <>[](\A w \in Thread : thread[w] = NoThread)
=============================================================================
