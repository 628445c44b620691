--------------------------- MODULE WizardThreadsInv --------------------------
(***************************************************************************)
(* The inductive invariant behind the safety properties of WizardThreads.  *)
(*                                                                         *)
(* A job is given to a thread that is free, and whoever gives it waits for *)
(* it later in the same list.  So the shape of what an actor has left to   *)
(* do tells which threads may be busy, and for whom; and a search is begun *)
(* and answered between two waits, with no thread doing anything else.     *)
(***************************************************************************)
EXTENDS WizardThreads

Jobs == {"none", "construct", "clear", "clear table", "setup", "search"}
Chores == {"construct", "clear", "clear table", "setup"}

UciOps == {"wait", "run", "notify", "create", "exit", "join", "sized", "begin"}
\* What the main thread does in a search before its last operation, the answer.
MainOps == {"iterate", "search", "decide", "stop on ponderhit", "hold", "raise",
            "run", "notify", "wait"}

Operations ==
  {o \in [op : UciOps \cup MainOps \cup Chores \cup {"answer"}, t : 0 .. Max(Sizes), job : Jobs] :
     o.op # "sized" => o.t \in Thread}

SearchKinds == SUBSET Words
Places == {"none", "running", "parked", "returned"}

ThreadState == [place : Places, searching : BOOLEAN, exit : BOOLEAN, job : Jobs,
                waiters : SUBSET Actor]
WorkerState == [go : Nat, kind : SearchKinds, hasMoves : BOOLEAN, states : Nat,
                rootDepth : Nat, completedDepth : Nat]
PoolState == [size : 0 .. Max(Sizes), stop : BOOLEAN, abortedSearch : BOOLEAN,
              setupStates : Nat, ponder : BOOLEAN, stopOnPonderhit : BOOLEAN, go : Nat]
EngineState == [states : Nat, position : Nat, hasMoves : BOOLEAN, lists : Nat]
GuiState == [commands : Nat, go : Nat, kind : SearchKinds, answered : Nat,
             held : BOOLEAN, quit : BOOLEAN]

TypeOK ==
  /\ thread \in [Thread -> ThreadState]
  /\ todo \in [Actor -> Seq(Operations)]
  /\ pool \in PoolState
  /\ worker \in [Thread -> WorkerState]
  /\ engine \in EngineState
  /\ gui \in GuiState

----------------------------------------------------------------------------
(* What is in a list of operations. *)

Has(L, name) == \E o \in ToSet(L) : o.op = name
Awaits(L, t) == \E o \in ToSet(L) : o.op = "wait" /\ o.t = t
SetsUp(L, t) == \E o \in ToSet(L) : o.op = "run" /\ o.job = "setup" /\ o.t = t

\* Who is given the k-th operation's job is waited for after it.
Awaited(L, k) == \E j \in k + 1 .. Len(L) : L[j].op = "wait" /\ L[j].t = L[k].t

\* A list of the UCI thread that starts no search ...
QuietList(L) == \A k \in 1 .. Len(L) :
  /\ L[k].op \in UciOps \ {"begin"}
  /\ L[k].op = "run" => L[k].job \notin {"setup", "search"}
  /\ L[k].op = "run" /\ L[k].job # "none" => Awaited(L, k)

\* ... and one that does, as the last thing.
GoList(L) ==
  /\ L # <<>>
  /\ L[Len(L)].op = "run" /\ L[Len(L)].job = "search" /\ L[Len(L)].t = Main
  /\ \A k \in 1 .. Len(L) - 1 :
       \/ L[k].op \in {"wait", "notify"}
       \/ L[k].op = "run" /\ L[k].job = "setup" /\ Awaited(L, k)
       \/ L[k].op = "begin" /\ \A j \in 1 .. k - 1 : L[j].op = "wait"

\* The rest of a search of the main thread, with n threads.
SearchList(L, n) ==
  /\ L # <<>>
  /\ L[Len(L)].op = "answer"
  /\ \A k \in 1 .. Len(L) - 1 :
       /\ L[k].op \in MainOps
       /\ L[k].op = "run" => L[k].job = "search" /\ L[k].t \in 2 .. n /\ Awaited(L, k)

\* The order to the helpers comes after the main thread has held its answer.
Holding(L) == \E i \in 1 .. Len(L) : L[i].op = "hold" /\ \A j \in 1 .. i - 1 : L[j].op # "raise"

----------------------------------------------------------------------------
(* Where the search is, and what a thread may be doing. *)

\* A go has begun and its search has not been given to the main thread; a search is
\* live from there to its answer.
Begun == GoList(todo[Uci]) /\ ~Has(todo[Uci], "begin")
Live == thread[Main].job = "search" \/ Has(todo[Main], "answer")
\* It has a job, taken or not.
Busy(t) == thread[t].job # "none" \/ todo[t] # <<>>

\* The job, and what is left of it, are a helper's search; or the UCI thread's chores.
Searches(t) == /\ thread[t].job \in {"none", "search"}
               /\ \A o \in ToSet(todo[t]) : o.op \in {"iterate", "search"}
DoesChores(t) == /\ thread[t].job \in Chores \cup {"none"}
                 /\ \A o \in ToSet(todo[t]) : o.op \in Chores

\* The worker is one of the go last begun, or has yet to become one.
IsSetUp(t) == /\ worker[t].go = pool.go
              /\ worker[t].states = pool.setupStates
IsBeingSetUp(t) == \/ SetsUp(todo[Uci], t)
                   \/ thread[t].job = "setup"
                   \/ Has(todo[t], "setup")

----------------------------------------------------------------------------
(* The invariant. *)

\* searching covers a job from the moment it is given to the return to idle_loop.
ThreadInv == \A t \in Thread :
  /\ thread[t].place = "running" => thread[t].searching /\ thread[t].job = "none"
  /\ todo[t] # <<>> => thread[t].place = "running"
  /\ thread[t].job # "none" => thread[t].searching

\* What the UCI thread has left to do starts at most one search, as the last thing, and
\* the main thread's search waits for every helper it starts.
ListInv ==
  /\ QuietList(todo[Uci]) \/ GoList(todo[Uci])
  /\ Has(todo[Main], "answer") => SearchList(todo[Main], pool.size)

\* A pool without threads is on its way to having some, or the program ends.
SizeInv ==
  /\ \A o \in ToSet(todo[Uci]) : o.op = "sized" => o.t > 0 \/ gui.quit
  /\ pool.size = 0 => gui.quit \/ Has(todo[Uci], "sized")

\* Whoever is busy is waited for: a helper that searches by the main thread, whoever
\* does a chore by the UCI thread, and never both kinds at once.
WorkInv == \A t \in Thread : Busy(t) =>
  \/ Live /\ t = Main
  \/ Live /\ t \in 2 .. pool.size /\ Searches(t) /\ Awaits(todo[Main], t)
  \/ ~Live /\ DoesChores(t) /\ Awaits(todo[Uci], t)

\* Workers are set up only for a go that has begun.
SetupInv == \A t \in Thread :
  thread[t].job = "setup" \/ Has(todo[t], "setup") => Begun

\* Answers come after the go, and the pool's StateInfos are not those the engine frees.
CountInv ==
  /\ gui.answered <= pool.go
  /\ pool.go <= gui.go
  /\ pool.setupStates # engine.states
  /\ pool.setupStates <= engine.lists
  /\ engine.states <= engine.lists

\* Until its search is given out, a go has every worker set up or about to be.
GoInv == GoList(todo[Uci]) =>
  /\ pool.size > 0
  /\ Has(todo[Uci], "begin") =>
       /\ pool.go < gui.go
       /\ \A t \in 1 .. pool.size : SetsUp(todo[Uci], t)
  /\ Begun =>
       /\ ~Live
       /\ pool.go = gui.go /\ gui.answered < pool.go
       /\ \A t \in 1 .. pool.size :
            IsBeingSetUp(t) \/ (IsSetUp(t) /\ worker[t].kind = gui.kind)

\* While a search is live the UCI thread is idle, notifies of it or waits for its end,
\* and every worker is set up for the go last begun.
LiveInv == Live =>
  /\ \/ todo[Uci] = <<>>
     \/ Head(todo[Uci]).op = "wait" /\ Head(todo[Uci]).t = Main
     \/ Head(todo[Uci]).op = "notify" /\ Len(todo[Uci]) = 1
  /\ pool.size > 0
  /\ gui.answered < pool.go
  /\ \A t \in 1 .. pool.size : IsSetUp(t)

\* A held search that nothing cuts short is not stopped, nor its ponder flag down unless it
\* is infinite, and its main thread is still before the busy wait.
HeldInv == Held =>
  /\ ~pool.stop
  /\ "infinite" \in gui.kind \/ ("ponder" \in gui.kind /\ pool.ponder)
  /\ Begun \/ Live
  /\ Live => /\ worker[Main].kind = gui.kind
             /\ thread[Main].job = "search" \/ Holding(todo[Main])
             /\ "infinite" \in gui.kind => ~Has(todo[Main], "decide")

IInv == /\ TypeOK
        /\ ThreadInv /\ ListInv /\ SizeInv /\ WorkInv /\ SetupInv
        /\ CountInv /\ GoInv /\ LiveInv /\ HeldInv
=============================================================================
