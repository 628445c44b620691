------------------------ MODULE WizardSharedMemory -------------------------
(***************************************************************************)
(* One network shared by several engine processes: SharedMemory<T>::open   *)
(* and close of wizard/shm_linux.h over POSIX shared memory.               *)
(*                                                                         *)
(* The name of a region is that of its content, so all processes ask for   *)
(* the same one.  A region outlives its name: a process that opened it     *)
(* before it was unlinked goes on with it, and its flock() and its mutex   *)
(* are then not those of the next region of that name.  Who is attached is *)
(* told by files, one "sentinel" per process; the header's ref_count is    *)
(* read by nothing and is left out.  A process may be killed at any step.  *)
(***************************************************************************)
EXTENDS Naturals, FiniteSets

CONSTANTS
    Process,
    MaxStarts,      \* bound: the processes started, a restart with an old pid included
    MaxFull,        \* bound: the times /dev/shm has no room for a region
    MaxKills        \* bound: the processes killed

\* In the place of the owner of a flock or of a mutex.
Nobody == "nobody"
Died == "owner died"

ASSUME ProcessAssumption == IsFiniteSet(Process) /\ Nobody \notin Process /\ Died \notin Process

VARIABLES
    proc,       \* per process: where it is in open() or close(), and its local variables
    region,     \* the memory objects: size and initialized of the header, flock, mutex
    named,      \* the region shm_open() finds, or NoRegion
    sentinels,  \* the processes whose sentinel file is in /dev/shm
    litter,     \* history: someone was killed since the sentinels were last looked
                \* through, or one of theirs was then taken for that of a new process
    count       \* of the bounds

vars == <<proc, region, named, sentinels, litter, count>>

Region == 1 .. Cardinality(Process) + 2
NoRegion == 0

Gone == [at |-> "gone", fd |-> NoRegion, created |-> FALSE, retried |-> FALSE, remove |-> FALSE]
Fresh == [sized |-> FALSE, initialized |-> FALSE, flock |-> Nobody, mutex |-> Nobody]

Alive(p) == proc[p].at # "gone"
Holds(p, r) == proc[p].fd = r
At(p, place) == proc[p].at = place
Goto(p, place) == proc' = [proc EXCEPT ![p].at = place]

\* Closing the last descriptor of a region without a name frees it; its number
\* is used again.
Used(r) == r = named \/ \E p \in Process : Holds(p, r)
NextRegion == CHOOSE r \in Region : ~Used(r)
fd(p) == proc[p].fd

Init ==
    /\ proc = [p \in Process |-> Gone]
    /\ region = [r \in Region |-> Fresh]
    /\ named = NoRegion /\ sentinels = {} /\ litter = FALSE
    /\ count = [starts |-> 0, full |-> 0, kills |-> 0]

Start(p) ==
    /\ ~Alive(p) /\ count.starts < MaxStarts
    /\ proc' = [proc EXCEPT ![p] = [Gone EXCEPT !.at = "create"]]
    /\ count' = [count EXCEPT !.starts = @ + 1]
    /\ UNCHANGED <<region, named, sentinels, litter>>

----------------------------------------------------------------------------
(* open() *)

\* shm_open with O_CREAT | O_EXCL.
ShmCreate(p) ==
    /\ At(p, "create")
    /\ IF named = NoRegion
       THEN /\ named' = NextRegion
            /\ region' = [region EXCEPT ![NextRegion] = Fresh]
            /\ proc' = [proc EXCEPT ![p].at = "lock", ![p].fd = NextRegion, ![p].created = TRUE]
       ELSE /\ Goto(p, "reopen")
            /\ UNCHANGED <<region, named>>
    /\ UNCHANGED <<sentinels, litter, count>>

\* The name may have gone meanwhile: the network is then loaded into local memory.
ShmReopen(p) ==
    /\ At(p, "reopen")
    /\ proc' = [proc EXCEPT ![p].at = IF named = NoRegion THEN "local" ELSE "lock", ![p].fd = named]
    /\ UNCHANGED <<region, named, sentinels, litter, count>>

\* lock_file of open() and of close().
LockFile(p) ==
    /\ At(p, "lock") \/ At(p, "close")
    /\ region[fd(p)].flock = Nobody
    /\ region' = [region EXCEPT ![fd(p)].flock = p]
    /\ Goto(p, IF At(p, "close") THEN "close mutex" ELSE IF proc[p].created THEN "allocate" ELSE "check")
    /\ UNCHANGED <<named, sentinels, litter, count>>

\* setup_new_region: ftruncate and fallocate, and then the header and the data; where
\* it is fallocate that fails, the file has its size already.
Allocate(p) ==
    /\ At(p, "allocate")
    /\ \/ /\ region' = [region EXCEPT ![fd(p)].sized = TRUE]
          /\ Goto(p, "initialize")
          /\ UNCHANGED count
       \/ /\ count.full < MaxFull
          /\ count' = [count EXCEPT !.full = @ + 1]
          /\ region' = region \/ region' = [region EXCEPT ![fd(p)].sized = TRUE]
          /\ Goto(p, "discard")
    /\ UNCHANGED <<named, sentinels, litter>>

Initialize(p) ==
    /\ At(p, "initialize")
    /\ region' = [region EXCEPT ![fd(p)].initialized = TRUE, ![fd(p)].mutex = Nobody]
    /\ Goto(p, "mutex")
    /\ UNCHANGED <<named, sentinels, litter, count>>

\* Mutant: only the size is looked at.
valid_sized(r) == region[r].sized
\* setup_existing_region.
valid(r) == region[r].sized /\ region[r].initialized

setup_existing_region(p) ==
    /\ At(p, "check")
    /\ Goto(p, IF valid(fd(p)) THEN "mutex" ELSE "discard")
    /\ UNCHANGED <<region, named, sentinels, litter, count>>

\* An invalid region, or one that could not be set up, loses its name, or whatever
\* region has the name by now does.
Discard(p) ==
    /\ At(p, "discard")
    /\ named' = NoRegion
    /\ Goto(p, "give up")
    /\ UNCHANGED <<region, sentinels, litter, count>>

\* Unlock and close; an invalid region that was found is tried again, once.
GiveUp(p) ==
    /\ At(p, "give up")
    /\ region' = [region EXCEPT ![fd(p)].flock = Nobody]
    /\ proc' = [proc EXCEPT ![p] =
          IF ~@.created /\ ~@.retried THEN [Gone EXCEPT !.at = "create", !.retried = TRUE]
          ELSE [Gone EXCEPT !.at = "local"]]
    /\ UNCHANGED <<named, sentinels, litter, count>>

\* Mutant: a mutex whose owner died stays locked.
free_normal(mutex) == mutex = Nobody
\* A robust mutex whose owner died is made consistent.
free(mutex) == mutex \in {Nobody, Died}

\* lock_shared_mutex of open() and of close().
LockMutex(p) ==
    /\ At(p, "mutex") \/ At(p, "close mutex")
    /\ free(region[fd(p)].mutex)
    /\ region' = [region EXCEPT ![fd(p)].mutex = p]
    /\ Goto(p, IF At(p, "mutex") THEN "sentinel" ELSE "remove sentinel")
    /\ UNCHANGED <<named, sentinels, litter, count>>

\* A file with this pid was left by a process that was killed.
create_sentinel_file_locked(p) ==
    /\ At(p, "sentinel")
    /\ IF p \in sentinels THEN /\ sentinels' = sentinels \ {p}
                               /\ UNCHANGED proc
       ELSE /\ sentinels' = sentinels \cup {p}
            /\ Goto(p, "unlock")
    /\ UNCHANGED <<region, named, litter, count>>

Unlock(p) ==
    /\ At(p, "unlock")
    /\ region' = [region EXCEPT ![fd(p)].flock = Nobody, ![fd(p)].mutex = Nobody]
    /\ Goto(p, "attached")
    /\ UNCHANGED <<named, sentinels, litter, count>>

----------------------------------------------------------------------------
(* close(), by the destructor, at exit, or from the signal handler *)

Close(p) ==
    /\ \/ At(p, "attached") /\ Goto(p, "close")
       \/ At(p, "local") /\ proc' = [proc EXCEPT ![p] = Gone]
    /\ UNCHANGED <<region, named, sentinels, litter, count>>

remove_sentinel_file(p) ==
    /\ At(p, "remove sentinel")
    /\ sentinels' = sentinels \ {p}
    /\ Goto(p, "look")
    /\ UNCHANGED <<region, named, litter, count>>

HasSentinel(p) == proc[p].at \in {"unlock", "attached", "close", "close mutex", "remove sentinel"}

\* Mutant: a sentinel counts although its process is dead.
live_any == sentinels
\* pid_is_alive.
live == {q \in sentinels : Alive(q)}

\* The directory is read in one step; the first live process ends the reading,
\* so of the files of dead processes some may be left.
has_other_live_sentinels_locked(p) ==
    /\ At(p, "look")
    /\ proc' = [proc EXCEPT ![p].at = "unlink", ![p].remove = live = {}]
    /\ IF live = {} THEN sentinels' = {}
       ELSE \E seen \in SUBSET (sentinels \ live) : sentinels' = sentinels \ seen
    /\ litter' = (\E q \in sentinels : Alive(q) /\ ~HasSentinel(q))
    /\ UNCHANGED <<region, named, count>>

Unlink(p) ==
    /\ At(p, "unlink")
    /\ region' = [region EXCEPT ![fd(p)].mutex = Nobody]
    /\ named' = IF proc[p].remove THEN NoRegion ELSE named
    /\ Goto(p, "detach")
    /\ UNCHANGED <<sentinels, litter, count>>

Detach(p) ==
    /\ At(p, "detach")
    /\ region' = [region EXCEPT ![fd(p)].flock = Nobody]
    /\ proc' = [proc EXCEPT ![p] = Gone]
    /\ UNCHANGED <<named, sentinels, litter, count>>

\* The kernel drops the process's flock and marks its mutex.
Kill(p) ==
    /\ Alive(p) /\ count.kills < MaxKills
    /\ count' = [count EXCEPT !.kills = @ + 1]
    /\ proc' = [proc EXCEPT ![p] = Gone]
    /\ region' = [r \in Region |->
          [region[r] EXCEPT !.flock = IF @ = p THEN Nobody ELSE @, !.mutex = IF @ = p THEN Died ELSE @]]
    /\ litter' = TRUE
    /\ UNCHANGED <<named, sentinels>>

Open(p) ==
    \/ ShmCreate(p) \/ ShmReopen(p) \/ LockFile(p) \/ Allocate(p) \/ Initialize(p)
    \/ setup_existing_region(p) \/ Discard(p) \/ GiveUp(p) \/ LockMutex(p)
    \/ create_sentinel_file_locked(p) \/ Unlock(p)
Closing(p) ==
    \/ remove_sentinel_file(p) \/ has_other_live_sentinels_locked(p) \/ Unlink(p) \/ Detach(p)
Step(p) == Open(p) \/ Close(p) \/ Closing(p)

Next == \E p \in Process : Start(p) \/ Step(p) \/ Kill(p)

\* A process that runs goes on, and closes in the end unless it is killed.
Spec == Init /\ [][Next]_vars /\ \A p \in Process : WF_vars(Step(p))

----------------------------------------------------------------------------
(* Properties. *)

\* A process that uses the shared network finds it complete, whoever was killed
\* while setting it up and whichever region had the name; and the files and the
\* flock of a region are worked on by one process at a time.
SharesInitialised ==
    \A p \in Process : /\ At(p, "attached") => region[fd(p)].sized /\ region[fd(p)].initialized
                       /\ proc[p].at \in {"sentinel", "unlock", "remove sentinel", "look"} =>
                            region[fd(p)].flock = p /\ region[fd(p)].mutex = p

\* When all are gone nothing is left in /dev/shm, also when a process was killed
\* and when a region lost its name under its users, unless the kill came after the
\* sentinels were last looked through, or a new process had got the old one's pid.
LeavesNothing ==
    (\A p \in Process : ~Alive(p)) /\ ~litter => named = NoRegion /\ sentinels = {}

\* No region's locks keep a process from attaching or from falling back to memory
\* of its own, and none from ending.
Resting(p) == proc[p].at \in {"attached", "local", "gone"}
OpensAndCloses == \A p \in Process : []<>Resting(p)
=============================================================================
