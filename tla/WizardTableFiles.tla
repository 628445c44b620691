-------------------------- MODULE WizardTableFiles --------------------------
(***************************************************************************)
(* The files of the endgame tablebases (wizard/syzygy/tbprobe.cpp): which  *)
(* of them there are (init, TBTables) and how one is opened by the first   *)
(* of the search threads that needs it (mapped, set).                      *)
(*                                                                         *)
(* A table is a record with, among others, the hashes of its material seen *)
(* from the two sides.  Size is 4096 in the code.                          *)
(***************************************************************************)
EXTENDS Integers, SequencesExt

CONSTANTS
    Threads,    \* the search threads
    Tables,     \* the tables that may be there
    Size,       \* buckets of the hash table
    MaxProbes   \* bound: probes of a thread

----------------------------------------------------------------------------
(* Finding a table by the hash of the material (TBTables).  The bucket     *)
(* after the last is never filled: the program exits if one is too few.    *)

Nothing == [key |-> 0, table |-> {}]

\* Robin Hood: the table nearer to its own bucket gives way.
displaced(otherKey, home) == otherKey % Size > home

RECURSIVE insert(_, _, _, _)
insert(hash, entry, home, bucket) ==
    LET other == hash[bucket]
    IN  IF bucket = Size THEN [hash EXCEPT ![Size].key = -1]
        ELSE IF other.key = entry.key \/ other.table = {} THEN [hash EXCEPT ![bucket] = entry]
        ELSE IF displaced(other.key, home)
        THEN insert([hash EXCEPT ![bucket] = entry], other, other.key % Size, bucket + 1)
        ELSE insert(hash, entry, home, bucket + 1)
Inserted(hash, key, t) == insert(hash, [key |-> key, table |-> {t}], key % Size, key % Size)

\* TBTables::add for a table whose file is there; init adds them in one order.
add(hash, t) == Inserted(Inserted(hash, t.key, t), t.key2, t)
Cleared == [b \in 0 .. Size |-> Nothing]

RECURSIVE getFrom(_, _, _)
getFrom(hash, key, bucket) ==
    IF hash[bucket].key = key \/ hash[bucket].table = {} THEN hash[bucket].table ELSE getFrom(hash, key, bucket + 1)
get(hash, key) == getFrom(hash, key, key % Size)

----------------------------------------------------------------------------
(* Opening a table by the first thread that needs it (mapped).  Each value *)
(* a thread reads without the mutex is read in a step of its own.          *)

VARIABLES
    hash,       \* TBTables
    opened,     \* for each table: ready, the address (base), and whether set() has run
    mutex,      \* the thread in mapped's critical section
    probing     \* what each thread is at, the table it found, and its probes so far

filesVars == <<hash, opened, mutex, probing>>

Closed == [ready |-> FALSE, base |-> FALSE, set |-> FALSE]
Idle == [pc |-> "idle", table |-> {}, key |-> 0, probes |-> 0]

\* init, at the start and on ucinewgame or a new SyzygyPath, with no search running:
\* some of the files are there, and their tables are added in any order.
FilesInit ==
    /\ \E S \in SUBSET Tables : \E order \in SetToSeqs(S) : hash = FoldLeft(add, Cleared, order)
    /\ hash[Size].key # -1
    /\ opened = [t \in Tables |-> Closed]
    /\ mutex = {}
    /\ probing = [i \in Threads |-> Idle]
init ==
    /\ \A i \in Threads : probing[i].pc = "idle"
    /\ hash # Cleared
    /\ hash' = Cleared
    /\ opened' = [t \in Tables |-> Closed]
    /\ UNCHANGED <<mutex, probing>>

To(i, pc) == probing' = [probing EXCEPT ![i].pc = pc]
Of(i) == CHOOSE t \in Tables : probing[i].table = {t}

probe_table(i, key) ==
    /\ probing[i].pc = "idle" /\ probing[i].probes < MaxProbes
    /\ LET found == get(hash, key)
       IN  probing' = [probing EXCEPT ![i] =
             [pc |-> IF found = {} THEN "idle" ELSE IF opened[CHOOSE t \in found : TRUE].ready THEN "use" ELSE "lock",
              table |-> found, key |-> key, probes |-> @.probes + 1]]
    /\ UNCHANGED <<hash, opened, mutex>>
Lock(i) == /\ probing[i].pc = "lock" /\ mutex = {} /\ mutex' = {i}
           /\ To(i, "again") /\ UNCHANGED <<hash, opened>>

Again(i) == /\ probing[i].pc = "again"
            /\ To(i, IF opened[Of(i)].ready THEN "unlock" ELSE "map") /\ UNCHANGED <<hash, opened, mutex>>

\* The file may be missing, as those of the distances often are, or be no table.
Map(i) == /\ probing[i].pc = "map"
          /\ \E found \in BOOLEAN : /\ opened' = [opened EXCEPT ![Of(i)].base = found, ![Of(i)].set = FALSE]
                                   /\ To(i, IF found THEN "set" ELSE "ready")
          /\ UNCHANGED <<hash, mutex>>
Set(i) == /\ probing[i].pc = "set"
          /\ opened' = [opened EXCEPT ![Of(i)].set = TRUE] /\ To(i, "ready") /\ UNCHANGED <<hash, mutex>>
Ready(i) == /\ probing[i].pc = "ready"
            /\ opened' = [opened EXCEPT ![Of(i)].ready = TRUE] /\ To(i, "unlock") /\ UNCHANGED <<hash, mutex>>
Unlock(i) == /\ probing[i].pc = "unlock" /\ mutex' = {} /\ To(i, "use") /\ UNCHANGED <<hash, opened>>
Use(i) == /\ probing[i].pc = "use" /\ To(i, "idle") /\ UNCHANGED <<hash, opened, mutex>>

FilesNext ==
    \/ init
    \/ \E i \in Threads :
         \/ \E t \in Tables : \E key \in {t.key, t.key2} : probe_table(i, key)
         \/ Lock(i) \/ Again(i) \/ Map(i) \/ Set(i) \/ Ready(i) \/ Unlock(i) \/ Use(i)

----------------------------------------------------------------------------
\* The hash finds the table of a material, or that there is none, whatever else is
\* in it; a table a thread uses has been set up, and none is opened again while
\* another thread uses it.
FilesSound ==
    /\ \A t \in Tables : \A key \in {t.key, t.key2} :
         get(hash, key) = IF \E b \in 0 .. Size : hash[b].table = {t} THEN {t} ELSE {}
    /\ \A i \in Threads : probing[i].pc = "use" =>
         /\ probing[i].key \in {Of(i).key, Of(i).key2}
         /\ opened[Of(i)].base => opened[Of(i)].set
         /\ \A j \in Threads : probing[j].pc \in {"set", "map"} => probing[j].table # probing[i].table
=============================================================================
