---------------------- MODULE WizardSharedMemoryProofs ----------------------
(***************************************************************************)
(* Proofs of the safety properties of WizardSharedMemory, for any finite   *)
(* set of processes and any number of starts, kills and full disks.        *)
(***************************************************************************)
EXTENDS WizardSharedMemory, FiniteSetTheorems, TLAPS

----------------------------------------------------------------------------
(* The inductive invariant. *)

Places == {"gone", "create", "reopen", "local", "lock", "allocate", "initialize", "check",
           "discard", "give up", "mutex", "sentinel", "unlock", "attached", "close",
           "close mutex", "remove sentinel", "look", "unlink", "detach"}
Descriptor == Region \cup {NoRegion}

ProcessState == [at : Places, fd : Descriptor, created : BOOLEAN, retried : BOOLEAN,
                 remove : BOOLEAN]
RegionState == [sized : BOOLEAN, initialized : BOOLEAN, flock : Process \cup {Nobody},
                mutex : Process \cup {Nobody, Died}]

TypeOK ==
    /\ proc \in [Process -> ProcessState]
    /\ region \in [Region -> RegionState]
    /\ named \in Descriptor
    /\ sentinels \subseteq Process
    /\ litter \in BOOLEAN
    /\ count \in [starts : Nat, full : Nat, kills : Nat]

\* Where a process has a descriptor, where it has the flock and where the mutex
\* of that region, and where it may use what the region holds.
Detached == {"gone", "create", "reopen", "local"}
Flocked == {"allocate", "initialize", "check", "discard", "give up", "mutex", "sentinel",
            "unlock", "close mutex", "remove sentinel", "look", "unlink", "detach"}
Mutexed == {"sentinel", "unlock", "remove sentinel", "look", "unlink"}
Using == {"mutex", "sentinel", "unlock", "attached", "close", "close mutex",
          "remove sentinel", "look", "unlink", "detach"}

Opened(p) == proc[p].at \notin Detached => fd(p) \in Region

Locked(p) ==
    /\ proc[p].at \in Flocked => region[fd(p)].flock = p
    /\ proc[p].at \in Mutexed => region[fd(p)].mutex = p

\* A header, once written, stays; nobody takes a region for valid before that.
Ready(p) ==
    /\ At(p, "initialize") => region[fd(p)].sized
    /\ proc[p].at \in Using => valid(fd(p))

OpenInv == \A p \in Process : Opened(p)
LockInv == \A p \in Process : Locked(p)
ReadyInv == \A p \in Process : Ready(p)

\* Who will yet unlink the name, or pass that on to a process that is attached.
Responsible(p) == \/ proc[p].at \in {"lock", "allocate", "initialize", "check", "discard",
                                     "mutex", "sentinel", "look"}
                  \/ HasSentinel(p)
                  \/ At(p, "unlink") /\ proc[p].remove

\* Unless a kill or a reused pid confused the files, a name is somebody's to remove,
\* and so is a sentinel.
LeftInv == ~litter =>
    /\ named # NoRegion => \E p \in Process : Responsible(p)
    /\ sentinels # {} => \E p \in Process : HasSentinel(p) \/ At(p, "look")

IInv == TypeOK /\ OpenInv /\ LockInv /\ ReadyInv /\ LeftInv

----------------------------------------------------------------------------
(* Regions and types. *)

\* There are more regions than descriptors and names together: one is always free.
LEMMA RegionIsFree ==
  ASSUME TypeOK
  PROVE  NextRegion \in Region /\ ~Used(NextRegion)
<1> DEFINE held == {fd(p) : p \in Process}
           taken == held \cup {named}
           N == Cardinality(Process)
<1>1. IsFiniteSet(Process) /\ N \in Nat
  BY ProcessAssumption, FS_CardinalityType
<1>2. IsFiniteSet(held) /\ Cardinality(held) <= N
  <2> DEFINE f == [p \in Process |-> fd(p)]
  <2>1. f \in Surjection(Process, held)
    BY DEF Surjection
  <2> HIDE DEF f, held
  <2> QED BY <1>1, <2>1, FS_Surjection
<1>3. IsFiniteSet(taken) /\ Cardinality(taken) <= N + 1
  <2> HIDE DEF held
  <2>1. Cardinality(held) \in Nat
    BY <1>2, FS_CardinalityType
  <2>2. IsFiniteSet(taken) /\ Cardinality(taken) = IF named \in held THEN Cardinality(held)
                                                   ELSE Cardinality(held) + 1
    BY <1>2, FS_AddElement
  <2> QED BY <1>1, <1>2, <2>1, <2>2
<1>4. Cardinality(Region) = N + 2
  BY <1>1, FS_Interval DEF Region
<1>5. ~(Region \subseteq taken)
  <2> HIDE DEF taken
  <2>1. Cardinality(taken) \in Nat
    BY <1>3, FS_CardinalityType
  <2> QED BY <1>1, <1>3, <1>4, <2>1, FS_Subset
<1>6. \E r \in Region : ~Used(r)
  BY <1>5 DEF Used, Holds, fd
<1> QED BY <1>6 DEF NextRegion

\* The invariant holds initially.
LEMMA InitInv == Init => IInv
<1> SUFFICES ASSUME Init PROVE IInv
  OBVIOUS
<1>1. TypeOK
  BY DEF Init, TypeOK, Gone, Fresh, ProcessState, RegionState, Places, Descriptor
<1>2. \A p \in Process : proc[p].at = "gone"
  BY DEF Init, Gone
<1>3. OpenInv /\ LockInv /\ ReadyInv
  BY <1>2 DEF OpenInv, LockInv, ReadyInv, Opened, Locked, Ready, Detached, Flocked, Mutexed, Using, At
<1>4. LeftInv
  BY DEF Init, LeftInv
<1> QED BY <1>1, <1>3, <1>4 DEF IInv

\* What the assignments to one process or one region do to the types.
LEMMA GotoType ==
  ASSUME TypeOK, NEW p \in Process, NEW place \in Places, Goto(p, place)
  PROVE  proc' \in [Process -> ProcessState]
BY DEF TypeOK, Goto, ProcessState

\* A process that comes and a region that is made are well typed.
LEMMA FreshTypes ==
  /\ Gone \in ProcessState /\ Fresh \in RegionState
  /\ \A place \in Places : [Gone EXCEPT !.at = place] \in ProcessState
BY DEF Gone, Fresh, ProcessState, RegionState, Places, Descriptor

\* Every step keeps the types.
LEMMA TypeStep == TypeOK /\ OpenInv /\ [Next]_vars => TypeOK'
<1> SUFFICES ASSUME TypeOK, OpenInv, [Next]_vars PROVE TypeOK'
  OBVIOUS
<1>0. /\ proc \in [Process -> ProcessState] /\ region \in [Region -> RegionState]
      /\ \A p \in Process : proc[p].at \notin Detached => fd(p) \in Region
  BY DEF TypeOK, OpenInv, Opened
<1>1. ASSUME NEW p \in Process, Start(p) PROVE TypeOK'
  <2>1. proc' \in [Process -> ProcessState]
    BY <1>0, <1>1, FreshTypes DEF Start, Places
  <2> QED BY <1>1, <2>1 DEF Start, TypeOK
<1>2. ASSUME NEW p \in Process, ShmCreate(p) PROVE TypeOK'
  <2>1. CASE named = NoRegion
    <3>1. proc' \in [Process -> ProcessState]
      <4>1. proc' = [proc EXCEPT ![p].at = "lock", ![p].fd = NextRegion, ![p].created = TRUE]
        BY <1>2, <2>1 DEF ShmCreate
      <4> QED BY <1>0, <4>1, RegionIsFree DEF ProcessState, Places, Descriptor
    <3>2. region' \in [Region -> RegionState]
      BY <1>0, <1>2, <2>1, FreshTypes DEF ShmCreate
    <3> QED BY <1>2, <2>1, <3>1, <3>2, RegionIsFree DEF ShmCreate, TypeOK, Descriptor
  <2>2. CASE named # NoRegion
    <3>1. proc' \in [Process -> ProcessState]
      BY <1>2, <2>2, GotoType DEF ShmCreate, Places
    <3> QED BY <1>2, <2>2, <3>1 DEF ShmCreate, TypeOK
  <2> QED BY <2>1, <2>2
<1>3. ASSUME NEW p \in Process, ShmReopen(p) PROVE TypeOK'
  <2>1. named \in Descriptor
    BY DEF TypeOK
  <2>2. proc' \in [Process -> ProcessState]
    <3> DEFINE place == IF named = NoRegion THEN "local" ELSE "lock"
    <3>1. place \in Places /\ proc' = [proc EXCEPT ![p].at = place, ![p].fd = named]
      BY <1>3 DEF ShmReopen, Places
    <3> HIDE DEF place
    <3> QED BY <1>0, <2>1, <3>1 DEF ProcessState
  <2> QED BY <1>3, <2>2 DEF ShmReopen, TypeOK
<1>4. ASSUME NEW p \in Process, LockFile(p) PROVE TypeOK'
  <2>1. proc' \in [Process -> ProcessState]
    BY <1>4, GotoType DEF LockFile, Places
  <2>2. region' \in [Region -> RegionState]
    BY <1>0, <1>4 DEF LockFile, RegionState
  <2> QED BY <1>4, <2>1, <2>2 DEF LockFile, TypeOK
<1>5. ASSUME NEW p \in Process, Allocate(p) PROVE TypeOK'
  <2>1. proc' \in [Process -> ProcessState]
    BY <1>5, GotoType DEF Allocate, Places
  <2>2. region' \in [Region -> RegionState]
    BY <1>0, <1>5 DEF Allocate, RegionState
  <2>3. count' \in [starts : Nat, full : Nat, kills : Nat]
    BY <1>5 DEF Allocate, TypeOK
  <2> QED BY <1>5, <2>1, <2>2, <2>3 DEF Allocate, TypeOK
<1>6. ASSUME NEW p \in Process, Initialize(p) PROVE TypeOK'
  <2>1. proc' \in [Process -> ProcessState]
    BY <1>6, GotoType DEF Initialize, Places
  <2>2. region' \in [Region -> RegionState]
    BY <1>0, <1>6 DEF Initialize, RegionState
  <2> QED BY <1>6, <2>1, <2>2 DEF Initialize, TypeOK
<1>7. ASSUME NEW p \in Process, setup_existing_region(p) PROVE TypeOK'
  <2>1. proc' \in [Process -> ProcessState]
    BY <1>7, GotoType DEF setup_existing_region, Places
  <2> QED BY <1>7, <2>1 DEF setup_existing_region, TypeOK
<1>8. ASSUME NEW p \in Process, Discard(p) PROVE TypeOK'
  <2>1. proc' \in [Process -> ProcessState]
    BY <1>8, GotoType DEF Discard, Places
  <2> QED BY <1>8, <2>1 DEF Discard, TypeOK, Descriptor
<1>9. ASSUME NEW p \in Process, GiveUp(p) PROVE TypeOK'
  <2>1. proc' \in [Process -> ProcessState]
    BY <1>0, <1>9 DEF GiveUp, Gone, ProcessState, Places, Descriptor
  <2>2. region' \in [Region -> RegionState]
    BY <1>0, <1>9 DEF GiveUp, RegionState
  <2> QED BY <1>9, <2>1, <2>2 DEF GiveUp, TypeOK
<1>10. ASSUME NEW p \in Process, LockMutex(p) PROVE TypeOK'
  <2>1. proc' \in [Process -> ProcessState]
    BY <1>10, GotoType DEF LockMutex, Places
  <2>2. region' \in [Region -> RegionState]
    BY <1>0, <1>10 DEF LockMutex, RegionState
  <2> QED BY <1>10, <2>1, <2>2 DEF LockMutex, TypeOK
<1>11. ASSUME NEW p \in Process, create_sentinel_file_locked(p) PROVE TypeOK'
  <2>1. proc' \in [Process -> ProcessState]
    BY <1>0, <1>11, GotoType DEF create_sentinel_file_locked, Places
  <2> QED BY <1>11, <2>1 DEF create_sentinel_file_locked, TypeOK
<1>12. ASSUME NEW p \in Process, Unlock(p) PROVE TypeOK'
  <2>1. proc' \in [Process -> ProcessState]
    BY <1>12, GotoType DEF Unlock, Places
  <2>2. region' \in [Region -> RegionState]
    BY <1>0, <1>12 DEF Unlock, RegionState
  <2> QED BY <1>12, <2>1, <2>2 DEF Unlock, TypeOK
<1>13. ASSUME NEW p \in Process, Close(p) PROVE TypeOK'
  <2>1. proc' \in [Process -> ProcessState]
    BY <1>0, <1>13, GotoType, FreshTypes DEF Close, Places
  <2> QED BY <1>13, <2>1 DEF Close, TypeOK
<1>14. ASSUME NEW p \in Process, remove_sentinel_file(p) PROVE TypeOK'
  <2>1. proc' \in [Process -> ProcessState]
    BY <1>14, GotoType DEF remove_sentinel_file, Places
  <2> QED BY <1>14, <2>1 DEF remove_sentinel_file, TypeOK
<1>15. ASSUME NEW p \in Process, has_other_live_sentinels_locked(p) PROVE TypeOK'
  <2>1. proc' \in [Process -> ProcessState]
    BY <1>0, <1>15 DEF has_other_live_sentinels_locked, ProcessState, Places
  <2>2. sentinels' \subseteq sentinels
    BY <1>15 DEF has_other_live_sentinels_locked
  <2>3. litter' \in BOOLEAN
    BY <1>15 DEF has_other_live_sentinels_locked
  <2> QED BY <1>15, <2>1, <2>2, <2>3 DEF has_other_live_sentinels_locked, TypeOK
<1>16. ASSUME NEW p \in Process, Unlink(p) PROVE TypeOK'
  <2>1. proc' \in [Process -> ProcessState]
    BY <1>16, GotoType DEF Unlink, Places
  <2>2. region' \in [Region -> RegionState]
    BY <1>0, <1>16 DEF Unlink, RegionState
  <2> QED BY <1>16, <2>1, <2>2 DEF Unlink, TypeOK, Descriptor
<1>17. ASSUME NEW p \in Process, Detach(p) PROVE TypeOK'
  <2>1. proc' \in [Process -> ProcessState]
    BY <1>0, <1>17, FreshTypes DEF Detach
  <2>2. region' \in [Region -> RegionState]
    BY <1>0, <1>17 DEF Detach, RegionState
  <2> QED BY <1>17, <2>1, <2>2 DEF Detach, TypeOK
<1>18. ASSUME NEW p \in Process, Kill(p) PROVE TypeOK'
  <2>1. proc' \in [Process -> ProcessState]
    BY <1>0, <1>18, FreshTypes DEF Kill
  <2>2. region' \in [Region -> RegionState]
    BY <1>0, <1>18 DEF Kill, RegionState
  <2>3. count' \in [starts : Nat, full : Nat, kills : Nat]
    <3>1. count \in [starts : Nat, full : Nat, kills : Nat]
      BY DEF TypeOK
    <3>2. count' = [count EXCEPT !.kills = @ + 1]
      BY <1>18 DEF Kill
    <3> QED BY <3>1, <3>2
  <2> QED BY <1>18, <2>1, <2>2, <2>3 DEF Kill, TypeOK
<1>19. CASE UNCHANGED vars
  BY <1>19 DEF vars, TypeOK
<1> QED
  BY <1>1, <1>2, <1>3, <1>4, <1>5, <1>6, <1>7, <1>8, <1>9, <1>10, <1>11, <1>12, <1>13,
     <1>14, <1>15, <1>16, <1>17, <1>18, <1>19 DEF Next, Step, Open, Closing

----------------------------------------------------------------------------
(* Descriptors, locks and headers. *)

\* A process that acts is changed alone; one that goes to a place keeps its descriptor.
LEMMA Others ==
  ASSUME TypeOK, NEW p \in Process, Start(p) \/ Step(p) \/ Kill(p)
  PROVE  \A q \in Process : q # p => proc'[q] = proc[q]
BY DEF TypeOK, Start, Step, Kill, Open, Closing, ShmCreate, ShmReopen, LockFile, Allocate,
       Initialize, setup_existing_region, Discard, GiveUp, LockMutex,
       create_sentinel_file_locked, Unlock, Close, remove_sentinel_file,
       has_other_live_sentinels_locked, Unlink, Detach, Goto

\* Going to a place keeps the descriptor.
LEMMA GotoEffect ==
  ASSUME TypeOK, NEW p \in Process, NEW place, Goto(p, place)
  PROVE  proc'[p].at = place /\ proc'[p].fd = proc[p].fd
BY DEF TypeOK, ProcessState, Goto

\* A header that is there stays while someone has the region open.
LEMMA HeadersStay ==
  ASSUME TypeOK, NEW p \in Process, Start(p) \/ Step(p) \/ Kill(p),
         NEW r \in Region, Used(r)
  PROVE  /\ region[r].sized => region'[r].sized
         /\ region[r].initialized => region'[r].initialized
<1>1. NextRegion \in Region /\ r # NextRegion
  BY RegionIsFree
<1>2. region \in [Region -> RegionState]
  BY DEF TypeOK
<1>3. CASE ShmCreate(p)
  BY <1>1, <1>2, <1>3 DEF ShmCreate
<1>4. CASE LockFile(p)
  BY <1>2, <1>4 DEF LockFile, RegionState
<1>5. CASE Allocate(p)
  BY <1>2, <1>5 DEF Allocate, RegionState
<1>6. CASE Initialize(p)
  BY <1>2, <1>6 DEF Initialize, RegionState
<1>7. CASE GiveUp(p)
  BY <1>2, <1>7 DEF GiveUp, RegionState
<1>8. CASE LockMutex(p)
  BY <1>2, <1>8 DEF LockMutex, RegionState
<1>9. CASE Unlock(p)
  BY <1>2, <1>9 DEF Unlock, RegionState
<1>10. CASE Unlink(p)
  BY <1>2, <1>10 DEF Unlink, RegionState
<1>11. CASE Detach(p)
  BY <1>2, <1>11 DEF Detach, RegionState
<1>12. CASE Kill(p)
  BY <1>2, <1>12 DEF Kill, RegionState
<1>13. CASE UNCHANGED region
  BY <1>13
<1> QED
  BY <1>3, <1>4, <1>5, <1>6, <1>7, <1>8, <1>9, <1>10, <1>11, <1>12, <1>13
     DEF Start, Step, Open, Close, Closing, ShmReopen, setup_existing_region, Discard,
         create_sentinel_file_locked, remove_sentinel_file, has_other_live_sentinels_locked

\* Nobody takes the flock or the mutex of another.
LEMMA LocksStay ==
  ASSUME TypeOK, OpenInv, LockInv, NEW p \in Process, Start(p) \/ Step(p) \/ Kill(p),
         NEW q \in Process, q # p
  PROVE  /\ proc[q].at \in Flocked => region'[fd(q)].flock = q
         /\ proc[q].at \in Mutexed => region'[fd(q)].mutex = q
<1> SUFFICES ASSUME proc[q].at \in Flocked
             PROVE  /\ region'[fd(q)].flock = q
                    /\ proc[q].at \in Mutexed => region'[fd(q)].mutex = q
  BY DEF Flocked, Mutexed
<1> DEFINE r == fd(q)
<1>1. /\ r \in Region /\ region[r].flock = q /\ Used(r)
      /\ proc[q].at \in Mutexed => region[r].mutex = q
  BY DEF OpenInv, LockInv, Opened, Locked, Flocked, Detached, Used, Holds, fd
<1>2. region \in [Region -> RegionState]
  BY DEF TypeOK
<1>3. proc[p].at \in Flocked => fd(p) # r
  BY <1>1 DEF LockInv, Locked
<1>4. q # Nobody /\ q # Died
  BY ProcessAssumption
<1> HIDE DEF r
<1>5. CASE ShmCreate(p)
  <2>1. NextRegion \in Region /\ r # NextRegion
    BY <1>1, RegionIsFree
  <2> QED BY <1>1, <1>2, <1>5, <2>1 DEF ShmCreate, r
<1>6. CASE LockFile(p)
  BY <1>1, <1>2, <1>4, <1>6 DEF LockFile, RegionState, r
<1>7. CASE Allocate(p)
  BY <1>1, <1>2, <1>7 DEF Allocate, RegionState, r
<1>8. CASE Initialize(p)
  BY <1>1, <1>2, <1>3, <1>8 DEF Initialize, At, Flocked, r
<1>9. CASE GiveUp(p)
  BY <1>1, <1>2, <1>3, <1>9 DEF GiveUp, At, Flocked, r
<1>10. CASE LockMutex(p)
  BY <1>1, <1>2, <1>3, <1>10 DEF LockMutex, At, Flocked, r
<1>11. CASE Unlock(p)
  BY <1>1, <1>2, <1>3, <1>11 DEF Unlock, At, Flocked, r
<1>12. CASE Unlink(p)
  BY <1>1, <1>2, <1>3, <1>12 DEF Unlink, At, Flocked, r
<1>13. CASE Detach(p)
  BY <1>1, <1>2, <1>3, <1>13 DEF Detach, At, Flocked, r
<1>14. CASE Kill(p)
  BY <1>1, <1>2, <1>14 DEF Kill, RegionState, r
<1>15. CASE UNCHANGED region
  BY <1>1, <1>15 DEF r
<1> QED
  BY <1>5, <1>6, <1>7, <1>8, <1>9, <1>10, <1>11, <1>12, <1>13, <1>14, <1>15
     DEF Start, Step, Open, Close, Closing, ShmReopen, setup_existing_region, Discard,
         create_sentinel_file_locked, remove_sentinel_file, has_other_live_sentinels_locked

\* The acting process keeps to the protocol of the locks and of the header.
LEMMA OwnStep ==
  ASSUME TypeOK, NEW p \in Process, Opened(p), Locked(p), Ready(p),
         Start(p) \/ Step(p) \/ Kill(p)
  PROVE  Opened(p)' /\ Locked(p)' /\ Ready(p)'
<1>0. proc \in [Process -> ProcessState] /\ region \in [Region -> RegionState]
  BY DEF TypeOK
<1>1. ASSUME proc'[p].at \in Detached PROVE Opened(p)' /\ Locked(p)' /\ Ready(p)'
  BY <1>1 DEF Opened, Locked, Ready, Detached, Flocked, Mutexed, Using, At
<1> USE DEF Opened, Locked, Ready, Detached, Flocked, Mutexed, Using, At, valid
<1>2. CASE Start(p)
  BY <1>0, <1>1, <1>2 DEF Start, Gone
<1>3. CASE ShmCreate(p)
  <2>1. CASE named = NoRegion
    <3>1. proc'[p].at = "lock" /\ proc'[p].fd = NextRegion
      BY <1>0, <1>3, <2>1 DEF ShmCreate, ProcessState
    <3> QED BY <3>1, RegionIsFree DEF fd
  <2>2. CASE named # NoRegion
    BY <1>1, <1>3, <2>2, GotoEffect DEF ShmCreate
  <2> QED BY <2>1, <2>2
<1>4. CASE ShmReopen(p)
  <2>1. /\ proc'[p].at = IF named = NoRegion THEN "local" ELSE "lock"
        /\ proc'[p].fd = named
    BY <1>0, <1>4 DEF ShmReopen, ProcessState
  <2>2. named \in Region \cup {NoRegion}
    BY DEF TypeOK, Descriptor
  <2> QED BY <1>1, <2>1, <2>2 DEF fd
<1>5. CASE LockFile(p)
  <2>1. fd(p) \in Region /\ fd(p)' = fd(p)
    BY <1>5, GotoEffect DEF LockFile, fd
  <2>2. region'[fd(p)] = [region[fd(p)] EXCEPT !.flock = p]
    BY <1>0, <1>5, <2>1 DEF LockFile
  <2>3. region'[fd(p)].flock = p /\ region'[fd(p)].sized = region[fd(p)].sized
        /\ region'[fd(p)].initialized = region[fd(p)].initialized
    BY <1>0, <2>1, <2>2 DEF RegionState
  <2>4. \/ At(p, "close") /\ proc'[p].at = "close mutex"
        \/ At(p, "lock") /\ proc'[p].at \in {"allocate", "check"}
    <3>1. /\ At(p, "lock") \/ At(p, "close")
          /\ proc'[p].at = IF At(p, "close") THEN "close mutex"
                           ELSE IF proc[p].created THEN "allocate" ELSE "check"
      BY <1>5, GotoEffect DEF LockFile
    <3> QED BY <3>1
  <2> QED BY <2>1, <2>3, <2>4
<1>6. CASE Allocate(p)
  <2>1. fd(p) \in Region /\ fd(p)' = fd(p)
    BY <1>6, GotoEffect DEF Allocate, fd
  <2>2. CASE proc'[p].at = "initialize" /\ region' = [region EXCEPT ![fd(p)].sized = TRUE]
    <3>1. region'[fd(p)].sized /\ region'[fd(p)].flock = region[fd(p)].flock
      BY <1>0, <2>1, <2>2 DEF RegionState
    <3> QED BY <1>6, <2>1, <2>2, <3>1 DEF Allocate
  <2>3. CASE proc'[p].at = "discard" /\ region' = region
    BY <1>6, <2>1, <2>3 DEF Allocate
  <2>4. CASE proc'[p].at = "discard" /\ region' = [region EXCEPT ![fd(p)].sized = TRUE]
    <3>1. region'[fd(p)].flock = region[fd(p)].flock
      BY <1>0, <2>1, <2>4 DEF RegionState
    <3> QED BY <1>6, <2>1, <2>4, <3>1 DEF Allocate
  <2> QED BY <1>6, <2>2, <2>3, <2>4, GotoEffect DEF Allocate
<1>7. CASE Initialize(p)
  <2>1. fd(p) \in Region /\ fd(p)' = fd(p) /\ proc'[p].at = "mutex"
    BY <1>7, GotoEffect DEF Initialize, fd
  <2>2. /\ region'[fd(p)].sized = region[fd(p)].sized /\ region'[fd(p)].initialized
        /\ region'[fd(p)].flock = region[fd(p)].flock
    BY <1>0, <1>7, <2>1 DEF Initialize, RegionState
  <2> QED BY <1>7, <2>1, <2>2 DEF Initialize
<1>8. CASE setup_existing_region(p)
  BY <1>8, GotoEffect DEF setup_existing_region, fd
<1>9. CASE Discard(p)
  BY <1>9, GotoEffect DEF Discard, fd
<1>10. CASE GiveUp(p)
  BY <1>0, <1>1, <1>10 DEF GiveUp, Gone, ProcessState
<1>11. CASE LockMutex(p)
  <2>1. fd(p) \in Region /\ fd(p)' = fd(p)
    BY <1>11, GotoEffect DEF LockMutex, fd
  <2>2. /\ region'[fd(p)].mutex = p
        /\ region'[fd(p)].flock = region[fd(p)].flock
        /\ region'[fd(p)].sized = region[fd(p)].sized
        /\ region'[fd(p)].initialized = region[fd(p)].initialized
    BY <1>0, <1>11, <2>1 DEF LockMutex, RegionState
  <2>3. proc'[p].at \in {"sentinel", "remove sentinel"}
    BY <1>11, GotoEffect DEF LockMutex
  <2> QED BY <1>11, <2>1, <2>2, <2>3 DEF LockMutex
<1>12. CASE create_sentinel_file_locked(p)
  <2>1. /\ proc'[p].at \in {"sentinel", "unlock"} /\ fd(p)' = fd(p)
        /\ At(p, "sentinel") /\ region' = region
    BY <1>0, <1>12, GotoEffect DEF create_sentinel_file_locked, fd
  <2> QED BY <2>1
<1>13. CASE Unlock(p)
  <2>1. fd(p) \in Region /\ fd(p)' = fd(p) /\ proc'[p].at = "attached"
    BY <1>13, GotoEffect DEF Unlock, fd
  <2>2. /\ region'[fd(p)].sized = region[fd(p)].sized
        /\ region'[fd(p)].initialized = region[fd(p)].initialized
    BY <1>0, <1>13, <2>1 DEF Unlock, RegionState
  <2> QED BY <1>13, <2>1, <2>2 DEF Unlock
<1>14. CASE Close(p)
  <2>1. CASE At(p, "attached") /\ Goto(p, "close")
    BY <1>14, <2>1, GotoEffect DEF Close, fd
  <2>2. CASE proc' = [proc EXCEPT ![p] = Gone]
    BY <1>0, <1>1, <2>2 DEF Gone
  <2> QED BY <1>14, <2>1, <2>2 DEF Close
<1>15. CASE remove_sentinel_file(p)
  BY <1>15, GotoEffect DEF remove_sentinel_file, fd
<1>16. CASE has_other_live_sentinels_locked(p)
  <2>1. proc'[p].at = "unlink" /\ fd(p)' = fd(p) /\ region' = region /\ At(p, "look")
    BY <1>0, <1>16 DEF has_other_live_sentinels_locked, ProcessState, fd
  <2> QED BY <2>1
<1>17. CASE Unlink(p)
  <2>1. fd(p) \in Region /\ fd(p)' = fd(p) /\ proc'[p].at = "detach"
    BY <1>17, GotoEffect DEF Unlink, fd
  <2>2. /\ region'[fd(p)].sized = region[fd(p)].sized
        /\ region'[fd(p)].initialized = region[fd(p)].initialized
        /\ region'[fd(p)].flock = region[fd(p)].flock
    BY <1>0, <1>17, <2>1 DEF Unlink, RegionState
  <2> QED BY <1>17, <2>1, <2>2 DEF Unlink
<1>18. CASE Detach(p)
  BY <1>0, <1>1, <1>18 DEF Detach, Gone
<1>19. CASE Kill(p)
  BY <1>0, <1>1, <1>19 DEF Kill, Gone
<1> QED
  BY <1>2, <1>3, <1>4, <1>5, <1>6, <1>7, <1>8, <1>9, <1>10, <1>11, <1>12, <1>13, <1>14,
     <1>15, <1>16, <1>17, <1>18, <1>19 DEF Step, Open, Closing

\* Every step keeps the protocol of the locks and of the header.
LEMMA LockStep ==
  TypeOK /\ OpenInv /\ LockInv /\ ReadyInv /\ [Next]_vars => OpenInv' /\ LockInv' /\ ReadyInv'
<1> SUFFICES ASSUME TypeOK, OpenInv, LockInv, ReadyInv, [Next]_vars
             PROVE  OpenInv' /\ LockInv' /\ ReadyInv'
  OBVIOUS
<1>1. ASSUME NEW p \in Process, Start(p) \/ Step(p) \/ Kill(p), NEW q \in Process
      PROVE  Opened(q)' /\ Locked(q)' /\ Ready(q)'
  <2>1. CASE q = p
    BY <1>1, <2>1, OwnStep DEF OpenInv, LockInv, ReadyInv
  <2>2. CASE q # p
    <3>1. proc'[q] = proc[q] /\ fd(q)' = fd(q)
      BY <1>1, <2>2, Others DEF fd
    <3>2. Opened(q)'
      BY <3>1 DEF OpenInv, Opened
    <3>3. Locked(q)'
      BY <1>1, <2>2, <3>1, LocksStay DEF Locked
    <3>4. Ready(q)'
      <4>1. CASE fd(q) \in Region
        <5>1. Used(fd(q))
          BY DEF Used, Holds, fd
        <5>2. /\ region[fd(q)].sized => region'[fd(q)].sized
              /\ region[fd(q)].initialized => region'[fd(q)].initialized
          BY <1>1, <4>1, <5>1, HeadersStay
        <5> QED BY <3>1, <5>2 DEF ReadyInv, Ready, At, valid
      <4>2. CASE fd(q) \notin Region
        BY <3>1, <4>2 DEF OpenInv, Opened, Ready, At, Detached, Using
      <4> QED BY <4>1, <4>2
    <3> QED BY <3>2, <3>3, <3>4
  <2> QED BY <2>1, <2>2
<1>2. CASE UNCHANGED vars
  BY <1>2 DEF vars, OpenInv, LockInv, ReadyInv, Opened, Locked, Ready, At, valid, fd
<1> QED BY <1>1, <1>2 DEF Next, OpenInv, LockInv, ReadyInv

----------------------------------------------------------------------------
(* What is left behind. *)

\* A step that is not a look at the sentinels keeps the duty of its process, or
\* the name is gone; and who makes a name or a sentinel takes the duty.
LEMMA DutyStep ==
  ASSUME TypeOK, NEW p \in Process, Start(p) \/ Step(p),
         ~has_other_live_sentinels_locked(p)
  PROVE  /\ Responsible(p) \/ named = NoRegion => Responsible(p)' \/ named' = NoRegion
         /\ named' = named \/ named' = NoRegion \/ Responsible(p)'
         /\ HasSentinel(p) \/ At(p, "look") => HasSentinel(p)' \/ At(p, "look")'
         /\ sentinels' \subseteq sentinels \/ HasSentinel(p)'
         /\ litter' = litter
<1>0. proc \in [Process -> ProcessState]
  BY DEF TypeOK
<1> USE DEF Responsible, HasSentinel, At
<1>1. CASE Start(p)
  BY <1>0, <1>1 DEF Start, Alive
<1>2. CASE ShmCreate(p)
  <2>1. CASE named = NoRegion
    BY <1>0, <1>2, <2>1 DEF ShmCreate, ProcessState
  <2>2. CASE named # NoRegion
    BY <1>2, <2>2, GotoEffect DEF ShmCreate
  <2> QED BY <2>1, <2>2
<1>3. CASE ShmReopen(p)
  BY <1>0, <1>3 DEF ShmReopen
<1>4. CASE LockFile(p)
  <2>1. /\ At(p, "lock") \/ At(p, "close")
        /\ proc'[p].at = IF At(p, "close") THEN "close mutex"
                         ELSE IF proc[p].created THEN "allocate" ELSE "check"
    BY <1>4, GotoEffect DEF LockFile
  <2> QED BY <1>4, <2>1 DEF LockFile
<1>5. CASE Allocate(p)
  BY <1>5, GotoEffect DEF Allocate
<1>6. CASE Initialize(p)
  BY <1>6, GotoEffect DEF Initialize
<1>7. CASE setup_existing_region(p)
  BY <1>7, GotoEffect DEF setup_existing_region
<1>8. CASE Discard(p)
  BY <1>8, GotoEffect DEF Discard
<1>9. CASE GiveUp(p)
  BY <1>9 DEF GiveUp
<1>10. CASE LockMutex(p)
  BY <1>10, GotoEffect DEF LockMutex
<1>11. CASE create_sentinel_file_locked(p)
  BY <1>11, GotoEffect DEF create_sentinel_file_locked
<1>12. CASE Unlock(p)
  BY <1>12, GotoEffect DEF Unlock
<1>13. CASE Close(p)
  <2>1. CASE At(p, "attached") /\ Goto(p, "close")
    BY <1>13, <2>1, GotoEffect DEF Close
  <2>2. CASE At(p, "local")
    BY <1>13, <2>2 DEF Close
  <2> QED BY <1>13, <2>1, <2>2 DEF Close
<1>14. CASE remove_sentinel_file(p)
  BY <1>14, GotoEffect DEF remove_sentinel_file
<1>15. CASE Unlink(p)
  BY <1>15 DEF Unlink
<1>16. CASE Detach(p)
  BY <1>16 DEF Detach
<1> QED
  BY <1>1, <1>2, <1>3, <1>4, <1>5, <1>6, <1>7, <1>8, <1>9, <1>10, <1>11, <1>12, <1>13, <1>14,
     <1>15, <1>16 DEF Step, Open, Closing

\* The last to look finds nobody and will unlink; others leave it to one attached.
LEMMA LookStep ==
  ASSUME TypeOK, NEW p \in Process, has_other_live_sentinels_locked(p), ~litter'
  PROVE  LeftInv'
<1>0. proc \in [Process -> ProcessState]
  BY DEF TypeOK
<1>1. CASE live = {}
  <2>1. Responsible(p)' /\ sentinels' = {}
    BY <1>0, <1>1 DEF has_other_live_sentinels_locked, Responsible, At, ProcessState
  <2> QED BY <2>1 DEF LeftInv
<1>2. CASE live # {}
  <2>1. PICK q \in sentinels : Alive(q)
    BY <1>2 DEF live
  <2>2. q \in Process /\ HasSentinel(q)
    BY <2>1 DEF has_other_live_sentinels_locked, TypeOK
  <2>3. q # p
    BY <2>2 DEF has_other_live_sentinels_locked, HasSentinel, At
  <2>4. proc'[q] = proc[q]
    BY <1>0, <2>2, <2>3 DEF has_other_live_sentinels_locked
  <2>5. HasSentinel(q)' /\ Responsible(q)'
    BY <2>2, <2>4 DEF HasSentinel, Responsible
  <2> QED BY <2>2, <2>5 DEF LeftInv
<1> QED BY <1>1, <1>2

\* Every step leaves a name or a sentinel to someone responsible for it.
LEMMA LeftStep == TypeOK /\ LeftInv /\ [Next]_vars => LeftInv'
<1> SUFFICES ASSUME TypeOK, LeftInv, [Next]_vars PROVE LeftInv'
  OBVIOUS
<1>1. ASSUME NEW p \in Process, Start(p) \/ Step(p), ~has_other_live_sentinels_locked(p)
      PROVE  LeftInv'
  <2> SUFFICES ASSUME ~litter'
               PROVE  /\ named' # NoRegion => \E q \in Process : Responsible(q)'
                      /\ sentinels' # {} => \E q \in Process : HasSentinel(q)' \/ At(q, "look")'
    BY DEF LeftInv
  <2>1. ~litter
    BY <1>1, DutyStep
  <2>2. \A q \in Process : q # p => proc'[q] = proc[q]
    BY <1>1, Others
  <2>3. ASSUME named' # NoRegion PROVE \E q \in Process : Responsible(q)'
    <3>1. CASE Responsible(p)'
      BY <3>1
    <3>2. CASE ~Responsible(p)'
      <4>1. named # NoRegion /\ ~Responsible(p)
        BY <1>1, <2>3, <3>2, DutyStep
      <4>2. PICK q \in Process : Responsible(q)
        BY <2>1, <4>1 DEF LeftInv
      <4>3. Responsible(q)'
        BY <2>2, <4>1, <4>2 DEF Responsible, HasSentinel, At
      <4> QED BY <4>3
    <3> QED BY <3>1, <3>2
  <2>4. ASSUME sentinels' # {} PROVE \E q \in Process : HasSentinel(q)' \/ At(q, "look")'
    <3>1. CASE HasSentinel(p)' \/ At(p, "look")'
      BY <3>1
    <3>2. CASE ~(HasSentinel(p)' \/ At(p, "look")')
      <4>1. sentinels # {} /\ ~(HasSentinel(p) \/ At(p, "look"))
        BY <1>1, <2>4, <3>2, DutyStep
      <4>2. PICK q \in Process : HasSentinel(q) \/ At(q, "look")
        BY <2>1, <4>1 DEF LeftInv
      <4>3. HasSentinel(q)' \/ At(q, "look")'
        BY <2>2, <4>1, <4>2 DEF HasSentinel, At
      <4> QED BY <4>3
    <3> QED BY <3>1, <3>2
  <2> QED BY <2>3, <2>4
<1>2. ASSUME NEW p \in Process, has_other_live_sentinels_locked(p) PROVE LeftInv'
  BY <1>2, LookStep DEF LeftInv
<1>3. ASSUME NEW p \in Process, Kill(p) PROVE LeftInv'
  BY <1>3 DEF Kill, LeftInv
<1>4. CASE UNCHANGED vars
  BY <1>4 DEF vars, LeftInv, Responsible, HasSentinel, At
<1> QED BY <1>1, <1>2, <1>3, <1>4 DEF Next

----------------------------------------------------------------------------
(* The theorems. *)

\* The inductive invariant holds in every state of every behaviour.
THEOREM SharedMemoryInvariant == Spec => []IInv
<1>1. IInv /\ [Next]_vars => IInv'
  BY TypeStep, LockStep, LeftStep DEF IInv
<1> QED BY <1>1, InitInv, PTL DEF Spec

\* A process that uses the shared network finds it complete, and the files and the
\* flock of a region are worked on by one process at a time, whatever the number of
\* processes and whoever is killed: SharedMemory<T>::open and close of shm_linux.h.
THEOREM SharesInitialisedIsInvariant == Spec => []SharesInitialised
<1>1. IInv => SharesInitialised
  BY DEF IInv, LockInv, ReadyInv, Locked, Ready, Flocked, Mutexed, Using, valid, At,
         SharesInitialised
<1> QED BY <1>1, SharedMemoryInvariant, PTL

\* When all are gone, the region's name and the sentinels are gone too, unless a kill
\* or a reused pid came after the last look at the sentinels.
THEOREM LeavesNothingIsInvariant == Spec => []LeavesNothing
<1>1. IInv => LeavesNothing
  <2> SUFFICES ASSUME LeftInv, \A p \in Process : ~Alive(p), ~litter
               PROVE  named = NoRegion /\ sentinels = {}
    BY DEF IInv, LeavesNothing
  <2>1. \A p \in Process : ~Responsible(p) /\ ~HasSentinel(p) /\ ~At(p, "look")
    BY DEF Alive, Responsible, HasSentinel, At
  <2> QED BY <2>1 DEF LeftInv
<1> QED BY <1>1, SharedMemoryInvariant, PTL
=============================================================================
