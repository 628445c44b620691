--------------------------- MODULE UciSearchProofs ---------------------------
(* Proofs of the safety properties of UciSearch, for any number of helpers, *)
(* any depths, any number of searches, and any GUI.                         *)
EXTENDS UciSearchInv, TLAPS

USE DEF vars, guiVars, outVars, flagVars, clockVars, rootVars, uciVars,
        iterVars, mainVars, helperVars, sharedVars, engineVars

-----------------------------------------------------------------------------
(* Types.                                                                   *)

\* Commands made from a word are commands.
LEMMA CommandType == \A op \in Ops \cup {"eof"} : Command(op) \in Commands
  BY MaxGoAssumption DEF Command, Commands, NoLimits, Limits, AllKinds

\* The engine starts well typed.
LEMMA InitTypeOK == Init => TypeOK
<1> SUFFICES ASSUME Init PROVE TypeOK
  OBVIOUS
<1>1. uciCmd \in Commands
  BY CommandType DEF Init, Ops
<1>2. stdin \in Seq(Commands) /\ answers \in Seq(0..MaxGo)
  BY DEF Init
<1>3. helperPc \in [Helpers -> HelperPcs] /\ helperDepth \in [Helpers -> Nat]
  BY DEF Init, HelperPcs
<1>4. asked \in Limits /\ limits \in Limits
  BY DEF Init, NoLimits, Limits, AllKinds
<1>5. depth \in 1..MaxDepth /\ 0 \in 0..MaxGo
  BY DepthAssumption, MaxGoAssumption DEF Init
<1> QED
  BY <1>1, <1>2, <1>3, <1>4, <1>5
     DEF Init, TypeOK, AllKinds, Budgets, UciPcs, MainPcs

\* The depth of a search is within the bound.
LEMMA DepthCapType == \A l \in Limits : DepthCap(l) \in 1..MaxDepth
  BY DepthAssumption DEF DepthCap, Limits

\* Every step keeps the types.
LEMMA TypeStep == TypeOK /\ [Next]_vars => TypeOK'
<1> SUFFICES ASSUME TypeOK, [Next]_vars PROVE TypeOK'
  OBVIOUS
<1>1. CASE GuiGo
  <2>1. PICK l \in [kind : Kinds, ponder : BOOLEAN] :
          /\ asked' = l
          /\ stdin' = stdin \o
               <<[op |-> "position", root |-> gos + 1, limits |-> NoLimits],
                 [op |-> "go", root |-> gos + 1, limits |-> l]>>
    BY <1>1 DEF GuiGo
  <2>2. gos + 1 \in 0..MaxGo
    BY <1>1, MaxGoAssumption DEF GuiGo, TypeOK
  <2>3. l \in Limits /\ NoLimits \in Limits
    BY KindsAssumption DEF Limits, NoLimits, AllKinds
  <2>4. /\ [op |-> "position", root |-> gos + 1, limits |-> NoLimits] \in Commands
        /\ [op |-> "go", root |-> gos + 1, limits |-> l] \in Commands
    BY <2>2, <2>3 DEF Commands, Ops
  <2>5. stdin' \in Seq(Commands)
    BY <2>1, <2>4 DEF TypeOK
  <2> QED BY <1>1, <2>1, <2>2, <2>3, <2>5 DEF GuiGo, TypeOK
<1>2. ASSUME NEW op \in {"ponderhit", "stop"}, GuiRelease(op) PROVE TypeOK'
  BY <1>2, CommandType DEF GuiRelease, TypeOK, Ops
<1>3. CASE GuiQuit
  BY <1>3, CommandType DEF GuiQuit, TypeOK, Ops
<1>4. CASE GuiEof
  BY <1>4 DEF GuiEof, TypeOK
<1>5. CASE GuiIsReady
  BY <1>5, CommandType DEF GuiIsReady, TypeOK, Ops
<1>6. ASSUME NEW op \in {"ucinewgame", "hash"}, GuiBetweenSearches(op) PROVE TypeOK'
  BY <1>6, CommandType DEF GuiBetweenSearches, TypeOK, Ops
<1>7. CASE UciRead
  <2>1. Head(stdin) \in Commands /\ Tail(stdin) \in Seq(Commands)
    BY <1>7 DEF UciRead, TypeOK
  <2> QED BY <1>7, <2>1 DEF UciRead, TypeOK, Dispatch, RaisesStop, UciPcs
<1>8. CASE UciEof
  BY <1>8, CommandType DEF UciEof, TypeOK, UciPcs
<1>9. CASE UciJoin
  BY <1>9 DEF UciJoin, TypeOK, UciPcs, MainPcs
<1>10. CASE UciPosition
  BY <1>10 DEF UciPosition, TypeOK, UciPcs, Commands
<1>11. CASE UciTable
  BY <1>11 DEF UciTable, TypeOK, UciPcs
<1>12. CASE UciBook
  BY <1>12 DEF UciBook, TypeOK, UciPcs
<1>13. CASE UciLaunch
  BY <1>13 DEF UciLaunch, SetRoot, TypeOK, UciPcs, MainPcs, Commands
<1>14. CASE HitClear
  BY <1>14 DEF HitClear, TypeOK, UciPcs
<1>15. CASE HitLoad
  BY <1>15 DEF HitLoad, TypeOK, UciPcs, Budget, Budgets
<1>16. CASE HitPublish
  BY <1>16 DEF HitPublish, TypeOK, UciPcs
<1>17. CASE MainReset \/ MainArm \/ MainSave \/ MainLoad \/ MainPublish
  <2>1. CASE MainReset
    BY <2>1 DEF MainReset, MainStep, TypeOK, MainPcs
  <2>2. CASE MainArm
    BY <2>2 DEF MainArm, MainStep, TypeOK, MainPcs, Limits
  <2>3. CASE MainSave
    BY <2>3 DEF MainSave, MainStep, TypeOK, MainPcs, Limits
  <2>4. CASE MainLoad
    BY <2>4 DEF MainLoad, MainStep, TypeOK, MainPcs, Budget, Budgets
  <2>5. CASE MainPublish
    BY <2>5 DEF MainPublish, MainStep, TypeOK, MainPcs
  <2> QED BY <1>17, <2>1, <2>2, <2>3, <2>4, <2>5
<1>18. CASE MainSpawn
  <2>1. \A h \in Helpers : StartDepth(h) \in Nat
    BY HelpersAssumption DEF StartDepth
  <2>2. helperDepth' \in [Helpers -> Nat] /\ helperPc' \in [Helpers -> HelperPcs]
    BY <1>18, <2>1 DEF MainSpawn, HelperPcs
  <2>3. depth' \in 1..MaxDepth
    BY <1>18, DepthAssumption DEF MainSpawn
  <2> QED BY <1>18, <2>2, <2>3 DEF MainSpawn, MainStep, TypeOK, MainPcs
<1>19. CASE MainAbort \/ MainExpire \/ MainIterate \/ MainConclude \/ MainFinish
  BY <1>19 DEF MainAbort, MainExpire, MainIterate, MainConclude, MainFinish,
               MainStep, TypeOK, MainPcs
<1>20. CASE MainPonderOn \/ MainWake \/ MainDeepen
  <2>1. DepthCap(limits) \in 1..MaxDepth
    BY DepthCapType DEF TypeOK
  <2>2. depth' \in 1..MaxDepth
    BY <1>20, <2>1, DepthAssumption
       DEF MainPonderOn, MainWake, MainDeepen, NextDepth, TypeOK
  <2> QED BY <1>20, <2>2 DEF MainPonderOn, MainWake, MainDeepen, NextDepth,
                             TypeOK, MainPcs
<1>21. CASE MainAnswer
  BY <1>21 DEF MainAnswer, MainStep, TypeOK, MainPcs
<1>22. CASE MainClear
  <2>1. helperPc' \in [Helpers -> HelperPcs]
    BY <1>22 DEF MainClear, HelperPcs
  <2> QED BY <1>22, <2>1 DEF MainClear, DropPondering, MainStep, TypeOK, MainPcs
<1>23. ASSUME NEW h \in Helpers, Helper(h) PROVE TypeOK'
  <2>1. CASE HelperAbort(h)
    BY <2>1 DEF HelperAbort, TypeOK, HelperPcs
  <2>2. CASE HelperIterate(h)
    <3>1. helperPc' \in [Helpers -> HelperPcs]
      BY <2>2 DEF HelperIterate, TypeOK, HelperPcs
    <3>2. helperDepth' \in [Helpers -> Nat]
      BY <2>2 DEF HelperIterate, TypeOK
    <3> QED BY <2>2, <3>1, <3>2 DEF HelperIterate, TypeOK
  <2> QED BY <1>23, <2>1, <2>2 DEF Helper
<1>24. CASE UNCHANGED vars
  BY <1>24 DEF TypeOK
<1> QED
  BY <1>1, <1>2, <1>3, <1>4, <1>5, <1>6, <1>7, <1>8, <1>9, <1>10, <1>11, <1>12,
     <1>13, <1>14, <1>15, <1>16, <1>17, <1>18, <1>19, <1>20, <1>21, <1>22,
     <1>23, <1>24 DEF Next, Gui, Uci, Main, Exited


-----------------------------------------------------------------------------
(* What the threads leave alone.                                            *)

\* The search and helper threads never touch the commands or the UCI thread.
LEMMA MainFrame ==
  Main => UNCHANGED <<guiVars, uciVars, rootVars>>
  BY DEF Main, MainReset, MainArm, MainSave, MainLoad, MainPublish, MainSpawn,
         MainAbort, MainExpire, MainIterate, MainPonderOn, MainWake, MainConclude,
         MainDeepen, MainFinish, MainAnswer, MainClear, MainStep

\* A helper only writes its own variables.
LEMMA HelperFrame ==
  ASSUME NEW h \in Helpers, Helper(h)
  PROVE  UNCHANGED <<guiVars, outVars, sharedVars, uciVars, mainVars>>
  BY DEF Helper, HelperAbort, HelperIterate

\* A GUI step only writes its own variables.
LEMMA GuiFrame == Gui => UNCHANGED <<outVars, engineVars>>
  BY DEF Gui, GuiGo, GuiRelease, GuiQuit, GuiEof, GuiIsReady, GuiBetweenSearches

\* Only the bestmove ends a live search, and it is the only line of the kind.
LEMMA MainLive ==
  Main => \/ MainAnswer
          \/ answers' = answers /\ (Live <=> Live')
  BY DEF Main, MainReset, MainArm, MainSave, MainLoad, MainPublish, MainSpawn,
         MainAbort, MainExpire, MainIterate, MainPonderOn, MainWake, MainConclude,
         MainDeepen, NextDepth, MainFinish, MainAnswer, MainClear, MainStep, Live

-----------------------------------------------------------------------------
(* What reading and writing a command does to stdin.                        *)

\* Reading takes the first command away.
LEMMA ReadShifts ==
  ASSUME TypeOK, UciRead
  PROVE  /\ Len(stdin) \in Nat \ {0}
         /\ uciCmd' = stdin[1]
         /\ Len(stdin') = Len(stdin) - 1
         /\ \A i \in 1..Len(stdin') : stdin'[i] = stdin[i + 1]
  BY DEF TypeOK, UciRead

\* A go is a position and the go itself, at the end.
LEMMA GoQueues ==
  ASSUME TypeOK, GuiGo
  PROVE  /\ Len(stdin) \in Nat
         /\ Len(stdin') = Len(stdin) + 2
         /\ \A i \in 1..Len(stdin) : stdin'[i] = stdin[i]
         /\ stdin'[Len(stdin) + 1].op = "position"
         /\ stdin'[Len(stdin) + 1].root = gos'
         /\ stdin'[Len(stdin) + 2].op = "go"
         /\ stdin'[Len(stdin) + 2].limits = asked'
<1>1. PICK l \in [kind : Kinds, ponder : BOOLEAN] :
        /\ asked' = l
        /\ stdin' = stdin \o
             <<[op |-> "position", root |-> gos + 1, limits |-> NoLimits],
               [op |-> "go", root |-> gos + 1, limits |-> l]>>
  BY DEF GuiGo
<1>2. gos' = gos + 1
  BY DEF GuiGo
<1>3. stdin \in Seq(Commands)
  BY DEF TypeOK
<1> QED BY <1>1, <1>2, <1>3

\* Any other command goes to the end.
LEMMA AppendQueues ==
  ASSUME TypeOK, NEW op, stdin' = Append(stdin, Command(op))
  PROVE  /\ Len(stdin) \in Nat
         /\ Len(stdin') = Len(stdin) + 1
         /\ \A i \in 1..Len(stdin) : stdin'[i] = stdin[i]
         /\ stdin'[Len(stdin) + 1].op = op
  BY DEF TypeOK, Command

-----------------------------------------------------------------------------
(* The helpers, the pondering flag and the end of the process.              *)

\* The helpers belong to the search that runs.
LEMMA HelperStep == TypeOK /\ HelperInv /\ EndInv /\ [Next]_vars => HelperInv'
<1> SUFFICES ASSUME TypeOK, HelperInv, EndInv, [Next]_vars PROVE HelperInv'
  OBVIOUS
<1>1. CASE Gui
  BY <1>1, GuiFrame DEF HelperInv
<1>2. CASE Uci
  <2>1. CASE UciLaunch
    BY <2>1 DEF UciLaunch, HelperInv, EndInv
  <2>2. CASE UciJoin
    BY <2>2 DEF UciJoin, HelperInv
  <2>3. CASE ~UciLaunch /\ ~UciJoin
    BY <1>2, <2>3 DEF HelperInv, Uci, UciRead, UciEof, UciPosition, UciTable,
                      UciBook, HitClear, HitLoad, HitPublish
  <2> QED BY <2>1, <2>2, <2>3
<1>3. CASE Main
  <2>1. CASE MainClear
    BY <2>1 DEF MainClear, MainStep, HelperInv
  <2>2. CASE MainAnswer
    BY <2>2 DEF MainAnswer, PoolJoined, MainStep, HelperInv
  <2>3. CASE MainSpawn
    BY <2>3 DEF MainSpawn, MainStep, HelperInv
  <2>4. CASE ~MainClear /\ ~MainAnswer /\ ~MainSpawn
    BY <1>3, <2>4
       DEF HelperInv, Main, MainReset, MainArm, MainSave, MainLoad, MainPublish,
           MainAbort, MainExpire, MainIterate, MainPonderOn, MainWake,
           MainConclude, MainDeepen, NextDepth, MainFinish, MainStep
  <2> QED BY <2>1, <2>2, <2>3, <2>4
<1>4. ASSUME NEW h \in Helpers, Helper(h) PROVE HelperInv'
  <2>1. helperPc[h] = "search"
    BY <1>4 DEF Helper, HelperAbort, HelperIterate
  <2>2. mainPc' = mainPc
    BY <1>4, HelperFrame
  <2> QED BY <2>1, <2>2 DEF HelperInv
<1>5. CASE UNCHANGED vars
  BY <1>5 DEF HelperInv
<1> QED BY <1>1, <1>2, <1>3, <1>4, <1>5 DEF Next, Exited

\* The pondering flag belongs to the search that runs.
LEMMA FlagStep == TypeOK /\ FlagInv /\ EndInv /\ [Next]_vars => FlagInv'
<1> SUFFICES ASSUME TypeOK, FlagInv, EndInv, [Next]_vars PROVE FlagInv'
  OBVIOUS
<1>1. CASE Gui
  BY <1>1, GuiFrame DEF FlagInv
<1>2. CASE Uci
  <2>1. CASE UciLaunch
    BY <2>1 DEF UciLaunch, FlagInv, EndInv
  <2>2. CASE HitClear
    BY <2>2 DEF HitClear, FlagInv
  <2>3. CASE UciJoin
    BY <2>3 DEF UciJoin, FlagInv
  <2>4. CASE ~UciLaunch /\ ~HitClear /\ ~UciJoin
    BY <1>2, <2>4 DEF FlagInv, Uci, UciRead, UciEof, UciPosition, UciTable,
                      UciBook, HitLoad, HitPublish
  <2> QED BY <2>1, <2>2, <2>3, <2>4
<1>3. CASE Main
  <2>1. CASE MainArm
    BY <2>1 DEF MainArm, MainStep, FlagInv, TypeOK, Limits
  <2>2. CASE MainClear
    BY <2>2 DEF MainClear, DropPondering, MainStep, FlagInv
  <2>3. CASE ~MainArm /\ ~MainClear
    BY <1>3, <2>3
       DEF FlagInv, Main, MainReset, MainSave, MainLoad, MainPublish, MainSpawn,
           MainAbort, MainExpire, MainIterate, MainPonderOn, MainWake,
           MainConclude, MainDeepen, NextDepth, MainFinish, MainAnswer, MainStep
  <2> QED BY <2>1, <2>2, <2>3
<1>4. ASSUME NEW h \in Helpers, Helper(h) PROVE FlagInv'
  BY <1>4, HelperFrame DEF FlagInv
<1>5. CASE UNCHANGED vars
  BY <1>5 DEF FlagInv
<1> QED BY <1>1, <1>2, <1>3, <1>4, <1>5 DEF Next, Exited

\* The process ends with its search joined.
LEMMA EndStep == IInv /\ [Next]_vars => EndInv'
<1> SUFFICES ASSUME IInv, [Next]_vars PROVE EndInv'
  OBVIOUS
<1> USE DEF IInv, EndInv, Handling
<1>1. CASE Gui
  <2>1. CASE GuiGo
    <3>1. \A i \in 1..Len(stdin') :
            \/ i \in 1..Len(stdin) /\ stdin'[i] = stdin[i]
            \/ stdin'[i].op \in {"position", "go"}
      BY <2>1, GoQueues
    <3>2. \A i \in 1..Len(stdin') : stdin'[i].op # "eof"
      BY <3>1
    <3>3. \A i \in 1..Len(stdin') : stdin'[i].op = "quit" => closed' = "quit"
      BY <2>1, <3>1 DEF GuiGo
    <3> QED BY <2>1, <3>2, <3>3 DEF GuiGo
  <2>2. ASSUME NEW op \in {"ponderhit", "stop"}, GuiRelease(op) PROVE EndInv'
    BY <2>2 DEF GuiRelease, TypeOK, Command
  <2>3. CASE GuiQuit
    BY <2>3 DEF GuiQuit, TypeOK, Command
  <2>4. CASE GuiEof
    BY <2>4 DEF GuiEof, TypeOK, Outstanding
  <2>5. CASE GuiIsReady
    BY <2>5 DEF GuiIsReady, TypeOK, Command
  <2>6. ASSUME NEW op \in {"ucinewgame", "hash"}, GuiBetweenSearches(op) PROVE EndInv'
    BY <2>6 DEF GuiBetweenSearches, TypeOK, Command
  <2> QED BY <1>1, <2>1, <2>2, <2>3, <2>4, <2>5, <2>6 DEF Gui
<1>2. CASE Uci
  <2>1. CASE UciRead
    <3>1. Len(stdin) \in Nat \ {0} /\ uciCmd' = stdin[1]
      BY <2>1, ReadShifts
    <3>2. \A i \in 1..Len(stdin') : \E j \in 1..Len(stdin) : stdin'[i] = stdin[j]
      <4> TAKE i \in 1..Len(stdin')
      <4>1. i + 1 \in 1..Len(stdin) /\ stdin'[i] = stdin[i + 1]
        BY <2>1, ReadShifts
      <4> QED BY <4>1
    <3>3. uciPc' \notin {"exec", "exited"}
      BY <2>1 DEF UciRead, Dispatch
    <3>4. uciCmd'.op # "eof" /\ (uciCmd'.op = "quit" => closed = "quit")
      BY <3>1
    <3> QED BY <2>1, <3>2, <3>3, <3>4 DEF UciRead
  <2>2. CASE UciEof
    BY <2>2 DEF UciEof, Command
  <2>3. CASE UciJoin
    BY <2>3 DEF UciJoin, PlacedInv, InHand, Live, Outstanding
  <2>4. CASE UciLaunch
    BY <2>4 DEF UciLaunch
  <2>5. CASE ~UciRead /\ ~UciEof /\ ~UciJoin /\ ~UciLaunch
    BY <1>2, <2>5 DEF Uci, UciPosition, UciTable, UciBook, HitClear, HitLoad, HitPublish
  <2> QED BY <2>1, <2>2, <2>3, <2>4, <2>5
<1>3. CASE Main
  <2>1. mainPc # "none"
    BY <1>3 DEF Main, MainReset, MainArm, MainSave, MainLoad, MainPublish,
                MainSpawn, MainAbort, MainExpire, MainIterate, MainPonderOn,
                MainWake, MainConclude, MainDeepen, MainFinish, MainAnswer,
                MainClear, MainStep
  <2> QED BY <1>3, <2>1, MainFrame
<1>4. ASSUME NEW h \in Helpers, Helper(h) PROVE EndInv'
  <2>1. UNCHANGED <<guiVars, outVars, uciVars, mainPc>>
    BY <1>4, HelperFrame
  <2> QED BY <2>1 DEF Outstanding
<1>5. CASE UNCHANGED vars
  BY <1>5 DEF Outstanding
<1> QED BY <1>1, <1>2, <1>3, <1>4, <1>5 DEF Next, Exited

-----------------------------------------------------------------------------
(* Where an outstanding "go" is.                                            *)

\* A go in the hands of the UCI thread is the outstanding one.
LEMMA HandStep == IInv /\ [Next]_vars => HandInv'
<1> SUFFICES ASSUME IInv, [Next]_vars PROVE HandInv'
  OBVIOUS
<1> USE DEF IInv, HandInv, InHand, Handling, OnlyLateAfter, LateOps, Outstanding
<1>1. CASE Gui
  <2>0. UNCHANGED <<outVars, engineVars>>
    BY <1>1, GuiFrame
  <2> USE <2>0 DEF Live
  <2>1. CASE GuiGo
    BY <2>1 DEF GuiGo
  <2>2. ASSUME NEW op \in {"ponderhit", "stop"}, GuiRelease(op) PROVE HandInv'
    BY <2>2 DEF GuiRelease, TypeOK, Command
  <2>3. CASE GuiQuit
    BY <2>3 DEF GuiQuit, TypeOK, Command
  <2>4. CASE GuiEof
    BY <2>4 DEF GuiEof
  <2>5. CASE GuiIsReady
    BY <2>5 DEF GuiIsReady, TypeOK, Command
  <2>6. ASSUME NEW op \in {"ucinewgame", "hash"}, GuiBetweenSearches(op) PROVE HandInv'
    BY <2>6 DEF GuiBetweenSearches
  <2> QED BY <1>1, <2>1, <2>2, <2>3, <2>4, <2>5, <2>6 DEF Gui
<1>2. CASE Uci
  <2>1. CASE UciRead
    <3> SUFFICES ASSUME InHand' PROVE HandInv'
      OBVIOUS
    <3>1. stdin[1].op = "go" /\ 1 \in 1..Len(stdin)
      BY <2>1, ReadShifts
    <3>2. /\ Outstanding /\ ~Live
          /\ uciCmd'.limits = asked
          /\ OnlyLateAfter(1)
          /\ rootPos = gos
      BY <2>1, <3>1, ReadShifts DEF QueueInv, UciRead
    <3>3. \A i \in 1..Len(stdin') : stdin'[i].op \in LateOps
      <4> TAKE i \in 1..Len(stdin')
      <4>1. i + 1 \in 1..Len(stdin) /\ i + 1 > 1 /\ stdin'[i] = stdin[i + 1]
        BY <2>1, ReadShifts
      <4> QED BY <3>2, <4>1
    <3> QED BY <2>1, <3>2, <3>3 DEF UciRead, Live
  <2>2. CASE UciJoin
    BY <2>2 DEF UciJoin, Live
  <2>3. CASE UciEof
    BY <2>3 DEF UciEof, Command
  <2>4. CASE ~UciRead /\ ~UciJoin /\ ~UciEof
    BY <1>2, <2>4 DEF Uci, UciPosition, UciTable, UciBook, UciLaunch, HitClear,
                      HitLoad, HitPublish
  <2> QED BY <2>1, <2>2, <2>3, <2>4
<1>3. CASE Main
  <2>1. CASE MainAnswer
    BY <2>1 DEF MainAnswer, MainStep, Live
  <2>2. CASE ~MainAnswer
    BY <1>3, <2>2, MainFrame, MainLive
  <2> QED BY <2>1, <2>2
<1>4. ASSUME NEW h \in Helpers, Helper(h) PROVE HandInv'
  <2>1. UNCHANGED <<guiVars, outVars, uciVars, rootVars, mainPc>>
    BY <1>4, HelperFrame
  <2> QED BY <2>1 DEF Live
<1>5. CASE UNCHANGED vars
  BY <1>5 DEF Live
<1> QED BY <1>1, <1>2, <1>3, <1>4, <1>5 DEF Next, Exited

\* A live search is that of the outstanding go.
LEMMA LiveStep == IInv /\ [Next]_vars => LiveInv'
<1> SUFFICES ASSUME IInv, [Next]_vars PROVE LiveInv'
  OBVIOUS
<1> USE DEF IInv, LiveInv, Live, OnlyLateAfter, LateOps, Outstanding
<1>1. CASE Gui
  <2>0. UNCHANGED <<outVars, engineVars>>
    BY <1>1, GuiFrame
  <2> USE <2>0
  <2>1. CASE GuiGo
    BY <2>1 DEF GuiGo
  <2>2. ASSUME NEW op \in {"ponderhit", "stop"}, GuiRelease(op) PROVE LiveInv'
    BY <2>2 DEF GuiRelease, TypeOK, Command
  <2>3. CASE GuiQuit
    BY <2>3 DEF GuiQuit, TypeOK, Command
  <2>4. CASE GuiEof
    BY <2>4 DEF GuiEof
  <2>5. CASE GuiIsReady
    BY <2>5 DEF GuiIsReady, TypeOK, Command
  <2>6. ASSUME NEW op \in {"ucinewgame", "hash"}, GuiBetweenSearches(op) PROVE LiveInv'
    BY <2>6 DEF GuiBetweenSearches
  <2> QED BY <1>1, <2>1, <2>2, <2>3, <2>4, <2>5, <2>6 DEF Gui
<1>2. CASE Uci
  <2>1. CASE UciRead
    <3> SUFFICES ASSUME Live PROVE LiveInv'
      BY <2>1 DEF UciRead
    <3>1. uciCmd'.op \in LateOps
      <4>1. 1 \in 1..Len(stdin) /\ uciCmd' = stdin[1]
        BY <2>1, ReadShifts
      <4> QED BY <4>1
    <3>2. \A i \in 1..Len(stdin') : stdin'[i].op \in LateOps
      <4> TAKE i \in 1..Len(stdin')
      <4>1. i + 1 \in 1..Len(stdin) /\ i + 1 > 0 /\ stdin'[i] = stdin[i + 1]
        BY <2>1, ReadShifts
      <4> QED BY <4>1
    <3>3. /\ uciPc' \notin {"exec", "resize", "exited"}
          /\ uciPc' = "join" => uciCmd'.op \in {"stop", "quit"}
      BY <2>1, <3>1 DEF UciRead, Dispatch
    <3> QED BY <2>1, <3>2, <3>3 DEF UciRead
  <2>2. CASE UciEof
    BY <2>2 DEF UciEof, Command
  <2>3. CASE UciJoin
    BY <2>3 DEF UciJoin
  <2>4. CASE UciLaunch
    BY <2>4 DEF UciLaunch, SetRoot, HandInv, InHand, Handling
  <2>5. CASE ~UciRead /\ ~UciEof /\ ~UciJoin /\ ~UciLaunch
    BY <1>2, <2>5 DEF Uci, UciPosition, UciTable, UciBook, HitClear, HitLoad, HitPublish
  <2> QED BY <2>1, <2>2, <2>3, <2>4, <2>5
<1>3. CASE Main
  <2>1. UNCHANGED <<guiVars, uciVars, rootVars>>
    BY <1>3, MainFrame
  <2>2. CASE MainSpawn
    BY <2>1, <2>2 DEF MainSpawn, MainStep
  <2>3. CASE MainAnswer
    BY <2>3 DEF MainAnswer, MainStep
  <2>4. CASE ~MainSpawn /\ ~MainAnswer
    BY <1>3, <2>1, <2>4
       DEF Main, MainReset, MainArm, MainSave, MainLoad, MainPublish, MainAbort,
           MainExpire, MainIterate, MainPonderOn, MainWake, MainConclude,
           MainDeepen, NextDepth, MainFinish, MainClear, MainStep
  <2> QED BY <2>2, <2>3, <2>4
<1>4. ASSUME NEW h \in Helpers, Helper(h) PROVE LiveInv'
  <2>1. UNCHANGED <<guiVars, outVars, uciVars, rootVars, mainVars>>
    BY <1>4, HelperFrame
  <2> QED BY <2>1
<1>5. CASE UNCHANGED vars
  BY <1>5
<1> QED BY <1>1, <1>2, <1>3, <1>4, <1>5 DEF Next, Exited

\* An outstanding go is somewhere.
LEMMA PlacedStep == IInv /\ [Next]_vars => PlacedInv'
<1> SUFFICES ASSUME IInv, [Next]_vars PROVE PlacedInv'
  OBVIOUS
<1> USE DEF IInv, PlacedInv, InHand, Handling, Live, Outstanding
<1>1. CASE Gui
  <2>0. UNCHANGED <<outVars, engineVars>>
    BY <1>1, GuiFrame
  <2> USE <2>0
  <2>1. CASE GuiGo
    <3>1. Len(stdin) + 2 \in 1..Len(stdin') /\ stdin'[Len(stdin) + 2].op = "go"
      BY <2>1, GoQueues
    <3> QED BY <3>1
  <2>2. ASSUME gos' = gos, NEW op, stdin' = Append(stdin, Command(op)) PROVE PlacedInv'
    <3>1. \A i \in 1..Len(stdin) : i \in 1..Len(stdin') /\ stdin'[i] = stdin[i]
      BY <2>2, AppendQueues
    <3> QED BY <2>2, <3>1
  <2>3. CASE GuiEof
    BY <2>3 DEF GuiEof
  <2> QED BY <1>1, <2>1, <2>2, <2>3
          DEF Gui, GuiRelease, GuiQuit, GuiIsReady, GuiBetweenSearches
<1>2. CASE Uci
  <2>1. CASE UciRead
    <3> SUFFICES ASSUME Outstanding, ~Live,
                        NEW i \in 1..Len(stdin), stdin[i].op = "go"
                 PROVE  PlacedInv'
      BY <2>1 DEF UciRead
    <3>1. CASE i = 1
      <4>1. uciCmd'.op = "go"
        BY <2>1, <3>1, ReadShifts
      <4>2. uciPc' = "join"
        BY <2>1, <4>1 DEF UciRead, Dispatch
      <4> QED BY <4>1, <4>2
    <3>2. CASE i # 1
      <4>1. i - 1 \in 1..Len(stdin') /\ stdin'[i - 1] = stdin[i]
        BY <2>1, <3>2, ReadShifts
      <4> QED BY <4>1
    <3> QED BY <3>1, <3>2
  <2>2. CASE UciEof
    BY <2>2 DEF UciEof
  <2>3. CASE UciJoin
    BY <2>3 DEF UciJoin
  <2>4. CASE UciBook
    BY <2>4 DEF UciBook, CountInv, TypeOK
  <2>5. CASE UciLaunch
    BY <2>5 DEF UciLaunch
  <2>6. CASE ~UciRead /\ ~UciEof /\ ~UciJoin /\ ~UciBook /\ ~UciLaunch
    BY <1>2, <2>6 DEF Uci, UciPosition, UciTable, HitClear, HitLoad, HitPublish
  <2> QED BY <2>1, <2>2, <2>3, <2>4, <2>5, <2>6
<1>3. CASE Main
  <2>1. CASE MainAnswer
    BY <2>1 DEF MainAnswer, MainStep, CountInv, TypeOK
  <2>2. CASE ~MainAnswer
    BY <1>3, <2>2, MainFrame, MainLive
  <2> QED BY <2>1, <2>2
<1>4. ASSUME NEW h \in Helpers, Helper(h) PROVE PlacedInv'
  <2>1. UNCHANGED <<guiVars, outVars, uciVars, mainVars>>
    BY <1>4, HelperFrame
  <2> QED BY <2>1
<1>5. CASE UNCHANGED vars
  BY <1>5
<1> QED BY <1>1, <1>2, <1>3, <1>4, <1>5 DEF Next, Exited

\* The n-th answer is of the n-th go, and at most one is missing.
LEMMA CountStep == IInv /\ [Next]_vars => CountInv' /\ OrderInv'
<1> SUFFICES ASSUME IInv, [Next]_vars PROVE CountInv' /\ OrderInv'
  OBVIOUS
<1> USE DEF IInv, CountInv, OrderInv
<1>1. CASE answers' = answers
  <2>1. CASE gos' = gos
    BY <1>1, <2>1
  <2>2. CASE GuiGo
    BY <1>1, <2>2 DEF GuiGo, Outstanding, TypeOK
  <2>3. gos' = gos \/ GuiGo
    <3>1. CASE Main
      BY <3>1, MainFrame
    <3>2. ASSUME NEW h \in Helpers, Helper(h) PROVE gos' = gos
      BY <3>2, HelperFrame
    <3> QED
      BY <3>1, <3>2
         DEF Next, Exited, Gui, GuiRelease, GuiQuit, GuiEof, GuiIsReady,
             GuiBetweenSearches, Uci, UciRead, UciEof, UciJoin, UciPosition,
             UciTable, UciBook, UciLaunch, HitClear, HitLoad, HitPublish
  <2> QED BY <2>1, <2>2, <2>3
<1>2. CASE MainAnswer
  <2>1. Outstanding /\ workRoot = gos
    BY <1>2 DEF MainAnswer, MainStep, LiveInv, Live
  <2>2. answers' = Append(answers, gos) /\ gos' = gos
    BY <1>2, <2>1 DEF MainAnswer
  <2> QED BY <2>1, <2>2 DEF Outstanding, TypeOK
<1>3. CASE UciBook
  <2>1. Outstanding /\ rootPos = gos
    BY <1>3 DEF UciBook, HandInv, InHand, Handling
  <2>2. answers' = Append(answers, gos) /\ gos' = gos
    BY <1>3, <2>1 DEF UciBook
  <2> QED BY <2>1, <2>2 DEF Outstanding, TypeOK
<1>4. answers' = answers \/ MainAnswer \/ UciBook
  <2>1. CASE Main
    BY <2>1, MainLive
  <2>2. CASE Gui
    BY <2>2, GuiFrame
  <2>3. ASSUME NEW h \in Helpers, Helper(h) PROVE answers' = answers
    BY <2>3, HelperFrame
  <2> QED
    BY <2>1, <2>2, <2>3
       DEF Next, Exited, Uci, UciRead, UciEof, UciJoin, UciPosition, UciTable,
           UciLaunch, HitClear, HitLoad, HitPublish
<1> QED BY <1>1, <1>2, <1>3, <1>4

-----------------------------------------------------------------------------
(* The order of commands in stdin.                                          *)

\* A go in stdin is the outstanding one, after its position.
LEMMA QueueStep == IInv /\ [Next]_vars => QueueInv'
<1> SUFFICES ASSUME IInv, [Next]_vars PROVE QueueInv'
  OBVIOUS
<1> USE DEF IInv, QueueInv, InHand, Handling, Live, Outstanding, OnlyLateAfter,
            LateOps
<1>1. CASE Gui
  <2>0. UNCHANGED <<outVars, engineVars>>
    BY <1>1, GuiFrame
  <2> USE <2>0
  <2>1. CASE GuiGo
    <3>1. \A i \in 1..Len(stdin) : stdin[i].op \notin {"go", "position"}
      BY <2>1 DEF GuiGo, TypeOK
    <3>2. ~Handling("position") /\ ~InHand /\ ~Live
      BY <2>1, <3>1 DEF GuiGo, TypeOK, HandInv, LiveInv
    <3>3. Outstanding'
      BY <2>1 DEF GuiGo, TypeOK, CountInv
    <3>4. \A i \in 1..Len(stdin') :
            \/ i \in 1..Len(stdin) /\ stdin'[i] = stdin[i]
            \/ i = Len(stdin) + 1
            \/ i = Len(stdin) + 2
      BY <2>1, GoQueues
    <3>5. \A i \in 1..Len(stdin') :
            stdin'[i].op = "go" <=> i = Len(stdin) + 2
      BY <2>1, <3>1, <3>4, GoQueues
    <3>6. \A i \in 1..Len(stdin') :
            stdin'[i].op = "position" <=> i = Len(stdin) + 1
      BY <2>1, <3>1, <3>4, GoQueues
    <3> QED BY <2>1, <3>2, <3>3, <3>5, <3>6, GoQueues
  <2>2. ASSUME UNCHANGED <<gos, asked>>, NEW op \in LateOps',
               told' = told \/ told' # {},
               stdin' = Append(stdin, Command(op))
        PROVE  QueueInv'
    <3>1. \A i \in 1..Len(stdin') :
            \/ i \in 1..Len(stdin) /\ stdin'[i] = stdin[i]
            \/ i = Len(stdin) + 1 /\ stdin'[i].op = op
      BY <2>2, AppendQueues
    <3>2. \A i \in 1..Len(stdin) : i \in 1..Len(stdin') /\ stdin'[i] = stdin[i]
      BY <2>2, AppendQueues
    <3>3. op \notin {"go", "position"} /\ LateOps \subseteq LateOps'
      BY <2>2
    <3>4. Len(stdin) \in Nat /\ Len(stdin') = Len(stdin) + 1
      BY <2>2, AppendQueues
    <3>5. ASSUME NEW i \in 1..Len(stdin'), stdin'[i].op = "go"
          PROVE  i \in 1..Len(stdin) /\ stdin'[i] = stdin[i] /\ OnlyLateAfter(i)'
      BY <2>2, <3>1, <3>3, <3>5
    <3>6. ASSUME NEW i \in 1..Len(stdin'), stdin'[i].op = "position"
          PROVE  i \in 1..Len(stdin) /\ stdin'[i] = stdin[i]
      BY <3>1, <3>3, <3>6
    <3> QED BY <2>2, <3>2, <3>4, <3>5, <3>6
  <2>3. ASSUME ~Outstanding, UNCHANGED <<gos, asked, told>>,
               NEW op \in {"quit", "ucinewgame", "hash"},
               stdin' = Append(stdin, Command(op))
        PROVE  QueueInv'
    <3>1. \A i \in 1..Len(stdin') :
            \/ i \in 1..Len(stdin) /\ stdin'[i] = stdin[i]
            \/ stdin'[i].op = op
      BY <2>3, AppendQueues
    <3>2. \A i \in 1..Len(stdin') : stdin'[i].op \notin {"go", "position"}
      BY <2>3, <3>1
    <3>3. ~Handling("position")
      BY <2>3
    <3> QED BY <2>3, <3>2, <3>3
  <2>4. CASE GuiEof
    BY <2>4 DEF GuiEof
  <2>5. ASSUME NEW op \in {"ponderhit", "stop"}, GuiRelease(op) PROVE QueueInv'
    <3>1. op \in LateOps' /\ told' # {}
      BY <2>5 DEF GuiRelease
    <3> QED BY <2>2, <2>5, <3>1 DEF GuiRelease
  <2>6. CASE GuiQuit
    <3>1. CASE Outstanding
      <4>1. "quit" \in LateOps' /\ told' # {}
        BY <2>6, <3>1 DEF GuiQuit
      <4> QED BY <2>2, <2>6, <4>1 DEF GuiQuit
    <3>2. CASE ~Outstanding
      BY <2>3, <2>6, <3>2 DEF GuiQuit
    <3> QED BY <3>1, <3>2
  <2>7. CASE GuiIsReady
    <3>1. "isready" \in LateOps'
      OBVIOUS
    <3> QED BY <2>2, <2>7, <3>1 DEF GuiIsReady
  <2>8. ASSUME NEW op \in {"ucinewgame", "hash"}, GuiBetweenSearches(op) PROVE QueueInv'
    BY <2>3, <2>8 DEF GuiBetweenSearches
  <2> QED BY <1>1, <2>1, <2>4, <2>5, <2>6, <2>7, <2>8 DEF Gui
<1>2. CASE UciRead
  <2>0. /\ Len(stdin) \in Nat \ {0} /\ Len(stdin') = Len(stdin) - 1
        /\ \A i \in 1..Len(stdin') : /\ i + 1 \in 1..Len(stdin) /\ i + 1 > 1
                                     /\ stdin'[i] = stdin[i + 1]
    BY <1>2, ReadShifts
  <2>1. /\ uciPc = "read" /\ uciCmd' = stdin[1]
        /\ UNCHANGED <<gos, asked, told, answers, rootPos, mainPc>>
    BY <1>2, ReadShifts DEF UciRead
  <2>2. uciCmd'.op \in {"go", "position"} => uciPc' = "join"
    BY <1>2, <2>1 DEF UciRead, Dispatch
  <2>3. ASSUME NEW i \in 1..Len(stdin'), stdin'[i].op = "go"
        PROVE  /\ Outstanding' /\ ~InHand' /\ ~Live'
               /\ stdin'[i].limits = asked'
               /\ OnlyLateAfter(i)'
               /\ i > 1 => stdin'[i - 1].op = "position" /\ stdin'[i - 1].root = gos'
               /\ i = 1 => Handling("position")' /\ uciCmd'.root = gos'
    <3>1. i + 1 \in 1..Len(stdin) /\ stdin[i + 1].op = "go" /\ 1 \in 1..Len(stdin)
      BY <2>0, <2>3
    <3>2. stdin[1].op # "go"
      <4> SUFFICES ASSUME stdin[1].op = "go" PROVE FALSE
        OBVIOUS
      <4>1. OnlyLateAfter(1)
        BY <3>1
      <4> QED BY <2>0, <3>1, <4>1
    <3>3. ~InHand'
      BY <2>1, <3>2
    <3>4. OnlyLateAfter(i)'
      <4>1. OnlyLateAfter(i + 1)
        BY <3>1
      <4> QED BY <2>0, <2>1, <4>1
    <3>5. i > 1 => stdin'[i - 1].op = "position" /\ stdin'[i - 1].root = gos'
      <4> SUFFICES ASSUME i > 1
                   PROVE  stdin'[i - 1].op = "position" /\ stdin'[i - 1].root = gos'
        OBVIOUS
      <4>1. stdin[(i + 1) - 1].op = "position" /\ stdin[(i + 1) - 1].root = gos
        BY <2>0, <3>1
      <4>2. i - 1 \in 1..Len(stdin') /\ (i + 1) - 1 = i /\ (i - 1) + 1 = i
        BY <2>0
      <4>3. stdin'[i - 1] = stdin[i]
        BY <2>0, <4>2
      <4> QED BY <2>1, <4>1, <4>2, <4>3
    <3>6. i = 1 => Handling("position")' /\ uciCmd'.root = gos'
      BY <2>0, <2>1, <2>2, <3>1
    <3> QED BY <2>0, <2>1, <3>1, <3>3, <3>4, <3>5, <3>6
  <2>4. ASSUME NEW i \in 1..Len(stdin'), stdin'[i].op = "position"
        PROVE  i < Len(stdin') /\ stdin'[i + 1].op = "go"
    BY <2>0, <2>4
  <2>5. Handling("position")' => Len(stdin') > 0 /\ stdin'[1].op = "go"
    <3> SUFFICES ASSUME stdin[1].op = "position"
                 PROVE  Len(stdin') > 0 /\ stdin'[1].op = "go"
      BY <2>1
    <3>1. 1 < Len(stdin) /\ stdin[1 + 1].op = "go"
      BY <2>0
    <3> QED BY <2>0, <3>1
  <2> QED BY <2>3, <2>4, <2>5
<1>3. CASE UciPosition
  <2>1. ~InHand' /\ ~Live' /\ ~Handling("position")'
    BY <1>3 DEF UciPosition, EndInv
  <2>2. \A i \in 1..Len(stdin) : stdin[i].op = "go" => i = 1 \/ i > 1
    BY DEF TypeOK
  <2>3. stdin[1].op = "go" /\ 1 \in 1..Len(stdin)
    BY <1>3 DEF UciPosition, TypeOK
  <2>4. uciCmd.root = gos
    BY <1>3, <2>3 DEF UciPosition
  <2> QED BY <1>3, <2>1, <2>4 DEF UciPosition
<1>4. CASE UciJoin
  BY <1>4 DEF UciJoin
<1>5. CASE UciEof
  BY <1>5 DEF UciEof, Command, TypeOK
<1>6. CASE UciBook \/ UciLaunch
  <2>1. \A i \in 1..Len(stdin) : stdin[i].op \notin {"go", "position"}
    BY <1>6 DEF UciBook, UciLaunch, HandInv, TypeOK
  <2> QED BY <1>6, <2>1 DEF UciBook, UciLaunch
<1>7. CASE UciTable \/ HitClear \/ HitLoad \/ HitPublish
  BY <1>7 DEF UciTable, HitClear, HitLoad, HitPublish
<1>8. CASE Main
  <2>1. CASE MainAnswer
    <3>1. \A i \in 1..Len(stdin) : stdin[i].op # "go"
      BY <2>1 DEF MainAnswer, MainStep
    <3> QED BY <2>1, <3>1 DEF MainAnswer
  <2>2. CASE ~MainAnswer
    BY <1>8, <2>2, MainFrame, MainLive
  <2> QED BY <2>1, <2>2
<1>9. ASSUME NEW h \in Helpers, Helper(h) PROVE QueueInv'
  <2>1. UNCHANGED <<guiVars, outVars, uciVars, rootVars, mainVars>>
    BY <1>9, HelperFrame
  <2> QED BY <2>1
<1>10. CASE UNCHANGED vars
  BY <1>10
<1> QED
  BY <1>1, <1>2, <1>3, <1>4, <1>5, <1>6, <1>7, <1>8, <1>9, <1>10
     DEF Next, Uci, Exited

-----------------------------------------------------------------------------
(* Ponder searches.                                                         *)

\* An unreleased ponder search keeps pondering.
LEMMA PonderStep == IInv /\ [Next]_vars => PonderInv'
<1> SUFFICES ASSUME IInv, [Next]_vars, Live', asked'.ponder, told' = {}
             PROVE  /\ \/ uciPc' = "read"
                       \/ uciPc' = "join" /\ uciCmd'.op = "eof"
                    /\ mainPc' \notin {"finish", "gather"}
                    /\ mainPc' # "reset" => ~stop'
                    /\ mainPc' \notin {"reset", "arm"} => pondering'
  BY DEF PonderInv
<1> USE DEF IInv, Live
<1>1. CASE Gui
  <2>0. UNCHANGED <<outVars, engineVars>>
    BY <1>1, GuiFrame
  <2>1. CASE GuiGo
    BY <2>0, <2>1 DEF GuiGo, LiveInv
  <2>2. CASE told' = told /\ asked' = asked
    BY <2>0, <2>2 DEF PonderInv
  <2>3. UNCHANGED <<told, asked>> \/ told' # {} \/ GuiGo
    BY <1>1 DEF Gui, GuiRelease, GuiQuit, GuiEof, GuiIsReady, GuiBetweenSearches
  <2> QED BY <2>1, <2>2, <2>3
<1>2. CASE Uci
  <2>0. UNCHANGED <<asked, told>>
    BY <1>2 DEF Uci, UciRead, UciEof, UciJoin, UciPosition, UciTable, UciBook,
                UciLaunch, HitClear, HitLoad, HitPublish
  <2>1. CASE UciLaunch
    BY <2>1 DEF UciLaunch
  <2>2. CASE UciRead
    <3>1. Live /\ UNCHANGED <<mainPc, pondering>>
      BY <2>2 DEF UciRead
    <3>2. uciCmd'.op = "isready"
      <4>1. 1 \in 1..Len(stdin) /\ uciCmd' = stdin[1]
        BY <2>2, ReadShifts
      <4> QED BY <2>0, <3>1, <4>1 DEF LiveInv, OnlyLateAfter, LateOps
    <3>3. uciPc' = "read" /\ stop' = stop
      BY <2>2, <3>2 DEF UciRead, Dispatch, RaisesStop, TypeOK
    <3> QED BY <2>0, <3>1, <3>3 DEF PonderInv
  <2>3. CASE UciEof
    BY <2>0, <2>3 DEF UciEof, Command, PonderInv
  <2>4. CASE UciJoin
    BY <2>4 DEF UciJoin
  <2>5. CASE ~UciLaunch /\ ~UciRead /\ ~UciEof /\ ~UciJoin
    BY <1>2, <2>0, <2>5 DEF PonderInv, Uci, UciPosition, UciTable, UciBook,
                            HitClear, HitLoad, HitPublish
  <2> QED BY <2>1, <2>2, <2>3, <2>4, <2>5
<1>3. CASE Main
  <2>0. Live /\ UNCHANGED <<guiVars, uciVars>>
    BY <1>3, MainFrame, MainLive DEF MainAnswer, MainStep
  <2>1. asked.ponder /\ told = {} /\ limits = asked
    BY <2>0 DEF LiveInv
  <2>2. CASE MainReset \/ MainArm
    BY <2>0, <2>1, <2>2 DEF PonderInv, MainReset, MainArm, MainStep
  <2>3. CASE MainSave \/ MainLoad \/ MainPublish \/ MainSpawn \/ MainIterate
    BY <2>0, <2>1, <2>3 DEF PonderInv, MainSave, MainLoad, MainPublish, MainSpawn,
                            MainIterate, MainStep
  <2>4. CASE MainPonderOn
    BY <2>0, <2>1, <2>4, DepthCapType
       DEF PonderInv, MainPonderOn, MustSolve, NextDepth, TypeOK
  <2>5. CASE MainAbort \/ MainExpire \/ MainWake \/ MainConclude \/ MainDeepen
    BY <2>0, <2>1, <2>5 DEF PonderInv, MainAbort, MainExpire, MainWake, IdleOver,
                            MainConclude, MainDeepen, MainStep
  <2>6. CASE MainFinish \/ MainAnswer \/ MainClear
    BY <2>0, <2>1, <2>6 DEF PonderInv, MainFinish, MainAnswer, MainClear, MainStep
  <2> QED BY <1>3, <2>2, <2>3, <2>4, <2>5, <2>6 DEF Main
<1>4. ASSUME NEW h \in Helpers, Helper(h) PROVE PonderInv'
  <2>1. UNCHANGED <<guiVars, uciVars, mainVars, flagVars>>
    BY <1>4, HelperFrame
  <2> QED BY <2>1 DEF PonderInv
<1>5. CASE UNCHANGED vars
  BY <1>5 DEF PonderInv
<1> QED BY <1>1, <1>2, <1>3, <1>4, <1>5 DEF Next, Exited, PonderInv

-----------------------------------------------------------------------------
(* The invariant holds initially and is inductive.                          *)

\* The invariant holds initially.
LEMMA InitInv == Init => IInv
<1> SUFFICES ASSUME Init PROVE IInv
  OBVIOUS
<1>1. TypeOK
  BY InitTypeOK
<1> QED
  BY <1>1 DEF Init, IInv, CountInv, OrderInv, QueueInv, HandInv, LiveInv,
              PlacedInv, PonderInv, FlagInv, HelperInv, EndInv, InHand, Handling,
              Live, Outstanding, Command

\* IInv is an invariant of the engine, for every GUI and however the threads
\* interleave.
THEOREM IInvIsInvariant == Safety => []IInv
<1>1. IInv /\ [Next]_vars => IInv'
  <2> SUFFICES ASSUME IInv, [Next]_vars PROVE IInv'
    OBVIOUS
  <2>1. TypeOK'
    BY TypeStep DEF IInv
  <2>2. HelperInv' /\ FlagInv'
    BY HelperStep, FlagStep DEF IInv
  <2> QED
    BY <2>1, <2>2, EndStep, HandStep, LiveStep, PlacedStep, CountStep, QueueStep,
       PonderStep DEF IInv
<1> QED BY <1>1, InitInv, PTL DEF Safety

-----------------------------------------------------------------------------
(* What follows from it.                                                    *)

\* Every variable keeps its type (uci.cpp, search.cpp).
THEOREM TypeOKIsInvariant == Safety => []TypeOK
<1>1. IInv => TypeOK
  BY DEF IInv
<1> QED BY <1>1, IInvIsInvariant, PTL

\* No worker searches while the UCI thread rewrites the root or the table,
\* although setoption Hash (uci.cpp) does not join the search first.
THEOREM SharedStateIsQuiet == Safety => []SharedStateQuiet
<1>1. IInv => SharedStateQuiet
  <2> SUFFICES ASSUME IInv, uciPc \in {"exec", "resize"}
               PROVE  ~Searching /\ \A h \in Helpers : helperPc[h] # "search"
    BY DEF SharedStateQuiet
  <2>1. mainPc \in {"none", "clear", "done"}
    BY DEF IInv, LiveInv, EndInv, Live, TypeOK, MainPcs
  <2> QED BY <2>1 DEF IInv, HelperInv, Searching
<1> QED BY <1>1, IInvIsInvariant, PTL

\* The n-th bestmove answers the n-th go, on the root sent with it.
THEOREM AnswersAreInOrder == Safety => []AnswersInOrder
<1>1. IInv => AnswersInOrder
  <2> SUFFICES ASSUME IInv PROVE AnswersInOrder
    OBVIOUS
  <2>1. DOMAIN answers = 1..Len(answers)
    BY DEF IInv, TypeOK
  <2> QED BY <2>1 DEF IInv, CountInv, OrderInv, AnswersInOrder
<1> QED BY <1>1, IInvIsInvariant, PTL

\* Neither the pondering flag nor a helper outlives its search (think).
THEOREM NothingLeaksIsInvariant == Safety => []NothingLeaks
<1>1. IInv => NothingLeaks
  BY DEF IInv, FlagInv, HelperInv, NothingLeaks
<1> QED BY <1>1, IInvIsInvariant, PTL

\* The process exits with its search joined and, at end of input, with every
\* go answered (uci_loop_stdin).
THEOREM ExitIsClean == Safety => []CleanExit
<1>1. IInv => CleanExit
  BY DEF IInv, EndInv, CleanExit
<1> QED BY <1>1, IInvIsInvariant, PTL

\* The engine implements the protocol's safety: in particular a "go ponder" is
\* never answered before ponderhit, stop or quit.
THEOREM SafetyImplementsProtocol == Safety => ImplementsProtocolSafety
<1> USE DEF Protocol!Open, Protocol!Claims, Protocol!protocolVars
<1>1. Init => Protocol!ProtocolInit
  BY DEF Init, Claim, NoLimits, Protocol!ProtocolInit
<1>2. IInv /\ [Next]_vars => [Protocol!ProtocolNext]_(Protocol!protocolVars)
  <2> SUFFICES ASSUME IInv, [Next]_vars
               PROVE  Protocol!ProtocolNext \/ UNCHANGED Protocol!protocolVars
    OBVIOUS
  <2>1. CASE GuiGo
    <3>1. Claim' \in Protocol!Claims
      BY DEF Claim
    <3> QED BY <2>1, <3>1 DEF GuiGo, Outstanding, Protocol!ProtocolNext, Protocol!Ask
  <2>2. ASSUME NEW op \in {"ponderhit", "stop", "quit"}, asked' = asked,
               told' = told \cup {op}, UNCHANGED <<gos, answers>>,
               op = "ponderhit" => asked.ponder /\ told \cap {"stop"} = {}
        PROVE  Protocol!ProtocolNext \/ UNCHANGED Protocol!protocolVars
    BY <2>2 DEF Claim, Protocol!ProtocolNext, Protocol!Release
  <2>3. CASE Gui /\ ~GuiGo
    BY <2>2, <2>3, GuiFrame
       DEF Gui, GuiRelease, GuiQuit, GuiEof, GuiIsReady, GuiBetweenSearches, Claim
  <2>4. CASE UciBook
    <3>1. Outstanding /\ ~asked.ponder
      BY <2>4 DEF UciBook, IInv, HandInv, InHand, Handling
    <3>2. Len(answers') = Len(answers) + 1
      BY <2>4 DEF UciBook, IInv, TypeOK
    <3>3. UNCHANGED <<gos, asked, told>>
      BY <2>4 DEF UciBook
    <3> QED BY <3>1, <3>2, <3>3
            DEF Outstanding, Claim, Protocol!ProtocolNext, Protocol!Answer
  <2>5. CASE MainAnswer
    <3>1. Outstanding /\ ~(asked.ponder /\ told = {})
      BY <2>5 DEF MainAnswer, MainStep, IInv, LiveInv, PonderInv, Live
    <3>2. Len(answers') = Len(answers) + 1
      BY <2>5 DEF MainAnswer, IInv, TypeOK
    <3>3. UNCHANGED <<gos, asked, told>>
      BY <2>5 DEF MainAnswer
    <3> QED BY <3>1, <3>2, <3>3
            DEF Outstanding, Claim, Protocol!ProtocolNext, Protocol!Answer
  <2>6. CASE Uci /\ ~UciBook
    BY <2>6 DEF Uci, UciRead, UciEof, UciJoin, UciPosition, UciTable, UciLaunch,
                HitClear, HitLoad, HitPublish, Claim
  <2>7. CASE Main /\ ~MainAnswer
    BY <2>7, MainFrame, MainLive DEF Claim
  <2>8. ASSUME NEW h \in Helpers, Helper(h)
        PROVE  UNCHANGED Protocol!protocolVars
    <3>1. UNCHANGED <<guiVars, outVars>>
      BY <2>8, HelperFrame
    <3> QED BY <3>1 DEF Claim
  <2>9. CASE UNCHANGED vars
    BY <2>9 DEF Claim
  <2> QED BY <2>1, <2>3, <2>4, <2>5, <2>6, <2>7, <2>8, <2>9 DEF Next, Exited
<1> QED
  BY <1>1, <1>2, IInvIsInvariant, PTL
     DEF Safety, ImplementsProtocolSafety, Protocol!ProtocolSafety

-----------------------------------------------------------------------------
(* A patient GUI: what it says of a search is heard by that search.         *)

\* Only MainSpawn begins to search, and only MainAnswer ends it.
LEMMA MainSearching ==
  Main => MainSpawn \/ MainAnswer \/ (Searching <=> Searching')
  BY DEF Main, MainReset, MainArm, MainSave, MainLoad, MainPublish, MainAbort,
         MainExpire, MainIterate, MainPonderOn, MainWake, MainConclude,
         MainDeepen, NextDepth, MainFinish, MainClear, MainStep, Searching

\* A search that has been spoken about is past its start.
LEMMA SpokenOfSearches ==
  ASSUME IInv, PatientInv, Live, told # {}
  PROVE  Searching
  BY DEF IInv, LiveInv, PatientInv, TypeOK

\* A command read behind a live search is "isready", unless the GUI has seen
\* that search's info line.
LEMMA ReadLate ==
  ASSUME IInv, PatientInv, UciRead, Live, uciCmd'.op # "isready"
  PROVE  Searching
<1>1. 1 \in 1..Len(stdin) /\ 1 > 0 /\ uciCmd' = stdin[1]
  BY ReadShifts DEF IInv
<1>2. stdin[1].op \in LateOps
  BY <1>1 DEF IInv, LiveInv, OnlyLateAfter
<1>3. told # {}
  BY <1>1, <1>2 DEF LateOps
<1> QED BY <1>3, SpokenOfSearches

\* A patient GUI has spoken only of a search whose info line it has seen.
LEMMA PatientStep ==
  ASSUME ~Eager
  PROVE  IInv /\ HeardInv /\ [Next]_vars => PatientInv'
<1> SUFFICES ASSUME IInv, HeardInv, [Next]_vars PROVE PatientInv'
  OBVIOUS
<1> USE DEF PatientInv, Outstanding
<1>0. gos \in Nat /\ info \in Nat /\ Len(answers) \in Nat
  BY MaxGoAssumption DEF IInv, TypeOK
<1>1. CASE Gui
  <2>0. UNCHANGED <<outVars, engineVars>>
    BY <1>1, GuiFrame
  <2>1. CASE GuiGo
    BY <1>0, <2>0, <2>1 DEF GuiGo, HeardInv
  <2>2. CASE ~GuiGo
    <3>1. gos' = gos
      BY <1>1, <2>2 DEF Gui, GuiRelease, GuiQuit, GuiEof, GuiIsReady, GuiBetweenSearches
    <3>2. told' = told \/ info = gos
      BY <1>1, <2>2 DEF Gui, GuiRelease, GuiQuit, GuiEof, GuiIsReady,
                        GuiBetweenSearches, MayFollow
    <3> QED BY <1>0, <2>0, <3>1, <3>2 DEF HeardInv, Searching
  <2> QED BY <2>1, <2>2
<1>2. CASE Uci
  <2>1. CASE UciBook
    <3>1. Len(answers') = Len(answers) + 1
      BY <2>1 DEF UciBook, IInv, TypeOK
    <3>2. ~Outstanding'
      BY <1>0, <2>1, <3>1 DEF UciBook, IInv, CountInv
    <3> QED BY <2>1, <3>2 DEF UciBook, HeardInv
  <2>2. CASE ~UciBook
    <3>1. UNCHANGED <<gos, told, answers, info>>
      BY <1>2, <2>2 DEF Uci, UciRead, UciEof, UciJoin, UciPosition, UciTable,
                        UciLaunch, HitClear, HitLoad, HitPublish
    <3>2. Searching => Searching'
      BY <1>2, <2>2 DEF Uci, UciRead, UciEof, UciJoin, UciPosition, UciTable,
                        UciLaunch, HitClear, HitLoad, HitPublish, Searching,
                        IInv, EndInv
    <3> QED BY <3>1, <3>2 DEF HeardInv
  <2> QED BY <2>1, <2>2
<1>3. CASE Main
  <2>0. UNCHANGED <<gos, told>>
    BY <1>3, MainFrame
  <2>1. CASE MainAnswer
    <3>1. Len(answers') = Len(answers) + 1
      BY <2>1 DEF MainAnswer, IInv, TypeOK
    <3>2. ~Outstanding'
      BY <1>0, <2>0, <2>1, <3>1 DEF IInv, CountInv
    <3> QED BY <2>0, <2>1, <3>2 DEF MainAnswer, HeardInv
  <2>2. CASE MainIterate
    <3>1. workRoot = gos /\ Searching'
      BY <2>2 DEF MainIterate, MainStep, IInv, LiveInv, Live, Searching
    <3> QED BY <1>0, <2>0, <2>2, <3>1 DEF MainIterate
  <2>3. CASE ~MainAnswer /\ ~MainIterate
    <3>1. UNCHANGED <<answers, info>>
      BY <1>3, <2>3 DEF Main, MainReset, MainArm, MainSave, MainLoad, MainPublish,
             MainSpawn, MainAbort, MainExpire, MainPonderOn, MainWake, MainConclude,
             MainDeepen, MainFinish, MainClear, MainStep
    <3>2. Searching => Searching'
      BY <1>3, <2>3, MainSearching DEF MainSpawn, MainStep, Searching
    <3> QED BY <2>0, <3>1, <3>2 DEF HeardInv
  <2> QED BY <2>1, <2>2, <2>3
<1>4. ASSUME NEW h \in Helpers, Helper(h) PROVE PatientInv'
  BY <1>4, HelperFrame DEF HeardInv, Searching
<1>5. CASE UNCHANGED vars
  BY <1>5 DEF HeardInv, Searching
<1> QED BY <1>1, <1>2, <1>3, <1>4, <1>5 DEF Next, Exited

\* What stops a live search has reached it.
LEMMA StopStep == IInv /\ HeardInv /\ [Next]_vars => StopInv'
<1> SUFFICES ASSUME IInv, HeardInv, [Next]_vars,
                    uciPc' = "join", uciCmd'.op \in {"stop", "quit"}, Live'
             PROVE  stop' /\ Searching'
  BY DEF StopInv
<1> USE DEF HeardInv
<1>1. CASE Gui
  BY <1>1, GuiFrame DEF StopInv, Live, Searching
<1>2. CASE UciRead
  <2>1. stop' /\ UNCHANGED mainPc
    BY <1>2 DEF UciRead, RaisesStop
  <2> QED BY <1>2, <2>1, ReadLate DEF Live, Searching
<1>3. CASE Uci /\ ~UciRead
  BY <1>3 DEF Uci, UciEof, UciJoin, UciPosition, UciTable, UciBook, UciLaunch,
              HitClear, HitLoad, HitPublish, Command
<1>4. CASE Main
  <2>1. Live
    BY <1>4, MainLive DEF MainAnswer, MainStep, Live
  <2>2. stop /\ Searching
    BY <1>4, <2>1, MainFrame DEF StopInv
  <2>3. stop'
    BY <1>4, <2>2
       DEF Main, MainReset, MainArm, MainSave, MainLoad, MainPublish, MainSpawn,
           MainAbort, MainExpire, MainIterate, MainPonderOn, MainWake, MainConclude,
           MainDeepen, MainFinish, MainAnswer, MainClear, MainStep, Searching
  <2>4. Searching'
    BY <1>4, <2>2, MainSearching DEF MainSpawn, MainAnswer, MainStep, Live, Searching
  <2> QED BY <2>3, <2>4
<1>5. ASSUME NEW h \in Helpers, Helper(h) PROVE stop' /\ Searching'
  <2>1. UNCHANGED <<flagVars, uciVars, mainVars>>
    BY <1>5, HelperFrame
  <2> QED BY <2>1 DEF StopInv, Live, Searching
<1>6. CASE UNCHANGED vars
  BY <1>6 DEF StopInv, Live, Searching
<1> QED BY <1>1, <1>2, <1>3, <1>4, <1>5, <1>6 DEF Next, Exited

\* What the UCI thread carries out of a ponderhit stays off a starting search.
LEMMA HitPlaceStep ==
  IInv /\ HeardInv /\ [Next]_vars =>
    (Hitting => Searching \/ mainPc \in {"clear", "done"})'
<1> SUFFICES ASSUME IInv, HeardInv, [Next]_vars, Hitting'
             PROVE  Searching' \/ mainPc' \in {"clear", "done"}
  OBVIOUS
<1> USE DEF HeardInv, Hitting
<1>1. CASE Gui
  BY <1>1, GuiFrame DEF HitInv, Searching
<1>2. CASE UciRead
  <2>1. pondering /\ uciCmd'.op = "ponderhit" /\ UNCHANGED mainPc
    BY <1>2 DEF UciRead, Dispatch
  <2>2. CASE Live
    BY <1>2, <2>1, <2>2, ReadLate DEF Searching
  <2>3. CASE ~Live
    BY <2>1, <2>3 DEF Live, IInv, FlagInv
  <2> QED BY <2>2, <2>3
<1>3. CASE Uci /\ ~UciRead
  <2>1. Hitting /\ UNCHANGED mainPc
    BY <1>3 DEF Uci, UciEof, UciJoin, UciPosition, UciTable, UciBook, UciLaunch,
                HitClear, HitLoad, HitPublish
  <2> QED BY <2>1 DEF HitInv, Searching
<1>4. CASE Main
  <2>1. Hitting
    BY <1>4, MainFrame
  <2>2. Searching \/ mainPc \in {"clear", "done"}
    BY <2>1 DEF HitInv
  <2>3. CASE Searching
    BY <1>4, <2>3, MainSearching DEF MainSpawn, MainAnswer, MainStep, Searching
  <2>4. CASE mainPc \in {"clear", "done"}
    BY <1>4, <2>4
       DEF Main, MainReset, MainArm, MainSave, MainLoad, MainPublish, MainSpawn,
           MainAbort, MainExpire, MainIterate, MainPonderOn, MainWake, MainConclude,
           MainDeepen, MainFinish, MainAnswer, MainClear, MainStep
  <2> QED BY <2>2, <2>3, <2>4
<1>5. ASSUME NEW h \in Helpers, Helper(h)
      PROVE  Searching' \/ mainPc' \in {"clear", "done"}
  <2>1. UNCHANGED <<uciVars, mainVars>>
    BY <1>5, HelperFrame
  <2> QED BY <2>1 DEF HitInv, Searching
<1>6. CASE UNCHANGED vars
  BY <1>6 DEF HitInv, Searching
<1> QED BY <1>1, <1>2, <1>3, <1>4, <1>5, <1>6 DEF Next, Exited

\* A ponderhit on its way leaves the search released, with the budget to be.
LEMMA HitStep == IInv /\ HeardInv /\ [Next]_vars => HitInv'
<1> SUFFICES ASSUME IInv, HeardInv, [Next]_vars
             PROVE  /\ uciPc' \in {"hitLoad", "hitPublish"} => ~pondering'
                    /\ uciPc' = "hitPublish" /\ Searching' =>
                         uciBudget' = Budget(limits'.kind, FALSE)
  BY HitPlaceStep DEF HitInv
<1> USE DEF HeardInv
<1>1. CASE Gui
  <2>1. UNCHANGED <<flagVars, uciVars, mainVars>>
    BY <1>1, GuiFrame
  <2> QED BY <2>1 DEF HitInv, Searching
<1>2. CASE HitClear
  BY <1>2 DEF HitClear
<1>3. CASE HitLoad
  <2>1. pondering = FALSE /\ UNCHANGED <<pondering, mainPc, limits>>
    BY <1>3 DEF HitLoad, HitInv, IInv, TypeOK
  <2>2. ASSUME Searching PROVE uciBudget' = Budget(limits.kind, FALSE)
    <3>1. mainPc # "save" /\ saved = limits.kind
      BY <2>2 DEF BudgetInv, Searching
    <3> QED BY <1>3, <2>1, <3>1 DEF HitLoad
  <2> QED BY <2>1, <2>2 DEF Searching
<1>4. CASE Uci /\ ~HitClear /\ ~HitLoad
  BY <1>4 DEF Uci, UciRead, Dispatch, UciEof, UciJoin, UciPosition, UciTable,
              UciBook, UciLaunch, HitPublish
<1>5. CASE Main
  <2>0. UNCHANGED uciVars
    BY <1>5, MainFrame
  <2>1. ASSUME uciPc \in {"hitLoad", "hitPublish"}
        PROVE  /\ ~pondering' /\ ~MainSpawn /\ limits' = limits
    <3>1. ~pondering /\ (Searching \/ mainPc \in {"clear", "done"})
      BY <2>1 DEF HitInv, Hitting
    <3> QED
      BY <1>5, <3>1
         DEF Main, MainReset, MainArm, MainSave, MainLoad, MainPublish, MainSpawn,
             MainAbort, MainExpire, MainIterate, MainPonderOn, MainWake, MainConclude,
             MainDeepen, MainFinish, MainAnswer, MainClear, DropPondering, MainStep,
             Searching
  <2>2. ASSUME uciPc = "hitPublish", Searching'
        PROVE  uciBudget = Budget(limits.kind, FALSE)
    <3>1. Searching
      BY <1>5, <2>1, <2>2, MainSearching DEF MainAnswer, MainStep, Searching
    <3> QED BY <2>2, <3>1 DEF HitInv
  <2> QED BY <2>0, <2>1, <2>2
<1>6. ASSUME NEW h \in Helpers, Helper(h)
      PROVE  /\ uciPc' \in {"hitLoad", "hitPublish"} => ~pondering'
             /\ uciPc' = "hitPublish" /\ Searching' =>
                  uciBudget' = Budget(limits'.kind, FALSE)
  <2>1. UNCHANGED <<flagVars, uciVars, mainVars>>
    BY <1>6, HelperFrame
  <2> QED BY <2>1 DEF HitInv, Searching
<1>7. CASE UNCHANGED vars
  BY <1>7 DEF HitInv, Searching
<1> QED BY <1>1, <1>2, <1>3, <1>4, <1>5, <1>6, <1>7 DEF Next, Exited

\* The budget is that of the search, pondering or not.
LEMMA BudgetStep == IInv /\ HeardInv /\ [Next]_vars => BudgetInv'
<1> SUFFICES ASSUME IInv, HeardInv, [Next]_vars PROVE BudgetInv'
  OBVIOUS
<1> USE DEF HeardInv
<1>1. CASE Gui
  <2>1. UNCHANGED <<flagVars, clockVars, mainVars>>
    BY <1>1, GuiFrame
  <2> QED BY <2>1 DEF BudgetInv, Searching
<1>2. CASE UciLaunch \/ UciJoin
  BY <1>2 DEF UciLaunch, UciJoin, BudgetInv, Searching
<1>3. CASE Uci /\ ~UciLaunch /\ ~UciJoin
  <2>1. UNCHANGED <<mainVars, saved>>
    BY <1>3 DEF Uci, UciRead, UciEof, UciPosition, UciTable, UciBook, HitClear,
                HitLoad, HitPublish
  <2>2. mainPc \in {"save", "load", "publish", "spawn"} =>
          UNCHANGED <<pondering, budget>>
    BY <1>3 DEF Uci, UciRead, UciEof, UciPosition, UciTable, UciBook, HitClear,
                HitLoad, HitPublish, HitInv, Hitting, Searching
  <2> QED BY <2>1, <2>2 DEF BudgetInv, Searching
<1>4. CASE MainSave \/ MainLoad \/ MainPublish
  BY <1>4 DEF MainSave, MainLoad, MainPublish, MainStep, BudgetInv, Searching
<1>5. CASE MainArm \/ MainReset \/ MainClear
  BY <1>5 DEF MainArm, MainReset, MainClear, MainStep, BudgetInv, Searching
<1>6. CASE /\ Main /\ ~MainSave /\ ~MainLoad /\ ~MainPublish
           /\ ~MainArm /\ ~MainReset /\ ~MainClear
  <2>1. UNCHANGED <<saved, limits>> /\ (mainPc = "spawn" \/ Searching)
    BY <1>6 DEF Main, MainSpawn, MainAbort, MainExpire, MainIterate, MainPonderOn,
                MainWake, MainConclude, MainDeepen, MainFinish, MainAnswer,
                MainStep, Searching
  <2>2. mainPc' \notin {"save", "load", "publish", "spawn"}
    BY <1>6 DEF Main, MainSpawn, MainAbort, MainExpire, MainIterate, MainPonderOn,
                MainWake, MainConclude, MainDeepen, NextDepth, MainFinish,
                MainAnswer, MainStep
  <2> QED BY <2>1, <2>2 DEF BudgetInv
<1>7. ASSUME NEW h \in Helpers, Helper(h) PROVE BudgetInv'
  <2>1. UNCHANGED <<flagVars, clockVars, mainVars>>
    BY <1>7, HelperFrame
  <2> QED BY <2>1 DEF BudgetInv, Searching
<1>8. CASE UNCHANGED vars
  BY <1>8 DEF BudgetInv, Searching
<1> QED BY <1>1, <1>2, <1>3, <1>4, <1>5, <1>6, <1>7, <1>8 DEF Next, Exited

\* A released timed search has its clock.
LEMMA ArmedStep == IInv /\ HeardInv /\ [Next]_vars => ClockArmed'
<1> SUFFICES ASSUME IInv, HeardInv, [Next]_vars,
                    mainPc' \in {"search", "reported", "idle"},
                    limits'.kind = "timed", ~pondering',
                    uciPc' \notin {"hitLoad", "hitPublish"}
             PROVE  budget' = "fin"
  BY DEF ClockArmed
<1> USE DEF HeardInv
<1>1. CASE Gui
  <2>1. UNCHANGED <<flagVars, clockVars, uciVars, mainVars>>
    BY <1>1, GuiFrame
  <2> QED BY <2>1 DEF ClockArmed
<1>2. CASE HitPublish
  <2>1. uciPc = "hitPublish" /\ Searching /\ UNCHANGED limits /\ budget' = uciBudget
    BY <1>2 DEF HitPublish, Searching
  <2>2. uciBudget = Budget("timed", FALSE)
    BY <2>1 DEF HitInv
  <2> QED BY <2>1, <2>2 DEF Budget
<1>3. CASE Uci /\ ~HitPublish
  BY <1>3 DEF Uci, UciRead, UciEof, UciJoin, UciPosition, UciTable, UciBook,
              UciLaunch, HitClear, HitLoad, ClockArmed
<1>4. CASE MainSpawn
  <2>1. budget = Budget(limits.kind, limits.ponder) /\ pondering = limits.ponder
    BY <1>4 DEF MainSpawn, MainStep, BudgetInv
  <2>2. UNCHANGED <<budget, pondering, limits>>
    BY <1>4 DEF MainSpawn
  <2> QED BY <2>1, <2>2 DEF Budget
<1>5. CASE Main /\ ~MainSpawn
  <2>0. UNCHANGED uciVars
    BY <1>5, MainFrame
  <2>1. /\ mainPc \in {"search", "reported", "idle"}
        /\ UNCHANGED <<limits, pondering, budget>>
    BY <1>5 DEF Main, MainReset, MainArm, MainSave, MainLoad, MainPublish, MainAbort,
                MainExpire, MainIterate, MainPonderOn, MainWake, MainConclude,
                MainDeepen, NextDepth, MainFinish, MainAnswer, MainClear, MainStep
  <2> QED BY <2>0, <2>1 DEF ClockArmed
<1>6. ASSUME NEW h \in Helpers, Helper(h) PROVE budget' = "fin"
  <2>1. UNCHANGED <<flagVars, clockVars, uciVars, mainVars>>
    BY <1>6, HelperFrame
  <2> QED BY <2>1 DEF ClockArmed
<1>7. CASE UNCHANGED vars
  BY <1>7 DEF ClockArmed
<1> QED BY <1>1, <1>2, <1>3, <1>4, <1>5, <1>6, <1>7 DEF Next, Exited

\* Writing to stdin removes nothing that is there.
LEMMA WritingKeeps ==
  ASSUME TypeOK, Gui
  PROVE  \A i \in 1..Len(stdin) : i \in 1..Len(stdin') /\ stdin'[i] = stdin[i]
<1>1. CASE GuiGo
  BY <1>1, GoQueues
<1>2. CASE stdin' = stdin
  BY <1>2
<1>3. ASSUME NEW op, stdin' = Append(stdin, Command(op))
      PROVE  \A i \in 1..Len(stdin) : i \in 1..Len(stdin') /\ stdin'[i] = stdin[i]
  BY <1>3, AppendQueues
<1> QED BY <1>1, <1>2, <1>3
        DEF Gui, GuiRelease, GuiQuit, GuiEof, GuiIsReady, GuiBetweenSearches

\* A ponderhit the GUI wrote is in stdin until it is carried out.
LEMMA ReleaseStep == IInv /\ HeardInv /\ [Next]_vars => ReleaseInv'
<1> SUFFICES ASSUME IInv, HeardInv, [Next]_vars,
                    "ponderhit" \in told', Searching', pondering'
             PROVE  \/ uciPc' = "hitClear"
                    \/ \E i \in 1..Len(stdin') : stdin'[i].op = "ponderhit"
  BY DEF ReleaseInv
<1> USE DEF HeardInv
<1>1. CASE Gui
  <2>0. UNCHANGED <<flagVars, uciVars, mainVars>>
    BY <1>1, GuiFrame
  <2>1. CASE GuiRelease("ponderhit")
    BY <2>1, AppendQueues DEF GuiRelease, IInv
  <2>2. CASE ~GuiRelease("ponderhit")
    <3>1. "ponderhit" \in told
      <4>1. CASE GuiRelease("stop")
        BY <4>1 DEF GuiRelease
      <4>2. CASE ~GuiRelease("stop")
        <5>1. \/ GuiGo \/ GuiQuit \/ GuiEof \/ GuiIsReady
              \/ \E op \in {"ucinewgame", "hash"} : GuiBetweenSearches(op)
          BY <1>1, <2>2, <4>2, Zenon DEF Gui
        <5>2. \/ told' = {} \/ told' = told \/ told' = told \cup {"quit"}
          BY <5>1 DEF GuiGo, GuiQuit, GuiEof, GuiIsReady, GuiBetweenSearches
        <5> QED BY <5>2
      <4> QED BY <4>1, <4>2
    <3>2. \/ uciPc = "hitClear"
          \/ \E i \in 1..Len(stdin) : stdin[i].op = "ponderhit"
      BY <2>0, <3>1 DEF ReleaseInv, Searching
    <3> QED BY <1>1, <2>0, <3>2, WritingKeeps DEF IInv
  <2> QED BY <2>1, <2>2
<1>2. CASE UciRead
  <2>1. /\ uciPc = "read" /\ "ponderhit" \in told /\ Searching /\ pondering
        /\ uciPc' = Dispatch(stdin[1].op)
    BY <1>2 DEF UciRead, Searching, IInv, TypeOK
  <2>2. PICK i \in 1..Len(stdin) : stdin[i].op = "ponderhit"
    BY <2>1 DEF ReleaseInv
  <2>3. CASE i = 1
    BY <2>1, <2>2, <2>3 DEF Dispatch
  <2>4. CASE i # 1
    <3>1. i - 1 \in 1..Len(stdin') /\ stdin'[i - 1] = stdin[i]
      BY <1>2, <2>4, ReadShifts DEF IInv
    <3> QED BY <2>2, <3>1
  <2> QED BY <2>3, <2>4
<1>3. CASE Uci /\ ~UciRead
  <2>1. ~UciLaunch /\ ~UciJoin /\ ~HitClear
    BY DEF UciLaunch, UciJoin, HitClear, Searching
  <2>2. UNCHANGED <<told, mainPc, pondering, stdin>>
    BY <1>3, <2>1 DEF Uci, UciEof, UciPosition, UciTable, UciBook, HitLoad, HitPublish
  <2>3. uciPc # "hitClear"
    BY <1>3, <2>1 DEF Uci, UciEof, UciPosition, UciTable, UciBook, HitLoad, HitPublish
  <2> QED BY <2>2, <2>3 DEF ReleaseInv, Searching
<1>4. CASE Main
  <2>0. UNCHANGED <<told, stdin, uciPc>>
    BY <1>4, MainFrame
  <2>1. ~MainSpawn
    <3> SUFFICES ASSUME MainSpawn PROVE FALSE
      OBVIOUS
    <3>1. Live /\ ~Searching
      BY DEF MainSpawn, MainStep, Live, Searching
    <3> QED BY <2>0, <3>1, SpokenOfSearches
  <2>2. Searching /\ pondering
    BY <1>4, <2>1, MainSearching
       DEF Main, MainReset, MainArm, MainSave, MainLoad, MainPublish, MainAbort,
           MainExpire, MainIterate, MainPonderOn, MainWake, MainConclude, MainDeepen,
           MainFinish, MainAnswer, MainClear, MainStep, Searching
  <2> QED BY <2>0, <2>2 DEF ReleaseInv
<1>5. ASSUME NEW h \in Helpers, Helper(h)
      PROVE  \/ uciPc' = "hitClear"
             \/ \E i \in 1..Len(stdin') : stdin'[i].op = "ponderhit"
  <2>1. UNCHANGED <<guiVars, flagVars, uciVars, mainVars>>
    BY <1>5, HelperFrame
  <2> QED BY <2>1 DEF ReleaseInv, Searching
<1>6. CASE UNCHANGED vars
  BY <1>6 DEF ReleaseInv, Searching
<1> QED BY <1>1, <1>2, <1>3, <1>4, <1>5, <1>6 DEF Next, Exited

\* HeardInv is an invariant of the engine under a patient GUI.
THEOREM HeardInvIsInvariant ==
  ASSUME ~Eager
  PROVE  Safety => []HeardInv
<1>1. Init => HeardInv
  <2> SUFFICES ASSUME Init PROVE HeardInv
    OBVIOUS
  <2>1. TypeOK
    BY InitTypeOK
  <2> QED BY <2>1 DEF Init, HeardInv, PatientInv, StopInv, HitInv, Hitting,
                      BudgetInv, ClockArmed, ReleaseInv, Searching, Outstanding,
                      Live
<1>2. IInv /\ HeardInv /\ [Next]_vars => HeardInv'
  <2> SUFFICES ASSUME IInv, HeardInv, [Next]_vars PROVE HeardInv'
    OBVIOUS
  <2>1. PatientInv'
    BY PatientStep
  <2>2. StopInv' /\ HitInv'
    BY StopStep, HitStep
  <2>3. BudgetInv' /\ ClockArmed' /\ ReleaseInv'
    BY BudgetStep, ArmedStep, ReleaseStep
  <2> QED BY <2>1, <2>2, <2>3 DEF HeardInv
<1> QED BY <1>1, <1>2, IInvIsInvariant, PTL DEF Safety

\* No stop, quit or ponderhit of a GUI that waits for a search's first info
\* line is lost on the threads it is meant for, and the released search runs
\* on its clock (uci.cpp: stop, quit, ponderhit; search.cpp: think).
THEOREM CommandsAreHeard ==
  ASSUME ~Eager
  PROVE  Safety => []CommandsHeard
<1>1. IInv /\ HeardInv => CommandsHeard
  <2> SUFFICES ASSUME IInv, HeardInv PROVE CommandsHeard
    OBVIOUS
  <2>1. StopNotLost
    BY DEF StopNotLost, HeardInv, StopInv, Live
  <2>2. PonderhitHeard
    BY DEF PonderhitHeard, HeardInv, ReleaseInv
  <2> QED BY <2>1, <2>2 DEF CommandsHeard, HeardInv
<1> QED BY <1>1, IInvIsInvariant, HeardInvIsInvariant, PTL
=============================================================================
