------------------------------ MODULE MCParts ------------------------------
(***************************************************************************)
(* Parts of the two engines that share no state while they run, each on    *)
(* small instances: a behaviour is one of one part.  "places" and "values" *)
(* visit the tables and the compressed streams of WizardTablePlaces one by *)
(* one.  The game on the clock, the cluster of the table and the history   *)
(* of a game are those of the modules extended.                            *)
(***************************************************************************)
EXTENDS GameClock, TranspositionTable, GameHistory, WizardTablePlaces, TLC

VARIABLES
    part,                                                 \* the part that runs
    node, mp, emitted,                                    \* WizardMovePicker
    layer, table, endgame,                                \* WizardTablebases
    hash, opened, mutex, probing,                         \* WizardTableFiles
    at,                                                   \* "places" and "values": what is looked at
    machine, config, bound, histories, replicas, loads,   \* WizardNuma
    tree, searchmoves, tt, workers, stop, answer,         \* TreeSearch
    defaults, weights, g_arch, g_loaded, lastLoad, parsedSince,  \* NetworkFiles
    now, ponders, timer, goBudget, searcher, hitter, since       \* ClockStores

pickerVs == <<node, mp, emitted>>
tablesVs == <<layer, table, endgame>>
filesVs == <<hash, opened, mutex, probing>>
numaVs == <<machine, config, bound, histories, replicas, loads>>
treeVs == <<tree, searchmoves, tt, workers, stop, answer>>
netVs == <<defaults, weights, g_arch, g_loaded, lastLoad, parsedSince>>
clockVs == <<now, ponders, timer, goBudget, searcher, hitter, since>>

-----------------------------------------------------------------------------
(* The move picker: three captures and two quiet moves.                      *)

CaptureList == <<"c1", "c2", "c3">>
QuietList == <<"q1", "q2">>
QuietScoresC == {-20000, 5}
Picker == INSTANCE WizardMovePicker WITH
    Captures <- CaptureList, Quiets <- QuietList, CaptureScores <- {0, 1},
    QuietScores <- QuietScoresC, Depths <- {1, 4}, NoMove <- "none"

\* The hypothesis of the theorem about the picker.
ASSUME PickerAssumption == Picker!Generated

-----------------------------------------------------------------------------
(* The tablebases: layers of six positions, the fifty-move rule after 4.     *)

Quiet(q) == [kind |-> "quiet", to |-> q, wdl |-> 0]
Zeroing(kind, wdl) == [kind |-> kind, to |-> 0, wdl |-> wdl]
With(moves, sets) == {moves \cup s : s \in sets}
LayersC ==
    {[mated |-> mt, moves |-> <<m1, m2, m3, m4, m5, {}>>] :
        mt \in {{6}, {}},
        m1 \in With({Quiet(2)}, {{}, {Zeroing("pawn", 1)}, {Quiet(4)}}),
        m2 \in With({Quiet(3)}, {{}, {Zeroing("capture", -2)}, {Zeroing("capture", -1)}, {Quiet(5)}}),
        m3 \in With({Quiet(4)}, {{}, {Zeroing("capture", 1)}}),
        m4 \in With({Quiet(5)}, {{}, {Zeroing("pawn", -2)}, {Quiet(3)}}),
        m5 \in {{Zeroing("capture", 2)}, {Zeroing("pawn", 1)}, {Quiet(6)}, {Quiet(6), Quiet(4)}}}
Tablebases == INSTANCE WizardTablebases WITH
    Layers <- LayersC, Counts <- {0, 2}, Fifty <- 4, game <- endgame

-----------------------------------------------------------------------------
(* The table files: pieces are numbered as in the code, PAWN = 1 .. KING = 6 *)
(* and 8 more for black; two threads, and material keys that collide.        *)

Table(pieces, order, key, key2) == [pieces |-> pieces, order |-> order, key |-> key, key2 |-> key2]
KRvK == Table(<<6, 4, 14>>, <<1, 0>>, 1, 3)
KRvKR == Table(<<6, 4, 12, 14>>, <<1, 0>>, 5, 5)
KPvK == Table(<<1, 6, 14>>, <<2, 0>>, 4, 7)
AllTables == <<KRvK, KRvKR, Table(<<14, 12, 6, 4>>, <<2, 0>>, 3, 3), Table(<<6, 14, 2, 2>>, <<2, 0>>, 5, 2),
               KPvK, Table(<<1, 9, 6, 14>>, <<2, 3>>, 8, 8), Table(<<1, 1, 14, 6>>, <<1, 0>>, 7, 5),
               Table(<<9, 1, 1, 6, 14>>, <<3, 1>>, 6, 5)>>
Files == INSTANCE WizardTableFiles WITH
    Threads <- {"a", "b"}, Tables <- {KRvK, KRvKR, KPvK}, Size <- 6, MaxProbes <- 2

\* Five symbols: the values 0, 1 and 2, the pair 0 1, and that pair before a 0; the
\* code of a symbol, and what it stands for.
Tree == (0 :> <<0, 4095>>) @@ (1 :> <<1, 4095>>) @@ (2 :> <<2, 4095>>) @@ (3 :> <<0, 1>>) @@ (4 :> <<3, 0>>)
Code == (4 :> <<1>>) @@ (3 :> <<0, 1>>) @@ (2 :> <<0, 0, 1>>) @@ (0 :> <<0, 0, 0, 0>>) @@ (1 :> <<0, 0, 0, 1>>)
Meaning == (4 :> <<0, 1, 0>>) @@ (3 :> <<0, 1>>) @@ (2 :> <<2>>) @@ (0 :> <<0>>) @@ (1 :> <<1>>)
Flat(f, symbols) == FlattenSeq([i \in DOMAIN symbols |-> f[symbols[i]]])
\* The stream that holds the symbols of blocks, a sparse index entry every span values.
Stream(blocks, span) ==
    LET held == [b \in DOMAIN blocks |-> Flat(Meaning, blocks[b])]
        all == FlattenSeq(held)
        first(b) == Len(FlattenSeq(SubSeq(held, 1, b - 1)))
        of(i) == IF i >= Len(all) THEN Len(blocks)
                 ELSE CHOOSE b \in DOMAIN blocks : first(b) <= i /\ i < first(b) + Len(held[b])
    IN [singleValue |-> {}, minSymLen |-> 1, lowestSym |-> <<4, 3, 2, 0>>, btree |-> Tree, span |-> span,
        values |-> all, blockLength |-> [b \in DOMAIN blocks |-> Len(held[b]) - 1],
        data |-> [b \in DOMAIN blocks |-> Flat(Code, blocks[b])],
        sparseIndex |-> [k \in 1 .. ((Len(all) + span - 1) \div span) |->
                            LET i == (k - 1) * span + span \div 2
                            IN [block |-> of(i), offset |-> i - first(of(i))]]]
Texts == {<<x, 4, y, 3, z, 0, 1>> : x \in {0, 4}, y \in 0 .. 4, z \in {1, 2, 3}} \cup {<<x>> : x \in 0 .. 4}
Streams == {Stream(<<t, <<2, 0>>, u>>, span) :
               t \in Texts, u \in {<<1>>, <<3, 4, 0, 2, 1>>}, span \in {1, 2, 4, 8, 16}}

-----------------------------------------------------------------------------
(* Memory nodes: six processors, every policy.                               *)

Policy(name) == [name |-> name, nodes |-> <<>>]
Custom(nodes) == [name |-> "custom", nodes |-> nodes]
PoliciesC == {Policy("auto"), Policy("system"), Policy("hardware"), Policy("none"),
              Custom(<<{0, 1}, {}, {2, 3, 5}>>), Custom(<<{0, 1}, {1, 2}>>), Custom(<<{4}>>), Custom(<<{0, 1}, {9}>>), Custom(<<{}>>)}
Six == 0 .. 5
MachinesC ==
    {m \in {[nodes |-> n, caches |-> c, affinity |-> a, exist |-> Six, concurrency |-> 6] :
               n \in {<<>>, <<Six>>, <<{0, 1, 2}, {}, {3, 4, 5}>>, <<{0, 2, 4}, {1, 3, 5}>>, <<0 .. 4, {}, {5}>>},
               c \in {{}, {{0}, {1}, {2}, {3}, {4}, {5}}, {{0, 2}, {1, 3}, {4}, {5}}, {{0}, {1}, {2, 4}, {5}}},
               a \in {Six, {1, 2, 4}, {0, 1, 4, 5}}} :
        m.nodes = <<>> \/ \A d \in m.caches : \E n \in DOMAIN m.nodes : d \subseteq m.nodes[n]}
Numa == INSTANCE WizardNuma WITH
    Machines <- MachinesC, Policies <- PoliciesC, MaxThreads <- 4, BundleSize <- 2, MaxLoads <- 1,
    threads <- bound

-----------------------------------------------------------------------------
(* The tree search: three games, two workers.  In the first a mate is read   *)
(* from the table nearer and farther from the root; in the second passing    *)
(* seems to mate; the third has a cycle, losing captures and shared slots.   *)

Step(to, capture, gain, see) == [to |-> to, capture |-> capture, gain |-> gain, see |-> see]
LateMate ==
 [root |-> 1,
  moves |-> <<<<Step(2, FALSE, 0, 0), Step(4, FALSE, 0, 0)>>, <<Step(3, FALSE, 0, 0), Step(7, FALSE, 0, 0)>>, <<Step(6, FALSE, 0, 0)>>, <<Step(5, FALSE, 0, 0)>>, <<Step(8, FALSE, 0, 0)>>, <<>>, <<Step(10, FALSE, 0, 0)>>, <<Step(3, FALSE, 0, 0)>>, <<>>, <<Step(11, FALSE, 0, 0)>>, <<Step(12, FALSE, 0, 0)>>, <<Step(13, FALSE, 0, 0)>>, <<Step(14, FALSE, 0, 0)>>, <<>>>>,
  check |-> <<FALSE, FALSE, FALSE, FALSE, FALSE, TRUE, FALSE, FALSE, FALSE, FALSE, FALSE, FALSE, FALSE, FALSE>>,
  eval |-> <<100, -100, 100, 100, 0, 0, 100, 0, 0, -100, 100, -100, 100, -100>>,
  nonPawn |-> <<FALSE, FALSE, FALSE, FALSE, FALSE, FALSE, FALSE, FALSE, FALSE, FALSE, FALSE, FALSE, FALSE, FALSE>>,
  null |-> <<0, 0, 0, 0, 0, 0, 0, 0, 0, 0, 0, 0, 0, 0>>,
  slot |-> <<1, 2, 3, 4, 5, 6, 7, 8, 9, 10, 11, 12, 13, 14>>]
Zugzwang ==
 [root |-> 1,
  moves |-> <<<<Step(2, FALSE, 0, 0), Step(4, FALSE, 0, 0)>>, <<Step(3, FALSE, 0, 0)>>, <<Step(12, FALSE, 0, 0)>>, <<Step(5, FALSE, 0, 0)>>, <<Step(6, FALSE, 0, 0)>>, <<Step(7, FALSE, 0, 0)>>, <<>>, <<Step(11, TRUE, 500, 0)>>, <<Step(8, FALSE, 0, 0)>>, <<>>, <<>>, <<Step(13, FALSE, 0, 0)>>, <<Step(14, FALSE, 0, 0)>>, <<Step(15, FALSE, 0, 0)>>, <<Step(16, FALSE, 0, 0)>>, <<Step(17, FALSE, 0, 0)>>, <<>>>>,
  check |-> <<FALSE, FALSE, FALSE, FALSE, TRUE, FALSE, FALSE, FALSE, FALSE, FALSE, TRUE, FALSE, FALSE, FALSE, FALSE, FALSE, FALSE>>,
  eval |-> <<120, -120, 120, -100, 100, -100, 100, -200, 150, 0, 0, -120, 120, -120, 120, -120, 120>>,
  nonPawn |-> <<TRUE, TRUE, TRUE, FALSE, TRUE, TRUE, TRUE, TRUE, TRUE, TRUE, TRUE, TRUE, TRUE, TRUE, TRUE, TRUE, TRUE>>,
  null |-> <<2, 3, 2, 0, 0, 9, 6, 9, 8, 0, 0, 3, 12, 13, 14, 15, 16>>,
  slot |-> <<1, 2, 3, 4, 5, 6, 7, 8, 9, 10, 11, 12, 13, 14, 15, 16, 17>>]
Cycle ==
 [root |-> 1,
  moves |-> <<<<Step(4, TRUE, 500, 0), Step(2, TRUE, 500, -300)>>, <<Step(5, TRUE, 500, -300), Step(3, FALSE, 0, 0)>>, <<Step(6, FALSE, 0, 0)>>, <<>>, <<Step(8, FALSE, 0, -300)>>, <<Step(9, FALSE, 0, 0)>>, <<>>, <<Step(7, FALSE, 0, 0), Step(3, FALSE, 0, -300)>>, <<Step(2, FALSE, 0, 0)>>>>,
  check |-> <<TRUE, FALSE, FALSE, FALSE, FALSE, FALSE, TRUE, FALSE, FALSE>>,
  eval |-> <<-300, 0, 900, -300, 50, -300, 900, -900, 0>>,
  nonPawn |-> <<TRUE, FALSE, TRUE, TRUE, TRUE, TRUE, TRUE, TRUE, TRUE>>,
  null |-> <<2, 3, 4, 5, 2, 5, 8, 3, 6>>,
  slot |-> <<1, 2, 3, 4, 5, 5, 5, 5, 2>>]

Search == INSTANCE TreeSearch WITH
    Games <- {LateMate, Zugzwang, Cycle}, Workers <- {0, 1}, MaxDepth <- 7, MaxPly <- 10,
    VerifyDepth <- 6, AbortNodes <- {2, 9, 16, 23}, game <- tree, threads <- workers

-----------------------------------------------------------------------------
(* The network files: sound ones, cut short at the edges of sections, too    *)
(* long, with wrong hashes, with a description past the end, of no known     *)
(* version.  An installation has what it should, the older net only, a bad   *)
(* file in the newer's place, or nothing sound.                              *)

File(version, size, ftHash, h5, h7) ==
    [version |-> version, start |-> 2, after |-> 2, size |-> size, ftHash |-> ftHash,
     stackHash |-> (5 :> h5) @@ (7 :> h7)]
Modern(size) == File("HalfKAv2_hm", size, "FT hash", "a", "a")
Classic(size) == File("HalfKP", size, "x", "a", "a")
DiscC == ("modern" :> Modern(11)) @@ ("modern 2" :> Modern(11)) @@ ("classic" :> Classic(10))
         @@ ("cut" :> Modern(10)) @@ ("cut early" :> Modern(4)) @@ ("long" :> Modern(12))
         @@ ("ft hash" :> File("HalfKAv2_hm", 11, "x", "a", "a")) @@ ("hash" :> File("HalfKAv2_hm", 11, "FT hash", "a", "b"))
         @@ ("classic cut" :> Classic(9)) @@ ("classic cut early" :> Classic(5)) @@ ("classic long" :> Classic(11))
         @@ ("description" :> [Classic(10) EXCEPT !.start = 20]) @@ ("other" :> File("other", 11, "x", "a", "a"))
Networks == INSTANCE NetworkFiles WITH
    Disc <- DiscC, Names <- (DOMAIN DiscC \cup {"missing"}) \ {"ft hash", "long", "classic long", "other"},
    Installations <- {<<x, "missing", y, "missing">> :
        x \in {"modern", "ft hash", "long", "other"}, y \in {"classic", "classic long", "missing"}}

-----------------------------------------------------------------------------
(* The search clock: a short and a long budget, and time for either.         *)

NoLimitC == 1000
Clock == INSTANCE ClockStores WITH
    OwnBudgets <- {[opt |-> 2, max |-> 4], [opt |-> 3, max |-> 3]}, NoLimit <- NoLimitC, MaxNow <- 8

-----------------------------------------------------------------------------
NoPicker == node = <<>> /\ mp = <<>> /\ emitted = <<>>
NoTables == layer = <<>> /\ table = <<>> /\ endgame = <<>>
NoFiles == hash = <<>> /\ opened = <<>> /\ mutex = <<>> /\ probing = <<>>
NoNuma == machine = <<>> /\ config = <<>> /\ bound = <<>> /\ histories = <<>> /\ replicas = <<>> /\ loads = <<>>
NoSearch == tree = <<>> /\ searchmoves = <<>> /\ tt = <<>> /\ workers = <<>> /\ stop = <<>> /\ answer = <<>>
NoNetworks == /\ defaults = <<>> /\ weights = <<>> /\ g_arch = <<>> /\ g_loaded = <<>>
              /\ lastLoad = <<>> /\ parsedSince = <<>>
NoGame == inc = 0 /\ overhead = 0 /\ clock = 0 /\ budget = NoBudget /\ thinking = FALSE /\ flagged = FALSE
NoHistory == game = <<>> /\ rootFEN = <<>> /\ rootMoves = <<>> /\ chain = <<>> /\ rootLen = 0
NoClock == /\ now = <<>> /\ ponders = <<>> /\ timer = <<>> /\ goBudget = <<>>
           /\ searcher = <<>> /\ hitter = <<>> /\ since = <<>>

PartsInit ==
    /\ part \in {"game on the clock", "cluster", "history", "picker", "tablebases", "files",
                "numa", "search", "networks", "clock stores", "places", "values"}
    /\ IF part = "game on the clock" THEN GameInit ELSE NoGame
    /\ TableInit
    /\ IF part = "history" THEN HistoryInit ELSE NoHistory
    /\ IF part = "picker" THEN Picker!PickerInit ELSE NoPicker
    /\ IF part = "tablebases" THEN Tablebases!TbInit ELSE NoTables
    /\ IF part = "files" THEN Files!FilesInit ELSE NoFiles
    /\ IF part = "numa" THEN Numa!NumaInit ELSE NoNuma
    /\ IF part = "search" THEN Search!TreeInit ELSE NoSearch
    /\ IF part = "networks" THEN Networks!LoadInit ELSE NoNetworks
    /\ IF part = "clock stores" THEN Clock!ClockInit ELSE NoClock
    /\ CASE part = "places" -> at = <<1>>
         [] part = "values" -> \E d \in Streams : at = <<d, 0>>
         [] OTHER -> at = <<>>

PartsNext ==
    \/ /\ part = "game on the clock" /\ GameNext
       /\ UNCHANGED <<part, at, tableVars, historyVars, pickerVs, tablesVs, filesVs, numaVs, treeVs, netVs, clockVs>>
    \/ /\ part = "cluster" /\ TableNext
       /\ UNCHANGED <<part, at, gameVars, historyVars, pickerVs, tablesVs, filesVs, numaVs, treeVs, netVs, clockVs>>
    \/ /\ part = "history" /\ HistoryNext
       /\ UNCHANGED <<part, at, gameVars, tableVars, pickerVs, tablesVs, filesVs, numaVs, treeVs, netVs, clockVs>>
    \/ /\ part = "picker" /\ Picker!PickerNext
       /\ UNCHANGED <<part, at, gameVars, tableVars, historyVars, tablesVs, filesVs, numaVs, treeVs, netVs, clockVs>>
    \/ /\ part = "tablebases" /\ Tablebases!TbNext
       /\ UNCHANGED <<part, at, gameVars, tableVars, historyVars, pickerVs, filesVs, numaVs, treeVs, netVs, clockVs>>
    \/ /\ part = "files" /\ Files!FilesNext
       /\ UNCHANGED <<part, at, gameVars, tableVars, historyVars, pickerVs, tablesVs, numaVs, treeVs, netVs, clockVs>>
    \/ /\ part = "numa" /\ Numa!NumaNext
       /\ UNCHANGED <<part, at, gameVars, tableVars, historyVars, pickerVs, tablesVs, filesVs, treeVs, netVs, clockVs>>
    \/ /\ part = "search" /\ Search!TreeNext
       /\ UNCHANGED <<part, at, gameVars, tableVars, historyVars, pickerVs, tablesVs, filesVs, numaVs, netVs, clockVs>>
    \/ /\ part = "networks" /\ Networks!LoadNext
       /\ UNCHANGED <<part, at, gameVars, tableVars, historyVars, pickerVs, tablesVs, filesVs, numaVs, treeVs, clockVs>>
    \/ /\ part = "clock stores" /\ Clock!ClockNext
       /\ UNCHANGED <<part, at, gameVars, tableVars, historyVars, pickerVs, tablesVs, filesVs, numaVs, treeVs, netVs>>
    \/ /\ UNCHANGED <<part, gameVars, tableVars, historyVars, pickerVs, tablesVs, filesVs, numaVs, treeVs, netVs, clockVs>>
       /\ \/ part = "places" /\ at[1] < Len(AllTables) /\ at' = <<at[1] + 1>>
          \/ part = "values" /\ at[2] + 1 < Len(at[1].values) /\ at' = <<at[1], at[2] + 1>>

partsVars == <<part, at, gameVars, tableVars, historyVars, pickerVs, tablesVs, filesVs, numaVs, treeVs, netVs, clockVs>>

PartsSpec == PartsInit /\ [][PartsNext]_partsVars

\* The networks alone.
NetworksSpec == part = "networks" /\ PartsSpec

-----------------------------------------------------------------------------
(* What each part promises; the modules say it in full.                      *)

\* The picker returns every move once, in the order of its class
\* (movepick.cpp: next_move).
MovesPicked == part = "picker" => Picker!PicksEachOnce /\ Picker!PicksBestFirst

\* Probing finds the true value and distance, and the ranks of the root keep a win
\* or draw (tbprobe.cpp: search, probe_dtz, root_probe).
ProbesTrue == part = "tablebases" => Tablebases!ProbesTrue /\ Tablebases!RootKeepsTheWin

\* Table files are found and opened once by racing threads, positions have their
\* own place in them, and the value there is the one compressed
\* (tbprobe.cpp: TBTables, mapped, do_probe_table, decompress_pairs).
TableFilesExact ==
    /\ part = "files" => Files!FilesSound
    /\ part = "places" => PlacesExact(AllTables[at[1]])
    /\ part = "values" => ValueExact(at[1], at[2])

\* The files say what was compressed into them, and the probes what that means.
TablebasesTrue == ProbesTrue /\ TableFilesExact

\* Processors, threads, histories and networks belong together on every node
\* (numa.h, thread.cpp: ThreadPool::set).
NodesSound == part = "numa" => Numa!NumaSound


\* A load that reports success has put one sound file in use, whatever failed before
\* it; a failed one spoils no network of the other architecture; and the engine starts
\* with a network where it has a sound one (nnue.cpp: load_file, load).
NetworksLoaded == part = "networks" => Networks!LoadsSound

\* When a load fails after it has overwritten weights, a good network is loaded again
\* (nnue.cpp: load_file, "the caller then falls back to reloading a known-good net").
NetworkRestored == part = "networks" => Networks!InUseIsWhole
=============================================================================
