---------------------------- MODULE GameHistory ----------------------------
(***************************************************************************)
(* The game behind a search: the moves of the position command and what it *)
(* stashes of them (uci.cpp), the replay by which each search thread       *)
(* rebuilds the chain of StateInfos from that (Thread::setup_root,         *)
(* search.cpp), and the moves, null moves and take-backs of the search on  *)
(* top of it, where repetitions and the fifty-move rule are read off the   *)
(* chain (position.cpp).                                                   *)
(*                                                                         *)
(* The position itself stands for its key.  Each side shuffles one piece   *)
(* between places; a capture or a pawn move is an irreversible step to the *)
(* next era, from which no earlier position can return.                    *)
(***************************************************************************)
EXTENDS StateChain, SequencesExt

CONSTANTS
    Places,         \* where a side's piece may stand
    StartClocks,    \* the halfmove clocks a FEN may start with
    MaxEra,         \* bound: irreversible moves in all
    MaxGame,        \* bound: StateInfos of the game
    MaxPly,         \* bound: plies of the search
    RootStates      \* the length of Thread::rootStates

ASSUME HistoryAssumption ==
    /\ StartClocks \subseteq Nat
    /\ MaxEra \in Nat /\ MaxGame \in Nat /\ MaxPly \in Nat
    /\ RootStates \in Nat \ {0}

VARIABLES
    game,       \* the chain of the game, as the UCI thread's rootPos links it
    rootFEN,    \* the start of the game, written out as a FEN,
    rootMoves,  \* and its moves: all that a search thread is given
    chain,      \* the search thread's chain; empty when no search runs
    rootLen     \* rootStateCount: how much of chain is the root's history

historyVars == <<game, rootFEN, rootMoves, chain, rootLen>>

Color == {0, 1}
Placement == [side : Color, at : [Color -> Places], era : Nat]

st == Last(chain)
ply == Len(chain) - rootLen

\* Mutant: the halfmove clock is left out of the FEN.
fen_clockless(s) == [key |-> s.key, clock |-> 0]

\* Position::fen, of the position whose StateInfo is s.
fen(s) == [key |-> s.key, clock |-> s.rule50]

\* Position::set: whatever clock the FEN gives, nothing precedes the position.
SetUp(f) == [key |-> f.key, rule50 |-> f.clock, pliesFromNull |-> 0, repetition |-> 0]

Passed(p) == [p EXCEPT !.side = 1 - @]

\* A move is the place it gives the mover's piece and the era it leads to.
Make(p, m) == [Passed(p) EXCEPT !.at[p.side] = m.at, !.era = m.era]
Legal(p) == {[at |-> x, era |-> p.era] : x \in Places \ {p.at[p.side]}}
              \cup {[at |-> p.at[p.side], era |-> e] : e \in {p.era + 1} \cap (0 .. MaxEra)}

\* The rule counters of do_move, which leads to p, and of do_null_move.
DoMove(c, p) ==
    LET prior == Last(c)
        new == [key |-> p,
                rule50 |-> IF p.era # prior.key.era THEN 0 ELSE prior.rule50 + 1,
                pliesFromNull |-> prior.pliesFromNull + 1,
                repetition |-> 0]
    IN  Append(c, [new EXCEPT !.repetition = Repetition(c, new)])

DoNullMove(c) ==
    LET prior == Last(c)
    IN  Append(c, [key |-> Passed(prior.key),
                   rule50 |-> prior.rule50 + 1,
                   pliesFromNull |-> 0,
                   repetition |-> 0])

HistoryInit ==
    /\ \E x \in Places, clock \in StartClocks :
          LET start == [side |-> 0, at |-> [c \in Color |-> x], era |-> 0]
          IN  game = <<SetUp([key |-> start, clock |-> clock])>>
    /\ rootFEN = fen(game[1]) /\ rootMoves = <<>>
    /\ chain = <<>>
    /\ rootLen = 0

\* The next position command gives the game one move more.
PlayMove ==
    /\ chain = <<>>
    /\ Len(game) < MaxGame
    /\ \E m \in Legal(Last(game).key) : /\ game' = DoMove(game, Make(Last(game).key, m))
                                        /\ rootMoves' = Append(rootMoves, m)
    /\ UNCHANGED <<rootFEN, chain, rootLen>>

\* setup_root starts from the FEN and replays the moves one by one while rootStates
\* has room; the search waits for the last of them.
setup_root ==
    /\ chain = <<>>
    /\ chain' = <<SetUp(rootFEN)>>
    /\ rootLen' = 1
    /\ UNCHANGED <<game, rootFEN, rootMoves>>

Replaying == chain # <<>> /\ rootLen <= Len(rootMoves) /\ rootLen < RootStates

ReplayMove ==
    /\ Replaying
    /\ chain' = DoMove(chain, Make(st.key, rootMoves[rootLen]))
    /\ rootLen' = rootLen + 1
    /\ UNCHANGED <<game, rootFEN, rootMoves>>

\* A node goes on to its children unless it is the root or not drawn.
Searches == chain # <<>> /\ ~Replaying /\ ply < MaxPly /\ (ply > 0 => ~is_draw(st, ply))

SearchMove ==
    /\ Searches
    /\ \E m \in Legal(st.key) : chain' = DoMove(chain, Make(st.key, m))
    /\ UNCHANGED <<game, rootFEN, rootMoves, rootLen>>

\* Never at the root, whose window is open, nor twice in a row.
NullMove ==
    /\ Searches
    /\ ply > 0 /\ st.pliesFromNull > 0
    /\ chain' = DoNullMove(chain)
    /\ UNCHANGED <<game, rootFEN, rootMoves, rootLen>>

\* undo_move and undo_null_move.
Undo ==
    /\ chain # <<>> /\ ply > 0
    /\ chain' = Front(chain)
    /\ UNCHANGED <<game, rootFEN, rootMoves, rootLen>>

EndSearch ==
    /\ chain # <<>> /\ ~Replaying /\ ply = 0
    /\ chain' = <<>>
    /\ rootLen' = 0
    /\ UNCHANGED <<game, rootFEN, rootMoves>>

HistoryNext == PlayMove \/ setup_root \/ ReplayMove \/ SearchMove \/ NullMove \/ Undo \/ EndSearch
HistorySpec == HistoryInit /\ [][HistoryNext]_historyVars

----------------------------------------------------------------------------
(* Properties. *)

StateInfo == [key : Placement, rule50 : Nat, pliesFromNull : Nat, repetition : Int]

\* Both chains hold StateInfos, and the root's part lies within the chain.
HistoryTypeOK ==
    /\ game \in Seq(StateInfo) /\ game # <<>>
    /\ chain \in Seq(StateInfo)
    /\ rootLen \in Nat /\ (chain = <<>> <=> rootLen = 0) /\ rootLen <= Len(chain)

\* The window a repetition walk may cover never reaches past the first
\* StateInfo of its chain, whose previous is null, though a FEN may start the
\* clock at anything: do_move never follows a null previous.
WindowInChain ==
    \A c \in {game, chain} : \A n \in DOMAIN c : Window(c[n]) < n

\* The earlier places of c, since the last null move, with the position at n.
NullAt(c, n) == n > 1 /\ c[n].key = Passed(c[n - 1].key)
Earlier(c, n) == {j \in 1 .. n - 1 : /\ c[j].key = c[n].key
                                     /\ \A k \in j + 1 .. n : ~NullAt(c, k)}

\* What the whole history says of the position at n: the distance back to its
\* latest occurrence since a null move, negative when it had occurred before
\* that too, and 0 when it is new.
Recurrence(c, n) ==
    LET seen == Earlier(c, n)
    IN  IF seen = {} THEN 0
        ELSE IF seen = {Max(seen)} THEN n - Max(seen) ELSE Max(seen) - n

\* repetition is that, though do_move looks only four, six, ... plies back and
\* no further than the shorter of the two counters.
RepetitionExact ==
    \A c \in {game, chain} : \A n \in DOMAIN c : c[n].repetition = Recurrence(c, n)

\* A node below the root is drawn by repetition just when the position has
\* occurred inside the search after its root, or twice before it; a single
\* occurrence in the game, the root itself included, is not enough.
DrawnExactly == chain # <<>> /\ ply > 0 =>
    LET seen == Earlier(chain, Len(chain))
    IN  is_draw(st, ply)
          <=> \/ st.rule50 >= 100
              \/ \E j \in seen : j > rootLen
              \/ \E i, j \in seen : i # j

\* Once replayed, what the search stands on is the game, StateInfo by StateInfo,
\* whatever was made and unmade above it (search.cpp: setup_root, "so the StateInfo
\* chain matches the real game history").  A game with more moves than rootStates has
\* room for is cut short.
RootIsTheGame == chain # <<>> /\ ~Replaying => SubSeq(chain, 1, rootLen) = game
=============================================================================
