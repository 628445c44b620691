---------------------------- MODULE UciProtocol ----------------------------
(***************************************************************************)
(* What the engine promises a chess GUI, seen only through the commands    *)
(* the GUI has written and the "bestmove" lines it has read.               *)
(*                                                                         *)
(* A "go" opens a request; at most one is open.  While it is open it is    *)
(*   "held"  a "go ponder" the GUI has not released by ponderhit, stop or  *)
(*           quit: it must not be answered;                                *)
(*   "free"  it may be answered, and need not be (go infinite);            *)
(*   "due"   it must be answered (a clock, depth or node limit, or stop).  *)
(* A request only moves from "held" towards "due".                         *)
(***************************************************************************)
EXTENDS Naturals

CONSTANT MaxGo      \* bound: how many "go" commands the GUI sends

VARIABLES asks,     \* number of "go" commands written so far
          claim,    \* what the latest request asks for now
          replies   \* number of "bestmove" lines printed so far

protocolVars == <<asks, claim, replies>>

Claims == {"held", "free", "due"}

Open == replies < asks

ProtocolInit == asks = 0 /\ claim = "free" /\ replies = 0

\* The GUI writes a "go".
Ask == /\ ~Open
       /\ asks < MaxGo
       /\ asks' = asks + 1
       /\ claim' \in Claims
       /\ UNCHANGED replies

\* The GUI writes ponderhit, stop or quit.
Release == /\ \/ claim = "held" /\ claim' \in {"free", "due"}
              \/ claim = "free" /\ claim' = "due"
           /\ UNCHANGED <<asks, replies>>

\* The engine prints a "bestmove".
Answer == /\ Open
          /\ claim # "held"
          /\ replies' = replies + 1
          /\ UNCHANGED <<asks, claim>>

ProtocolNext == Ask \/ Release \/ Answer

ProtocolSafety == ProtocolInit /\ [][ProtocolNext]_protocolVars

\* An open request that is due is answered.
ProtocolLiveness == WF_protocolVars(Answer /\ claim = "due")

ProtocolSpec == ProtocolSafety /\ ProtocolLiveness
=============================================================================
