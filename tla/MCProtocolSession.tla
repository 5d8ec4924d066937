------------------------- MODULE MCProtocolSession -------------------------
(* ProtocolSession with the machine its protocol asks for: the states come *)
(* first, then up to four transitions in the order of the protocol, and    *)
(* only then calls and locks.                                              *)
EXTENDS ProtocolSession, Functions

CONSTANT MaxTouches  \* bound: locks, unlocks and entries of states

(* How often states were locked, unlocked and entered.                     *)
Touches == FoldFunction(LAMBDA s, n : s.version - 2 + n, 0, states)

SmallInstance ==
  /\ \A k \in DOMAIN transitions :
       transitions[k].name = States[k + 1] /\ transitions[k].from = k - 1
  /\ Touches <= MaxTouches

InstalledFirst ==
  /\ numStates' < Len(States) => nextSequence' = 1 /\ Touches' = 0 /\ failed' = 0
  /\ transitions' # transitions =>
       numStates = Len(States) /\ nextSequence = 1 /\ Touches = 0 /\ failed = 0
=============================================================================
