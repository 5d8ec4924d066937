-------------------------- MODULE MCMicroServices --------------------------
(* MicroServices on a small instance: three slots, so that a slot between  *)
(* two active ones can be free; two ids, so that three services share one; *)
(* id 0, which is also the id of a reset slot.                             *)
EXTENDS MicroServices

MCTimes == 0 .. 2

(* The clock is never set back.                                            *)
ClockForward == now' >= now
=============================================================================
