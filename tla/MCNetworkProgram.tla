-------------------------- MODULE MCNetworkProgram --------------------------
(* NetworkProgram on a small instance: one client more than there are      *)
(* slots, so that the table fills up and a connection is refused.          *)
EXTENDS NetworkProgram

CONSTANTS c1, c2, c3

MCClients == {c1, c2, c3}
MCMaxSent == [c \in MCClients |-> IF c = c1 THEN 2 ELSE IF c = c2 THEN 1 ELSE 0]
=============================================================================
