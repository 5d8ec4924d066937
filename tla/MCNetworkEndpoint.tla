------------------------- MODULE MCNetworkEndpoint -------------------------
(* NetworkEndpoint with two messages, two sockets that live at a time, two *)
(* retries and two events: a connection breaks and breaks again, or the    *)
(* application disconnects and connects, or resets, at any point.          *)
EXTENDS NetworkEndpoint
=============================================================================
