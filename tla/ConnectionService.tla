------------------------- MODULE ConnectionService -------------------------
(***************************************************************************)
(* What a network program promises: its clients, that connections are      *)
(* answered in the order they were made and no more than NET_MAX_CLIENTS   *)
(* are served at a time; the application, that on_connect comes once for   *)
(* each connection served, before the next one is taken in and before any  *)
(* of its data, and that data comes from connections that are served, each *)
(* piece once.  Nothing of passes, descriptors sets and mutexes is left.   *)
(***************************************************************************)
EXTENDS Naturals, Sequences, FiniteSets

CONSTANTS Clients, MaxClients

VARIABLES
  up,        \* there is a process
  stage,     \* of each connection: "none", "queued", "open" or "closed"
  queue,     \* the queued ones, in order
  greeted,   \* connections on_connect has been called for
  sent,      \* messages the client of a connection has sent ...
  received   \* ... and on_receive has been given

vars == <<up, stage, queue, greeted, sent, received>>

Served == {c \in Clients : stage[c] = "open"}

Init ==
  /\ up = TRUE
  /\ stage = [c \in Clients |-> "none"] /\ queue = <<>> /\ greeted = {}
  /\ sent = [c \in Clients |-> 0] /\ received = [c \in Clients |-> 0]

Connect(c) ==
  /\ up /\ stage[c] = "none"
  /\ stage' = [stage EXCEPT ![c] = "queued"]
  /\ queue' = Append(queue, c)
  /\ UNCHANGED <<up, greeted, sent, received>>

(* The client may not have noticed yet that its connection is closed.      *)
Send(c) ==
  /\ stage[c] # "none"
  /\ sent' = [sent EXCEPT ![c] = @ + 1]
  /\ UNCHANGED <<up, stage, queue, greeted, received>>

Answer(s) ==
  /\ up /\ queue # <<>>
  /\ stage' = [stage EXCEPT ![Head(queue)] = s]
  /\ queue' = Tail(queue)
  /\ UNCHANGED <<up, greeted, sent, received>>

TakeIn ==
  /\ Cardinality(Served) < MaxClients /\ Served \subseteq greeted
  /\ Answer("open")

TurnAway == Answer("closed")

Greet(c) ==
  /\ up /\ c \in Served \ greeted
  /\ greeted' = greeted \cup {c}
  /\ UNCHANGED <<up, stage, queue, sent, received>>

Receive(c) ==
  /\ up /\ c \in Served \cap greeted
  /\ \E n \in received[c] + 1 .. sent[c] : received' = [received EXCEPT ![c] = n]
  /\ UNCHANGED <<up, stage, queue, greeted, sent>>

(* The process ends and takes every connection along.                      *)
Stop ==
  /\ up /\ up' = FALSE
  /\ stage' = [c \in Clients |-> IF stage[c] = "none" THEN "none" ELSE "closed"]
  /\ queue' = <<>>
  /\ UNCHANGED <<greeted, sent, received>>

Next ==
  \/ TakeIn \/ TurnAway \/ Stop
  \/ \E c \in Clients : Connect(c) \/ Send(c) \/ Greet(c) \/ Receive(c)

Spec == Init /\ [][Next]_vars
=============================================================================
