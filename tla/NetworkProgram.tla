--------------------------- MODULE NetworkProgram ---------------------------
(***************************************************************************)
(* A network program of libpolycall (src/network.c) served by main.c's     *)
(* non-interactive loop: net_run after net_run on one thread, with clients *)
(* that connect, send and hang up at any moment and a signal whose handler *)
(* cleans up on the very thread it interrupts.  (A second signal, within   *)
(* the handler of the first, is left to Runtime.)                          *)
(*                                                                         *)
(* clients_lock is a default mutex: a thread that locks it twice waits for *)
(* itself for good.  `holding' tells whether the thread has it, and every  *)
(* stretch of net_run between two calls is a step of its own, so that a    *)
(* signal can strike with the mutex held and without, and with an accepted *)
(* connection that no slot has yet.  Each slot's own mutex is only ever    *)
(* taken under clients_lock and is left out.  A connection stands for its  *)
(* descriptor on the server.                                               *)
(***************************************************************************)
EXTENDS Naturals, Sequences

CONSTANTS
  Clients,     \* connections, each made at most once
  NoClient,    \* a slot that is not active
  MaxClients,  \* NET_MAX_CLIENTS
  MaxSent      \* bound: messages each client sends

ASSUME ConstantsOK ==
  NoClient \notin Clients /\ MaxClients \in Nat \ {0} /\ MaxSent \in [Clients -> Nat]

VARIABLES
  pc,        \* where the thread is
  holding,   \* the thread has clients_lock
  clients,   \* program->clients: is_active and socket_fd of each slot
  readfds,   \* the connections in readfds, watched before select, ready after
  current,   \* new_socket
  at,        \* the slot net_run's last loop has come to
  link,      \* the state of each connection
  backlog,   \* connections to accept, in order
  sent,      \* number of messages sent on each connection ...
  read,      \* ... and of those the server has received
  hungUp,    \* connections that the client has closed
  greeted    \* history: connections given to on_connect

net == <<link, backlog, sent, read, hungUp, greeted>>
server == <<pc, holding, clients, readfds, current, at>>
vars == <<server, net>>

Slots == 0 .. MaxClients - 1
Active == {clients[i] : i \in Slots} \ {NoClient}
Ready(c) == read[c] < sent[c] \/ c \in hungUp

-----------------------------------------------------------------------------
(* net_init_program has run: the endpoint listens and no slot is active.   *)
Init ==
  /\ pc = "idle" /\ holding = FALSE
  /\ clients = [i \in Slots |-> NoClient]
  /\ readfds = {} /\ current = NoClient /\ at = 0
  /\ link = [c \in Clients |-> "none"] /\ backlog = <<>>
  /\ sent = [c \in Clients |-> 0] /\ read = [c \in Clients |-> 0]
  /\ hungUp = {} /\ greeted = {}

Lock(from, to) ==
  /\ pc = from /\ ~holding
  /\ pc' = to /\ holding' = TRUE

BeginPass ==
  /\ Lock("idle", "build")
  /\ UNCHANGED <<clients, readfds, current, at, net>>

(* Mutant: the loop over the slots starts at 1.                            *)
BuildReadfdsFrom1 ==
  /\ pc = "build"
  /\ readfds' = {clients[i] : i \in Slots \ {0}} \ {NoClient}
  /\ pc' = "select" /\ holding' = FALSE
  /\ UNCHANGED <<clients, current, at, net>>

BuildReadfds ==
  /\ pc = "build"
  /\ readfds' = Active
  /\ pc' = "select" /\ holding' = FALSE
  /\ UNCHANGED <<clients, current, at, net>>

(* Mutant: select(max_fd, ...) does not watch the highest descriptor, the  *)
(* listening socket's own while there is no client.                        *)
SelectOffByOne ==
  /\ pc = "select"
  /\ readfds' = {c \in readfds : Ready(c)}
  /\ pc' = IF backlog # <<>> /\ readfds # {} THEN "accept" ELSE "lock_scan"
  /\ UNCHANGED <<holding, clients, current, at, net>>

Select ==
  /\ pc = "select"
  /\ readfds' = {c \in readfds : Ready(c)}
  /\ pc' = IF backlog # <<>> THEN "accept" ELSE "lock_scan"
  /\ UNCHANGED <<holding, clients, current, at, net>>

Accept ==
  /\ pc = "accept"
  /\ current' = Head(backlog)
  /\ backlog' = Tail(backlog)
  /\ link' = [link EXCEPT ![Head(backlog)] = "open"]
  /\ pc' = "accepted"
  /\ UNCHANGED <<holding, clients, readfds, at, sent, read, hungUp, greeted>>

(* accept finds the connection gone; net_run goes on to the clients.       *)
AcceptFails ==
  /\ pc = "accept"
  /\ backlog' = Tail(backlog)
  /\ link' = [link EXCEPT ![Head(backlog)] = "closed"]
  /\ pc' = "lock_scan"
  /\ UNCHANGED <<holding, clients, readfds, current, at, sent, read, hungUp, greeted>>

CloseCurrent(from, to) ==
  /\ pc = from /\ pc' = to
  /\ link' = [link EXCEPT ![current] = "closed"]
  /\ UNCHANGED <<holding, clients, readfds, current, at, backlog, sent, read, hungUp, greeted>>

(* net_run returns.                                                        *)
SetNonblockingFails == CloseCurrent("accepted", "idle")

LockToAdd ==
  /\ Lock("accepted", "add")
  /\ UNCHANGED <<clients, readfds, current, at, net>>

(* net_add_client puts the connection into the first slot that is free ... *)
AddClient ==
  /\ pc = "add"
  /\ \E i \in Slots :
       /\ clients[i] = NoClient /\ \A j \in 0 .. i - 1 : clients[j] # NoClient
       /\ clients' = [clients EXCEPT ![i] = current]
  /\ pc' = "greet" /\ holding' = FALSE
  /\ UNCHANGED <<readfds, current, at, net>>

(* Mutant: the refused connection is not closed.                           *)
RefuseClientLeaks ==
  /\ pc = "add" /\ \A i \in Slots : clients[i] # NoClient
  /\ pc' = "lock_scan" /\ holding' = FALSE
  /\ UNCHANGED <<clients, readfds, current, at, net>>

(* Mutant: on_connect is called for a connection that was refused too.     *)
RefuseClientGreets ==
  /\ pc = "add" /\ \A i \in Slots : clients[i] # NoClient
  /\ greeted' = greeted \cup {current}
  /\ pc' = "refuse" /\ holding' = FALSE
  /\ UNCHANGED <<clients, readfds, current, at, link, backlog, sent, read, hungUp>>

(* ... and if none is, it returns false and net_run closes the connection. *)
RefuseClient ==
  /\ pc = "add" /\ \A i \in Slots : clients[i] # NoClient
  /\ pc' = "refuse" /\ holding' = FALSE
  /\ UNCHANGED <<clients, readfds, current, at, net>>

CloseRefused == CloseCurrent("refuse", "lock_scan")

OnConnect ==
  /\ pc = "greet"
  /\ greeted' = greeted \cup {current}
  /\ pc' = "lock_scan"
  /\ UNCHANGED <<holding, clients, readfds, current, at, link, backlog, sent, read, hungUp>>

BeginScan ==
  /\ Lock("lock_scan", "scan")
  /\ at' = 0
  /\ UNCHANGED <<clients, readfds, current, net>>

(* Mutant: the scan goes one slot too far.                                 *)
SkipSlotPastEnd ==
  /\ pc = "scan" /\ at <= MaxClients /\ (at = MaxClients \/ clients[at] \notin readfds)
  /\ at' = at + 1
  /\ UNCHANGED <<pc, holding, clients, readfds, current, net>>

SkipSlot ==
  /\ pc = "scan" /\ at < MaxClients /\ clients[at] \notin readfds
  /\ at' = at + 1
  /\ UNCHANGED <<pc, holding, clients, readfds, current, net>>

(* One recv takes some of what is there and hands it to on_receive.        *)
OnReceive ==
  /\ pc = "scan" /\ at < MaxClients /\ clients[at] \in readfds
  /\ LET c == clients[at]
     IN  \E n \in read[c] + 1 .. sent[c] : read' = [read EXCEPT ![c] = n]
  /\ at' = at + 1
  /\ UNCHANGED <<pc, holding, clients, readfds, current, link, backlog, sent, hungUp, greeted>>

(* recv has returned 0.  After on_disconnect, net_remove_client locks      *)
(* clients_lock, which this thread holds: it does not get any further.     *)
OnDisconnect ==
  /\ pc = "scan" /\ at < MaxClients /\ clients[at] \in readfds
  /\ read[clients[at]] = sent[clients[at]]
  /\ pc' = "remove"
  /\ UNCHANGED <<holding, clients, readfds, current, at, net>>

EndPass ==
  /\ pc = "scan" /\ at = MaxClients
  /\ pc' = "idle" /\ holding' = FALSE
  /\ UNCHANGED <<clients, readfds, current, at, net>>

-----------------------------------------------------------------------------
(* SIGINT or SIGTERM: signal_handler runs cleanup_runtime on this thread.  *)
(* net_cleanup_program locks clients_lock first of all.                    *)
Signal ==
  /\ pc \notin {"remove", "blocked", "cleanup", "exit", "exited"}
  /\ pc' = IF holding THEN "blocked" ELSE "cleanup"
  /\ holding' = TRUE
  /\ UNCHANGED <<clients, readfds, current, at, net>>

(* The listening socket is closed, and with it those that wait, and the    *)
(* slots.  Nothing here knows of a connection that is in no slot yet.      *)
Cleanup ==
  /\ pc = "cleanup"
  /\ clients' = [i \in Slots |-> NoClient]
  /\ link' = [c \in Clients |-> IF c \in Active \/ link[c] = "queued" THEN "closed" ELSE link[c]]
  /\ backlog' = <<>>
  /\ pc' = "exit" /\ holding' = FALSE
  /\ UNCHANGED <<readfds, current, at, sent, read, hungUp, greeted>>

(* exit: the system closes what the process still has open.                *)
Exit ==
  /\ pc = "exit" /\ pc' = "exited"
  /\ link' = [c \in Clients |-> IF link[c] = "open" THEN "closed" ELSE link[c]]
  /\ UNCHANGED <<holding, clients, readfds, current, at, backlog, sent, read, hungUp, greeted>>

Up == pc \notin {"exit", "exited"}

-----------------------------------------------------------------------------
(* The clients.                                                            *)
Connect(c) ==
  /\ link[c] = "none" /\ Up
  /\ link' = [link EXCEPT ![c] = "queued"]
  /\ backlog' = Append(backlog, c)
  /\ UNCHANGED <<server, sent, read, hungUp, greeted>>

Send(c) ==
  /\ link[c] \in {"queued", "open"} /\ c \notin hungUp /\ sent[c] < MaxSent[c]
  /\ sent' = [sent EXCEPT ![c] = @ + 1]
  /\ UNCHANGED <<server, link, backlog, read, hungUp, greeted>>

HangUp(c) ==
  /\ link[c] \in {"queued", "open"} /\ c \notin hungUp
  /\ hungUp' = hungUp \cup {c}
  /\ UNCHANGED <<server, link, backlog, sent, read, greeted>>

Pass ==
  \/ BeginPass \/ BuildReadfds \/ Select \/ Accept \/ AcceptFails \/ SetNonblockingFails
  \/ LockToAdd \/ AddClient \/ RefuseClient \/ CloseRefused \/ OnConnect
  \/ BeginScan \/ SkipSlot \/ OnReceive \/ OnDisconnect \/ EndPass

Next ==
  \/ Pass \/ Cleanup \/ Exit
  \/ Signal
  \/ \E c \in Clients : Connect(c) \/ Send(c) \/ HangUp(c)

(* The thread runs whenever it can: main's loop has nothing else to do.    *)
(* Clients and the user owe nothing.                                       *)
Spec == Init /\ [][Next]_vars /\ WF_vars(Pass \/ Cleanup \/ Exit)

-----------------------------------------------------------------------------
TypeOK ==
  /\ pc \in {"idle", "build", "select", "accept", "accepted", "add", "refuse", "greet",
             "lock_scan", "scan", "remove", "blocked", "cleanup", "exit", "exited"}
  /\ holding \in BOOLEAN
  /\ clients \in [Slots -> Clients \cup {NoClient}]
  /\ readfds \subseteq Clients
  /\ current \in Clients \cup {NoClient}
  /\ at \in 0 .. MaxClients
  /\ link \in [Clients -> {"none", "queued", "open", "closed"}]
  /\ backlog \in Seq(Clients)
  /\ sent \in [Clients -> Nat] /\ read \in [Clients -> Nat]
  /\ \A c \in Clients : read[c] <= sent[c] /\ sent[c] <= MaxSent[c]
  /\ hungUp \subseteq Clients /\ greeted \subseteq Clients

Halted == pc \in {"remove", "blocked", "exit", "exited"}

(* A connection that was accepted and is in no slot.                       *)
Between == current \in Clients /\ link[current] = "open" /\ current \notin Active

(* The same by where net_run is.  A signal may have struck there.          *)
InHand ==
  IF \/ pc \in {"accepted", "add", "refuse"}
     \/ pc \in {"blocked", "cleanup", "exit"} /\ Between
  THEN {current} ELSE {}

(* No descriptor leaks and none is used after it is closed: the open       *)
(* connections are those of the active slots, each in one slot only, and   *)
(* the one between accept and its slot.  A signal that strikes there       *)
(* leaves that one open until the process ends, and no other.              *)
ConnectionsAccounted ==
  /\ {c \in Clients : link[c] = "open"} = Active \cup InHand
  /\ Active \cap InHand = {}
  /\ \A i, j \in Slots : clients[i] = clients[j] /\ i # j => clients[i] = NoClient
  /\ \/ readfds \subseteq Active
     \/ pc \in {"idle", "build", "blocked", "cleanup", "exit", "exited"}

(* Seen from outside, a connection between accept and its slot is still    *)
(* the first of those that wait, and waits in vain once the slots are gone.*)
Stage ==
  [c \in Clients |->
     IF link[c] = "open" /\ c \notin Active THEN IF Up THEN "queued" ELSE "closed" ELSE link[c]]
Queue == (IF Between /\ Up THEN <<current>> ELSE <<>>) \o backlog

Service == INSTANCE ConnectionService WITH
  up <- Up, stage <- Stage, queue <- Queue, received <- read

(* Whatever net_run does in between, connections are answered in order,    *)
(* NET_MAX_CLIENTS at a time, each greeted once, before the next one and   *)
(* before its data.                                                        *)
ServiceSpec == Service!Spec

(* Every connection is taken in or refused, ahead of later ones or not,    *)
(* unless the server halts.                                                *)
EveryConnectionAnswered ==
  \A c \in Clients : Stage[c] = "queued" ~> Stage[c] # "queued" \/ Halted

(* Every message of a connection in the table reaches on_receive, unless   *)
(* the server halts.                                                       *)
EveryMessageRead ==
  \A c \in Clients : \A n \in 1 .. MaxSent[c] :
    c \in Active /\ sent[c] >= n ~> read[c] >= n \/ Halted

(* network.c:448 "Handle disconnection": a client that has hung up leaves  *)
(* its slot (or a signal ends the program).                                *)
DisconnectIsHandled ==
  \A c \in Clients :
    c \in Active /\ c \in hungUp ~> c \notin Active \/ pc = "blocked"
=============================================================================
