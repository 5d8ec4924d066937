------------------------ MODULE NetworkProgram_proofs ------------------------
(***************************************************************************)
(* What holds of a network program for any number of clients, slots and    *)
(* messages, wherever a signal strikes.                                    *)
(***************************************************************************)
EXTENDS NetworkProgram, FiniteSetTheorems, TLAPS

-----------------------------------------------------------------------------
(* The connections that wait to be accepted are those of the backlog, each *)
(* in it once, and accept is called only while there is one.               *)
BacklogOK ==
  /\ \A i \in 1 .. Len(backlog) : link[backlog[i]] = "queued"
  /\ \A i, j \in 1 .. Len(backlog) : i # j => backlog[i] # backlog[j]
  /\ pc = "accept" => backlog # <<>>

(* Whatever is in hand, or was last, is a connection.                      *)
HandOK == pc \in {"accepted", "add", "refuse", "greet"} => current \in Clients

(* The cleanup leaves no slot active.                                      *)
Emptied == pc \in {"exit", "exited"} => Active = {}

(* on_connect has seen every connection of the table but the one that has  *)
(* just been put there.                                                    *)
Greeted ==
  \/ pc \in {"blocked", "cleanup", "exit", "exited"}
  \/ pc = "greet" /\ Active \subseteq greeted \cup {current}
  \/ pc # "greet" /\ Active \subseteq greeted

Inv == TypeOK /\ ConnectionsAccounted /\ BacklogOK /\ HandOK /\ Emptied /\ Greeted

-----------------------------------------------------------------------------
(* Facts about the variables as they are, free of Len and Slots.           *)
LEMMA ConstantFacts ==
  /\ NoClient \notin Clients /\ MaxClients \in Nat /\ MaxClients >= 1
  /\ \A i \in Slots : i \in Nat /\ i < MaxClients
BY ConstantsOK DEF Slots

(* The first of a queue without repetitions is not among the others.       *)
LEMMA HeadAndTail ==
  ASSUME NEW s \in Seq(Clients), s # <<>>
  PROVE  /\ Head(s) \in Clients /\ Tail(s) \in Seq(Clients)
         /\ 1 \in 1 .. Len(s) /\ Head(s) = s[1]
         /\ Len(Tail(s)) = Len(s) - 1
         /\ \A i \in 1 .. Len(Tail(s)) : i + 1 \in 1 .. Len(s) /\ Tail(s)[i] = s[i + 1]
OBVIOUS

(* net_add_client makes the connection in hand an active one.              *)
LEMMA ClientAdded ==
  TypeOK /\ HandOK /\ AddClient => Active' = Active \cup {current} /\ current \in Clients
<1> SUFFICES ASSUME TypeOK, HandOK, AddClient
             PROVE  Active' = Active \cup {current} /\ current \in Clients
  OBVIOUS
<1>1. PICK i \in Slots : clients[i] = NoClient /\ clients' = [clients EXCEPT ![i] = current]
  BY DEF AddClient
<1>2. current \in Clients BY DEF AddClient, HandOK
<1>3. clients \in [Slots -> Clients \cup {NoClient}] BY DEF TypeOK
<1>4. clients'[i] = current /\ \A j \in Slots \ {i} : clients'[j] = clients[j]
  BY <1>1, <1>3
<1>5. current # NoClient BY <1>2, ConstantFacts
<1> QED BY <1>1, <1>2, <1>4, <1>5 DEF Active

-----------------------------------------------------------------------------
LEMMA InitInv == Init => Inv
<1> SUFFICES ASSUME Init PROVE Inv OBVIOUS
<1>1. Active = {} BY DEF Init, Active
<1>2. TypeOK
  <2>1. \A c \in Clients : MaxSent[c] \in Nat BY ConstantsOK
  <2>2. clients \in [Slots -> Clients \cup {NoClient}] BY DEF Init
  <2>3. sent = [c \in Clients |-> 0] /\ read = [c \in Clients |-> 0] BY DEF Init
  <2>4. ASSUME NEW c \in Clients PROVE read[c] <= sent[c] /\ sent[c] <= MaxSent[c]
    <3>1. sent[c] = 0 /\ read[c] = 0 BY <2>3
    <3>2. MaxSent[c] \in Nat BY <2>1
    <3> QED BY <3>1, <3>2
  <2>5. sent \in [Clients -> Nat] /\ read \in [Clients -> Nat] BY <2>3
  <2>6. link \in [Clients -> {"none", "queued", "open", "closed"}] BY DEF Init
  <2>7. at \in 0 .. MaxClients BY ConstantFacts DEF Init
  <2>8. holding \in BOOLEAN BY DEF Init
  <2>9. backlog \in Seq(Clients)
    <3>1. backlog = <<>> BY DEF Init
    <3> QED BY <3>1
  <2> QED BY <2>2, <2>4, <2>5, <2>6, <2>7, <2>8, <2>9 DEF Init, TypeOK
<1>3. ConnectionsAccounted BY <1>1, ConstantFacts DEF Init, ConnectionsAccounted, InHand
<1>4. BacklogOK BY DEF Init, BacklogOK
<1>5. HandOK /\ Emptied /\ Greeted BY <1>1 DEF Init, HandOK, Emptied, Greeted
<1> QED BY <1>2, <1>3, <1>4, <1>5 DEF Inv

-----------------------------------------------------------------------------
(* Every variable keeps its type.                                          *)
LEMMA TypeStep == TypeOK /\ BacklogOK /\ HandOK /\ [Next]_vars => TypeOK'
<1> SUFFICES ASSUME TypeOK, BacklogOK, HandOK, [Next]_vars PROVE TypeOK' OBVIOUS
<1> USE ConstantFacts
<1>1. CASE BeginPass BY <1>1 DEF TypeOK, BeginPass, Lock, net
<1>2. CASE BuildReadfds BY <1>2 DEF TypeOK, BuildReadfds, Active, net
<1>3. CASE Select BY <1>3 DEF TypeOK, Select, net
<1>4. CASE Accept
  <2>1. backlog # <<>> BY <1>4 DEF Accept, BacklogOK
  <2>2. Head(backlog) \in Clients /\ Tail(backlog) \in Seq(Clients)
    BY <2>1, HeadAndTail DEF TypeOK
  <2> QED BY <1>4, <2>2 DEF TypeOK, Accept
<1>5. CASE AcceptFails
  <2>1. backlog # <<>> BY <1>5 DEF AcceptFails, BacklogOK
  <2>2. Head(backlog) \in Clients /\ Tail(backlog) \in Seq(Clients)
    BY <2>1, HeadAndTail DEF TypeOK
  <2> QED BY <1>5, <2>2 DEF TypeOK, AcceptFails
<1>6. CASE AddClient BY <1>6 DEF TypeOK, AddClient, net
<1>7. CASE RefuseClient \/ LockToAdd BY <1>7 DEF TypeOK, RefuseClient, LockToAdd, Lock, net
<1>8. CASE OnConnect BY <1>8 DEF TypeOK, OnConnect, HandOK
<1>9. CASE BeginScan BY <1>9 DEF TypeOK, BeginScan, Lock, net
<1>10. CASE SkipSlot BY <1>10 DEF TypeOK, SkipSlot, net
<1>11. CASE OnReceive
  <2>1. at' \in 0 .. MaxClients BY <1>11 DEF TypeOK, OnReceive
  <2>2. PICK n \in read[clients[at]] + 1 .. sent[clients[at]] :
          read' = [read EXCEPT ![clients[at]] = n]
    BY <1>11 DEF OnReceive
  <2>3. clients[at] \in Clients BY <1>11 DEF TypeOK, OnReceive
  <2>4. n \in Nat /\ n <= sent[clients[at]] BY <2>2, <2>3 DEF TypeOK
  <2>5. read' \in [Clients -> Nat] /\ \A c \in Clients : read'[c] <= sent[c]
    BY <2>2, <2>3, <2>4 DEF TypeOK
  <2> QED BY <1>11, <2>1, <2>5 DEF TypeOK, OnReceive
<1>12. CASE OnDisconnect BY <1>12 DEF TypeOK, OnDisconnect, net
<1>13. CASE EndPass BY <1>13 DEF TypeOK, EndPass, net
<1>14. CASE Cleanup
  <2>1. clients' \in [Slots -> Clients \cup {NoClient}] BY <1>14 DEF Cleanup
  <2>2. link' \in [Clients -> {"none", "queued", "open", "closed"}]
    <3>1. \A c \in Clients : link[c] \in {"none", "queued", "open", "closed"} BY DEF TypeOK
    <3> QED BY <1>14, <3>1 DEF Cleanup
  <2>3. backlog' \in Seq(Clients)
    <3>1. backlog' = <<>> BY <1>14 DEF Cleanup
    <3> QED BY <3>1
  <2> QED BY <1>14, <2>1, <2>2, <2>3 DEF TypeOK, Cleanup
<1>15. CASE Signal BY <1>15 DEF TypeOK, Signal, net
<1>20. CASE SetNonblockingFails \/ CloseRefused
  BY <1>20 DEF TypeOK, SetNonblockingFails, CloseRefused, CloseCurrent
<1>21. CASE Exit BY <1>21 DEF TypeOK, Exit
<1>16. ASSUME NEW c \in Clients, Connect(c) PROVE TypeOK'
  BY <1>16 DEF TypeOK, Connect, server
<1>17. ASSUME NEW c \in Clients, Send(c) PROVE TypeOK'
  <2>1. sent[c] < MaxSent[c] /\ sent' = [sent EXCEPT ![c] = @ + 1] BY <1>17 DEF Send
  <2>2. sent' \in [Clients -> Nat] BY <2>1 DEF TypeOK
  <2>3. \A d \in Clients : MaxSent[d] \in Nat BY ConstantsOK
  <2>4. \A d \in Clients : read[d] <= sent'[d] /\ sent'[d] <= MaxSent[d]
    BY <2>1, <2>3 DEF TypeOK
  <2> QED BY <1>17, <2>2, <2>4 DEF TypeOK, Send, server
<1>18. ASSUME NEW c \in Clients, HangUp(c) PROVE TypeOK'
  BY <1>18 DEF TypeOK, HangUp, server
<1>19. CASE UNCHANGED vars BY <1>19 DEF TypeOK, vars, server, net
<1> QED
  BY <1>1, <1>2, <1>3, <1>4, <1>5, <1>6, <1>7, <1>8, <1>9, <1>10, <1>11, <1>12, <1>13,
     <1>14, <1>15, <1>16, <1>17, <1>18, <1>19, <1>20, <1>21 DEF Next, Pass

-----------------------------------------------------------------------------
LEMMA HandStep == TypeOK /\ BacklogOK /\ HandOK /\ [Next]_vars => HandOK'
<1> SUFFICES ASSUME TypeOK, BacklogOK, HandOK, [Next]_vars PROVE HandOK' OBVIOUS
<1>1. CASE Accept
  <2>1. backlog # <<>> BY <1>1 DEF Accept, BacklogOK
  <2>2. Head(backlog) \in Clients BY <2>1, HeadAndTail DEF TypeOK
  <2> QED BY <1>1, <2>2 DEF HandOK, Accept
<1>2. CASE \/ BeginPass \/ BuildReadfds \/ Select \/ AcceptFails \/ SetNonblockingFails
           \/ LockToAdd \/ AddClient \/ RefuseClient \/ CloseRefused \/ OnConnect
           \/ BeginScan \/ SkipSlot \/ OnReceive \/ OnDisconnect \/ EndPass
  BY <1>2 DEF HandOK, BeginPass, BuildReadfds, Select, AcceptFails, SetNonblockingFails,
     LockToAdd, AddClient, RefuseClient, CloseRefused, CloseCurrent, OnConnect, BeginScan,
     SkipSlot, OnReceive, OnDisconnect, EndPass, Lock
<1>3. CASE Cleanup \/ Exit \/ Signal BY <1>3 DEF HandOK, Cleanup, Exit, Signal
<1>4. CASE \E c \in Clients : Connect(c) \/ Send(c) \/ HangUp(c)
  BY <1>4 DEF HandOK, Connect, Send, HangUp, server
<1>5. CASE UNCHANGED vars BY <1>5 DEF HandOK, vars, server
<1> QED BY <1>1, <1>2, <1>3, <1>4, <1>5 DEF Next, Pass

LEMMA EmptiedStep == Emptied /\ [Next]_vars => Emptied'
<1> SUFFICES ASSUME Emptied, [Next]_vars, pc' \in {"exit", "exited"} PROVE Active' = {}
  BY DEF Emptied
<1>1. CASE Cleanup
  <2>1. \A i \in Slots : clients'[i] = NoClient BY <1>1 DEF Cleanup
  <2> QED BY <2>1 DEF Active
<1>2. CASE Exit BY <1>2 DEF Exit, Emptied, Active
<1>3. CASE (\E c \in Clients : Connect(c) \/ Send(c) \/ HangUp(c)) \/ UNCHANGED vars
  BY <1>3 DEF Connect, Send, HangUp, vars, server, Emptied, Active
<1>4. ~Pass /\ ~Signal
  BY DEF Pass, Signal, BeginPass, BuildReadfds, Select, Accept, AcceptFails,
     SetNonblockingFails, LockToAdd, AddClient, RefuseClient, CloseRefused, CloseCurrent,
     OnConnect, BeginScan, SkipSlot, OnReceive, OnDisconnect, EndPass, Lock
<1> QED BY <1>1, <1>2, <1>3, <1>4 DEF Next

(* A queue whose first is taken is a queue; so is one that a connection    *)
(* joins that was not yet made.                                            *)
LEMMA BacklogStep ==
  TypeOK /\ ConnectionsAccounted /\ BacklogOK /\ HandOK /\ [Next]_vars => BacklogOK'
<1> SUFFICES ASSUME TypeOK, ConnectionsAccounted, BacklogOK, HandOK, [Next]_vars
             PROVE  BacklogOK'
  OBVIOUS
<1>1. ASSUME pc = "accept", backlog' = Tail(backlog), pc' # "accept",
             NEW state, link' = [link EXCEPT ![Head(backlog)] = state]
      PROVE  BacklogOK'
  <2>1. backlog # <<>> BY <1>1 DEF BacklogOK
  <2>2. /\ 1 \in 1 .. Len(backlog) /\ Head(backlog) = backlog[1]
        /\ \A i \in 1 .. Len(backlog') :
             i + 1 \in 1 .. Len(backlog) /\ backlog'[i] = backlog[i + 1]
        /\ Len(backlog') = Len(backlog) - 1
    BY <1>1, <2>1, HeadAndTail DEF TypeOK
  <2>3. ASSUME NEW i \in 1 .. Len(backlog') PROVE link'[backlog'[i]] = "queued"
    <3>1. i + 1 # 1 /\ i + 1 \in 1 .. Len(backlog) BY <2>2
    <3>2. backlog[i + 1] # backlog[1] BY <3>1, <2>2 DEF BacklogOK
    <3>3. link[backlog[i + 1]] = "queued" BY <3>1 DEF BacklogOK
    <3> QED BY <1>1, <2>2, <3>2, <3>3
  <2>4. ASSUME NEW i \in 1 .. Len(backlog'), NEW j \in 1 .. Len(backlog'), i # j
        PROVE  backlog'[i] # backlog'[j]
    <3>1. i + 1 # j + 1 /\ i + 1 \in 1 .. Len(backlog) /\ j + 1 \in 1 .. Len(backlog)
      BY <2>2, <2>4
    <3>2. backlog[i + 1] # backlog[j + 1] BY <3>1 DEF BacklogOK
    <3> QED BY <2>2, <3>2
  <2> QED BY <1>1, <2>3, <2>4 DEF BacklogOK
<1>2. CASE Accept BY <1>1, <1>2 DEF Accept
<1>3. CASE AcceptFails BY <1>1, <1>3 DEF AcceptFails
<1>4. CASE SetNonblockingFails \/ CloseRefused
  <2>1. /\ pc \in {"accepted", "refuse"} /\ pc' \in {"idle", "lock_scan"}
        /\ link' = [link EXCEPT ![current] = "closed"] /\ backlog' = backlog
    BY <1>4 DEF SetNonblockingFails, CloseRefused, CloseCurrent
  <2>2. link[current] = "open" BY <2>1 DEF ConnectionsAccounted, InHand
  <2>3. \A i \in 1 .. Len(backlog) : link'[backlog[i]] = link[backlog[i]]
    BY <2>1, <2>2 DEF BacklogOK
  <2> QED BY <2>1, <2>3 DEF BacklogOK
<1>5. CASE Select BY <1>5 DEF Select, BacklogOK, net
<1>6. CASE \/ BeginPass \/ BuildReadfds \/ LockToAdd \/ AddClient \/ RefuseClient \/ OnConnect
           \/ BeginScan \/ SkipSlot \/ OnReceive \/ OnDisconnect \/ EndPass \/ Signal
  BY <1>6 DEF BacklogOK, BeginPass, BuildReadfds, LockToAdd, AddClient, RefuseClient,
     OnConnect, BeginScan, SkipSlot, OnReceive, OnDisconnect, EndPass, Signal, Lock, net
<1>7. CASE Cleanup BY <1>7 DEF Cleanup, BacklogOK
<1>11. CASE Exit
  <2>1. /\ pc' = "exited" /\ backlog' = backlog
        /\ link' = [c \in Clients |-> IF link[c] = "open" THEN "closed" ELSE link[c]]
    BY <1>11 DEF Exit
  <2>2. ASSUME NEW i \in 1 .. Len(backlog) PROVE link'[backlog[i]] = "queued"
    <3>1. link[backlog[i]] = "queued" BY DEF BacklogOK
    <3>2. backlog[i] \in Clients BY DEF TypeOK
    <3> QED BY <2>1, <3>1, <3>2
  <2> QED BY <2>1, <2>2 DEF BacklogOK
<1>8. ASSUME NEW c \in Clients, Connect(c) PROVE BacklogOK'
  <2>1. /\ Len(backlog') = Len(backlog) + 1 /\ backlog'[Len(backlog')] = c
        /\ \A i \in 1 .. Len(backlog) : backlog'[i] = backlog[i]
    BY <1>8 DEF Connect, TypeOK
  <2>2. Len(backlog) \in Nat BY DEF TypeOK
  <2>3. \A i \in 1 .. Len(backlog) : backlog[i] # c
    BY <1>8 DEF Connect, BacklogOK
  <2>4. ASSUME NEW i \in 1 .. Len(backlog') PROVE link'[backlog'[i]] = "queued"
    <3>1. CASE i = Len(backlog') BY <1>8, <2>1, <3>1 DEF Connect, TypeOK
    <3>2. CASE i # Len(backlog')
      <4>1. i \in 1 .. Len(backlog) BY <2>1, <2>2, <3>2
      <4>2. link[backlog[i]] = "queued" /\ backlog[i] # c BY <4>1, <2>3 DEF BacklogOK
      <4> QED BY <1>8, <2>1, <4>1, <4>2 DEF Connect
    <3> QED BY <3>1, <3>2
  <2>5. ASSUME NEW i \in 1 .. Len(backlog'), NEW j \in 1 .. Len(backlog'), i # j
        PROVE  backlog'[i] # backlog'[j]
    <3>1. CASE i = Len(backlog')
      <4>1. j \in 1 .. Len(backlog) BY <2>1, <2>2, <2>5, <3>1
      <4> QED BY <2>1, <2>3, <3>1, <4>1
    <3>2. CASE j = Len(backlog')
      <4>1. i \in 1 .. Len(backlog) BY <2>1, <2>2, <2>5, <3>2
      <4> QED BY <2>1, <2>3, <3>2, <4>1
    <3>3. CASE i # Len(backlog') /\ j # Len(backlog')
      <4>1. i \in 1 .. Len(backlog) /\ j \in 1 .. Len(backlog) BY <2>1, <2>2, <3>3
      <4> QED BY <2>1, <2>5, <4>1 DEF BacklogOK
    <3> QED BY <3>1, <3>2, <3>3
  <2>6. backlog' # <<>> BY <1>8 DEF Connect, TypeOK
  <2> QED BY <2>4, <2>5, <2>6 DEF BacklogOK
<1>9. ASSUME NEW c \in Clients, Send(c) \/ HangUp(c) PROVE BacklogOK'
  BY <1>9 DEF Send, HangUp, server, BacklogOK
<1>10. CASE UNCHANGED vars BY <1>10 DEF vars, server, net, BacklogOK
<1> QED BY <1>2, <1>3, <1>4, <1>5, <1>6, <1>7, <1>8, <1>9, <1>10, <1>11 DEF Next, Pass

-----------------------------------------------------------------------------
(* The parts of ConnectionsAccounted.                                      *)
Open == {c \in Clients : link[c] = "open"}

Accounted ==
  /\ Open = Active \cup InHand
  /\ Active \cap InHand = {}
  /\ \A i, j \in Slots : clients[i] = clients[j] /\ i # j => clients[i] = NoClient
  /\ \/ readfds \subseteq Active
     \/ pc \in {"idle", "build", "blocked", "cleanup", "exit", "exited"}

LEMMA AccountedIs == ConnectionsAccounted <=> Accounted
BY DEF ConnectionsAccounted, Accounted, Open

(* What is in hand is what lies between, wherever the thread is: a signal  *)
(* changes nothing of it.                                                  *)
LEMMA HandIs ==
  HandOK /\ ConnectionsAccounted => InHand = IF Between THEN {current} ELSE {}
<1> SUFFICES ASSUME HandOK, Accounted PROVE InHand = IF Between THEN {current} ELSE {}
  BY AccountedIs
<1>1. CASE pc \in {"accepted", "add", "refuse"}
  <2>1. InHand = {current} /\ current \in Clients BY <1>1 DEF InHand, HandOK
  <2>2. Between BY <2>1 DEF Accounted, Open, Between
  <2> QED BY <2>1, <2>2
<1>2. CASE pc \in {"blocked", "cleanup", "exit"} BY <1>2 DEF InHand
<1>3. CASE pc \notin {"accepted", "add", "refuse", "blocked", "cleanup", "exit"}
  <2>1. InHand = {} BY <1>3 DEF InHand
  <2>2. ~Between BY <2>1 DEF Accounted, Open, Between
  <2> QED BY <2>1, <2>2
<1> QED BY <1>1, <1>2, <1>3

(* Only accept, a refusal, the first slot filled, the cleanup and the end  *)
(* disturb which connections are open and where they are.                  *)
LEMMA AccountedStep == Inv /\ [Next]_vars => ConnectionsAccounted'
<1> SUFFICES ASSUME Inv, [Next]_vars PROVE Accounted'
  BY AccountedIs DEF ConnectionsAccounted, Accounted, Open
<1> USE DEF Inv
<1>00. Accounted BY AccountedIs
<1>1. CASE Accept
  <2>1. backlog # <<>> BY <1>1 DEF Accept, BacklogOK
  <2>2. Head(backlog) \in Clients /\ Head(backlog) = backlog[1] /\ 1 \in 1 .. Len(backlog)
    BY <2>1, HeadAndTail DEF TypeOK
  <2>3. link[Head(backlog)] = "queued" BY <2>2 DEF BacklogOK
  <2>4. current' = Head(backlog) /\ link' = [link EXCEPT ![Head(backlog)] = "open"]
        /\ clients' = clients /\ readfds' = readfds /\ pc = "accept" /\ pc' = "accepted"
    BY <1>1 DEF Accept
  <2>5. Open' = Open \cup {current'} BY <2>2, <2>4 DEF Open, TypeOK
  <2>6. current' \notin Open BY <2>3, <2>4 DEF Open
  <2>7. Active' = Active /\ InHand' = {current'} /\ InHand = {} BY <2>4 DEF Active, InHand
  <2> QED BY <1>00, <2>4, <2>5, <2>6, <2>7 DEF Accounted
<1>2. CASE AcceptFails
  <2>1. backlog # <<>> BY <1>2 DEF AcceptFails, BacklogOK
  <2>2. Head(backlog) \in Clients /\ Head(backlog) = backlog[1] /\ 1 \in 1 .. Len(backlog)
    BY <2>1, HeadAndTail DEF TypeOK
  <2>3. link[Head(backlog)] = "queued" BY <2>2 DEF BacklogOK
  <2>4. Open' = Open BY <1>2, <2>2, <2>3 DEF AcceptFails, Open, TypeOK
  <2>5. Active' = Active /\ InHand' = {} /\ InHand = {}
    BY <1>2 DEF AcceptFails, Active, InHand
  <2> QED BY <1>00, <1>2, <2>4, <2>5 DEF Accounted, AcceptFails
<1>3. CASE AddClient
  <2>1. PICK i \in Slots : clients[i] = NoClient /\ clients' = [clients EXCEPT ![i] = current]
    BY <1>3 DEF AddClient
  <2>2. pc = "add" /\ pc' = "greet" /\ link' = link /\ readfds' = readfds /\ current \in Clients
    BY <1>3 DEF AddClient, HandOK, net
  <2>3. Active' = Active \cup {current} BY <1>3, ClientAdded
  <2>4. InHand = {current} /\ InHand' = {} /\ Open' = Open BY <2>2 DEF InHand, Open
  <2>5. current \notin Active BY <1>00, <2>4 DEF Accounted
  <2>6. \A j \in Slots : clients[j] # current
    BY <2>2, <2>5, ConstantFacts DEF Active
  <2>7. ASSUME NEW j \in Slots, NEW k \in Slots, clients'[j] = clients'[k], j # k
        PROVE  clients'[j] = NoClient
    BY <1>00, <2>1, <2>6, <2>7 DEF Accounted, TypeOK
  <2> QED BY <1>00, <2>2, <2>3, <2>4, <2>7 DEF Accounted
<1>4. CASE SetNonblockingFails \/ CloseRefused
  <2>1. /\ pc \in {"accepted", "refuse"} /\ pc' \in {"idle", "lock_scan"}
        /\ link' = [link EXCEPT ![current] = "closed"]
        /\ clients' = clients /\ readfds' = readfds
    BY <1>4 DEF SetNonblockingFails, CloseRefused, CloseCurrent
  <2>2. Open' = Open \ {current} BY <2>1 DEF Open, TypeOK
  <2>3. InHand = {current} /\ InHand' = {} /\ Active' = Active BY <2>1 DEF InHand, Active
  <2> QED BY <1>00, <2>1, <2>2, <2>3 DEF Accounted
<1>5. CASE Cleanup
  <2>1. \A i \in Slots : clients'[i] = NoClient BY <1>5 DEF Cleanup
  <2>2. Active' = {} BY <2>1 DEF Active
  <2>3. /\ pc = "cleanup" /\ pc' = "exit" /\ current' = current
        /\ link' = [c \in Clients |->
                      IF c \in Active \/ link[c] = "queued" THEN "closed" ELSE link[c]]
    BY <1>5 DEF Cleanup
  <2>4. Open' = Open \ Active BY <2>3 DEF Open
  <2>5. Between' <=> Between BY <2>2, <2>3 DEF Between
  <2>6. InHand' = InHand BY <2>3, <2>5 DEF InHand
  <2>7. Open' = InHand' BY <1>00, <2>4, <2>6 DEF Accounted
  <2> QED BY <2>1, <2>2, <2>3, <2>7 DEF Accounted
<1>19. CASE Exit
  <2>1. pc = "exit" /\ pc' = "exited" /\ clients' = clients BY <1>19 DEF Exit
  <2>2. Active = {} /\ Active' = {} BY <2>1 DEF Emptied, Active
  <2>3. Open' = {} BY <1>19 DEF Exit, Open
  <2>4. InHand' = {} BY <2>1 DEF InHand
  <2> QED BY <1>00, <2>1, <2>2, <2>3, <2>4 DEF Accounted
<1>6. ASSUME clients' = clients, link' = link, InHand' = InHand,
             readfds' \subseteq Active
               \/ pc' \in {"idle", "build", "blocked", "cleanup", "exit", "exited"}
      PROVE  Accounted'
  <2>1. Open' = Open /\ Active' = Active BY <1>6 DEF Open, Active
  <2> QED BY <1>00, <1>6, <2>1 DEF Accounted
<1>7. CASE Signal
  <2>1. /\ pc' \in {"blocked", "cleanup"}
        /\ UNCHANGED <<clients, link, current>>
    BY <1>7 DEF Signal, net
  <2>2. Between' <=> Between BY <2>1 DEF Between, Active
  <2>3. InHand' = IF Between THEN {current} ELSE {} BY <2>1, <2>2 DEF InHand
  <2>4. InHand' = InHand BY <2>3, HandIs
  <2> QED BY <1>6, <2>1, <2>4
<1>20. CASE LockToAdd \/ RefuseClient
  <2>1. /\ pc \in {"accepted", "add"} /\ pc' \in {"add", "refuse"}
        /\ UNCHANGED <<clients, link, current, readfds>>
    BY <1>20 DEF LockToAdd, RefuseClient, Lock, net
  <2>2. InHand' = InHand BY <2>1 DEF InHand
  <2>3. readfds' \subseteq Active BY <1>00, <2>1 DEF Accounted
  <2> QED BY <1>6, <2>1, <2>2, <2>3
<1>21. ASSUME pc \in {"idle", "build", "select", "accept", "greet", "lock_scan", "scan"},
              pc' \in {"idle", "build", "select", "accept", "greet", "lock_scan", "scan", "remove"}
       PROVE  InHand' = InHand
  BY <1>21 DEF InHand
<1>8. CASE BeginPass BY <1>6, <1>8, <1>21 DEF BeginPass, Lock, net
<1>9. CASE BuildReadfds BY <1>6, <1>9, <1>21 DEF BuildReadfds, net
<1>10. CASE Select
  <2>1. readfds' \subseteq Active BY <1>00, <1>10 DEF Select, Accounted
  <2> QED BY <1>6, <1>10, <1>21, <2>1 DEF Select, net
<1>11. CASE OnConnect BY <1>00, <1>6, <1>11, <1>21 DEF OnConnect, Accounted
<1>12. CASE BeginScan BY <1>00, <1>6, <1>12, <1>21 DEF BeginScan, Lock, net, Accounted
<1>13. CASE SkipSlot BY <1>00, <1>6, <1>13, <1>21 DEF SkipSlot, net, Accounted
<1>14. CASE OnReceive BY <1>00, <1>6, <1>14, <1>21 DEF OnReceive, Accounted
<1>15. CASE OnDisconnect BY <1>00, <1>6, <1>15, <1>21 DEF OnDisconnect, net, Accounted
<1>16. CASE EndPass BY <1>6, <1>16, <1>21 DEF EndPass, net
<1>17. ASSUME NEW c \in Clients, Connect(c) PROVE Accounted'
  <2>0. /\ link[c] = "none" /\ link' = [link EXCEPT ![c] = "queued"]
        /\ UNCHANGED <<pc, clients, current, readfds>>
    BY <1>17 DEF Connect, server
  <2>1. Open' = Open /\ Active' = Active BY <2>0 DEF Open, TypeOK, Active
  <2>2. Between' <=> Between BY <2>0, <2>1 DEF Between, TypeOK
  <2>3. InHand' = InHand BY <2>0, <2>2 DEF InHand
  <2> QED BY <1>00, <2>0, <2>1, <2>3 DEF Accounted
<1>18. CASE (\E c \in Clients : Send(c) \/ HangUp(c)) \/ UNCHANGED vars
  <2>1. UNCHANGED <<pc, clients, readfds, current, link>>
    BY <1>18 DEF Send, HangUp, vars, server, net
  <2>2. Open' = Open /\ Active' = Active /\ InHand' = InHand
    BY <2>1 DEF Open, Active, InHand, Between
  <2> QED BY <1>00, <2>1, <2>2 DEF Accounted
<1> QED
  BY <1>1, <1>2, <1>3, <1>4, <1>5, <1>7, <1>8, <1>9, <1>10, <1>11, <1>12, <1>13, <1>14, <1>15,
     <1>16, <1>17, <1>18, <1>19, <1>20 DEF Next, Pass

(* net_add_client is followed by on_connect, or by a signal after which no *)
(* callback comes.                                                         *)
LEMMA GreetedStep == Inv /\ [Next]_vars => Greeted'
<1> SUFFICES ASSUME Inv, [Next]_vars PROVE Greeted' OBVIOUS
<1> USE DEF Inv
<1>1. CASE AddClient
  <2>1. pc = "add" /\ pc' = "greet" /\ greeted' = greeted /\ current' = current
    BY <1>1 DEF AddClient, net
  <2>2. Active' = Active \cup {current} BY <1>1, ClientAdded
  <2> QED BY <2>1, <2>2 DEF Greeted
<1>2. CASE OnConnect BY <1>2 DEF OnConnect, Greeted, Active
<1>3. CASE Cleanup \/ Exit \/ Signal BY <1>3 DEF Cleanup, Exit, Signal, Greeted
<1>4. ASSUME clients' = clients, greeted' = greeted,
             pc \notin {"greet", "blocked", "cleanup", "exit", "exited"},
             pc' \notin {"greet", "blocked", "cleanup", "exit", "exited"}
      PROVE  Greeted'
  BY <1>4 DEF Greeted, Active
<1>5. CASE \/ BeginPass \/ BuildReadfds \/ Select \/ Accept \/ AcceptFails
           \/ SetNonblockingFails \/ LockToAdd \/ RefuseClient \/ CloseRefused
           \/ BeginScan \/ SkipSlot \/ OnReceive \/ OnDisconnect \/ EndPass
  BY <1>4, <1>5 DEF BeginPass, BuildReadfds, Select, Accept, AcceptFails, SetNonblockingFails,
     LockToAdd, RefuseClient, CloseRefused, CloseCurrent, BeginScan, SkipSlot, OnReceive,
     OnDisconnect, EndPass, Lock, net
<1>6. CASE (\E c \in Clients : Connect(c) \/ Send(c) \/ HangUp(c)) \/ UNCHANGED vars
  <2>1. UNCHANGED <<pc, clients, current, greeted>>
    BY <1>6 DEF Connect, Send, HangUp, vars, server, net
  <2> QED BY <2>1 DEF Greeted, Active
<1> QED BY <1>1, <1>2, <1>3, <1>5, <1>6 DEF Next, Pass

LEMMA Invariant == Spec => []Inv
<1>1. Inv /\ [Next]_vars => Inv'
  BY TypeStep, HandStep, EmptiedStep, BacklogStep, AccountedStep, GreetedStep DEF Inv
<1> QED BY InitInv, <1>1, PTL DEF Spec

-----------------------------------------------------------------------------
(* Every variable keeps its type, and no client is read past what it sent  *)
(* (net_run).                                                              *)
THEOREM Typing == Spec => []TypeOK
<1>1. Inv => TypeOK BY DEF Inv
<1> QED BY <1>1, Invariant, PTL

(* With any number of clients and slots, and a signal wherever net_run is, *)
(* between accept and the slot too, no connection leaks, is in two slots   *)
(* or is used after it was closed; the one in hand when a signal strikes   *)
(* is closed by the end of the process only (net_run, net_add_client,      *)
(* net_cleanup_program).                                                   *)
THEOREM NoConnectionLeaks == Spec => []ConnectionsAccounted
<1>1. Inv => ConnectionsAccounted BY DEF Inv
<1> QED BY <1>1, Invariant, PTL

(* A connection's data and its end are reported only after on_connect.     *)
CallbacksInOrder ==
  [][OnReceive \/ OnDisconnect => clients[at] \in greeted]_vars

(* on_receive and on_disconnect come only after on_connect for the same    *)
(* connection (net_run).                                                   *)
THEOREM CallbacksComeInOrder == Spec => CallbacksInOrder
<1>1. ASSUME Inv, OnReceive \/ OnDisconnect PROVE clients[at] \in greeted
  <2>0. pc = "scan" /\ at < MaxClients /\ clients[at] \in readfds
    BY <1>1 DEF OnReceive, OnDisconnect
  <2>1. pc = "scan" /\ at \in Slots /\ clients[at] \in readfds
    BY <1>1, <2>0, ConstantFacts DEF Inv, TypeOK, Slots
  <2>2. clients[at] # NoClient BY <1>1, <2>1, ConstantFacts DEF Inv, TypeOK
  <2>3. clients[at] \in Active BY <2>1, <2>2 DEF Active
  <2> QED BY <1>1, <2>1, <2>3 DEF Inv, Greeted
<1>2. Inv /\ [Next]_vars => [OnReceive \/ OnDisconnect => clients[at] \in greeted]_vars
  BY <1>1
<1> QED BY <1>2, Invariant, PTL DEF Spec, CallbacksInOrder

-----------------------------------------------------------------------------
(* From here on: a network program implements ConnectionService.           *)

(* on_connect has been called only for connections that were taken in, and *)
(* not yet for the one it is about to be called for.                       *)
GreetedOnce ==
  /\ \A c \in greeted : Stage[c] \in {"open", "closed"}
  /\ pc = "greet" => current \in Active \ greeted

(* What is seen from outside, in terms of the variables.                   *)
Outside ==
  /\ pc \in {"accepted", "add", "refuse"} => Between
  /\ pc \notin {"accepted", "add", "refuse", "blocked", "cleanup", "exit"} => ~Between
  /\ Between /\ Up => Queue = <<current>> \o backlog /\ Stage = [link EXCEPT ![current] = "queued"]
  /\ ~Between => Queue = backlog /\ Stage = link
  /\ Service!Served = Active

LEMMA OutsideIs == Inv => Outside
<1> SUFFICES ASSUME Inv PROVE Outside OBVIOUS
<1>1. Accounted /\ InHand = IF Between THEN {current} ELSE {}
  BY AccountedIs, HandIs DEF Inv
<1>2. link \in [Clients -> {"none", "queued", "open", "closed"}] /\ backlog \in Seq(Clients)
  BY DEF Inv, TypeOK
<1>3. Active \subseteq Clients BY ConstantFacts DEF Inv, TypeOK, Active
<1>4. \A c \in Clients : link[c] = "open" /\ c \notin Active <=> Between /\ c = current
  BY <1>1 DEF Accounted, Open, Between
<1>5. ASSUME Between, Up
      PROVE  Queue = <<current>> \o backlog /\ Stage = [link EXCEPT ![current] = "queued"]
  <2>1. Queue = <<current>> \o backlog BY <1>5 DEF Queue
  <2>2. Stage = [link EXCEPT ![current] = "queued"] BY <1>2, <1>4, <1>5 DEF Stage
  <2> QED BY <2>1, <2>2
<1>6. ASSUME ~Between PROVE Queue = backlog /\ Stage = link
  <2>1. Queue = backlog BY <1>2, <1>6 DEF Queue
  <2>2. Stage = link BY <1>2, <1>4, <1>6 DEF Stage
  <2> QED BY <2>1, <2>2
<1>7. \A c \in Clients : c \in Active => link[c] = "open"
  BY <1>1 DEF Accounted, Open
<1>8. \A c \in Clients : Stage[c] = "open" <=> c \in Active BY <1>7 DEF Stage
<1>9. Service!Served = Active BY <1>3, <1>8 DEF Service!Served
<1>10. pc \in {"accepted", "add", "refuse"} => Between
  <2> SUFFICES ASSUME pc \in {"accepted", "add", "refuse"} PROVE Between OBVIOUS
  <2>1. InHand = {current} BY DEF InHand
  <2> QED BY <1>1, <2>1
<1>11. pc \notin {"accepted", "add", "refuse", "blocked", "cleanup", "exit"} => ~Between
  <2> SUFFICES ASSUME pc \notin {"accepted", "add", "refuse", "blocked", "cleanup", "exit"}
               PROVE  ~Between
    OBVIOUS
  <2>1. InHand = {} BY DEF InHand
  <2> QED BY <1>1, <2>1
<1> QED BY <1>5, <1>6, <1>9, <1>10, <1>11 DEF Outside

(* Where links, slots and backlog stay, nothing is seen from outside.      *)
LEMMA OutsideKept ==
  ASSUME UNCHANGED <<link, clients, current, backlog>>
  PROVE  Active' = Active /\ (Up' = Up => Stage' = Stage /\ Queue' = Queue)
<1>1. Active' = Active BY DEF Active
<1>2. Between' = Between BY <1>1 DEF Between
<1> QED BY <1>1, <1>2 DEF Stage, Queue

(* A table with a free slot serves fewer than MaxClients.                  *)
LEMMA RoomLeft ==
  ASSUME TypeOK, NEW i \in Slots, clients[i] = NoClient
  PROVE  Cardinality(Active) < MaxClients
<1> DEFINE S == {j \in Slots : clients[j] # NoClient}
           f == [j \in S |-> clients[j]]
<1>1. IsFiniteSet(Slots) /\ Cardinality(Slots) = MaxClients
  <2>1. 0 \in Int /\ MaxClients - 1 \in Int /\ ~(0 > MaxClients - 1) BY ConstantFacts
  <2>2. IsFiniteSet(0 .. MaxClients - 1) /\ Cardinality(0 .. MaxClients - 1) = (MaxClients - 1) - 0 + 1
    BY <2>1, FS_Interval
  <2> QED BY <2>2, ConstantFacts DEF Slots
<1>2. IsFiniteSet(Slots \ {i}) /\ Cardinality(Slots \ {i}) = MaxClients - 1
  BY <1>1, FS_RemoveElement
<1>3. S \in SUBSET (Slots \ {i}) OBVIOUS
<1>4. IsFiniteSet(S) /\ Cardinality(S) <= MaxClients - 1
  BY <1>2, <1>3, FS_Subset
<1>5. f \in Surjection(S, Active) BY DEF Surjection, Active
<1>6. Cardinality(Active) <= Cardinality(S) /\ IsFiniteSet(Active)
  BY <1>4, <1>5, FS_Surjection
<1>7. Cardinality(Active) \in Nat /\ Cardinality(S) \in Nat
  BY <1>4, <1>6, FS_CardinalityType
<1> QED BY <1>4, <1>6, <1>7, ConstantFacts

LEMMA GreetedOnceInit == Init => GreetedOnce
BY DEF Init, GreetedOnce

(* Every step of a network program is a step that clients or handlers see, *)
(* or one that neither sees.                                               *)
LEMMA ServiceStep ==
  ASSUME Inv, GreetedOnce, Outside, Outside', [Next]_vars
  PROVE  [Service!Next]_(Service!vars) /\ GreetedOnce'
<1>1. ASSUME UNCHANGED <<link, clients, current, backlog, greeted, sent, read>>,
             Up' = Up, pc' = "greet" => pc = "greet"
      PROVE  Service!vars' = Service!vars /\ GreetedOnce'
  <2>1. Stage' = Stage /\ Queue' = Queue /\ Active' = Active BY <1>1, OutsideKept
  <2> QED BY <1>1, <2>1 DEF Service!vars, GreetedOnce
<1>2. CASE \/ BeginPass \/ BuildReadfds \/ Select \/ LockToAdd \/ RefuseClient \/ BeginScan
           \/ SkipSlot \/ OnDisconnect \/ EndPass \/ Signal
           \/ (\E c \in Clients : HangUp(c)) \/ UNCHANGED vars
  <2>1. /\ UNCHANGED <<link, clients, current, backlog, greeted, sent, read>>
        /\ Up' = Up
        /\ pc' = "greet" => pc = "greet"
    BY <1>2 DEF BeginPass, BuildReadfds, Select, LockToAdd, RefuseClient, BeginScan, SkipSlot,
       OnDisconnect, EndPass, Signal, HangUp, Lock, net, server, vars, Up
  <2> QED BY <1>1, <2>1
<1>3. link \in [Clients -> {"none", "queued", "open", "closed"}] /\ backlog \in Seq(Clients)
  BY DEF Inv, TypeOK
<1>4. CASE Accept
  <2>1. /\ pc = "accept" /\ pc' = "accepted"
        /\ current' = Head(backlog) /\ backlog' = Tail(backlog)
        /\ link' = [link EXCEPT ![Head(backlog)] = "open"]
        /\ UNCHANGED <<clients, greeted, sent, read>>
    BY <1>4 DEF Accept
  <2>2. backlog # <<>> BY <2>1 DEF Inv, BacklogOK
  <2>3. Head(backlog) \in Clients /\ link[Head(backlog)] = "queued"
    BY <2>2, <1>3, HeadAndTail DEF Inv, BacklogOK
  <2>4. Stage = link /\ Queue = backlog BY <2>1 DEF Outside
  <2>5. Up' /\ Up' = Up BY <2>1 DEF Up
  <2>6. /\ Stage' = [link' EXCEPT ![current'] = "queued"]
        /\ Queue' = <<current'>> \o backlog'
    BY <2>1, <2>5 DEF Outside
  <2>7. Stage' = Stage BY <1>3, <2>1, <2>3, <2>4, <2>6
  <2>8. Queue' = Queue BY <1>3, <2>1, <2>2, <2>4, <2>6
  <2>9. Service!vars' = Service!vars BY <2>1, <2>5, <2>7, <2>8 DEF Service!vars
  <2>10. GreetedOnce' BY <2>1, <2>7 DEF GreetedOnce
  <2> QED BY <2>9, <2>10
<1>5. CASE AcceptFails
  <2>1. /\ pc = "accept" /\ pc' = "lock_scan" /\ backlog' = Tail(backlog)
        /\ link' = [link EXCEPT ![Head(backlog)] = "closed"]
        /\ UNCHANGED <<clients, greeted, sent, read>>
    BY <1>5 DEF AcceptFails
  <2>2. backlog # <<>> BY <2>1 DEF Inv, BacklogOK
  <2>3. Stage = link /\ Queue = backlog /\ Stage' = link' /\ Queue' = backlog'
    BY <2>1 DEF Outside
  <2>4. Up /\ Up' = Up BY <2>1 DEF Up
  <2>5. Service!TurnAway
    BY <2>1, <2>2, <2>3, <2>4 DEF Service!TurnAway, Service!Answer
  <2>6. \A c \in greeted : Stage'[c] \in {"open", "closed"}
    BY <1>3, <2>1, <2>3 DEF GreetedOnce, Inv, TypeOK
  <2> QED BY <2>1, <2>5, <2>6 DEF Service!Next, GreetedOnce
<1>6. CASE AddClient
  <2>1. PICK i \in Slots : clients[i] = NoClient /\ clients' = [clients EXCEPT ![i] = current]
    BY <1>6 DEF AddClient
  <2>2. /\ pc = "add" /\ pc' = "greet"
        /\ UNCHANGED <<current, link, backlog, greeted, sent, read>>
    BY <1>6 DEF AddClient, net
  <2>3. Active' = Active \cup {current} /\ current \in Clients
    BY <1>6, ClientAdded DEF Inv
  <2>4. /\ Stage = [link EXCEPT ![current] = "queued"] /\ Stage' = link
        /\ Queue = <<current>> \o backlog /\ Queue' = backlog /\ Service!Served = Active
        /\ Up /\ Up' = Up
    BY <2>2 DEF Outside, Up
  <2>5. link[current] = "open"
    BY <2>2, AccountedIs DEF Inv, Accounted, Open, InHand
  <2>6. Stage' = [Stage EXCEPT ![current] = "open"] BY <1>3, <2>3, <2>4, <2>5
  <2>7. Queue # <<>> /\ Head(Queue) = current /\ Queue' = Tail(Queue)
    BY <1>3, <2>3, <2>4
  <2>8. Cardinality(Active) < MaxClients BY <2>1, RoomLeft DEF Inv
  <2>9. Active \subseteq greeted BY <2>2 DEF Inv, Greeted
  <2>10. Service!Answer("open") BY <2>2, <2>4, <2>6, <2>7 DEF Service!Answer
  <2>11. Service!TakeIn
    <3>1. Service!Cardinality(Active) = Cardinality(Active)
      BY DEF Service!Cardinality, Cardinality
    <3> QED BY <2>4, <2>8, <2>9, <2>10, <3>1 DEF Service!TakeIn
  <2>12. current \notin greeted BY <1>3, <2>3, <2>4 DEF GreetedOnce
  <2>13. \A c \in greeted : Stage'[c] \in {"open", "closed"}
    BY <1>3, <2>4, <2>12 DEF GreetedOnce, Inv, TypeOK
  <2>14. GreetedOnce' BY <2>2, <2>3, <2>12, <2>13 DEF GreetedOnce
  <2> QED BY <2>11, <2>14 DEF Service!Next
<1>7. CASE SetNonblockingFails \/ CloseRefused
  <2>1. /\ pc \in {"accepted", "refuse"} /\ pc' \in {"idle", "lock_scan"}
        /\ link' = [link EXCEPT ![current] = "closed"]
        /\ UNCHANGED <<current, clients, backlog, greeted, sent, read>>
    BY <1>7 DEF SetNonblockingFails, CloseRefused, CloseCurrent
  <2>2. current \in Clients BY <2>1 DEF Inv, HandOK
  <2>3. Up /\ Up' = Up BY <2>1 DEF Up
  <2>4. /\ Stage = [link EXCEPT ![current] = "queued"] /\ Stage' = link'
        /\ Queue = <<current>> \o backlog /\ Queue' = backlog
    BY <2>1, <2>3 DEF Outside
  <2>5. Stage' = [Stage EXCEPT ![current] = "closed"] BY <1>3, <2>1, <2>2, <2>4
  <2>6. Queue # <<>> /\ Head(Queue) = current /\ Queue' = Tail(Queue)
    BY <1>3, <2>2, <2>4
  <2>7. Service!TurnAway BY <2>1, <2>3, <2>5, <2>6 DEF Service!TurnAway, Service!Answer
  <2>8. \A c \in greeted : Stage'[c] \in {"open", "closed"}
    BY <1>3, <2>1, <2>2, <2>4, <2>5 DEF GreetedOnce, Inv, TypeOK
  <2> QED BY <2>1, <2>7, <2>8 DEF Service!Next, GreetedOnce
<1>8. CASE OnConnect
  <2>1. /\ pc = "greet" /\ pc' = "lock_scan" /\ greeted' = greeted \cup {current}
        /\ UNCHANGED <<link, clients, current, backlog, sent, read>>
    BY <1>8 DEF OnConnect
  <2>2. Up /\ Up' = Up /\ Stage' = Stage /\ Queue' = Queue BY <2>1, OutsideKept DEF Up
  <2>3. current \in Clients /\ current \in Active \ greeted /\ Service!Served = Active
    BY <2>1 DEF Inv, HandOK, GreetedOnce, Outside
  <2>4. Service!Greet(current) BY <2>1, <2>2, <2>3 DEF Service!Greet
  <2>5. Stage[current] = "open" BY <2>3 DEF Service!Served
  <2> QED BY <2>1, <2>2, <2>3, <2>4, <2>5 DEF Service!Next, GreetedOnce
<1>9. CASE OnReceive
  <2>1. /\ pc = "scan" /\ pc' = pc /\ clients[at] \in readfds
        /\ \E n \in read[clients[at]] + 1 .. sent[clients[at]] :
             read' = [read EXCEPT ![clients[at]] = n]
        /\ UNCHANGED <<link, clients, current, backlog, greeted, sent>>
    BY <1>9 DEF OnReceive
  <2>2. Up /\ Up' = Up /\ Stage' = Stage /\ Queue' = Queue /\ Active' = Active
    BY <2>1, OutsideKept DEF Up
  <2>3. clients[at] \in Active
    BY <2>1, AccountedIs DEF Inv, Accounted
  <2>4. clients[at] \in Clients BY <2>1 DEF Inv, TypeOK
  <2>5. clients[at] \in greeted /\ Service!Served = Active
    BY <2>1, <2>3 DEF Inv, Greeted, Outside
  <2>6. Service!Receive(clients[at]) BY <2>1, <2>2, <2>3, <2>5 DEF Service!Receive
  <2> QED BY <2>1, <2>2, <2>4, <2>6 DEF Service!Next, GreetedOnce
<1>10. CASE Cleanup
  <2>1. /\ pc = "cleanup" /\ pc' = "exit" /\ backlog' = <<>>
        /\ link' = [c \in Clients |->
                      IF c \in Active \/ link[c] = "queued" THEN "closed" ELSE link[c]]
        /\ \A i \in Slots : clients'[i] = NoClient
        /\ UNCHANGED <<greeted, sent, read>>
    BY <1>10 DEF Cleanup
  <2>2. Active' = {} BY <2>1 DEF Active
  <2>3. Up /\ ~Up' BY <2>1 DEF Up
  <2>4. Queue' = <<>> BY <2>1, <2>3 DEF Queue
  <2>5. \A c \in Clients : link[c] \in {"none", "queued", "open", "closed"} BY <1>3
  <2>6. \A c \in Clients : c \in Active => link[c] = "open"
    BY AccountedIs DEF Inv, Accounted, Open
  <2>7. ASSUME NEW c \in Clients
        PROVE  Stage'[c] = IF Stage[c] = "none" THEN "none" ELSE "closed"
    <3>1. Stage'[c] = IF link'[c] = "open" THEN "closed" ELSE link'[c]
      BY <2>2, <2>3 DEF Stage
    <3>2. Stage[c] = "none" <=> link[c] = "none" BY <2>3 DEF Stage
    <3> QED BY <2>1, <2>5, <2>6, <3>1, <3>2
  <2>8. Stage' = [c \in Clients |-> IF Stage[c] = "none" THEN "none" ELSE "closed"]
    BY <2>7 DEF Stage
  <2>9. Service!Stop BY <2>1, <2>3, <2>4, <2>8 DEF Service!Stop
  <2>10. \A c \in greeted : Stage'[c] \in {"open", "closed"}
    BY <2>8 DEF GreetedOnce, Inv, TypeOK
  <2> QED BY <2>1, <2>9, <2>10 DEF Service!Next, GreetedOnce
<1>13. CASE Exit
  <2>1. /\ pc = "exit" /\ pc' = "exited" /\ UNCHANGED <<clients, backlog, greeted, sent, read>>
        /\ link' = [c \in Clients |-> IF link[c] = "open" THEN "closed" ELSE link[c]]
    BY <1>13 DEF Exit
  <2>2. ~Up /\ ~Up' /\ Up' = Up BY <2>1 DEF Up
  <2>3. Active = {} /\ Active' = {} BY <2>1 DEF Inv, Emptied, Active
  <2>4. \A c \in Clients : Stage'[c] = Stage[c] BY <2>1, <2>2, <2>3 DEF Stage
  <2>5. Stage' = Stage BY <2>4 DEF Stage
  <2>6. Queue' = Queue BY <2>1, <2>2 DEF Queue
  <2>7. Service!vars' = Service!vars BY <2>1, <2>2, <2>5, <2>6 DEF Service!vars
  <2>8. GreetedOnce' BY <2>1, <2>5 DEF GreetedOnce
  <2> QED BY <2>7, <2>8
<1>11. ASSUME NEW c \in Clients, Connect(c)
       PROVE  [Service!Next]_(Service!vars) /\ GreetedOnce'
  <2>1. /\ link[c] = "none" /\ Up /\ pc' = pc
        /\ link' = [link EXCEPT ![c] = "queued"] /\ backlog' = Append(backlog, c)
        /\ UNCHANGED <<clients, current, greeted, sent, read>>
    BY <1>11 DEF Connect, server
  <2>2. Active' = Active /\ Up' = Up BY <2>1 DEF Active, Up
  <2>3. Between' = Between BY <1>3, <2>1, <2>2 DEF Between
  <2>4. Stage[c] = "none" /\ Stage' = [Stage EXCEPT ![c] = "queued"]
    BY <1>3, <2>1, <2>2 DEF Stage
  <2>5. Queue' = Append(Queue, c)
    <3>1. CASE Between
      <4>1. current \in Clients BY <3>1 DEF Between
      <4>2. <<current>> \o Append(backlog, c) = Append(<<current>> \o backlog, c)
        BY <1>3, <4>1
      <4> QED BY <2>1, <2>2, <2>3, <3>1, <4>2 DEF Queue
    <3>2. CASE ~Between
      <4>1. Queue = backlog /\ Queue' = Append(backlog, c)
        BY <1>3, <2>1, <2>3, <3>2 DEF Queue
      <4> QED BY <4>1
    <3> QED BY <3>1, <3>2
  <2>6. Service!Connect(c) BY <2>1, <2>2, <2>4, <2>5 DEF Service!Connect
  <2>7. \A d \in greeted : Stage'[d] \in {"open", "closed"}
    BY <2>4 DEF GreetedOnce, Inv, TypeOK
  <2> QED BY <2>1, <2>2, <2>6, <2>7 DEF Service!Next, GreetedOnce
<1>12. ASSUME NEW c \in Clients, Send(c)
       PROVE  [Service!Next]_(Service!vars) /\ GreetedOnce'
  <2>1. /\ link[c] \in {"queued", "open"} /\ pc' = pc
        /\ sent' = [sent EXCEPT ![c] = @ + 1]
        /\ UNCHANGED <<link, clients, current, backlog, greeted, read>>
    BY <1>12 DEF Send, server
  <2>2. Up' = Up /\ Stage' = Stage /\ Queue' = Queue /\ Active' = Active
    BY <2>1, OutsideKept DEF Up
  <2>3. Stage[c] # "none" BY <2>1 DEF Stage
  <2>4. Service!Send(c) BY <2>1, <2>2, <2>3 DEF Service!Send
  <2> QED BY <2>1, <2>2, <2>4 DEF Service!Next, GreetedOnce
<1> QED
  BY <1>2, <1>4, <1>5, <1>6, <1>7, <1>8, <1>9, <1>10, <1>11, <1>12, <1>13 DEF Next, Pass

(* A network program is a connection service to its clients and to the     *)
(* handlers of its application, for any number of clients, slots and       *)
(* messages: net_run's passes, its descriptor sets and its mutex, and a    *)
(* signal wherever net_run is, between accept and the slot too, change     *)
(* nothing of it.                                                          *)
THEOREM IsConnectionService == Spec => ServiceSpec
<1>1. Init => Service!Init
  <2> SUFFICES ASSUME Init PROVE Service!Init OBVIOUS
  <2>1. ~Between /\ Up /\ Stage = [c \in Clients |-> "none"] BY DEF Init, Between, Up, Stage
  <2>2. Queue = <<>> BY <2>1 DEF Init, Queue
  <2> QED BY <2>1, <2>2 DEF Init, Service!Init
<1>2. Inv => Outside BY OutsideIs
<1>3. Inv /\ GreetedOnce /\ Outside /\ Outside' /\ [Next]_vars
        => [Service!Next]_(Service!vars) /\ GreetedOnce'
  BY ServiceStep
<1> QED BY Invariant, GreetedOnceInit, <1>1, <1>2, <1>3, PTL DEF Spec, ServiceSpec, Service!Spec
=============================================================================
