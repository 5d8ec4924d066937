-------------------------- MODULE NetworkEndpoint --------------------------
(***************************************************************************)
(* The client side of NetworkEndpoint.js over its ProtocolHandler: data    *)
(* sent while there is no connection waits in pendingData and opens one; a *)
(* lost connection is tried again maxRetries times.                        *)
(*                                                                         *)
(* connect() always makes a new socket and forgets the old one, whose      *)
(* events keep arriving: several sockets may be on their way or open, and  *)
(* any of them sets connected.  An error is reported twice, as 'error' and *)
(* as 'close'.  Peer and network refuse, accept and break connections at   *)
(* will.  The application sends, connects, disconnects and resets at any   *)
(* time, from the 'connected' event too; it listens to 'error' and keeps   *)
(* its process up when a promise nobody holds is rejected.                 *)
(***************************************************************************)
EXTENDS ProtocolHandler

CONSTANTS
  MaxSockets,   \* bound: sockets that are not closed yet
  MaxEvents,    \* bound: connections broken and calls of connect, disconnect, reset
  MaxRetries,   \* options.maxRetries
  NoSocket      \* null

Sockets == 1 .. MaxSockets

ASSUME EndpointConstantsOK ==
  /\ MaxSockets \in Nat /\ MaxEvents \in Nat
  /\ MaxRetries \in Nat /\ NoSocket \notin Sockets

VARIABLES
  sockets,       \* the state of every socket
  ending,        \* the sockets whose end() has a callback to come
  socket,        \* this.socket
  connected,     \* this.connected
  reconnect,     \* options.reconnect
  retryCount,    \* this.retryCount
  retries,       \* the retry timers that run
  events,        \* history: connections broken and calls made
  pendingData,   \* the messages that wait for a connection
  queued,        \* history: the messages that waited
  written        \* history: the messages given to a socket

connection == <<sockets, ending, socket, connected, reconnect, retryCount, retries, events>>
endpoint == <<connection, pendingData, queued, written>>
vars == <<protocol, endpoint>>

-----------------------------------------------------------------------------
Init ==
  /\ ProtocolInit
  /\ sockets = [s \in Sockets |-> "closed"] /\ ending = {} /\ socket = NoSocket
  /\ connected = FALSE /\ reconnect \in BOOLEAN
  /\ retryCount = 0 /\ retries = 0 /\ events = 0
  /\ pendingData = <<>> /\ queued = {} /\ written = <<>>

(* A closed socket is heard of no more, and its number used again.         *)
Free(s) == sockets[s] = "closed" /\ s \notin ending

NewSocket ==
  \E s \in Sockets :
    /\ Free(s) /\ \A r \in 1 .. s - 1 : ~Free(r)
    /\ sockets' = [sockets EXCEPT ![s] = "connecting"]
    /\ socket' = s

(* What is written when there is no socket is lost: write throws.          *)
Wrote(w, data) == IF socket = NoSocket THEN w ELSE w \o data

WriteNow(m) ==
  /\ connected
  /\ written' = Wrote(written, <<m>>)
  /\ UNCHANGED <<connection, pendingData, queued>>

WaitForConnection(m) ==
  /\ ~connected /\ reconnect
  /\ pendingData' = Append(pendingData, m) /\ queued' = queued \cup {m}
  /\ NewSocket
  /\ UNCHANGED <<ending, connected, reconnect, retryCount, retries, events, written>>

RejectSend == ~connected /\ ~reconnect /\ UNCHANGED endpoint

Send ==
  /\ SendMessage
  /\ \/ WriteNow(Len(messages) + 1)
     \/ WaitForConnection(Len(messages) + 1)
     \/ RejectSend

(* Mutant: the data that waited is taken from the wrong end.               *)
FlushedBackwards(w) ==
  Wrote(w, [i \in 1 .. Len(pendingData) |-> pendingData[Len(pendingData) + 1 - i]])

(* The data that waited is written first come first served.                *)
Flushed(w) == Wrote(w, pendingData)

(* A listener of 'connected' that sends is ahead of what waited.           *)
Opened(s) ==
  /\ sockets[s] = "connecting"
  /\ sockets' = [sockets EXCEPT ![s] = "open"]
  /\ connected' = TRUE /\ retryCount' = 0
  /\ pendingData' = <<>>
  /\ \/ written' = Flushed(written) /\ UNCHANGED protocol
     \/ /\ SendMessage
        /\ written' = Flushed(Wrote(written, <<Len(messages) + 1>>))
  /\ UNCHANGED <<ending, socket, reconnect, retries, events, queued>>

(* Mutant: one retry too many.                                             *)
HandleDisconnectOnceMore ==
  /\ connected' = FALSE
  /\ IF reconnect /\ retryCount <= MaxRetries
       THEN retryCount' = retryCount + 1 /\ retries' = retries + 1
       ELSE UNCHANGED <<retryCount, retries>>

(* Mutant: only a connection that was made is tried again.                 *)
HandleDisconnectIfConnected ==
  /\ connected' = FALSE
  /\ IF connected /\ reconnect /\ retryCount < MaxRetries
       THEN retryCount' = retryCount + 1 /\ retries' = retries + 1
       ELSE UNCHANGED <<retryCount, retries>>

(* Which socket it was is not asked, nor what it reported before.          *)
HandleDisconnect ==
  /\ connected' = FALSE
  /\ IF reconnect /\ retryCount < MaxRetries
       THEN retryCount' = retryCount + 1 /\ retries' = retries + 1
       ELSE UNCHANGED <<retryCount, retries>>

(* What the network and the application do of their own accord is counted. *)
Event == events < MaxEvents /\ events' = events + 1

Breaks(s) ==
  IF sockets[s] = "open" THEN Event ELSE UNCHANGED events

Failed(s) ==
  /\ sockets[s] \in {"connecting", "open"}
  /\ sockets' = [sockets EXCEPT ![s] = "failed"]
  /\ Breaks(s)
  /\ HandleDisconnect
  /\ UNCHANGED <<protocol, ending, socket, reconnect, pendingData, queued, written>>

Closed(s) ==
  /\ sockets[s] \in {"open", "failed"}
  /\ sockets' = [sockets EXCEPT ![s] = "closed"]
  /\ Breaks(s)
  /\ HandleDisconnect
  /\ UNCHANGED <<protocol, ending, socket, reconnect, pendingData, queued, written>>

(* Whether there is a connection again, or was a disconnect, is not asked. *)
Retry ==
  /\ retries > 0 /\ retries' = retries - 1
  /\ NewSocket
  /\ UNCHANGED <<protocol, ending, connected, reconnect, retryCount, events>>
  /\ UNCHANGED <<pendingData, queued, written>>

Connect ==
  /\ Event
  /\ NewSocket
  /\ UNCHANGED <<protocol, ending, connected, reconnect, retryCount, retries>>
  /\ UNCHANGED <<pendingData, queued, written>>

Disconnect ==
  /\ Event
  /\ socket # NoSocket
  /\ reconnect' = FALSE
  /\ ending' = ending \cup {socket}
  /\ UNCHANGED <<protocol, sockets, socket, connected, retryCount, retries>>
  /\ UNCHANGED <<pendingData, queued, written>>

(* The callback of end forgets this.socket, whichever that is by now.      *)
Ended(s) ==
  /\ s \in ending /\ sockets[s] # "connecting"
  /\ ending' = ending \ {s}
  /\ socket' = NoSocket /\ connected' = FALSE
  /\ UNCHANGED <<protocol, sockets, reconnect, retryCount, retries, events>>
  /\ UNCHANGED <<pendingData, queued, written>>

Receive ==
  /\ \E s \in Sockets : sockets[s] = "open"
  /\ HandleAnswer \/ HandleHandshake
  /\ UNCHANGED endpoint

TimeOut(m) == MessageTimeout(m) /\ UNCHANGED endpoint

ResetProtocol ==
  /\ Event
  /\ Reset
  /\ UNCHANGED <<sockets, ending, socket, connected, reconnect, retryCount, retries>>
  /\ UNCHANGED <<pendingData, queued, written>>

(* The operating system ends every attempt, and a failure with a close.    *)
AttemptEnds(s) == sockets[s] = "connecting" /\ (Opened(s) \/ Failed(s))
FailureEnds(s) == sockets[s] = "failed" /\ Closed(s)

SocketEvent == \E s \in Sockets : AttemptEnds(s) \/ FailureEnds(s) \/ Ended(s)
MessageTimer == \E m \in 1 .. MaxMessages : TimeOut(m)

Next ==
  \/ Send \/ Connect \/ Disconnect \/ ResetProtocol \/ Retry \/ Receive
  \/ \E s \in Sockets : Opened(s) \/ Failed(s) \/ Closed(s) \/ Ended(s)
  \/ MessageTimer

(* The event loop goes on to run timers and to deliver the events of       *)
(* sockets.                                                                *)
Fairness == WF_vars(Retry \/ SocketEvent) /\ WF_vars(MessageTimer)

Spec == Init /\ [][Next]_vars /\ Fairness

-----------------------------------------------------------------------------
TypeOK ==
  /\ ProtocolTypeOK
  /\ sockets \in [Sockets -> {"closed", "connecting", "open", "failed"}]
  /\ ending \subseteq Sockets /\ socket \in Sockets \cup {NoSocket}
  /\ connected \in BOOLEAN /\ reconnect \in BOOLEAN
  /\ retryCount \in 0 .. MaxRetries /\ retries \in Nat /\ events \in 0 .. MaxEvents
  /\ pendingData \in Seq(DOMAIN messages)
  /\ written \in Seq(DOMAIN messages)
  /\ queued \subseteq DOMAIN messages

(* However often connections come and go, no message is written twice, nor *)
(* written and kept; those that waited are written in the order they were  *)
(* sent, and so are those that did not (send, the 'connect' listener).     *)
OnceInOrder ==
  /\ \A i, j \in DOMAIN written :
       i < j => /\ written[i] # written[j]
                /\ (written[i] \in queued <=> written[j] \in queued) => written[i] < written[j]
  /\ \A i, j \in DOMAIN pendingData : i < j => pendingData[i] < pendingData[j]
  /\ \A i \in DOMAIN written, j \in DOMAIN pendingData :
       /\ written[i] # pendingData[j]
       /\ written[i] \in queued => written[i] < pendingData[j]

(* Data waits only without a connection, and while the endpoint reconnects *)
(* it waits for something: an attempt or a retry is on its way, unless all *)
(* retries were used up (send, handleDisconnect).                          *)
WaitsForSomething ==
  pendingData # <<>> =>
    /\ ~connected
    /\ \/ ~reconnect \/ retryCount = MaxRetries \/ retries > 0
       \/ \E s \in Sockets : sockets[s] = "connecting"

(* A promise of sendMessage is settled in the end, whatever becomes of the *)
(* connection and of its entry.                                            *)
EverySendSettles ==
  \A m \in 1 .. MaxMessages :
    (m \in DOMAIN messages) ~> (m \in DOMAIN messages /\ ~messages[m].waiting)

(* Data that waits is handed to a connection in the end, unless the        *)
(* application disconnected or the retries were used up.                   *)
QueueNeverForgotten ==
  (pendingData # <<>>) ~> (pendingData = <<>> \/ ~reconnect \/ retryCount = MaxRetries)
=============================================================================
