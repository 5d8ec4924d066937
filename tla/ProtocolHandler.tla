-------------------------- MODULE ProtocolHandler --------------------------
(***************************************************************************)
(* The message layer of the Node binding (ProtocolHandler.js): every       *)
(* message sent gets a sequence number, an entry in pendingMessages and a  *)
(* timer, and its promise is settled by an answer that carries the number  *)
(* or by the timer, whichever is first.                                    *)
(*                                                                         *)
(* Messages are numbered in the order they are sent.  pendingMessages is   *)
(* the set of the messages with an entry; the entry of a message is found  *)
(* under its sequence number.  The peer may answer anything at any time:   *)
(* handlers on both sides number their messages with a counter of their    *)
(* own.  The handshake, authentication and heartbeat flags are read by no  *)
(* code and left out; what fails validateHeader changes nothing.           *)
(***************************************************************************)
EXTENDS Naturals, Sequences

CONSTANTS
  MaxMessages,   \* bound: messages sent
  MaxSequence    \* bound: sequence numbers taken between two resets

ASSUME ProtocolConstantsOK == MaxMessages \in Nat /\ MaxSequence \in Nat

VARIABLES
  sequence,          \* the next sequence number
  pendingMessages,   \* the messages with an entry
  messages           \* of every message its number, its promise and its timer

protocol == <<sequence, pendingMessages, messages>>

-----------------------------------------------------------------------------
ProtocolInit == sequence = 1 /\ pendingMessages = {} /\ messages = <<>>

(* The entry of a sequence number.                                         *)
Entry(n) == {m \in pendingMessages : messages[m].sequence = n}

(* resolve and reject do nothing to a promise that is settled; which of    *)
(* the two it was is not told apart.                                       *)
Settled(ms) ==
  [m \in DOMAIN messages |-> [messages[m] EXCEPT !.waiting = @ /\ m \notin ms]]

(* createHeader takes the number, also of a message nobody sends.          *)
NextSequence == sequence <= MaxSequence /\ sequence' = sequence + 1

(* sendMessage up to the 'send' event; the message is Len(messages) + 1.   *)
SendMessage ==
  /\ Len(messages) < MaxMessages
  /\ NextSequence
  /\ messages' = Append(messages,
                        [sequence |-> sequence, waiting |-> TRUE, timer |-> TRUE])
  /\ pendingMessages' = (pendingMessages \ Entry(sequence)) \cup {Len(messages) + 1}

(* handleResponse and handleError take the entry away; the timer runs on.  *)
HandleAnswer ==
  \E n \in 1 .. MaxSequence :
    /\ messages' = Settled(Entry(n))
    /\ pendingMessages' = pendingMessages \ Entry(n)
    /\ UNCHANGED sequence

(* The reply is made, takes a number and is returned to nobody.            *)
HandleHandshake == NextSequence /\ UNCHANGED <<pendingMessages, messages>>

(* Mutant: the entry of a message that timed out is kept.                  *)
MessageTimeoutKeeps(m) ==
  /\ m \in DOMAIN messages /\ messages[m].timer
  /\ messages' = [Settled({m}) EXCEPT ![m].timer = FALSE]
  /\ UNCHANGED <<sequence, pendingMessages>>

(* The timer deletes what is under its number, after a reset perhaps the   *)
(* entry of a later message.                                               *)
MessageTimeout(m) ==
  /\ m \in DOMAIN messages /\ messages[m].timer
  /\ messages' = [Settled({m}) EXCEPT ![m].timer = FALSE]
  /\ pendingMessages' = pendingMessages \ Entry(messages[m].sequence)
  /\ UNCHANGED sequence

(* Mutant: a reset stops the timers of the entries it clears.              *)
ResetStopsTimers ==
  /\ sequence' = 1 /\ pendingMessages' = {}
  /\ messages' = [m \in DOMAIN messages |->
                    [messages[m] EXCEPT !.timer = @ /\ m \notin pendingMessages]]

(* Entries are cleared without a word to their promises.                   *)
Reset == sequence' = 1 /\ pendingMessages' = {} /\ UNCHANGED messages

-----------------------------------------------------------------------------
ProtocolTypeOK ==
  /\ sequence \in 1 .. MaxSequence + 1
  /\ messages \in Seq([sequence : 1 .. MaxSequence,
                       waiting : BOOLEAN, timer : BOOLEAN])
  /\ Len(messages) <= MaxMessages
  /\ pendingMessages \subseteq DOMAIN messages

(* Answers, timeouts and resets may come in any order: no answer finds the *)
(* entry of a promise that is settled already, no two messages share an    *)
(* entry, and a promise still waiting always has its timer, be its entry   *)
(* there or not (sendMessage, handleResponse, handleError, reset).         *)
Awaited ==
  /\ \A m \in pendingMessages : messages[m].waiting
  /\ \A m, k \in pendingMessages : messages[m].sequence = messages[k].sequence => m = k
  /\ \A m \in DOMAIN messages : messages[m].waiting => messages[m].timer
=============================================================================
